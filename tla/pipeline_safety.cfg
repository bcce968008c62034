SPECIFICATION Spec
CONSTANTS
    Attempt = {a1, a2}
    Source = {s1, s2}
    Replica <- MCOneReplica
    NoMsg = NoMsg
    Concept <- MCAuthor
    Changed = 10
    NeoNamed = TRUE
    ElasticNamed = TRUE
    ElasticSupports = TRUE
    ReadOnly = FALSE
    MaxVersion = 1
    MaxFaults = 1
    MaxSends = 1
SYMMETRY MCSymmetry
INVARIANTS
    TypeOK
    RemovedReachedGraph
    NotifiedReachedStores
    NothingLostWithoutFault
    OkMeansWritten
    RetriesReachLatest
    SettledIsCurrent
    
PROPERTIES
    GraphNeverRegresses
    ReadsOwnSources
CHECK_DEADLOCK FALSE
