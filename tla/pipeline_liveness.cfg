SPECIFICATION FairSpec
CONSTANTS
    Attempt = {a1, a2}
    Source = {s1}
    Replica <- MCManyReplicas
    NoMsg = NoMsg
    Concept <- MCPerson
    Changed = 1
    NeoNamed = TRUE
    ElasticNamed = TRUE
    ElasticSupports = FALSE
    ReadOnly = FALSE
    MaxVersion = 2
    MaxFaults = 1
    MaxSends = 0
INVARIANTS
    NothingLostWithoutFault
PROPERTIES
    PromiseSafety
    PromiseSettles
CHECK_DEADLOCK FALSE
