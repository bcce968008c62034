SPECIFICATION Spec
CONSTANTS
    Attempt = {a1, a2}
    Source = {s1}
    Replica <- MCOneReplica
    NoMsg = NoMsg
    Concept <- MCFactsetMember
    Changed = 1
    NeoNamed = TRUE
    ElasticNamed = TRUE
    ElasticSupports = TRUE
    ReadOnly = FALSE
    MaxVersion = 2
    MaxFaults = 0
    MaxSends = 0
INVARIANTS
    SettledIsLatest
CHECK_DEADLOCK FALSE
