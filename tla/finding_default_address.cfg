SPECIFICATION Spec
CONSTANTS
    Attempt = {a1}
    Source = {s1}
    Replica <- MCOneReplica
    NoMsg = NoMsg
    Concept <- MCPerson
    Changed = 1
    NeoNamed = FALSE
    ElasticNamed = FALSE
    ElasticSupports = TRUE
    ReadOnly = FALSE
    MaxVersion = 1
    MaxFaults = 0
    MaxSends = 0
INVARIANTS
    SettledIsIndexed
CHECK_DEADLOCK FALSE
