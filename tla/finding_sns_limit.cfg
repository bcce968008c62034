SPECIFICATION Spec
CONSTANTS
    Attempt = {a1}
    Source = {s1}
    Replica <- MCOneReplica
    NoMsg = NoMsg
    Concept <- MCInstrument
    Changed = 11
    NeoNamed = TRUE
    ElasticNamed = TRUE
    ElasticSupports = TRUE
    ReadOnly = FALSE
    MaxVersion = 1
    MaxFaults = 0
    MaxSends = 0
INVARIANTS
    RemovedIsNotified
CHECK_DEADLOCK FALSE
