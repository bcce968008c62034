SPECIFICATION Spec
CONSTANTS
    u1 = u1
    u2 = u2
    generic = generic
    labs = labs
    Sep = Sep
    Uuid <- MCUuid
    Word <- MCWord
    Publication <- MCKnownPublications
    Worker = {w1}
    Msg <- MCPanicMsg
    Content <- MCPanicContent
    MaxMessages = 2
INVARIANTS
    UnmappableIsSkipped
CHECK_DEADLOCK FALSE
