SPECIFICATION Spec
CONSTANTS
    u1 = u1
    u2 = u2
    generic = generic
    labs = labs
    Sep = Sep
    Uuid <- MCUuid
    Word <- MCWord
    Publication <- MCAnyPublication
    Worker = {w1}
    Msg <- MCMsg
    Content <- MCContent
    MaxMessages = 2
INVARIANTS
    RequestsReadNamed
CHECK_DEADLOCK FALSE
