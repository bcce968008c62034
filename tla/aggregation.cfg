SPECIFICATION Spec
CONSTANTS
    u1 = u1
    u2 = u2
    u3 = u3
    Uuid = {u1, u2, u3}
    Requested = u1
    Answer <- MCAnswer
    Nameless <- MCNameless
    MaxVersion = 2
INVARIANTS
    TypeOK
    EverySourceOnce
    CanonicalIsPrimary
    PrimaryExists
    MembersAreFresh
    TransactionIdOfLastRead
PROPERTIES
    ReadsEachOnce
CHECK_DEADLOCK FALSE
