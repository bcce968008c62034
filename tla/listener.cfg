SPECIFICATION FairSpec
CONSTANTS
    Worker = {w1, w2}
    Request = {r1, r2}
    Msg = {m1, bad}
    Malformed = {bad}
    MaxMessages = 2
INVARIANTS
    TypeOK
    OneStalePoll
    NoReadBeforeHealthy
    ExitDrained
    BatchesDoNotOverlap
PROPERTIES
    InterruptLeadsToExit
    WorkersKeepPolling
    StopGateHolds
    HealthGateHolds
CHECK_DEADLOCK FALSE
