SPECIFICATION TimedSpec
CONSTANTS
    Worker = {w1, w2}
    Request = {r1}
    Msg = {m1}
    Malformed = {}
    MaxMessages = 1
    Client = {c1}
    WaitTime = 4
    HttpTimeout = 3
    Visibility = 6
INVARIANTS
    TimingTypeOK
    OneWorkerPerMessage
    DrainedByGrace
    WorkersStopInTime
    ExitAnswersRequests
CHECK_DEADLOCK FALSE
