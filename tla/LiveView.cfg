SPECIFICATION Spec
CONSTANTS
    q1 = q1
    q2 = q2
    Req = {q1, q2}
    NoReq = NoReq
    MaxReadings = 1
    MaxCommits = 1
    MaxFaults = 1
INVARIANTS
    ViewIsExplained
PROPERTIES
    ConfirmedMoveStays
    PollingCatchesUp
CHECK_DEADLOCK FALSE
