SPECIFICATION Spec
CONSTANTS
    a1 = a1
    a2 = a2
    m1 = m1
    m2 = m2
    Malformed = Malformed
    Asset = {a1, a2}
    Required <- MCRequired
    Telemetry <- MCTelemetry
    MaxBuffered = 1
    MaxAssets = 1
    Timeout = 1
    MaxPoll = 2
    MaxFaults = 1
INVARIANT MemoriesAgree
PROPERTIES
    DropsAreReported
    PendingResolved
CHECK_DEADLOCK FALSE
