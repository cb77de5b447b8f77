SPECIFICATION Spec
CONSTANTS
    None = None
    Window = 1
    MaxTime = 3
    MaxFaults = 2
    CoreInterval = 1
    DerivedInterval = 2
    SnapshotInterval = 2
    MaxAttempts = 2
    MaxDevice = 2
INVARIANT TransportIsFaithful
PROPERTIES
    MessagesProgress
CHECK_DEADLOCK FALSE
