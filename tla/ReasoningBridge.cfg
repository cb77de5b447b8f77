CONSTANTS
    a1 = a1
    a2 = a2
    Asset = {a1, a2}
    MaxLog = 3
    MaxPoll = 2
    MaxFaults = 2
SPECIFICATION Spec
INVARIANTS
    ReplayIsANoOp
    LifecycleInOrder
PROPERTIES
    NoMessageBlocks
    AlertsSettleWithoutFaults
