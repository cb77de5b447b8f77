CONSTANTS
    p1 = p1
    p2 = p2
    Proc = {p1, p2}
    Event <- MCEvent
    TypeOf <- MCTypeOf
    Txn <- MCTxn
    MaxFaults = 2
SPECIFICATION Spec
INVARIANTS
    DispatchedIsDelivered
    DuplicateHasCause
PROPERTIES
    DispatchedUnlessFailed
    DispatchedWhileTrafficLasts
