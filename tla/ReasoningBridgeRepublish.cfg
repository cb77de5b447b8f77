CONSTANTS
    a1 = a1
    a2 = a2
    Asset = {a1}
    MaxLog = 3
    MaxPoll = 1
    MaxFaults = 2
SPECIFICATION Safety
INVARIANT TriggeringMessageIsSettled
