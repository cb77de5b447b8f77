CONSTANTS
    a1 = a1
    a2 = a2
    Asset = {a1, a2}
    NoAsset = NoAsset
    Obs = {1, 2, 3}
    AssetOf <- TwoAssets
    TypeOf <- SharedTypes
    Worker = {w1, w2}
    MaxStamp = 7
    MaxFaults = 1
    Process = {p1, p2}
    Interval = 2
    Timeout = 3
    MaxJob = 2
    MaxOutages = 2
SPECIFICATION WorkersSpec
INVARIANTS OneOutstandingPerAsset NoLostWakeup RunsAreSerialPerAsset QuietAssetIsCovered AliveMeansReady
PROPERTIES DirtyJobIsFollowedUp EveryObservationAttended ImplementsWakeupQueue DeadIsNoticed
