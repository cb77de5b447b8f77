SPECIFICATION AdviceSpec
CONSTANTS
    None = None
    Classes <- MCClasses
    Healthy = 2
    Scale = 2
    EntryProbability = 1
    EntryPersistence = 2
    ExitProbability = 1
    ExitPersistence = 2
    Window = 2
    Predictions <- MCPredictions
    FaultName <- MCFaultName
    Series <- MCSeries
    MinObservations = 1
    MinDirectional = 2
    SampleLimit = 2
    HistoryLimit = 1
    MaxInbox = 1
INVARIANTS
    AlertsAreJustified
    AdviceIsCoherent
PROPERTIES
    RecoveryCloses
