SPECIFICATION StudiesSpec
CONSTANTS
    v1 = v1
    v2 = v2
    t1 = t1
    None = None
    Uncertain = Uncertain
    Classes <- MCClasses
    Healthy = 2
    Scale = 4
    Run = {v1, v2, t1}
    Info <- MCInfo
    Rows <- MCRows
    MaxRows <- MCMaxRows
    Grid <- MCGrid
    Frozen <- MCFrozen
    Persistence <- MCPersistence
    Threshold <- MCThreshold
    MaxMissed = 0
    Tolerance = 2
    pilot = pilot
    combined = combined
    highLoad = highLoad
    highNoise = highNoise
    hotStart = hotStart
    f1 = f1
    f2 = f2
    NoValue = NoValue
    Shift <- MCShift
    Combined = combined
    Pilot = pilot
    HighLoad = highLoad
    HighNoise = highNoise
    Fault = {f1, f2}
    RunsPerClass = 4
    ShiftResults <- MCShiftResults
    Baseline <- MCBaseline
    Candidate <- MCCandidate
    CandidateAlerts <- MCCandidateAlerts
INVARIANTS
    ReplayMatchesLive
    ReportsAddUp
    SearchIsSound
    StudyIsSound
PROPERTIES
    PromotionIsMonotone
CHECK_DEADLOCK FALSE
