SPECIFICATION OfflineSpec
CONSTANTS
    t1 = t1
    t2 = t2
    Proc = {t1, t2}
    MaxRuns = 2
    Specs <- MCSpecs
    Streams <- MCStreams
    Fleet <- MCFleet
    Cadence = 10
    WindowSamples <- MCWindows
    MaxDips = 1
    MaxEdits = 1
SYMMETRY TwoTerminals
INVARIANTS
    ArtifactsAreSound
    DatasetIsSound
PROPERTY
    NoSilentReplacement
CHECK_DEADLOCK FALSE
