SPECIFICATION DecisionsSpec
CONSTANTS
    p1 = p1
    p2 = p2
    p3 = p3
    r1 = r1
    r2 = r2
    Request = {p1, p2, p3}
    Recommendation = {r1, r2}
    NoRec = NoRec
    Assets <- MCAssets
    TypeOrder <- MCTypeOrder
    Samples <- MCSamples
    MinSamples = 2
    Window = 3
    ShortHistory = 2
    HighVariation = 60
    MaxClock = 5
SYMMETRY MCSymmetry
INVARIANTS
    ConclusionsAgree
    AnnouncementsFollowRuns
    HistoryTellsOneStory
    SerialHistoriesAdvance
CHECK_DEADLOCK FALSE
