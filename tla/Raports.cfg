SPECIFICATION Spec
CONSTANTS
    Raport = {r1, r2}
    NoRaport = NoRaport
    NoId = NoId
    NotQueued = NotQueued
    MaxLoads = 2
    MaxRestarts = 1
    MaxReportID = 4
SYMMETRY Symmetry
INVARIANTS
    SentMeansReceived
    IdsNotShared
    ReadyNeverLost
    StuckExplained
    OnceUnlessLoadedTwice
CHECK_DEADLOCK FALSE
