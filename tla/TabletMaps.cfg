SPECIFICATION Spec
CONSTANTS
    p1 = p1
    p2 = p2
    t1 = t1
    t2 = t2
    w1 = w1
    w2 = w2
    Floor = {0, 1}
    Picture = {p1, p2}
    NoMap = NoMap
    Tile = {t1, t2}
    TilesOf <- Tilings
    Worker = {w1, w2}
    MaxChanges = 1
SYMMETRY Workers
INVARIANTS
    RowHasFiles
    FlagHeld
    RealmHasFiles
    ScreenHasFiles
    TilesRightUnlessChanged
    AllFloorsUnlessCut
