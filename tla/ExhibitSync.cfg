SPECIFICATION FairSpec
CONSTANTS
    e1 = e1
    e2 = e2
    e3 = e3
    n1 = n1
    n2 = n2
    Exhibit = {e1, e2}
    NameOf <- TwoNames
    Floor = {0, 1}
    Extent = {1}
    Colour = {1}
    NoFrame = NoFrame
    NoFloor = NoFloor
    Absent = Absent
    NoReply = NoReply
    NoColour = NoColour
    Partial = {1}
    MaxVersion = 4
    MaxRefs <- FirstRetained
INVARIANTS
    RealmSoundUnlessHollow
    MemorySound
    FramesFit
PROPERTIES
    RealmVersionMonotonic
    CatchesUp
