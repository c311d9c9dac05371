SPECIFICATION Spec
CONSTANTS
    Exhibit = {e1, e2}
    NameOf <- OneName
    Floor = {0}
    Extent = {1}
    Colour = {1, 2}
    NoFrame = NoFrame
    NoFloor = NoFloor
    MaxVersion = 3
    Worker = {w1, w2}
    NoVersion = NoVersion
    NoChange = NoChange
    NoCommand = NoCommand
    NoSession = NoSession
PROPERTY CommandsAtomic
PROPERTY CatalogueKept
INVARIANT Exclusive
SYMMETRY WorkersAlike
CHECK_DEADLOCK FALSE
