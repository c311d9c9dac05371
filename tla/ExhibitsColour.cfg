SPECIFICATION ServerSpec
CONSTANTS
    e1 = e1
    e2 = e2
    e3 = e3
    n1 = n1
    n2 = n2
    Exhibit = {e1, e2, e3}
    NameOf <- SharedNames
    Floor = {0, 1}
    Extent = {1, 2}
    Colour = {1, 2}
    NoFrame = NoFrame
    NoFloor = NoFloor
    MaxVersion = 5
    MaxRefs <- OnceRetained
PROPERTIES
    SetCausesVersionUpdate
