SPECIFICATION FairSpec
CONSTANTS
    e1 = e1
    e2 = e2
    a = a
    Experiment = {e1, e2}
    None = None
    Action = {a}
    ExhibitActions <- MCExhibitActions
    BreakActions <- MCBreakActions
    Exhibit = {x1}
    Floors = 2
    Nowhere = Nowhere
    Unchanged = Unchanged
    MaxEvents = 1
    MaxPosts = 1
INVARIANTS
    VisitHasItsRaport
    EventsAccepted
    OneDialog
    MapShowsMemory
PROPERTIES
    SpinnerEnds
