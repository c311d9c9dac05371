SPECIFICATION Spec
CONSTANTS
    Experiment = {x1, x2}
    Name = {n1, n2}
    Item = {i1, i2}
    Slot = {s1, s2}
    NoItem = NoItem
    Exhibit = {e1}
    Event = {v1, v2}
    NoExhibit = NoExhibit
    NoReport = NoReport
    MaxReports = 2
SYMMETRY Symmetry
INVARIANTS
    RefCountsExact
    EventsCounted
    ReportsPrintable
PROPERTIES
    ReportsKept
    ItemsKeptWhileUsed
CHECK_DEADLOCK FALSE
