SPECIFICATION FairSpec
CONSTANTS
    e1 = e1
    e2 = e2
    r1 = r1
    r2 = r2
    x1 = x1
    a1 = a1
    a2 = a2
    o1 = o1
    o2 = o2
    q1 = q1
    q2 = q2
    q3 = q3
    words = words
    numbers = numbers
    w1 = w1
    w2 = w2
    Experiment = {e1, e2}
    Report = {r1, r2}
    Exhibit = {x1}
    Request = {w1, w2}
    Wanted <- SomeTargets
    ExperimentOf <- Experiments
    ReportOf <- Reports
    FirstActive = e2
    MaxStops = 1
    NoExperiment = NoExperiment
    NoExhibit = NoExhibit
    NoTarget = NoTarget
    NoFile = NoFile
    Nobody = Nobody
INVARIANTS
    DownloadIsWhatWasAsked
    TablesRight
    FreshUnlessShared
    NoLeftovers
PROPERTIES
    LockReleased
