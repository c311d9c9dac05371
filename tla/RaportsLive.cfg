SPECIFICATION FairSpec
CONSTANTS
    Raport = {r1, r2}
    NoRaport = NoRaport
    NoId = NoId
    NotQueued = NotQueued
    MaxLoads = 1
    MaxRestarts = 1
    MaxReportID = 3
PROPERTIES
    AllDelivered
CHECK_DEADLOCK FALSE
