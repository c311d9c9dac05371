SPECIFICATION Spec
CONSTANTS
    Raport = {r1}
    NoRaport = NoRaport
    NoId = NoId
    NotQueued = NotQueued
    MaxLoads = 2
    MaxRestarts = 0
    MaxReportID = 2
INVARIANTS
    DeliveredOnce
CHECK_DEADLOCK FALSE
