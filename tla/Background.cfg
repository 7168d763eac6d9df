CONSTANTS
    Instances = {i1, i2}
    Notices = {n1}
    MaxAttempts = 3
    MaxCrashes = 1
    People = {p1}
    Servers = {i1, i2}
    MaxActivations = 2
    MaxStops = 1
SPECIFICATION MCSpec
INVARIANTS
    OneSender
    NoEarlyGiveUp
    AnnouncedOnce
PROPERTIES
    RowsSettle
    WaitersAreTold
