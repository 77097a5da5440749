CONSTANTS
    Databases = {d1, d2}
    Wildcard = Wildcard
    Concurrency = 1
    Interval = 1
    MaxClock = 1
    MaxFaults = 0

SPECIFICATION Spec
PROPERTY ListingFailureRecorded
CHECK_DEADLOCK FALSE
