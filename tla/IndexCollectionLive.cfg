CONSTANTS
    Databases = {d1, d2, d3}
    Wildcard = Wildcard
    Concurrency = 2
    Interval = 1
    MaxClock = 0
    MaxFaults = 0

SPECIFICATION FairSpec
PROPERTY TaskEnds
CHECK_DEADLOCK FALSE
