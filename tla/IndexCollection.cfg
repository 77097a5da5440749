CONSTANTS
    Databases = {d1, d2, d3}
    Wildcard = Wildcard
    Concurrency = 2
    Interval = 2
    MaxClock = 2
    MaxFaults = 1

SYMMETRY DatabasesSymmetry
SPECIFICATION Spec
INVARIANTS
    TypeOK
    PoolKeptFull
    SubmittedOnce
    EveryResultRecorded
    SnapshotOfLastSuccess
    IntervalRespected
CHECK_DEADLOCK FALSE
