SPECIFICATION Spec
CONSTANTS
    Candidates <- MCCandidates
    PageSize = 1
    ViewSize = 1
    Interval = 1
    MaxPage = 2
    MaxClock = 2
    MaxChanges = 1
INVARIANTS
    TypeOK
    ListedOnce
    PageDated
CHECK_DEADLOCK FALSE
