CONSTANTS
    Sessions <- MCSessions
    Others <- MCOthers
    Requests <- MCRequests
    Hashes = {"h1", "h2"}
    Samples <- MCSamples
    Questions <- MCQuestions
    MaxDelay = 1
    Window = 1
    MaxClock = 3

SPECIFICATION Spec
INVARIANTS
    TypeOK
    PagesAgree
    TrendReachesBack
    RatesAreReal
PROPERTY ImplementsFrameReads
CHECK_DEADLOCK FALSE
