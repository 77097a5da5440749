CONSTANTS
    Sessions = {s1, s2, s3, s4}
    Others = {system}
    Specials = {orphaned}

SPECIFICATION FairSpec
INVARIANTS
    EachWaitHasItsEdge
    RootsAndDepths
    OneMarkPerCycle
    FitsFrame
PROPERTIES
    TurnsRunOut
    Returns
CHECK_DEADLOCK FALSE
