CONSTANTS
    Requests = {r1, r2, r3}
    Indexes = {ix}
    MaxFaults = 2

SPECIFICATION FairSpec
INVARIANTS
    TypeOK
    AuditedBeforeSent
    SuccessIsReal
    FailedIsReal
PROPERTIES
    SettledByItsTask
    AuditSettles
CHECK_DEADLOCK FALSE
