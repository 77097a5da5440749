CONSTANTS
    Instances = {1, 2}
    Times = {t1, t2, t3}
    NoTime = NoTime
    FailureCap = 1
    Unreachable = {1}
    ApiStatuses = {"offline"}
    MaxTests = 1
    MaxFaults = 0

SPECIFICATION StaticFairSpec
PROPERTY FailureIsolation
