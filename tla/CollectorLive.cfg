CONSTANTS
    Instances = {1, 2, 3}
    Times = {t1, t2, t3}
    NoTime = NoTime
    FailureCap = 1
    Unreachable = {2}
    ApiStatuses = {"offline", "disabled"}
    MaxTests = 1
    MaxFaults = 0

SPECIFICATION QuietFairSpec
PROPERTY HealthyCollected
