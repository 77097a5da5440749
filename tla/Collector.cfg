CONSTANTS
    Instances = {1, 2}
    Times = {t1, t2, t3}
    NoTime = NoTime
    FailureCap = 2
    Unreachable = {}
    ApiStatuses = {"offline"}
    MaxTests = 1
    MaxFaults = 1

SYMMETRY TimesSymmetry
SPECIFICATION Spec
INVARIANTS
    TypeOK
    CollectStatusCoherent
PROPERTIES
    DeletionUndoneOnlyIf
    ImplementsCollectRecord
