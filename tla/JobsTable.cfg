SPECIFICATION FairSpec
CONSTANTS
    Jobs = {j1, j2, j3}
    Sizes = {1, 2, 4}
    MaxActive = 2
    MaxJobs = 2
    MaxBytes = 2
    Retention = 1
    MaxTime = 2
    MaxCancels = 2
INVARIANTS
    TypeOK
    WithinLimits
PROPERTIES
    OutcomesAreFinal
    EveryJobEnds
CHECK_DEADLOCK FALSE
