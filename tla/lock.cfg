SPECIFICATION FairSpec
CONSTANTS
    Run = {r1, r2, r3}
    NoRun = NoRun
    MaxCrash = 1
    MaxRecycled = 1
CHECK_DEADLOCK FALSE
INVARIANTS
    TypeOK
    ExclusionUntilRobbed
    PairExclusion
    ReclaimsOnlyEnded
    NoLockLeft
PROPERTIES
    RefusalExplained
    ReclaimLeadsToWork
