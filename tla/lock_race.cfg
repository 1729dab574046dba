SPECIFICATION Spec
CONSTANTS
    Run = {r1, r2, r3}
    NoRun = NoRun
    MaxCrash = 0
    MaxRecycled = 0
SYMMETRY RunSymmetry
CHECK_DEADLOCK FALSE
INVARIANT
    MutualExclusion
