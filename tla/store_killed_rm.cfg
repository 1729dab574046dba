SPECIFICATION Spec
CONSTANTS
    File = {f1, f2}
    Slot = {r1, r2}
    None = None
    Missing = Missing
    MaxVersion = 2
    MaxStamp = 3
    CrashAt = {"rm"}
    MaxCrash = 1
    MayFail = {}
    SameSecond = FALSE
SYMMETRY Symmetry
CHECK_DEADLOCK FALSE
PROPERTIES
    VersionsKept
