SPECIFICATION Spec
CONSTANTS
    File = {f1, f2}
    Slot = {r1, r2}
    None = None
    Missing = Missing
    MaxVersion = 2
    MaxStamp = 2
    CrashAt <- AnyStep
    MaxCrash = 1
    MayFail = {"rsync", "tar", "mv", "rm", "extract"}
    SameSecond = FALSE
SYMMETRY Symmetry
CHECK_DEADLOCK FALSE
PROPERTY
    HistoryAsRead
