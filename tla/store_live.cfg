SPECIFICATION FairSpec
CONSTANTS
    File = {f1, f2}
    Slot = {r1}
    None = None
    Missing = Missing
    MaxVersion = 2
    MaxStamp = 3
    CrashAt = {}
    MaxCrash = 0
    MayFail = {"tar", "mv", "rm", "extract"}
    SameSecond = FALSE
CHECK_DEADLOCK FALSE
INVARIANTS
    HistoryInOrder
    LiveSearchable
PROPERTIES
    BackupCatchesUp
