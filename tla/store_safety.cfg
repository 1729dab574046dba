SPECIFICATION Spec
CONSTANTS
    File = {f1, f2}
    Slot = {r1, r2}
    None = None
    Missing = Missing
    MaxVersion = 2
    MaxStamp = 3
    CrashAt <- SafeStep
    MaxCrash = 1
    MayFail = {"rsync", "tar", "mv"}
    SameSecond = FALSE
SYMMETRY Symmetry
CHECK_DEADLOCK FALSE
INVARIANTS
    TypeOK
    OneFormAtRest
    ArchivedSearchable
PROPERTIES
    VersionsKept
    SnapshotFrozen
