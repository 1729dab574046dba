SPECIFICATION ProtonFairSpec
CONSTANTS
    File = {f1, f2}
    Snap = {1}
    Missing = Missing
    UploadMayFail = TRUE
    UploadMayDie = TRUE
CHECK_DEADLOCK FALSE
INVARIANTS
    ProtonTypeOK
    RecordedComplete
PROPERTY
    RetriedUntilRecorded
