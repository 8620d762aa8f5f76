CONSTANTS
    MaxKey = 2
    Values = {v}
    Absent = Absent
    MaxLog = 3
    SnapshotEvery = 1
    MaxCrashes = 2
    MaxFailures = 1
    None = None
    TransientErrors = FALSE
    Histories <- MCHistories
SPECIFICATION Spec
INVARIANTS TypeOK StoreHoldsWhatItApplied SnapshotHoldsItsPrefix
PROPERTIES AppliedNeverGoesBack CatchesUp
CHECK_DEADLOCK FALSE
