CONSTANTS
    Keys = {a, b}
    Values = {x}
    Absent = Absent
    Policy = "Disk"
    MaxPending = 2
    MaxFile = 2
    MaxId = 4
    MaxWrites = 3
    MaxCrashes = 2
    MaxMerges = 1
SPECIFICATION Spec
SYMMETRY Symmetry
CHECK_DEADLOCK FALSE
INVARIANT RecoveryKeepsPromises RecoveryIsNeverRefused HintsNeverRunAhead SealedFilesAreDurable
