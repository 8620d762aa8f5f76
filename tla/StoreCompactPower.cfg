CONSTANTS
    Keys = {a}
    Values = {x}
    Absent = Absent
    Policy = "Kernel"
    MaxPending = 2
    MaxFile = 2
    MaxId = 3
    MaxWrites = 2
    MaxCrashes = 1
    MaxMerges = 1
SPECIFICATION Spec
SYMMETRY Symmetry
CHECK_DEADLOCK FALSE
INVARIANT CompactionSurvivesAPowerCut
