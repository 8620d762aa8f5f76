CONSTANTS
    Keys = {a, b}
    Values = {x, y}
    Absent = Absent
    Policy = "Disk"
    MaxPending = 2
    MaxFile = 2
    MaxId = 6
    MaxWrites = 4
    MaxCrashes = 0
    MaxMerges = 1
SPECIFICATION Spec
SYMMETRY Symmetry
CHECK_DEADLOCK FALSE
INVARIANT TypeOK ReadsSeeTheNewestWrite StatsAreExact
PROPERTY FilesOnlyGrow
