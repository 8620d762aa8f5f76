CONSTANTS
    v = v
    Server = {s1, s2, s3, s4}
    Values = {v}
    Noop = Noop
    Nil = Nil
    Batch = 2
    Pieces = 2
    Scenarios <- GrowingClusters
SPECIFICATION SpecWhole
CHECK_DEADLOCK FALSE
SYMMETRY Symmetry
INVARIANTS StateMachineSafety LeaderCompleteness ProgressIsReal SnapshotsAreWhole ReadsAreFresh
