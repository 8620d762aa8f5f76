CONSTANTS
    v = v
    Server = {s1, s2, s3}
    Values = {v}
    Noop = Noop
    Nil = Nil
    Batch = 1
    Pieces = 2
    Scenarios <- FreshClusters
SPECIFICATION SpecCore
CHECK_DEADLOCK FALSE
SYMMETRY Symmetry
INVARIANTS TypeOK StateMachineSafety MajorityHoldsCommitted ElectionSafety LogMatching LeaderCompleteness
