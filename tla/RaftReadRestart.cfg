CONSTANTS
    v = v
    Server = {s1, s2, s3}
    Values = {v}
    Noop = Noop
    Nil = Nil
    Batch = 2
    Pieces = 2
    Scenarios = {}
SPECIFICATION SpecRestartedReader
CHECK_DEADLOCK FALSE
SYMMETRY Symmetry
INVARIANTS ReadsAreFresh
