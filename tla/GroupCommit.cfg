CONSTANTS
    Conns = {c1, c2, c3}
    MaxFile = 2
    FailureDrops = FALSE
    MaxWrites = 3
    MaxFailures = 1
    MaxKills = 1
SPECIFICATION FairSpec
CHECK_DEADLOCK FALSE
INVARIANTS TypeOK AckedIsDurable OneSyncer PointIsDurable NotedIsDurable
PROPERTY EveryWaiterIsAnswered
