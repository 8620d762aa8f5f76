CONSTANTS
    HardStates = {h0, h1}
    DefaultHard = h0
    Terms = {1, 2}
    MaxIndex = 3
    MaxBatch = 2
    MaxParts = 2
    MaxKills = 1
    NoCall = NoCall
    Torn = Torn
    PowerAfterKill = FALSE
SPECIFICATION Spec
INVARIANTS TypeOK OpenIsNeverRefused EachSinkHasItsPart
PROPERTY Implements
