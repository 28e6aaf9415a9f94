SPECIFICATION StakingSpec
CONSTANTS
    Players = {p, q}
    Amounts = {0, 1, 2}
    Durations = {0, 1, 3}
    MinDuration = 1
    EpochLength = 2
    InitialChips = 3
    MaxView = 4
    MaxPnl = 1
INVARIANTS StakedIsOwned EpochsDoNotOverlap
SYMMETRY Symmetry
CHECK_DEADLOCK FALSE
