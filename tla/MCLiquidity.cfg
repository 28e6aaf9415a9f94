SPECIFICATION Spec
CONSTANTS
    Players = {p, q}
    Amounts = {1, 2, 4}
    InitialChips = 7
    MinimumLiquidity = 1
    FeeBps = 1
    TaxBps = 2
    BasisPoints = 4
    MaxDebt = 3
    MaxBurned = 2
INVARIANTS RngConserved VusdtIsOwed PoolNeverDrained
PROPERTY SharesKeepTheirValue
SYMMETRY Symmetry
CHECK_DEADLOCK FALSE
