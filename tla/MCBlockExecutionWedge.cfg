SPECIFICATION Spec
CONSTANTS
    Accounts = {a, b}
    MaxHeight = 2
    MaxNonce = 1
    MaxBlockTxs = 2
    MaxCrashes = 2
INVARIANTS CommitOrderAvoidsWedge
CHECK_DEADLOCK FALSE
