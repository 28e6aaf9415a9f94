SPECIFICATION Spec
CONSTANTS
    Accounts = {a, b}
    MaxHeight = 2
    MaxNonce = 1
    MaxBlockTxs = 2
    MaxCrashes = 2
INVARIANTS StoresMatchCertified ResultsMatchCertified SavePointIsRecorded NoEmptyProof NoTransactionTwice
PROPERTY FinalizedIsRecorded
CHECK_DEADLOCK FALSE
