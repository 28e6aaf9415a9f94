SPECIFICATION Spec
CONSTANTS
    Accounts = {a, b}
    Digests = {d, e}
    MaxNonce = 2
    MaxBacklog = 2
    MaxTransactions = 3
    CompactAfter = 2
    None = None
    MaxQueue = 4
INVARIANT NoneStranded
PROPERTIES PoolIsImplemented EveryoneGetsAChance
