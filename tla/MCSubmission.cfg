SPECIFICATION Spec
CONSTANTS
    MaxRequests = 2
    Null = Null
    MaxBlock = 2
    MaxFaults = 1
INVARIANT ProposedAreValid
PROPERTIES RecordsAreKept DueAreExecuted
