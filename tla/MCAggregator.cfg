SPECIFICATION Spec
CONSTANTS
    MaxHeight = 3
    MaxUploads = 2
    ItemsPerBlob = 2
    Batch = 1
    MaxCrashes = 1
INVARIANTS PrunedIsIndexed GapsAreFetched PendingAreAhead
PROPERTY SummariesAreIndexed
CHECK_DEADLOCK FALSE
