SPECIFICATION Spec
CONSTANTS
    MaxView = 5
    MaxUploads = 2
    Batch = 1
    MaxCrashes = 2
INVARIANTS FetchesAreKept MarkerIsSafe
PROPERTIES GetsAreAnswered SeedsAreIndexed
