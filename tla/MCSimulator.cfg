SPECIFICATION ServerSpec
CONSTANTS
    Validators = {v, w}
    MaxHeight = 2
    MaxSeeds = 1
    Keys = {k}
    Clients = {c}
    Capacity = 2
    MaxTimeouts = 1
    None = None
INVARIANTS AnswersAreLatest AnnouncedOnce
PROPERTY HeightsAreServed
CHECK_DEADLOCK FALSE
