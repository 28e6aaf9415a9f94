SPECIFICATION Spec
CONSTANTS
    Players = {p, q}
    Ids = {i}
    Games = {"CasinoWar", "UltimateHoldem"}
    Modifiers = {"double"}
    Tournaments = {t, u}
    Bets = {2}
    Amounts = {1}
    InitialChips = 2
    StartingPool = 1
    FeeDivisor = 2
    AuraMax = 1
    JackpotBase = 1
    StraightShare = 2
    MaxDay = 1
    MaxChips = 2
    Top = 2
    StartingChips = 2
    MaxPerDay = 1
    PerGame = 2
    RewardPool = 3
    WinnersPercent = 60
INVARIANTS HouseBalances PrizesAreIssued NobodyLeftBehind BoardsAreCurrent
SYMMETRY Symmetry
CHECK_DEADLOCK FALSE
