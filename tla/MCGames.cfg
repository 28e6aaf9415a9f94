SPECIFICATION GamesSpec
CONSTANTS
    GameTypes = {"HiLo", "VideoPoker", "CasinoWar", "Baccarat", "Roulette", "SicBo", "Craps", "Blackjack", "ThreeCard", "UltimateHoldem"}
    AuraIds = {9}
    AuraValues = {5, 100}
    I64Range = 8
    Stakes = {1, 2}
    Payloads = {1, 2, 12}
    SideBets = {0, 1}
    OpeningBets = {0, 1}
    MaxBets = 2
    MaxWager = 5
    MaxLayout = 3
    HiLoDeck = {0, 4, 11, 12}
    BaseMultiplier = 100
    MaxGuesses = 2
    PokerDeck = {0, 1, 2, 3, 4, 12, 13, 17}
    WarDeck = {0, 13, 5}
    WarDecks = 2
    BaccaratDeck = {1, 4, 9}
    BaccaratDecks = 2
    RouletteNumbers = {0, 4}
    RouletteSpins = {0, 4, 9, 26, 35}
    SicBoFaces = {1, 2, 4, 6}
    SicBoTotals = {9}
    SicBoRolls = {111, 112, 126, 226, 243, 666}
    CrapsRolls = {11, 12, 22, 13, 34, 45, 66}
    CrapsTargets = {2, 4}
    CrapsTypes = {"Pass", "DontPass", "Come", "DontCome", "Yes", "No", "Buy", "Next", "Field", "Hardway4", "AtsSmall", "Fire"}
    MaxOdds = 1
    BlackjackDeck = {0, 9}
    BlackjackDecks = 8
    MaxBlackjackHand = 3
    MaxHands = 2
    DealerDraws = 7
    ThreeCardHands = {{0, 12, 11}, {13, 25, 24}, {1, 14, 27}, {2, 15, 5}, {3, 17, 33}, {11, 4, 19}, {1, 2, 3}}
    HoldemGroups = {{0, 12}, {1, 14}, {27, 40}, {11, 10, 9}, {2, 15, 28}, {24, 37, 41, 7}}
INVARIANTS BoundedAreReadable BooksAreCharged LossIsCharged HouseEdge OddsFollowThePoint ShoeIsRespected EvaluatorsAgree
