---------------------------------- MODULE Games --------------------------------
(***************************************************************************)
(* The ten games of the casino, each played at a table of its own:         *)
(* init_game and process_game_move of execution/src/casino/mod.rs.         *)
(***************************************************************************)
EXTENDS HiLo, VideoPoker, CasinoWar, Baccarat, Roulette, SicBo, Craps, Blackjack,
        ThreeCard, UltimateHoldem

CONSTANTS GameTypes     \* the games of the model

\* init_game
GamesInit ==
    \/ "HiLo" \in GameTypes /\ HiLoInit
    \/ "VideoPoker" \in GameTypes /\ PokerInit
    \/ "CasinoWar" \in GameTypes /\ WarInit
    \/ "Baccarat" \in GameTypes /\ BaccaratInit
    \/ "Roulette" \in GameTypes /\ RouletteInit
    \/ "SicBo" \in GameTypes /\ SicBoInit
    \/ "Craps" \in GameTypes /\ CrapsInit
    \/ "Blackjack" \in GameTypes /\ BlackjackInit
    \/ "ThreeCard" \in GameTypes /\ ThreeCardInit
    \/ "UltimateHoldem" \in GameTypes /\ HoldemInit

\* What the parsers read back, game by game.
Readable ==
    CASE game = "HiLo" -> HiLoReadable(state)
      [] game = "VideoPoker" -> PokerReadable(state)
      [] game = "CasinoWar" -> WarReadable(state)
      [] game = "Baccarat" -> BaccaratReadable(state)
      [] game = "Roulette" -> RouletteReadable(state)
      [] game = "SicBo" -> SicBoReadable(state)
      [] game = "Craps" -> CrapsReadable(state)
      [] game = "Blackjack" -> BlackjackReadable(state)
      [] game = "ThreeCard" -> ThreeCardReadable(state)
      [] game = "UltimateHoldem" -> HoldemReadable(state)

\* Every move in a session that is complete, or whose state is not read back, is
\* refused.
Finished == (result # Open \/ ~Readable) /\ UNCHANGED table

\* process_game_move
GamesNext ==
    \/ HiLoNext \/ PokerNext \/ WarNext \/ BaccaratNext \/ RouletteNext \/ SicBoNext
    \/ CrapsNext \/ BlackjackNext \/ ThreeCardNext \/ HoldemNext
    \/ Finished

GamesSpec == GamesInit /\ [][GamesNext]_table

----------------------------------------------------------------------------
\* What a move of a game that goes on stores can be read back by the next: a
\* session whose state cannot be read refuses every move, and its stakes are lost.
StatesAreReadable == result = Open => Readable

\* ... in the eight games whose moves keep to what their parsers read: a bound on
\* bets, hands or cards that a move forgets would show here.
BoundedAreReadable == game \notin {"SicBo", "Blackjack"} => Readable

\* What a game's own state says is at stake.
Wagered ==
    CASE game = "CasinoWar" -> bet + state.tie
      [] game = "Baccarat" -> Total(state.bets)
      [] game = "Roulette" -> state.wagered
      [] game = "SicBo" -> AtStake(state.bets)
      [] game = "Craps" -> CrapsWagered(state.bets)
      [] game = "Blackjack" -> IF state.stage = "Betting" THEN bet + state.side ELSE BlackjackWagered(state)
      [] game = "ThreeCard" ->
           (IF state.stage = "AwaitingReveal" THEN 2 ELSE 1) * bet
           + state.pairplus + state.six + state.progressive
      [] game = "UltimateHoldem" -> (1 + state.play) * bet + state.trips + state.six + state.progressive
      [] OTHER -> bet

\* While a game is open, what its state says is at stake is what was taken from
\* the player and not yet decided, through any bets, raises, splits, doubles,
\* replacements and clearings of amounts that an i64 holds.  After a larger bet of
\* Roulette, Sic Bo or Baccarat, or odds of Craps, which credit the player instead,
\* it is 2^64 more than that.  The blind of Ultimate Texas Hold'em, which is never
\* charged, is left out.
BooksAreCharged ==
    /\ result = Open => Wagered = charged - settled
    /\ result.kind = "Credited" => Wagered = charged - settled + 2 * I64Range

\* A busted double ends the game before it is charged.
FreeDoubles ==
    IF game = "Blackjack" /\ AllBusted(state) /\ state.hands[Len(state.hands)].mult = 2
    THEN bet ELSE 0

\* A loss of bets that were deducted before reports what was deducted and not
\* decided before; to it come the blind and a busted double, which never were.
\* A game of craps reports no more than that.  All amounts are ones that an i64
\* holds: a game with a bet that was credited is not followed to its loss.
LossIsCharged ==
    result.kind = "LossPreDeducted" =>
        LET due == charged - settled
        IN  CASE game = "Craps" -> result.amount <= due
              [] game = "UltimateHoldem" -> result.amount = due + bet
              [] game = "Blackjack" -> result.amount \in {due, due + FreeDoubles}
              [] OTHER -> result.amount = due

\* What one roll of two dice leaves of the craps bets whose prospects do not
\* change with the phase: a bet that stays is worth its stake.
Fixed == Hardways \cup {"Field", "Next", "Yes", "No", "Buy"}
CrapsWorth(b, d1, d2) ==
    LET verdict == Verdict(b, d1, d2) IN IF verdict.settled THEN verdict.returns ELSE CrapsStake(b)
Dice == (1 .. 6) \X (1 .. 6)

\* The bets of Roulette and Sic Bo, and those of Craps whose prospects do not
\* change with the phase, return over all equally likely outcomes no more than
\* their stakes.  A bet that a zero imprisons is worth at most its stake.  Super
\* mode, which pays more, is left out, and tables that are never spun or rolled.
HouseEdge ==
    result = Open /\ Readable /\ ~super =>
        /\ game = "Roulette" /\ state.phase = "Betting" =>
             Sum([n \in 0 .. 36 |-> ReturnedOn(n) + AtStake(Imprisoned(n))])
               <= 37 * AtStake(state.bets)
        /\ game = "SicBo" =>
             Sum([d1 \in 1 .. 6 |-> Sum([d2 \in 1 .. 6 |-> Sum([d3 \in 1 .. 6 |->
                 SicBoReturn(<<d1, d2, d3>>)])])]) <= 216 * AtStake(state.bets)
        /\ game = "Craps" =>
             \A i \in DOMAIN state.bets :
                 state.bets[i].type \in Fixed =>
                     Sum([d \in Dice |-> CrapsWorth(state.bets[i], d[1], d[2])])
                       <= 36 * CrapsStake(state.bets[i])

\* The odds behind a line bet of craps are on the point of the table, and those
\* behind a come bet on a point: a roll never pays them at other odds than the
\* ones that decide the bet.
OddsFollowThePoint ==
    game = "Craps" =>
        \A i \in DOMAIN state.bets :
            LET b == state.bets[i]
            IN  /\ b.type \in Line /\ b.target # 0 => state.phase = "Point" /\ b.target = state.point
                /\ b.odds > 0 => b.target \in Points

\* No card is dealt more often than the shoe has it, although the shoe is made
\* anew from the state of the session for every move; a poker game never deals
\* a card twice.
ShoeIsRespected ==
    /\ game = "Blackjack" =>
         \A c \in BlackjackDeck : InHands(state.hands, c) + Copies(state.dealer, c) <= BlackjackDecks
    /\ game = "CasinoWar" => \A c \in WarDeck : Copies(state.cards, c) <= WarDecks
    /\ game = "Baccarat" =>
         \A c \in BaccaratDeck : Copies(state.hands.player \o state.hands.banker, c) <= BaccaratDecks
    /\ game = "ThreeCard" => state.player \cap state.dealer = {}
    /\ game = "UltimateHoldem" =>
         \A one, other \in {"player", "flop", "turn", "dealer", "bonus"} :
             one # other => state[one] \cap state[other] = {}

\* Video poker and the table games evaluate five cards each with code of its
\* own, the ace low in one and high in the other: they agree on every hand.
EvaluatorsAgree ==
    game = "VideoPoker" =>
        LET rank == FiveCardRanks[FiveCardRank(state.hand)]
            own == PokerHand(state.hand)
            pair == {r \in RanksOf(state.hand) : CountOf(state.hand, r) = 2}
        IN  own = IF rank # "Pair" THEN rank
                  ELSE IF Max(pair) >= 11 THEN "JacksOrBetter" ELSE "HighCard"

================================================================================
