-------------------------------- MODULE Roulette -------------------------------
(***************************************************************************)
(* Roulette, execution/src/casino/roulette.rs: bets are placed on spots of *)
(* the layout and settled by one spin, but for even-money bets that a zero *)
(* imprisons until a later spin.                                           *)
(***************************************************************************)
EXTENDS Table

CONSTANTS
    RouletteNumbers,    \* the numbers of the layout a model bets on
    RouletteSpins       \* the numbers that come up
ASSUME RouletteAssumption == RouletteNumbers \subseteq Nat /\ RouletteSpins \subseteq Nat

Red == {1, 3, 5, 7, 9, 12, 14, 16, 18, 19, 21, 23, 25, 27, 30, 32, 34, 36}
EvenMoney == {"Red", "Black", "Even", "Odd", "Low", "High"}
ZeroRules == {"Standard", "LaPartage", "EnPrison", "EnPrisonDouble"}

\* The spots a bet may be placed on; an even-money bet has no number.
RouletteSpots ==
    LET On(type, valid) == {[type |-> type, number |-> n] : n \in valid \cap RouletteNumbers}
        Rows(last) == {n \in 1 .. last : (n - 1) % 3 = 0}
        NotRight(last) == {n \in 1 .. last : n % 3 # 0}
    IN  {[type |-> type, number |-> 0] : type \in EvenMoney}
        \cup On("Straight", 0 .. 36) \cup On("Dozen", 0 .. 2) \cup On("Column", 0 .. 2)
        \cup On("SplitH", NotRight(35)) \cup On("SplitV", 1 .. 33) \cup On("Street", Rows(34))
        \cup On("Corner", NotRight(32)) \cup On("SixLine", Rows(31))

\* bet_wins: zero loses every bet but the one on it.
BetWins(spot, n) ==
    LET k == spot.number
    IN  IF n = 0 THEN spot.type = "Straight" /\ k = 0
        ELSE CASE spot.type = "Straight" -> n = k
               [] spot.type = "Red" -> n \in Red
               [] spot.type = "Black" -> n \notin Red
               [] spot.type = "Even" -> n % 2 = 0
               [] spot.type = "Odd" -> n % 2 = 1
               [] spot.type = "Low" -> n <= 18
               [] spot.type = "High" -> n >= 19
               [] spot.type = "Dozen" -> (n - 1) \div 12 = k
               [] spot.type = "Column" -> (n - 1) % 3 = k
               [] spot.type = "SplitH" -> n \in {k, k + 1}
               [] spot.type = "SplitV" -> n \in {k, k + 3}
               [] spot.type = "Street" -> n \in k .. k + 2
               [] spot.type = "Corner" -> n \in {k, k + 1, k + 3, k + 4}
               [] spot.type = "SixLine" -> n \in k .. k + 5

\* payout_multiplier
SpotPays(type) ==
    CASE type \in EvenMoney -> 1
      [] type \in {"Dozen", "Column"} -> 2
      [] type \in {"SplitH", "SplitV"} -> 17
      [] type = "Straight" -> 35 [] type = "Street" -> 11
      [] type = "Corner" -> 8 [] type = "SixLine" -> 5

Winnings(b, n) == IF BetWins(b.spot, n) THEN b.amount * (SpotPays(b.spot.type) + 1) ELSE 0

\* What from_blob reads back.
RouletteReadable(s) ==
    /\ s.rule \in ZeroRules /\ s.phase \in {"Betting", "Prison"}
    /\ s.wagered \in Nat /\ s.pending \in Nat
    /\ Total(s.bets) <= MaxBets

RouletteInit ==
    StartsEmpty("Roulette", [rule |-> "Standard", phase |-> "Betting", wagered |-> 0,
                             pending |-> 0, bets |-> EmptyBag, spun |-> -1])

RouletteBetting == IsOpen("Roulette") /\ state.phase = "Betting"

\* Mutant: one bet too many.
RoulettePlaceMore(spot, n) ==
    /\ RouletteBetting
    /\ Total(state.bets) <= MaxBets
    /\ BetsUnchecked([state EXCEPT !.bets = Placed(@, spot, n),
                                   !.wagered = @ + n], n)

RoulettePlace(spot, n) ==
    /\ RouletteBetting
    /\ Total(state.bets) < MaxBets
    /\ BetsUnchecked([state EXCEPT !.bets = Placed(@, spot, n),
                                   !.wagered = @ + n], n)

\* The bets go, but what was wagered on them still counts.
RouletteClear ==
    /\ RouletteBetting
    /\ Continues([state EXCEPT !.bets = EmptyBag])

RouletteRule(rule) ==
    /\ RouletteBetting
    /\ Continues([state EXCEPT !.rule = rule])

RouletteEnd(over, return) ==
    IF return > 0 THEN Ends(over, "Win", return)
                ELSE Ends(over, "LossPreDeducted", state.wagered)

\* What n pays at once.  On zero, la partage returns half an even-money bet.
ReturnedOn(n) ==
    LET half(b) == IF n = 0 /\ state.rule = "LaPartage" /\ b.spot.type \in EvenMoney
                   THEN b.amount \div 2 ELSE 0
    IN  Over(state.bets, LAMBDA b : Winnings(b, n) + half(b))

\* ... and what it imprisons.
Imprisoned(n) ==
    IF n = 0 /\ state.rule \in {"EnPrison", "EnPrisonDouble"}
    THEN [b \in {b \in DOMAIN state.bets : b.spot.type \in EvenMoney} |-> state.bets[b]]
    ELSE EmptyBag

RouletteSpin ==
    /\ RouletteBetting
    /\ state.bets # EmptyBag
    /\ \E n \in SpinRoulette \cap RouletteSpins :
         LET return == BoostedBy("Number", n, ReturnedOn(n))
             held == Imprisoned(n)
         IN  IF held # EmptyBag
             THEN Continues([state EXCEPT !.spun = n, !.phase = "Prison",
                                          !.bets = held, !.pending = return])
             ELSE RouletteEnd([state EXCEPT !.spun = n], return)

\* An imprisoned bet that wins is returned.
RouletteSpinAgain ==
    /\ IsOpen("Roulette")
    /\ state.phase = "Prison"
    /\ \E n \in SpinRoulette \cap RouletteSpins :
         IF n = 0 /\ state.rule = "EnPrisonDouble" THEN Continues([state EXCEPT !.spun = n])
         ELSE LET back == Over(state.bets, LAMBDA b : IF BetWins(b.spot, n) THEN b.amount ELSE 0)
              IN  RouletteEnd([state EXCEPT !.spun = n],
                              state.pending + BoostedBy("Number", n, back))

RouletteNext ==
    \/ \E spot \in RouletteSpots, n \in Payloads : RoulettePlace(spot, n)
    \/ RouletteClear
    \/ \E rule \in ZeroRules : RouletteRule(rule)
    \/ RouletteSpin
    \/ RouletteSpinAgain

================================================================================
