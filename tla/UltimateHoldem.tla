----------------------------- MODULE UltimateHoldem ----------------------------
(***************************************************************************)
(* Ultimate Texas Hold'em, execution/src/casino/ultimate_holdem.rs: one    *)
(* play bet, the larger the earlier it is made, on two cards and five      *)
(* common ones against the dealer's, with side bets.                       *)
(* A jackpot above its base is added by the handler (module Casino).       *)
(***************************************************************************)
EXTENDS PokerHands

CONSTANTS HoldemGroups  \* the cards of the model that are dealt together
ASSUME HoldemAssumption == \A group \in HoldemGroups : group \subseteq Cards

HoldemJackpot == 10000

\* Of the cards that are dealt together n come next.
HoldemDeals(n, used) ==
    IF n = 0 THEN {{}} ELSE {group \in HoldemGroups : Cardinality(group) = n /\ group \cap used = {}}

\* What parse_state reads back.
HoldemReadable(s) ==
    /\ s.stage \in {"Betting", "Preflop", "Flop", "River", "AwaitingReveal", "Showdown"}
    /\ Cardinality(s.player) \in {0, 2} /\ Cardinality(s.dealer) \in {0, 2}
    /\ Cardinality(s.flop) \in {0, 3} /\ Cardinality(s.turn) \in {0, 2}
    /\ Cardinality(s.bonus) \in {0, 4}
    /\ s.play \in 0 .. 4 /\ s.trips \in Nat /\ s.six \in Nat /\ s.progressive \in Nat

\* The blind is meant to be charged here, but the handler ignores that result.
HoldemInit ==
    \E b \in Stakes :
        Starts("UltimateHoldem", b,
               [stage |-> "Betting", player |-> {}, flop |-> {}, turn |-> {}, dealer |-> {},
                bonus |-> {}, play |-> 0, trips |-> 0, six |-> 0, progressive |-> 0])

HoldemSide(which, n) ==
    /\ IsOpen("UltimateHoldem")
    /\ state.stage = "Betting"
    /\ which = "progressive" => n <= 1
    /\ Wagers([state EXCEPT ![which] = n], n - state[which])

\* Deal may bring the trips bet along.
HoldemDeal(n) ==
    /\ IsOpen("UltimateHoldem")
    /\ state.stage = "Betting"
    /\ \E hand \in HoldemDeals(2, {}) :
         Wagers([state EXCEPT !.stage = "Preflop", !.player = hand, !.trips = n], n - state.trips)

\* known_cards_in_state
HoldemKnown(s) == s.player \cup s.flop \cup s.turn \cup s.dealer \cup s.bonus

HoldemCheck ==
    /\ IsOpen("UltimateHoldem")
    /\ \/ /\ state.stage = "Preflop"
          /\ \E cards \in HoldemDeals(3, HoldemKnown(state)) :
               Continues([state EXCEPT !.stage = "Flop", !.flop = cards])
       \/ /\ state.stage = "Flop"
          /\ \E cards \in HoldemDeals(2, HoldemKnown(state)) :
               Continues([state EXCEPT !.stage = "River", !.turn = cards])

\* How many times the ante each stage lets the player bet.
HoldemRaises(stage) ==
    CASE stage = "Preflop" -> {3, 4} [] stage = "Flop" -> {2} [] stage = "River" -> {1} [] OTHER -> {}

HoldemBet(times) ==
    /\ IsOpen("UltimateHoldem")
    /\ times \in HoldemRaises(state.stage)
    /\ state.play = 0
    /\ Wagers([state EXCEPT !.stage = "AwaitingReveal", !.play = times], times * bet)

----------------------------------------------------------------------------
BlindBonus(rank) ==
    CASE rank = 10 -> 500 * bet [] rank = 9 -> 50 * bet [] rank = 8 -> 10 * bet
      [] rank = 7 -> 3 * bet [] rank = 6 -> (3 * bet) \div 2 [] rank = 5 -> bet [] OTHER -> 0
TripsPays(rank) == <<0, 0, 0, 3, 4, 7, 9, 30, 40, 50>>[rank]

\* uth_progressive_return: on the first five cards, for one.
HoldemProgressive(rank) ==
    <<0, 0, 0, 9, 30, 40, 50, 300, HoldemJackpot \div 10, HoldemJackpot>>[rank]

\* draw_into_unknowns: what is still covered is drawn from the rest of the deck.
HoldemShowdowns ==
    LET Missing(cards, n) == IF cards = {} THEN n ELSE 0
        Covered(s) == IF s.six > 0 THEN 4 ELSE 0
        Turned(s, field, n) ==
            {[s EXCEPT ![field] = @ \cup cards] :
               cards \in HoldemDeals(Missing(s[field], n), HoldemKnown(s))}
        flopped == Turned(state, "flop", 3)
        turned == UNION {Turned(s, "turn", 2) : s \in flopped}
        dealt == UNION {Turned(s, "dealer", 2) : s \in turned}
    IN  UNION {Turned(s, "bonus", Covered(s)) : s \in dealt}

HoldemSideReturn(s, rank) ==
    SideBetReturn(s.trips, TripsPays(rank))
    + (IF s.six = 0 THEN 0 ELSE SideBetReturn(s.six, SixCardPays(BestRank(s.player \cup s.bonus))))
    + (IF s.progressive = 0 THEN 0 ELSE HoldemProgressive(FiveCardRank(s.player \cup s.flop)))

\* Ante, blind and play, by the scores of the player's and the dealer's best
\* hands.  The dealer qualifies with a pair.
HoldemMainReturn(s, own, other) ==
    LET qualifies == RankOf(other) >= 2
    IN  CASE s.play = 0 -> 0
          [] s.play > 0 /\ own = other -> (2 + s.play) * bet
          [] s.play > 0 /\ own > other ->
               (2 * s.play + (IF qualifies THEN 2 ELSE 1) + 1) * bet + BlindBonus(RankOf(own))
          [] s.play > 0 /\ own < other -> IF qualifies THEN 0 ELSE bet

\* resolve_showdown
HoldemSettle(s) ==
    LET common == s.flop \cup s.turn
        own == BestScore(s.player \cup common)
        other == BestScore(s.dealer \cup common)
        return == HoldemMainReturn(s, own, other) + HoldemSideReturn(s, RankOf(own))
        over == [s EXCEPT !.stage = "Showdown"]
    IN  IF return = 0
        THEN Ends(over, "LossPreDeducted", (2 + s.play) * bet + s.trips + s.six + s.progressive)
        ELSE Ends(over, "Win", Boosted(SetToSeq(s.player \cup common), return))

\* A fold loses ante and blind, and settles the side bets.
HoldemFold ==
    /\ IsOpen("UltimateHoldem")
    /\ state.stage = "River"
    /\ \E s \in HoldemShowdowns : HoldemSettle(s)

HoldemReveal ==
    /\ IsOpen("UltimateHoldem")
    /\ state.stage = "AwaitingReveal"
    /\ \E s \in HoldemShowdowns : HoldemSettle(s)

HoldemNext ==
    \/ \E which \in {"trips", "six", "progressive"}, n \in SideBets : HoldemSide(which, n)
    \/ \E n \in SideBets : HoldemDeal(n)
    \/ \E times \in 1 .. 4 : HoldemBet(times)
    \/ HoldemCheck \/ HoldemFold \/ HoldemReveal

================================================================================
