-------------------------------- MODULE ThreeCard ------------------------------
(***************************************************************************)
(* Three Card Poker, execution/src/casino/three_card.rs: the player plays  *)
(* or folds three cards against the dealer's, with side bets on the hand.  *)
(* A jackpot above its base is added by the handler (module Casino).       *)
(***************************************************************************)
EXTENDS PokerHands

CONSTANTS ThreeCardHands    \* the hands of the model
ASSUME ThreeCardAssumption == ThreeCardHands \subseteq kSubset(3, Cards)

BaseJackpot == 10000

\* evaluate_hand: high card, pair, flush, straight, three of a kind, straight flush.
ThreeCardRank(cards) ==
    LET ranks == RanksOf(cards)
        straight == ranks = {2, 3, 14} \/ (Cardinality(ranks) = 3 /\ Max(ranks) - Min(ranks) = 2)
    IN  CASE straight /\ IsFlush(cards) -> 6
          [] Cardinality(ranks) = 1 -> 5
          [] straight /\ ~IsFlush(cards) -> 4
          [] IsFlush(cards) /\ ~straight -> 3
          [] Cardinality(ranks) = 2 -> 2
          [] OTHER -> 1
ThreeCardScore(cards) == Score(ThreeCardRank(cards), cards)

\* dealer_qualifies: with a pair, or with queen, six and four.
Qualifies(cards) ==
    ThreeCardRank(cards) >= 2 \/ ThreeCardScore(cards) >= FoldLeft(LAMBDA s, r : 15 * s + r, 1, <<12, 6, 4>>)

AnteBonus(rank) == <<0, 0, 0, 1, 4, 5>>[rank]
PairPlusPays(rank) == <<0, 1, 3, 6, 30, 40>>[rank]

\* resolve_progressive_return: for one, and the jackpot for ace, king and queen of spades.
ThreeCardProgressive(cards) ==
    CASE ThreeCardRank(cards) = 6 ->
           IF RanksOf(cards) # {12, 13, 14} THEN 70
           ELSE IF \A c \in cards : SuitOf(c) = 0 THEN BaseJackpot ELSE 500
      [] ThreeCardRank(cards) = 5 -> 60
      [] ThreeCardRank(cards) = 4 -> 6
      [] OTHER -> 0

----------------------------------------------------------------------------
\* What parse_state reads back.
ThreeCardReadable(s) ==
    /\ s.stage \in {"Betting", "Decision", "AwaitingReveal", "Complete"}
    /\ Cardinality(s.player) \in {0, 3} /\ Cardinality(s.dealer) \in {0, 3}
    /\ s.pairplus \in Nat /\ s.six \in Nat /\ s.progressive \in Nat

ThreeCardInit ==
    \E b \in Stakes :
        Starts("ThreeCard", b, [stage |-> "Betting", player |-> {}, dealer |-> {},
                                pairplus |-> 0, six |-> 0, progressive |-> 0])

ThreeCardDeals(used) == {hand \in ThreeCardHands : hand \cap used = {}}

\* A side bet replaces the one before, and the difference is settled.
ThreeCardSide(which, n) ==
    /\ IsOpen("ThreeCard")
    /\ state.stage = "Betting"
    /\ which = "progressive" => n <= 1
    /\ Wagers([state EXCEPT ![which] = n], n - state[which])

\* Deal may bring the pair plus bet along.
ThreeCardDeal(n) ==
    /\ IsOpen("ThreeCard")
    /\ state.stage = "Betting"
    /\ \E hand \in ThreeCardDeals({}) :
         Wagers([state EXCEPT !.stage = "Decision", !.player = hand, !.pairplus = n],
                n - state.pairplus)

ThreeCardPlay ==
    /\ IsOpen("ThreeCard")
    /\ state.stage = "Decision"
    /\ Wagers([state EXCEPT !.stage = "AwaitingReveal"], bet)

\* What the side bets return.
ThreeCardSideReturn(dealer) ==
    SideBetReturn(state.pairplus, PairPlusPays(ThreeCardRank(state.player)))
    + SideBetReturn(state.six, SixCardPays(BestRank(state.player \cup dealer)))
    + state.progressive * ThreeCardProgressive(state.player)

\* What ante and play return.
ThreeCardMainReturn(dealer) ==
    LET own == ThreeCardScore(state.player)
        other == ThreeCardScore(dealer)
    IN  CASE ~Qualifies(dealer) -> 3 * bet
          [] Qualifies(dealer) /\ own > other -> 4 * bet
          [] Qualifies(dealer) /\ own = other -> 2 * bet
          [] Qualifies(dealer) /\ own < other -> 0

ThreeCardSettle(dealer, wagered, return) ==
    LET over == [state EXCEPT !.stage = "Complete", !.dealer = dealer]
    IN  IF return = 0
        THEN Ends(over, "LossPreDeducted", wagered + state.pairplus + state.six + state.progressive)
        ELSE Ends(over, "Win", Boosted(SetToSeq(state.player), return))

\* Mutant: a fold reports the play bet as well.
ThreeCardFoldAll ==
    /\ IsOpen("ThreeCard")
    /\ state.stage = "Decision"
    /\ \E dealer \in ThreeCardDeals(state.player) :
         ThreeCardSettle(dealer, 2 * bet, ThreeCardSideReturn(dealer))

\* Only the side bets count after a fold.
ThreeCardFold ==
    /\ IsOpen("ThreeCard")
    /\ state.stage = "Decision"
    /\ \E dealer \in ThreeCardDeals(state.player) :
         ThreeCardSettle(dealer, bet, ThreeCardSideReturn(dealer))

ThreeCardReveal ==
    /\ IsOpen("ThreeCard")
    /\ state.stage = "AwaitingReveal"
    /\ \E dealer \in ThreeCardDeals(state.player) :
         ThreeCardSettle(dealer, 2 * bet,
                         ThreeCardMainReturn(dealer) + ThreeCardSideReturn(dealer)
                         + bet * AnteBonus(ThreeCardRank(state.player)))

ThreeCardNext ==
    \/ \E which \in {"pairplus", "six", "progressive"}, n \in SideBets : ThreeCardSide(which, n)
    \/ \E n \in SideBets : ThreeCardDeal(n)
    \/ ThreeCardPlay \/ ThreeCardFold \/ ThreeCardReveal

================================================================================
