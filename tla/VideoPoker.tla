------------------------------- MODULE VideoPoker ------------------------------
(***************************************************************************)
(* Video poker, execution/src/casino/video_poker.rs: five cards, of which  *)
(* any are replaced once; the hand is a set, since no step goes by the     *)
(* order of its cards.                                                     *)
(***************************************************************************)
EXTENDS Table

CONSTANTS PokerDeck     \* the cards of the model
ASSUME PokerAssumption == PokerDeck \subseteq Cards

PokerRank(card) == (card % 13) + 1
PokerSuit(card) == card \div 13
PokerRanks(cards) == {PokerRank(c) : c \in cards}
OfRank(cards, r) == Cardinality({c \in cards : PokerRank(c) = r})

\* Mutant: a pair does not rule a straight out.
PokerStraightSpan(cards) ==
    LET ranks == PokerRanks(cards)
    IN  ranks = {1, 10, 11, 12, 13} \/ Max(ranks) - Min(ranks) = 4

PokerStraight(cards) ==
    LET ranks == PokerRanks(cards)
    IN  /\ Cardinality(ranks) = 5
        /\ ranks = {1, 10, 11, 12, 13} \/ Max(ranks) - Min(ranks) = 4

\* evaluate_hand: the first of these that the cards make.
PokerOrder == <<"RoyalFlush", "StraightFlush", "FourOfAKind", "FullHouse", "Flush",
                "Straight", "ThreeOfAKind", "TwoPair", "JacksOrBetter", "HighCard">>
PokerHand(cards) ==
    LET ranks == PokerRanks(cards)
        flush == Cardinality({PokerSuit(c) : c \in cards}) = 1
        straight == PokerStraight(cards)
        pairs == {r \in ranks : OfRank(cards, r) = 2}
        Kind(n) == \E r \in ranks : OfRank(cards, r) = n
        made == [RoyalFlush    |-> ranks = {1, 10, 11, 12, 13} /\ flush,
                 StraightFlush |-> straight /\ flush,
                 FourOfAKind   |-> Kind(4),
                 FullHouse     |-> Kind(3) /\ Cardinality(pairs) = 1,
                 Flush         |-> flush,
                 Straight      |-> straight,
                 ThreeOfAKind  |-> Kind(3),
                 TwoPair       |-> Cardinality(pairs) = 2,
                 JacksOrBetter |-> \E r \in pairs : r >= 11 \/ r = 1,
                 HighCard      |-> TRUE]
    IN  PokerOrder[Min({i \in DOMAIN PokerOrder : made[PokerOrder[i]]})]

\* payout_multiplier
PokerPays ==
    [HighCard |-> 0, JacksOrBetter |-> 1, TwoPair |-> 2, ThreeOfAKind |-> 3, Straight |-> 4,
     Flush |-> 6, FullHouse |-> 9, FourOfAKind |-> 25, StraightFlush |-> 50, RoyalFlush |-> 800]

\* What parse_state reads back.
PokerReadable(s) ==
    /\ s.stage \in {"Deal", "Draw"}
    /\ s.hand \subseteq Cards /\ Cardinality(s.hand) = 5

PokerInit ==
    \E b \in Stakes, hand \in kSubset(5, PokerDeck) :
        Starts("VideoPoker", b, [stage |-> "Deal", hand |-> hand])

\* The cards that are not held are replaced from the rest of the deck.
PokerDraw(held) ==
    /\ IsOpen("VideoPoker")
    /\ \E drawn \in kSubset(5 - Cardinality(held), DeckExcluding(PokerDeck, state.hand)) :
         LET hand == held \cup drawn
             after == [stage |-> "Draw", hand |-> hand]
             pays == PokerPays[PokerHand(hand)]
         IN  IF pays > 0
             THEN Ends(after, "Win", Boosted(SetToSeq(hand), bet * (pays + 1)))
             ELSE Ends(after, "Loss", 0)

PokerNext == game = "VideoPoker" /\ \E held \in SUBSET state.hand : PokerDraw(held)

================================================================================
