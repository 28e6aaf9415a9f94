------------------------------- MODULE PokerHands ------------------------------
(***************************************************************************)
(* Hands of distinct cards, as Three Card Poker and Ultimate Texas Hold'em *)
(* evaluate them: the functions card_rank, evaluate_5_card_bonus_rank of   *)
(* execution/src/casino/three_card.rs and evaluate_5_card_fast,            *)
(* evaluate_best_hand of execution/src/casino/ultimate_holdem.rs.          *)
(***************************************************************************)
EXTENDS Table

AceHigh(card) == IF card % 13 = 0 THEN 14 ELSE (card % 13) + 1
SuitOf(card) == card \div 13
RanksOf(cards) == {AceHigh(c) : c \in cards}
CountOf(cards, r) == Cardinality({c \in cards : AceHigh(c) = r})
IsFlush(cards) == Cardinality({SuitOf(c) : c \in cards}) = 1

\* From the worst to the best.
FiveCardRanks == <<"HighCard", "Pair", "TwoPair", "ThreeOfAKind", "Straight", "Flush",
                   "FullHouse", "FourOfAKind", "StraightFlush", "RoyalFlush">>

IsStraight(cards) ==
    LET ranks == RanksOf(cards)
    IN  /\ Cardinality(ranks) = 5
        /\ Max(ranks) - Min(ranks) = 4 \/ ranks = {2, 3, 4, 5, 14}

\* The first of the ranks, from the best, that five cards make.
FiveCardRank(cards) ==
    LET ranks == RanksOf(cards)
        Groups(n) == Cardinality({r \in ranks : CountOf(cards, r) = n})
        made == [RoyalFlush    |-> ranks = 10 .. 14 /\ IsFlush(cards),
                 StraightFlush |-> IsStraight(cards) /\ IsFlush(cards),
                 FourOfAKind   |-> Groups(4) > 0,
                 FullHouse     |-> Groups(3) > 0 /\ Groups(2) >= 1,
                 Flush         |-> IsFlush(cards),
                 Straight      |-> IsStraight(cards),
                 ThreeOfAKind  |-> Groups(3) > 0,
                 TwoPair       |-> Groups(2) >= 2,
                 Pair          |-> Groups(2) = 1,
                 HighCard      |-> TRUE]
    IN  Max({i \in DOMAIN FiveCardRanks : made[FiveCardRanks[i]]})

\* The cards' ranks from the highest to the lowest, all that breaks a tie.
Kickers(cards) ==
    LET seq == SetToSeq(cards)
    IN  SortSeq([i \in DOMAIN seq |-> AceHigh(seq[i])], LAMBDA a, b : a > b)

\* (rank, kickers) as one number, so that a better hand has a larger one: a rank
\* is below fifteen.
Score(rank, cards) == FoldLeft(LAMBDA score, r : 15 * score + r, rank, Kickers(cards))

\* The best five of the cards: only hands of the best rank compare their kickers.
BestRank(cards) == Max({FiveCardRank(hand) : hand \in kSubset(5, cards)})
BestScore(cards) ==
    LET best == BestRank(cards)
    IN  Max({Score(best, hand) : hand \in {h \in kSubset(5, cards) : FiveCardRank(h) = best}})
RankOf(score) == score \div (15 * 15 * 15 * 15 * 15)

\* six_card_bonus_multiplier, the same in both games
SixCardPays(rank) == <<0, 0, 0, 7, 10, 15, 20, 100, 200, 1000>>[rank]

SideBetReturn(n, pays) == IF pays = 0 THEN 0 ELSE n * (pays + 1)

================================================================================
