---------------------------------- MODULE HiLo ---------------------------------
(***************************************************************************)
(* HiLo, execution/src/casino/hilo.rs: the pot is multiplied by every      *)
(* right guess of whether the next card is higher or lower, until it is    *)
(* cashed out, or lost with a wrong guess.                                 *)
(***************************************************************************)
EXTENDS Table

CONSTANTS
    HiLoDeck,           \* the cards of the model
    BaseMultiplier,     \* BASE_MULTIPLIER
    MaxGuesses          \* bound of the model
ASSUME HiLoAssumption == HiLoDeck \subseteq Cards /\ BaseMultiplier \in Nat \ {0}

HiLoRank(card) == (card % 13) + 1

\* calculate_multiplier
HiLoMultiplier(rank, higher) ==
    LET wins == IF higher THEN 13 - rank ELSE rank - 1
    IN  IF wins <= 0 THEN 0 ELSE (13 * BaseMultiplier) \div wins

\* What parse_state reads back.
HiLoReadable(s) == s.card \in Cards /\ s.pot \in Nat

\* right counts the right guesses (history).
HiLoInit ==
    \E b \in Stakes, c \in HiLoDeck :
        Starts("HiLo", b, [card |-> c, pot |-> BaseMultiplier, moves |-> 0, right |-> 0])

\* The handler counts every move, and the game counts a guess again.
HiLoGuess(higher) ==
    /\ IsOpen("HiLo")
    /\ state.right < MaxGuesses
    /\ LET rank == HiLoRank(state.card)
           guessed == state.moves + 2
       IN  /\ rank # (IF higher THEN 13 ELSE 1)
           /\ \E c \in DeckExcluding(HiLoDeck, {state.card}) :
                IF IF higher THEN HiLoRank(c) > rank ELSE HiLoRank(c) < rank
                THEN Continues([card |-> c, moves |-> guessed, right |-> state.right + 1,
                                pot |-> (state.pot * HiLoMultiplier(rank, higher)) \div BaseMultiplier])
                ELSE Ends([state EXCEPT !.card = c, !.pot = 0, !.moves = guessed], "Loss", 0)

HiLoStreak == state.moves + 1

HiLoCashout ==
    /\ IsOpen("HiLo")
    /\ LET payout == (bet * state.pot) \div BaseMultiplier
           after == [state EXCEPT !.moves = HiLoStreak]
       IN  IF payout = 0 THEN Ends(after, "Loss", 0)
           ELSE Ends(after, "Win",
                     IF super THEN BoostStreak(payout, HiLoStreak, HiLoRank(state.card) = 1)
                     ELSE payout)

HiLoNext == HiLoCashout \/ \E higher \in BOOLEAN : HiLoGuess(higher)

================================================================================
