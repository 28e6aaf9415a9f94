------------------------------ MODULE Leaderboard ------------------------------
(***************************************************************************)
(* CasinoLeaderboard: types/src/casino/leaderboard.rs.                     *)
(*                                                                         *)
(* A board is a sequence of entries, the richest first, of at most Top     *)
(* entries; an entry's rank is its position.                               *)
(***************************************************************************)
EXTENDS Naturals, Sequences, SequencesExt

CONSTANT Top    \* 10

ASSUME TopAssumption == Top \in Nat \ {0}

Entry(p, c) == [player |-> p, chips |-> c]

\* The entries of all others, in their order.
Without(board, p) ==
    LET kept[n \in 0 .. Len(board)] ==
          IF n = 0 THEN <<>>
          ELSE IF board[n].player = p THEN kept[n - 1] ELSE Append(kept[n - 1], board[n])
    IN  kept[Len(board)]

\* Where binary_search_by may end: at any entry that is equal, or else between
\* the larger and the smaller ones.
Positions(board, c) ==
    LET equal == {i \in DOMAIN board : board[i].chips = c}
    IN  IF equal # {} THEN equal
                      ELSE {1 + Cardinality({i \in DOMAIN board : board[i].chips > c})}

Truncated(board) == SubSeq(board, 1, IF Len(board) <= Top THEN Len(board) ELSE Top)

\* The boards that `update' may leave.
Updated(board, p, c) ==
    LET rest == Without(board, p)
    IN  IF Len(rest) >= Top /\ c <= Last(rest).chips THEN {rest}
        ELSE {Truncated(InsertAt(rest, i, Entry(p, c))) : i \in Positions(rest, c)}

\* What every board promises: one entry per player, the richest first, no
\* more than Top.
IsBoard(board) ==
    /\ Len(board) <= Top
    /\ \A i, j \in DOMAIN board :
         i < j => /\ board[i].player # board[j].player
                  /\ board[i].chips >= board[j].chips

================================================================================
