--------------------------------- MODULE SicBo ---------------------------------
(***************************************************************************)
(* Sic bo, execution/src/casino/sic_bo.rs: bets on one roll of three dice. *)
(***************************************************************************)
EXTENDS Table

CONSTANTS
    SicBoFaces,     \* the faces a model bets on
    SicBoTotals,    \* the totals
    SicBoRolls      \* the rolls of the model, three digits each
ASSUME SicBoAssumption ==
    /\ SicBoFaces \subseteq 1 .. 6 /\ SicBoTotals \subseteq 3 .. 18
    /\ SicBoRolls \subseteq Nat

SicBoSpot(type, number, faces) == [type |-> type, number |-> number, faces |-> faces]

\* The bets that place accepts: on a number, on faces, or on a face twice and
\* another once.
SicBoSpots ==
    {SicBoSpot(type, 0, {}) : type \in {"Small", "Big", "Odd", "Even", "AnyTriple"}}
    \cup {SicBoSpot(type, n, {}) : type \in {"SpecificTriple", "SpecificDouble", "Single"}, n \in SicBoFaces}
    \cup {SicBoSpot("Total", n, {}) : n \in SicBoTotals}
    \cup {SicBoSpot("Domino", 0, faces) : faces \in kSubset(2, SicBoFaces)}
    \cup {SicBoSpot("ThreeNumberEasyHop", 0, faces) : faces \in kSubset(3, SicBoFaces)}
    \cup {SicBoSpot("FourNumberEasyHop", 0, faces) : faces \in kSubset(4, SicBoFaces)}
    \cup UNION {{SicBoSpot("ThreeNumberHardHop", n, {m}) : m \in SicBoFaces \ {n}} : n \in SicBoFaces}

\* Mutant: nine and twelve pay like eight and thirteen.
TotalPaysShifted(total) ==
    CASE total \in {3, 18} -> 180 [] total \in {4, 17} -> 50 [] total \in {5, 16} -> 18
      [] total \in {6, 15} -> 14 [] total \in {7, 14} -> 12 [] total \in {8, 9, 12, 13} -> 8
      [] total \in {10, 11} -> 6

\* total_payout
TotalPays(total) ==
    CASE total \in {3, 18} -> 180 [] total \in {4, 17} -> 50 [] total \in {5, 16} -> 18
      [] total \in {6, 15} -> 14 [] total \in {7, 14} -> 12 [] total \in {8, 13} -> 8
      [] total \in {9, 12} -> 6 [] total \in {10, 11} -> 6

\* calculate_bet_payout: what a bet of one returns.
SicBoPays(spot, dice) ==
    LET total == dice[1] + dice[2] + dice[3]
        triple == dice[1] = dice[2] /\ dice[2] = dice[3]
        faces == {dice[1], dice[2], dice[3]}
        Count(n) == Cardinality({i \in 1 .. 3 : dice[i] = n})
        Return(won, n) == IF won THEN n ELSE 0
    IN  CASE spot.type = "Small" -> Return(~triple /\ total \in 4 .. 10, 2)
          [] spot.type = "Big" -> Return(~triple /\ total \in 11 .. 17, 2)
          [] spot.type = "Odd" -> Return(~triple /\ total % 2 = 1, 2)
          [] spot.type = "Even" -> Return(~triple /\ total % 2 = 0, 2)
          [] spot.type = "SpecificTriple" -> Return(triple /\ dice[1] = spot.number, 151)
          [] spot.type = "AnyTriple" -> Return(triple, 25)
          [] spot.type = "SpecificDouble" -> Return(Count(spot.number) >= 2, 9)
          [] spot.type = "Total" -> Return(total = spot.number, TotalPays(spot.number) + 1)
          [] spot.type = "Single" -> Return(Count(spot.number) > 0, Count(spot.number) + 1)
          [] spot.type = "Domino" -> Return(spot.faces \subseteq faces, 6)
          [] spot.type = "ThreeNumberEasyHop" -> Return(faces = spot.faces, 31)
          [] spot.type = "FourNumberEasyHop" ->
               Return(Cardinality(faces) = 3 /\ faces \subseteq spot.faces, 8)
          [] spot.type = "ThreeNumberHardHop" ->
               Return(Count(spot.number) = 2 /\ \A m \in spot.faces : Count(m) = 1, 51)

NoDice == <<>>
SicBoInit == StartsEmpty("SicBo", [bets |-> EmptyBag, dice |-> NoDice])

\* from_bytes refuses more bets than MAX_BETS, and with them every move.
SicBoReadable(s) == Total(s.bets) <= MaxBets
SicBoOpen == IsOpen("SicBo") /\ SicBoReadable(state)

\* Nothing bounds the number of bets here: the last may be one too many to be
\* read back.
SicBoPlace(spot, n) ==
    /\ SicBoOpen
    /\ BetsUnchecked([state EXCEPT !.bets = Placed(@, spot, n)], n)

\* Cleared bets are not returned.
SicBoClear ==
    /\ SicBoOpen
    /\ Pays([state EXCEPT !.bets = EmptyBag], AtStake(state.bets), 0)

SicBoReturn(dice) == Over(state.bets, LAMBDA b : b.amount * SicBoPays(b.spot, dice))

SicBoRoll ==
    /\ SicBoOpen
    /\ state.bets # EmptyBag
    /\ \E dice \in [1 .. 3 -> RollDie] :
         /\ 100 * dice[1] + 10 * dice[2] + dice[3] \in SicBoRolls
         /\ LET over == [state EXCEPT !.dice = dice]
                return == SicBoReturn(dice)
            IN  IF return > 0
                THEN Ends(over, "Win", BoostedBy("Total", dice[1] + dice[2] + dice[3], return))
                ELSE Ends(over, "LossPreDeducted", AtStake(state.bets))

SicBoNext ==
    \/ \E spot \in SicBoSpots, n \in Payloads : SicBoPlace(spot, n)
    \/ SicBoClear
    \/ SicBoRoll

================================================================================
