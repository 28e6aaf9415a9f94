--------------------------------- MODULE Chips ---------------------------------
(***************************************************************************)
(* What the handlers of liquidity.rs and staking.rs share: the players,    *)
(* their chips, and ledgers with a number for every player.                *)
(***************************************************************************)
EXTENDS Totals

CONSTANTS
    Players,
    Amounts,        \* the amounts that instructions carry
    InitialChips    \* what registration grants

ASSUME ChipsAssumption ==
    IsFiniteSet(Players) /\ Amounts \subseteq Nat /\ InitialChips \in Nat

VARIABLE chips

Ledgers == [Players -> Nat]

================================================================================
