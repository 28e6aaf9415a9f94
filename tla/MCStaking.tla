------------------------------- MODULE MCStaking -------------------------------
EXTENDS Staking, TLC

\* No operation tells one player from another.
Symmetry == Permutations(Players)
================================================================================
