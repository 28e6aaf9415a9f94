----------------------------- MODULE MCTournament ------------------------------
EXTENDS Tournament

\* No operation tells one player, session or tournament from another.
Symmetry == Permutations(Players) \cup Permutations(Ids) \cup Permutations(Tournaments)
================================================================================
