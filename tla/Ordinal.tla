-------------------------------- MODULE Ordinal --------------------------------
(***************************************************************************)
(* What the node uses of commonware's Ordinal store and RMap, both sets of *)
(* positive numbers here.                                                  *)
(***************************************************************************)
EXTENDS Naturals, FiniteSets

Least(S) == CHOOSE x \in S : \A y \in S : x <= y
Greatest(S) == CHOOSE x \in S : \A y \in S : y <= x

\* The numbers below the largest item that are not items.
Gaps(items) == {n \in UNION {1 .. i : i \in items} : n \notin items}

\* missing_items(1, max): the lowest gaps, at most max of them.
MissingItems(items, max) ==
    {n \in Gaps(items) : Cardinality({g \in Gaps(items) : g <= n}) <= max}

\* next_gap(v).0 for an item v: the end of the run of items it is in.
EndOfRun(items, v) == Greatest({n \in items : v .. n \subseteq items})

================================================================================
