-------------------------------- MODULE Totals ---------------------------------
(***************************************************************************)
(* The sum of a ledger, a function from holders to natural numbers, as the *)
(* number of its coins: the k-th coin of holder p is <<p, k>>.             *)
(***************************************************************************)
EXTENDS Naturals, FiniteSets

\* One holder gets, or gives up, n.
Add(f, p, n) == [f EXCEPT ![p] = f[p] + n]
Sub(f, p, n) == [f EXCEPT ![p] = f[p] - n]

Coins(f) == UNION {{p} \X (1 .. f[p]) : p \in DOMAIN f}

Total(f) == Cardinality(Coins(f))

================================================================================
