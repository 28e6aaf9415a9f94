----------------------------- MODULE DataTheorems ------------------------------
(***************************************************************************)
(* Laws of the data that several components share.                         *)
(*                                                                         *)
(* The sum of a ledger: the coins added or taken away form a set of their  *)
(* own, so the laws follow from the cardinality of disjoint unions and of  *)
(* sets in bijection.                                                      *)
(*                                                                         *)
(* Least and greatest numbers of a set, and with them the runs and gaps of *)
(* an Ordinal store.  A set of numbers that is not empty has a least one:  *)
(* taken for the set of counterexamples, this is also how a claim about    *)
(* all numbers is proved by induction.                                     *)
(***************************************************************************)
EXTENDS Totals, Ordinal, Integers, FunctionTheorems, FiniteSetTheorems,
        WellFoundedInduction, TLAPS

----------------------------------------------------------------------------
(* Arithmetic: products, and division, which rounds down. *)

LEMMA DivBounds ==
    ASSUME NEW a \in Nat, NEW b \in Nat, b > 0
    PROVE  /\ a \div b \in Nat
           /\ b * (a \div b) <= a
           /\ a < b * (a \div b) + b
OBVIOUS

LEMMA DivLess ==
    ASSUME NEW a \in Nat, NEW b \in Nat, NEW c \in Nat, b > 0, a < b * c
    PROVE  a \div b < c
OBVIOUS

LEMMA DivAtMost ==
    ASSUME NEW a \in Nat, NEW b \in Nat, NEW c \in Nat, b > 0, a <= b * c
    PROVE  a \div b <= c
OBVIOUS

\* A product of positive numbers is positive.
LEMMA ProductPositive ==
    ASSUME NEW a \in Nat, NEW b \in Nat
    PROVE  a * b \in Nat /\ (a > 0 /\ b > 0 => a * b > 0)
OBVIOUS

\* Products are monotone, and a factor can be cancelled.
LEMMA Monotone ==
    ASSUME NEW a \in Nat, NEW b \in Nat, NEW c \in Nat, NEW d \in Nat, a >= b, c >= d
    PROVE  a * c >= b * d
<1>1. a * c >= b * c
  <2>1. a = b + (a - b) /\ a - b \in Nat OBVIOUS
  <2>2. a * c = b * c + (a - b) * c BY <2>1
  <2> QED BY <2>1, <2>2, ProductPositive
<1>2. b * c >= b * d
  <2>1. c = d + (c - d) /\ c - d \in Nat OBVIOUS
  <2>2. b * c = b * d + b * (c - d) BY <2>1
  <2> QED BY <2>1, <2>2, ProductPositive
<1> QED BY <1>1, <1>2, ProductPositive

LEMMA Cancel ==
    ASSUME NEW a \in Nat, NEW b \in Nat, NEW k \in Nat, k > 0, k * a <= k * b
    PROVE  a <= b
<1>1. SUFFICES ASSUME a > b PROVE FALSE OBVIOUS
<1>2. a = b + (a - b) /\ a - b \in Nat /\ a - b > 0 BY <1>1
<1>3. k * a = k * b + k * (a - b) BY <1>2
<1>4. k * (a - b) > 0 BY <1>2, ProductPositive
<1> QED BY <1>3, <1>4, ProductPositive

\* Division is monotone.
LEMMA DivMonotone ==
    ASSUME NEW a \in Nat, NEW b \in Nat, NEW c \in Nat, c > 0, b <= a
    PROVE  b \div c <= a \div c
<1> DEFINE x == a \div c
           y == b \div c
<1>1. /\ x \in Nat /\ y \in Nat
      /\ c * y <= b /\ a < c * x + c
  BY DivBounds
<1> HIDE DEF x, y
<1>2. SUFFICES ASSUME y >= x + 1 PROVE FALSE BY <1>1 DEF x, y
<1>3. c * y >= c * (x + 1) BY <1>1, <1>2, Monotone
<1>4. c * (x + 1) = c * x + c BY <1>1
<1> QED BY <1>1, <1>3, <1>4, ProductPositive

----------------------------------------------------------------------------
(* Sums. *)

\* The coins of a ledger of finitely many holders are finitely many.
LEMMA CoinsFinite ==
    ASSUME NEW P, IsFiniteSet(P), NEW f \in [P -> Nat]
    PROVE  IsFiniteSet(Coins(f))
<1> DEFINE purse == [p \in P |-> {p} \X (1 .. f[p])]
           purses == {{p} \X (1 .. f[p]) : p \in DOMAIN f}
<1>1. purse \in Surjection(P, purses)
  BY Zenon DEF Surjection
<1>2. IsFiniteSet(purses)
  <2> HIDE DEF purse, purses
  <2> QED BY <1>1, FS_Surjection, Zenon
<1>3. ASSUME NEW T \in purses PROVE IsFiniteSet(T)
  <2>1. PICK p \in P : T = {p} \X (1 .. f[p])
    OBVIOUS
  <2>2. IsFiniteSet({p}) BY FS_Singleton, Zenon
  <2>3. f[p] \in Int /\ 1 \in Int OBVIOUS
  <2>4. IsFiniteSet(1 .. f[p]) BY <2>3, FS_Interval, Zenon
  <2> QED BY <2>1, <2>2, <2>4, FS_Product, Zenon
<1> QED BY <1>2, <1>3, FS_UNION, Zenon DEF Coins

\* The sum of a ledger is a natural number.
LEMMA TotalType ==
    ASSUME NEW P, IsFiniteSet(P), NEW f \in [P -> Nat]
    PROVE  Total(f) \in Nat
BY CoinsFinite, FS_CardinalityType, Zenon DEF Total

\* An empty ledger sums to zero.
LEMMA TotalEmpty ==
    ASSUME NEW P
    PROVE  Total([p \in P |-> 0]) = 0
<1>1. Coins([p \in P |-> 0]) = {} BY DEF Coins
<1> QED BY <1>1, FS_EmptySet, Zenon DEF Total

\* Giving n to one holder adds n to the sum.
LEMMA TotalAdd ==
    ASSUME NEW P, IsFiniteSet(P), NEW f \in [P -> Nat], NEW p \in P, NEW n \in Nat
    PROVE  Total(Add(f, p, n)) = Total(f) + n
<1> DEFINE g == [f EXCEPT ![p] = f[p] + n]
           new == {p} \X (f[p] + 1 .. f[p] + n)
<1>1. Coins(g) = Coins(f) \cup new
  <2>1. ASSUME NEW c \in Coins(g) PROVE c \in Coins(f) \cup new
    <3>1. PICK q \in P : c \in {q} \X (1 .. g[q]) BY DEF Coins
    <3>2. CASE q = p
      <4>1. PICK k \in 1 .. f[p] + n : c = <<p, k>> BY <3>1, <3>2
      <4> QED BY <4>1 DEF Coins
    <3>3. CASE q # p BY <3>1, <3>3 DEF Coins
    <3> QED BY <3>2, <3>3
  <2>2. ASSUME NEW c \in Coins(f) PROVE c \in Coins(g)
    <3>1. PICK q \in P : c \in {q} \X (1 .. f[q]) BY DEF Coins
    <3>2. 1 .. f[q] \subseteq 1 .. g[q] OBVIOUS
    <3>3. c \in {q} \X (1 .. g[q]) BY <3>1, <3>2
    <3> QED BY <3>3 DEF Coins
  <2>3. ASSUME NEW c \in new PROVE c \in Coins(g)
    <3>1. c \in {p} \X (1 .. g[p]) OBVIOUS
    <3> QED BY <3>1 DEF Coins
  <2> QED BY <2>1, <2>2, <2>3
<1>2. Coins(f) \cap new = {}
  <2>1. ASSUME NEW c \in Coins(f), c \in new PROVE FALSE
    <3>1. PICK q \in P : c \in {q} \X (1 .. f[q]) BY DEF Coins
    <3>2. c[1] = q /\ c[2] \in 1 .. f[q] BY <3>1
    <3>3. c[1] = p /\ c[2] \in f[p] + 1 .. f[p] + n BY <2>1
    <3> QED BY <3>2, <3>3
  <2> QED BY <2>1
<1>3. IsFiniteSet(new) /\ Cardinality(new) = n
  <2> DEFINE I == f[p] + 1 .. f[p] + n
  <2>1. IsFiniteSet(I) /\ Cardinality(I) = n
    <3> DEFINE a == f[p] + 1
               b == f[p] + n
    <3>1. a \in Int /\ b \in Int /\ (IF a > b THEN 0 ELSE b - a + 1) = n OBVIOUS
    <3> HIDE DEF a, b
    <3>2. /\ IsFiniteSet(a .. b)
          /\ Cardinality(a .. b) = IF a > b THEN 0 ELSE b - a + 1
      BY <3>1, FS_Interval, Zenon
    <3>3. IsFiniteSet(a .. b) /\ Cardinality(a .. b) = n BY <3>1, <3>2, Zenon
    <3> QED BY <3>3, Zenon DEF a, b
  <2>2. IsFiniteSet({p}) /\ Cardinality({p}) = 1 BY FS_Singleton, Zenon
  <2> HIDE DEF I
  <2>3. IsFiniteSet({p} \X I) /\ Cardinality({p} \X I) = 1 * Cardinality(I)
    BY <2>1, <2>2, FS_Product, Zenon
  <2> QED BY <2>1, <2>3 DEF I
<1> HIDE DEF new
<1>4. IsFiniteSet(Coins(f)) BY CoinsFinite, Zenon
<1>5. Cardinality(Coins(f) \cup new)
        = Cardinality(Coins(f)) + Cardinality(new) - Cardinality(Coins(f) \cap new)
  BY <1>3, <1>4, FS_Union, Zenon
<1>6. Cardinality(Coins(f)) \in Nat BY <1>4, FS_CardinalityType, Zenon
<1>7. Cardinality(Coins(f) \cap new) = 0 BY <1>2, FS_EmptySet, Zenon
<1>8. Cardinality(Coins(f)) + n - 0 = Cardinality(Coins(f)) + n BY <1>6
<1>9. Cardinality(Coins(g)) = Cardinality(Coins(f)) + n
  <2> HIDE DEF g
  <2> QED BY <1>1, <1>3, <1>5, <1>7, <1>8
<1> QED BY <1>9 DEF Total, Add

\* Taking n from one holder, who has it, takes n from the sum.
LEMMA TotalSub ==
    ASSUME NEW P, IsFiniteSet(P), NEW f \in [P -> Nat], NEW p \in P, NEW n \in Nat,
           n <= f[p]
    PROVE  /\ Total(Sub(f, p, n)) = Total(f) - n
           /\ Total(Sub(f, p, n)) \in Nat
<1> DEFINE g == Sub(f, p, n)
<1>1. g \in [P -> Nat] BY DEF Sub
<1>2. Add(g, p, n) = f
  <2>1. \A q \in P : Add(g, p, n)[q] = f[q] BY DEF Add, Sub
  <2> QED BY <2>1 DEF Add, Sub
<1> HIDE DEF g
<1>3. Total(Add(g, p, n)) = Total(g) + n BY <1>1, TotalAdd, Zenon
<1>4. Total(g) \in Nat /\ Total(f) \in Nat BY <1>1, TotalType, Zenon
<1>5. Total(g) = Total(f) - n BY <1>2, <1>3, <1>4
<1> QED BY <1>4, <1>5, Zenon DEF g

\* The sum of two ledgers, holder by holder.
LEMMA TotalSum ==
    ASSUME NEW P, IsFiniteSet(P), NEW f \in [P -> Nat], NEW g \in [P -> Nat]
    PROVE  Total([p \in P |-> f[p] + g[p]]) = Total(f) + Total(g)
<1> DEFINE h == [p \in P |-> f[p] + g[p]]
           new == {c \in Coins(h) : c[2] > f[c[1]]}
           m == [c \in Coins(g) |-> <<c[1], f[c[1]] + c[2]>>]
<1>1. h \in [P -> Nat] /\ \A p \in P : h[p] = f[p] + g[p] OBVIOUS
<1>2. ASSUME NEW k \in [P -> Nat], NEW c
      PROVE  c \in Coins(k) <=> \E p \in P : \E n \in 1 .. k[p] : c = <<p, n>>
  BY DEF Coins
<1>3. Coins(h) = Coins(f) \cup new
  <2> HIDE DEF h
  <2>1. ASSUME NEW c \in Coins(f) PROVE c \in Coins(h)
    <3>1. PICK p, n : p \in P /\ n \in 1 .. f[p] /\ c = <<p, n>> BY <1>2
    <3>2. n \in 1 .. h[p] BY <1>1, <3>1
    <3> QED BY <1>1, <1>2, <3>1, <3>2
  <2>2. ASSUME NEW c \in Coins(h), c \notin new PROVE c \in Coins(f)
    <3>1. PICK p, n : p \in P /\ n \in 1 .. h[p] /\ c = <<p, n>> BY <1>1, <1>2
    <3>2. n \in 1 .. f[p] BY <1>1, <2>2, <3>1
    <3> QED BY <1>2, <3>1, <3>2
  <2> QED BY <2>1, <2>2
<1>4. Coins(f) \cap new = {}
  <2>1. ASSUME NEW c \in Coins(f), c \in new PROVE FALSE
    <3>1. PICK p, n : p \in P /\ n \in 1 .. f[p] /\ c = <<p, n>> BY <1>2
    <3>2. c[1] = p /\ c[2] = n BY <3>1
    <3>3. n > f[p] BY <2>1, <3>2
    <3>4. f[p] \in Nat BY <3>1
    <3> QED BY <3>1, <3>3, <3>4
  <2> QED BY <2>1
<1>5. m \in Bijection(Coins(g), new)
  <2> HIDE DEF h
  <2>1. ASSUME NEW c \in Coins(g) PROVE m[c] \in new
    <3>1. PICK p, n : p \in P /\ n \in 1 .. g[p] /\ c = <<p, n>> BY <1>2
    <3>2. m[c] = <<p, f[p] + n>> BY <3>1
    <3>3. f[p] + n \in 1 .. h[p] /\ f[p] + n > f[p] BY <1>1, <3>1
    <3>4. m[c] \in Coins(h) BY <1>1, <1>2, <3>2, <3>3
    <3> HIDE DEF m
    <3> QED BY <3>2, <3>3, <3>4
  <2>2. ASSUME NEW c \in Coins(g), NEW d \in Coins(g), m[c] = m[d] PROVE c = d
    <3>1. PICK p, n : p \in P /\ n \in 1 .. g[p] /\ c = <<p, n>> BY <1>2
    <3>2. PICK q, k : q \in P /\ k \in 1 .. g[q] /\ d = <<q, k>> BY <1>2
    <3>3. m[c] = <<p, f[p] + n>> /\ m[d] = <<q, f[q] + k>> BY <3>1, <3>2
    <3>4. p = q /\ f[p] + n = f[q] + k BY <2>2, <3>3
    <3>5. n = k BY <3>1, <3>2, <3>4
    <3> QED BY <3>1, <3>2, <3>4, <3>5
  <2>3. ASSUME NEW d \in new PROVE \E c \in Coins(g) : m[c] = d
    <3>1. PICK p, k : p \in P /\ k \in 1 .. h[p] /\ d = <<p, k>> BY <1>1, <1>2
    <3>2. k > f[p] BY <3>1
    <3>3. k - f[p] \in 1 .. g[p] /\ f[p] + (k - f[p]) = k BY <1>1, <3>1, <3>2
    <3>4. <<p, k - f[p]>> \in Coins(g) BY <1>2, <3>1, <3>3
    <3>5. m[<<p, k - f[p]>>] = <<p, k>> BY <3>3, <3>4
    <3> QED BY <3>1, <3>4, <3>5
  <2>4. m \in [Coins(g) -> new]
    <3> HIDE DEF new
    <3> QED BY <2>1
  <2> HIDE DEF m, new
  <2> QED BY <2>2, <2>3, <2>4, Zenon DEF Bijection, Injection, Surjection, IsInjective
<1> HIDE DEF h, m, new
<1>6. IsFiniteSet(Coins(f)) /\ IsFiniteSet(Coins(g)) BY CoinsFinite, Zenon
<1>7. IsFiniteSet(new) /\ Cardinality(new) = Cardinality(Coins(g))
  BY <1>5, <1>6, FS_Bijection, Zenon DEF ExistsBijection
<1>8. Cardinality(Coins(f) \cup new)
        = Cardinality(Coins(f)) + Cardinality(new) - Cardinality(Coins(f) \cap new)
  BY <1>6, <1>7, FS_Union, Zenon
<1>9. Cardinality(Coins(f) \cap new) = 0 BY <1>4, FS_EmptySet, Zenon
<1>10. Cardinality(Coins(f)) \in Nat /\ Cardinality(Coins(g)) \in Nat
  BY <1>6, FS_CardinalityType, Zenon
<1>11. Cardinality(Coins(h)) = Cardinality(Coins(f)) + Cardinality(Coins(g))
  BY <1>3, <1>7, <1>8, <1>9, <1>10
<1> QED BY <1>11, Zenon DEF Total, h

\* When every holder who has something can be given a holder of his own in
\* another ledger, who has as much, the other sum is as large.
LEMMA TotalEmbeds ==
    ASSUME NEW P, NEW Q, IsFiniteSet(Q), NEW f \in [P -> Nat], NEW g \in [Q -> Nat],
           NEW r, \A p \in P : f[p] > 0 => r[p] \in Q /\ f[p] <= g[r[p]],
           \A p, q \in P : f[p] > 0 /\ f[q] > 0 /\ r[p] = r[q] => p = q
    PROVE  Total(f) <= Total(g)
<1> DEFINE m == [c \in Coins(f) |-> <<r[c[1]], c[2]>>]
<1>1. ASSUME NEW D, NEW k \in [D -> Nat], NEW c
      PROVE  c \in Coins(k) <=> \E p \in D : \E n \in 1 .. k[p] : c = <<p, n>>
  BY DEF Coins
<1>2. ASSUME NEW c \in Coins(f) PROVE m[c] \in Coins(g)
  <2>1. PICK p, n : p \in P /\ n \in 1 .. f[p] /\ c = <<p, n>> BY <1>1
  <2>2. f[p] \in Nat /\ f[p] > 0 BY <2>1
  <2>3. r[p] \in Q /\ n \in 1 .. g[r[p]] BY <2>1, <2>2
  <2>4. m[c] = <<r[p], n>> BY <2>1
  <2> QED BY <1>1, <2>3, <2>4
<1>3. ASSUME NEW c \in Coins(f), NEW d \in Coins(f), m[c] = m[d] PROVE c = d
  <2>1. PICK p, n : p \in P /\ n \in 1 .. f[p] /\ c = <<p, n>> BY <1>1
  <2>2. PICK q, k : q \in P /\ k \in 1 .. f[q] /\ d = <<q, k>> BY <1>1
  <2>3. m[c] = <<r[p], n>> /\ m[d] = <<r[q], k>> BY <2>1, <2>2
  <2>4. r[p] = r[q] /\ n = k BY <1>3, <2>3
  <2>5. f[p] > 0 /\ f[q] > 0 BY <2>1, <2>2
  <2> QED BY <2>1, <2>2, <2>4, <2>5
<1>4. m \in Injection(Coins(f), Coins(g))
  <2>1. m \in [Coins(f) -> Coins(g)] BY <1>2
  <2> HIDE DEF m
  <2> QED BY <1>3, <2>1, Zenon DEF Injection, IsInjective
<1>5. IsFiniteSet(Coins(g)) BY CoinsFinite, Zenon
<1> HIDE DEF m
<1> QED BY <1>4, <1>5, FS_Injection, Zenon DEF Total

\* Ledgers whose holders with something correspond, each to one with as much,
\* have the same sum.
Reindexes(P, Q, f, g, r, s) ==
    /\ \A p \in P : f[p] > 0 => r[p] \in Q /\ f[p] = g[r[p]] /\ s[r[p]] = p
    /\ \A q \in Q : g[q] > 0 => s[q] \in P /\ g[q] = f[s[q]] /\ r[s[q]] = q

LEMMA TotalReindexed ==
    ASSUME NEW P, NEW Q, IsFiniteSet(P), IsFiniteSet(Q), NEW f \in [P -> Nat], NEW g \in [Q -> Nat],
           NEW r, NEW s, Reindexes(P, Q, f, g, r, s)
    PROVE  Total(f) = Total(g)
<1>1. Total(f) <= Total(g)
  <2>1. \A p \in P : f[p] > 0 => r[p] \in Q /\ f[p] <= g[r[p]] BY DEF Reindexes
  <2>2. \A p, q \in P : f[p] > 0 /\ f[q] > 0 /\ r[p] = r[q] => p = q BY DEF Reindexes
  <2> QED BY <2>1, <2>2, TotalEmbeds
<1>2. Total(g) <= Total(f)
  <2>1. \A q \in Q : g[q] > 0 => s[q] \in P /\ g[q] <= f[s[q]] BY DEF Reindexes
  <2>2. \A p, q \in Q : g[p] > 0 /\ g[q] > 0 /\ s[p] = s[q] => p = q BY DEF Reindexes
  <2> QED BY <2>1, <2>2, TotalEmbeds
<1>3. Total(f) \in Nat /\ Total(g) \in Nat BY TotalType, Zenon
<1> QED BY <1>1, <1>2, <1>3

\* Holders without anything do not count.
LEMMA TotalPadded ==
    ASSUME NEW Q, IsFiniteSet(Q), NEW P \in SUBSET Q, NEW f \in [P -> Nat]
    PROVE  /\ [q \in Q |-> IF q \in P THEN f[q] ELSE 0] \in [Q -> Nat]
           /\ Total([q \in Q |-> IF q \in P THEN f[q] ELSE 0]) = Total(f)
<1> DEFINE g == [q \in Q |-> IF q \in P THEN f[q] ELSE 0]
           same == [q \in Q |-> q]
<1>1. g \in [Q -> Nat] OBVIOUS
<1>2. \A p \in P : f[p] > 0 => same[p] \in Q /\ f[p] = g[same[p]] /\ same[same[p]] = p OBVIOUS
<1>3. \A q \in Q : g[q] > 0 => same[q] \in P /\ g[q] = f[same[q]] /\ same[same[q]] = q OBVIOUS
<1>4. IsFiniteSet(P) BY FS_Subset, Zenon
<1> HIDE DEF g, same
<1>5. Reindexes(P, Q, f, g, same, same) BY <1>2, <1>3 DEF Reindexes
<1>6. Total(f) = Total(g) BY <1>1, <1>4, <1>5, TotalReindexed, Zenon
<1> QED BY <1>1, <1>6 DEF g

\* Ledgers that differ only in n more of one holder, who may be new.
LEMMA TotalPut ==
    ASSUME NEW P, IsFiniteSet(P), NEW f \in [P -> Nat], NEW x, NEW n \in Nat,
           NEW g \in [P \cup {x} -> Nat],
           \A p \in P : p # x => g[p] = f[p],
           g[x] = (IF x \in P THEN f[x] ELSE 0) + n
    PROVE  Total(g) = Total(f) + n
<1> DEFINE Q == P \cup {x}
           h == [q \in Q |-> IF q \in P THEN f[q] ELSE 0]
<1>1. IsFiniteSet(Q) BY FS_AddElement, Zenon
<1>2. P \in SUBSET Q /\ x \in Q OBVIOUS
<1>3. g = Add(h, x, n)
  <2>1. \A q \in Q : g[q] = Add(h, x, n)[q] BY DEF Add
  <2> QED BY <2>1 DEF Add
<1>4. g \in [Q -> Nat] OBVIOUS
<1> HIDE DEF Q
<1>5. h \in [Q -> Nat] /\ Total(h) = Total(f) BY <1>1, <1>2, TotalPadded
<1> HIDE DEF h
<1>6. Total(Add(h, x, n)) = Total(h) + n BY <1>1, <1>2, <1>5, TotalAdd
<1> QED BY <1>3, <1>5, <1>6

\* A ledger without holders sums to zero.
LEMMA TotalOfNobody ==
    ASSUME NEW f, DOMAIN f = {}
    PROVE  Total(f) = 0
<1>1. Coins(f) = {} BY DEF Coins
<1> QED BY <1>1, FS_EmptySet, Zenon DEF Total

\* The sum is that of some of the holders and that of the others.
LEMMA TotalSplit ==
    ASSUME NEW P, IsFiniteSet(P), NEW f \in [P -> Nat], NEW A \in SUBSET P
    PROVE  Total(f) = Total([p \in A |-> f[p]]) + Total([p \in P \ A |-> f[p]])
<1> DEFINE g == [p \in A |-> f[p]]
           h == [p \in P \ A |-> f[p]]
           gg == [p \in P |-> IF p \in A THEN g[p] ELSE 0]
           hh == [p \in P |-> IF p \in P \ A THEN h[p] ELSE 0]
<1>1. g \in [A -> Nat] /\ h \in [P \ A -> Nat] /\ P \ A \in SUBSET P OBVIOUS
<1>2. f = [p \in P |-> gg[p] + hh[p]]
  <2>1. \A p \in P : f[p] = gg[p] + hh[p] OBVIOUS
  <2> QED BY <2>1
<1> HIDE DEF g, h
<1>3. gg \in [P -> Nat] /\ Total(gg) = Total(g) BY <1>1, TotalPadded
<1>4. hh \in [P -> Nat] /\ Total(hh) = Total(h) BY <1>1, TotalPadded
<1> HIDE DEF gg, hh
<1>5. Total(f) = Total(gg) + Total(hh) BY <1>2, <1>3, <1>4, TotalSum, Zenon
<1> QED BY <1>3, <1>4, <1>5 DEF g, h

\* Who has less of everything has less in total.
LEMMA TotalMonotone ==
    ASSUME NEW P, IsFiniteSet(P), NEW f \in [P -> Nat], NEW g \in [P -> Nat],
           \A p \in P : f[p] <= g[p]
    PROVE  Total(f) <= Total(g)
<1> DEFINE same == [p \in P |-> p]
<1>1. \A p \in P : f[p] > 0 => same[p] \in P /\ f[p] <= g[same[p]] OBVIOUS
<1>2. \A p, q \in P : f[p] > 0 /\ f[q] > 0 /\ same[p] = same[q] => p = q OBVIOUS
<1> HIDE DEF same
<1> QED BY <1>1, <1>2, TotalEmbeds, Zenon

\* A balance after a change is a balance, and only one holder's changed.
LEMMA AddType ==
    ASSUME NEW P, NEW f \in [P -> Nat], NEW p \in P, NEW n \in Nat
    PROVE  /\ Add(f, p, n) \in [P -> Nat]
           /\ \A q \in P : q # p => Add(f, p, n)[q] = f[q]
BY DEF Add

LEMMA SubType ==
    ASSUME NEW P, NEW f \in [P -> Nat], NEW p \in P, NEW n \in Nat, n <= f[p]
    PROVE  /\ Sub(f, p, n) \in [P -> Nat]
           /\ \A q \in P : q # p => Sub(f, p, n)[q] = f[q]
BY DEF Sub

----------------------------------------------------------------------------
(* Least and greatest. *)

\* The numbers are well ordered.
LEMMA LeastExists ==
    ASSUME NEW S, S \subseteq Nat, S # {}
    PROVE  \E x \in S : \A y \in S : x <= y
<1> DEFINE R == OpToRel(<, Nat)
<1>1. IsWellFoundedOn(R, Nat) BY NatLessThanWellFounded, Zenon
<1>2. \A x, y \in Nat : x < y => <<x, y>> \in R BY DEF OpToRel
<1> HIDE DEF R
<1>3. PICK x \in S : \A y \in S : ~ (<<y, x>> \in R) BY <1>1, WFMin, Zenon
<1>4. ASSUME NEW y \in S PROVE x <= y
  <2>1. ~(y < x) BY <1>2, <1>3
  <2> QED BY <2>1
<1> QED BY <1>4

\* Induction up to n: what holds at 0 and is handed on holds up to n.
LEMMA InductionTo ==
    ASSUME NEW n \in Nat, NEW S, 0 \in S, \A i \in 0 .. n - 1 : i \in S => i + 1 \in S
    PROVE  0 .. n \subseteq S
<1> DEFINE bad == {i \in 0 .. n : i \notin S}
<1> SUFFICES bad = {} OBVIOUS
<1>1. SUFFICES ASSUME bad # {} PROVE FALSE OBVIOUS
<1>2. bad \subseteq Nat OBVIOUS
<1>3. PICK x \in bad : \A y \in bad : x <= y
  <2> HIDE DEF bad
  <2> QED BY <1>1, <1>2, LeastExists, Zenon
<1>4. x \in 1 .. n
  <2>1. x \in 0 .. n /\ x # 0 OBVIOUS
  <2> QED BY <2>1
<1>5. x - 1 \in 0 .. n - 1 /\ x - 1 \in 0 .. n /\ (x - 1) + 1 = x BY <1>4
<1>6. x - 1 \in S
  <2>1. ~ (x <= x - 1) BY <1>4
  <2>2. x - 1 \notin bad BY <1>3, <2>1, Zenon
  <2> QED BY <1>5, <2>2
<1> QED BY <1>5, <1>6

\* f runs n steps from base, in V.
Follows(f, n, V, base, step) ==
    /\ f \in [0 .. n -> V]
    /\ f[0] = base
    /\ \A i \in 1 .. n : f[i] = step[i][f[i - 1]]

\* A recursion that stays in V can be run n steps from any value of V.
LEMMA RecursionExists ==
    ASSUME NEW n \in Nat, NEW V, NEW base \in V, NEW step \in [1 .. n -> [V -> V]]
    PROVE  \E f : Follows(f, n, V, base, step)
<1> DEFINE Runs(k) == {f \in [0 .. k -> V] :
                          /\ f[0] = base
                          /\ \A i \in 1 .. k : f[i] = step[i][f[i - 1]]}
           S == {k \in 0 .. n : Runs(k) # {}}
<1>1. 0 \in S
  <2>1. [i \in 0 .. 0 |-> base] \in Runs(0) OBVIOUS
  <2>2. 0 \in 0 .. n OBVIOUS
  <2> QED BY <2>1, <2>2
<1>2. ASSUME NEW k \in 0 .. n - 1, k \in S PROVE k + 1 \in S
  <2>1. PICK f : f \in Runs(k) BY <1>2
  <2>2. k \in Nat /\ k + 1 \in 1 .. n /\ k + 1 \in 0 .. n /\ (k + 1) - 1 = k
    OBVIOUS
  <2>3. f \in [0 .. k -> V] /\ f[k] \in V BY <2>1, <2>2
  <2> DEFINE v == step[k + 1][f[k]]
             g == [i \in 0 .. k + 1 |-> IF i = k + 1 THEN v ELSE f[i]]
  <2>4. v \in V
    <3>1. step[k + 1] \in [V -> V] BY <2>2
    <3> QED BY <2>3, <3>1
  <2>5. g \in [0 .. k + 1 -> V]
    <3>1. ASSUME NEW i \in 0 .. k + 1, i # k + 1 PROVE f[i] \in V
      <4>1. i \in 0 .. k BY <2>2, <3>1
      <4> QED BY <2>3, <4>1
    <3> QED BY <2>4, <3>1
  <2>6. g[0] = base
    <3>1. 0 \in 0 .. k + 1 /\ 0 # k + 1 BY <2>2
    <3> QED BY <2>1, <3>1
  <2>7. ASSUME NEW i \in 1 .. k + 1 PROVE g[i] = step[i][g[i - 1]]
    <3>1. i \in 0 .. k + 1 /\ i - 1 \in 0 .. k + 1 /\ i - 1 # k + 1 BY <2>2
    <3>2. g[i - 1] = f[i - 1] BY <3>1
    <3>3. CASE i = k + 1
      <4>1. g[i] = step[k + 1][f[k]] /\ i - 1 = k BY <2>2, <3>1, <3>3
      <4> HIDE DEF g
      <4> QED BY <3>2, <3>3, <4>1
    <3>4. CASE i # k + 1
      <4>1. g[i] = f[i] /\ i \in 1 .. k BY <2>2, <3>1, <3>4
      <4>2. f[i] = step[i][f[i - 1]] BY <2>1, <4>1
      <4> HIDE DEF g
      <4> QED BY <3>2, <4>1, <4>2
    <3> QED BY <3>3, <3>4
  <2>8. g \in Runs(k + 1)
    <3> HIDE DEF g
    <3> QED BY <2>5, <2>6, <2>7
  <2> QED BY <2>2, <2>8
<1>3. n \in S
  <2>1. \A k \in 0 .. n - 1 : k \in S => k + 1 \in S BY <1>2
  <2>2. n \in 0 .. n OBVIOUS
  <2> HIDE DEF S
  <2>3. 0 .. n \subseteq S BY <1>1, <2>1, InductionTo, Zenon
  <2> QED BY <2>2, <2>3
<1>4. PICK f : f \in Runs(n) BY <1>3
<1>5. Follows(f, n, V, base, step) BY <1>4 DEF Follows
<1> QED BY <1>5

\* A function defined by a recursion that stays in V runs it.
LEMMA RecursionFollows ==
    ASSUME NEW n \in Nat, NEW V, NEW base \in V, NEW step \in [1 .. n -> [V -> V]],
           NEW f, f = [i \in 0 .. n |-> f[i]], f[0] = base,
           \A i \in 1 .. n : f[i - 1] \in V => f[i] = step[i][f[i - 1]]
    PROVE  Follows(f, n, V, base, step)
<1> DEFINE S == {i \in 0 .. n : f[i] \in V}
<1>1. 0 \in S
  <2>1. 0 \in 0 .. n OBVIOUS
  <2> QED BY <2>1
<1>2. ASSUME NEW i \in 0 .. n - 1, i \in S PROVE i + 1 \in S
  <2>1. i + 1 \in 0 .. n /\ i + 1 \in 1 .. n /\ (i + 1) - 1 = i OBVIOUS
  <2>2. f[i + 1] = step[i + 1][f[i]] /\ f[i] \in V BY <1>2, <2>1
  <2>3. step[i + 1] \in [V -> V] BY <2>1
  <2> QED BY <2>1, <2>2, <2>3
<1>3. 0 .. n \subseteq S
  <2>1. \A i \in 0 .. n - 1 : i \in S => i + 1 \in S BY <1>2
  <2> HIDE DEF S
  <2> QED BY <1>1, <2>1, InductionTo, Zenon
<1>4. \A i \in 1 .. n : i - 1 \in 0 .. n OBVIOUS
<1> QED BY <1>3, <1>4 DEF Follows

\* Two runs agree as long as their steps do.
LEMMA RunsAgree ==
    ASSUME NEW n \in Nat, NEW m \in 0 .. n, NEW V, NEW base, NEW s, NEW t, NEW f, NEW g,
           Follows(f, n, V, base, s), Follows(g, m, V, base, t), \A i \in 1 .. m : s[i] = t[i]
    PROVE  f[m] = g[m]
<1> DEFINE S == {i \in 0 .. m : f[i] = g[i]}
<1>1. 0 \in S
  <2>1. 0 \in 0 .. m OBVIOUS
  <2> QED BY <2>1 DEF Follows
<1>2. ASSUME NEW i \in 0 .. m - 1, i \in S PROVE i + 1 \in S
  <2>1. i + 1 \in 0 .. m /\ i + 1 \in 1 .. m /\ i + 1 \in 1 .. n /\ (i + 1) - 1 = i OBVIOUS
  <2>2. f[i + 1] = s[i + 1][f[i]] /\ g[i + 1] = t[i + 1][g[i]] BY <2>1 DEF Follows
  <2> QED BY <1>2, <2>1, <2>2
<1>3. 0 .. m \subseteq S
  <2>1. \A i \in 0 .. m - 1 : i \in S => i + 1 \in S BY <1>2
  <2>2. m \in Nat OBVIOUS
  <2> HIDE DEF S
  <2> QED BY <1>1, <2>1, <2>2, InductionTo, Zenon
<1>4. m \in 0 .. m OBVIOUS
<1> QED BY <1>3, <1>4

LEMMA LeastIsLeast ==
    ASSUME NEW S, S \subseteq Nat, S # {}
    PROVE  Least(S) \in S /\ \A y \in S : Least(S) <= y
BY LeastExists, Zenon DEF Least

\* A set with a bound has a greatest number: its least bound.
LEMMA GreatestIsGreatest ==
    ASSUME NEW S, S \subseteq Nat, S # {}, NEW n \in Nat, \A y \in S : y <= n
    PROVE  Greatest(S) \in S /\ \A y \in S : y <= Greatest(S)
<1> DEFINE bounds == {u \in Nat : \A y \in S : y <= u}
<1>1. PICK u \in bounds : \A w \in bounds : u <= w
  <2>1. bounds \subseteq Nat /\ n \in bounds OBVIOUS
  <2> HIDE DEF bounds
  <2> QED BY <2>1, LeastExists
<1>2. u \in S
  <2>1. SUFFICES ASSUME u \notin S PROVE FALSE OBVIOUS
  <2>2. \A y \in S : y <= u /\ y # u /\ y \in Nat BY <2>1
  <2>3. u > 0
    <3>1. PICK y \in S : TRUE OBVIOUS
    <3>2. y \in Nat /\ u \in Nat /\ y <= u /\ y # u BY <2>2
    <3> QED BY <3>2
  <2>4. u - 1 \in bounds BY <2>2, <2>3
  <2> QED BY <1>1, <2>4
<1>3. \E x \in S : \A y \in S : y <= x BY <1>2
<1> QED BY <1>3, Zenon DEF Greatest

----------------------------------------------------------------------------
(* The runs and gaps of an Ordinal store. *)

\* The run of an item ends at an item, has no gap, and is followed by one.
LEMMA RunEnds ==
    ASSUME NEW items, NEW n \in Nat, items \subseteq 1 .. n, NEW v \in items
    PROVE  /\ EndOfRun(items, v) \in items
           /\ v <= EndOfRun(items, v)
           /\ v .. EndOfRun(items, v) \subseteq items
           /\ EndOfRun(items, v) + 1 \notin items
<1> DEFINE S == {m \in items : v .. m \subseteq items}
           e == Greatest(S)
<1>1. S \subseteq Nat /\ \A y \in S : y <= n
  <2>1. \A y \in items : y \in Nat /\ y <= n OBVIOUS
  <2> QED BY <2>1
<1>2. v \in S
  <2>1. v .. v = {v} OBVIOUS
  <2> QED BY <2>1
<1>3. e \in S /\ \A y \in S : y <= e
  <2> HIDE DEF S
  <2> QED BY <1>1, <1>2, GreatestIsGreatest
<1>4. e \in items /\ v <= e /\ v .. e \subseteq items BY <1>2, <1>3
<1>5. e + 1 \notin items
  <2>1. SUFFICES ASSUME e + 1 \in items PROVE FALSE OBVIOUS
  <2> HIDE DEF e, S
  <2>2. e \in Nat BY <1>4
  <2>3. v .. (e + 1) = (v .. e) \cup {e + 1} BY <1>4, <2>2
  <2>4. e + 1 \in S BY <1>4, <2>1, <2>3 DEF S
  <2> QED BY <1>3, <2>2, <2>4
<1> QED BY <1>4, <1>5 DEF EndOfRun

\* What is missing lies in range and is not there.
LEMMA MissingAreGaps ==
    ASSUME NEW items, NEW n \in Nat, items \subseteq 1 .. n, NEW max
    PROVE  /\ MissingItems(items, max) \subseteq 1 .. n
           /\ MissingItems(items, max) \cap items = {}
<1>1. ASSUME NEW g \in Gaps(items) PROVE g \in 1 .. n /\ g \notin items
  <2>1. PICK i \in items : g \in 1 .. i BY DEF Gaps
  <2> QED BY <2>1 DEF Gaps
<1> QED BY <1>1 DEF MissingItems

\* Nothing is missing from nothing.
LEMMA NothingMissing ==
    ASSUME NEW max
    PROVE  MissingItems({}, max) = {}
BY DEF MissingItems, Gaps

\* The items from c on without a gap, at most k of them, form an interval.
RunFrom(items, c, k) == {v \in items : c <= v /\ v < c + k /\ c .. v \subseteq items}

LEMMA RunIsInterval ==
    ASSUME NEW items, NEW n \in Nat, items \subseteq 1 .. n,
           NEW c \in Nat \ {0}, NEW k \in Int
    PROVE  /\ IsFiniteSet(RunFrom(items, c, k)) /\ Cardinality(RunFrom(items, c, k)) \in Nat
           /\ RunFrom(items, c, k) = c .. (c + Cardinality(RunFrom(items, c, k)) - 1)
           /\ k >= 0 => Cardinality(RunFrom(items, c, k)) <= k
<1> DEFINE run == RunFrom(items, c, k)
<1> SUFFICES /\ IsFiniteSet(run) /\ Cardinality(run) \in Nat
             /\ run = c .. (c + Cardinality(run) - 1)
             /\ k >= 0 => Cardinality(run) <= k
  BY Zenon
<1>1. run = {v \in items : c <= v /\ v < c + k /\ c .. v \subseteq items} BY Zenon DEF RunFrom
<1> HIDE DEF run
<1>2. CASE run = {}
  <2>1. IsFiniteSet(run) /\ Cardinality(run) = 0 BY <1>2, FS_EmptySet, Zenon
  <2>2. c .. (c + 0 - 1) = {} OBVIOUS
  <2>3. run = c .. (c + Cardinality(run) - 1) BY <1>2, <2>1, <2>2, Zenon
  <2> QED BY <2>1, <2>3
<1>3. CASE run # {}
  <2> DEFINE g == Greatest(run)
  <2>1. run \subseteq Nat /\ \A y \in run : y <= n
    <3>1. \A y \in items : y \in Nat /\ y <= n OBVIOUS
    <3> QED BY <1>1, <3>1
  <2>2. g \in run /\ \A y \in run : y <= g BY <1>3, <2>1, GreatestIsGreatest
  <2>3. g \in Nat /\ c <= g /\ g < c + k /\ c .. g \subseteq items BY <1>1, <2>1, <2>2
  <2> HIDE DEF g
  <2>4. run = c .. g
    <3>1. ASSUME NEW y \in run PROVE y \in c .. g BY <1>1, <2>1, <2>2, <2>3
    <3>2. ASSUME NEW y \in c .. g PROVE y \in run
      <4>1. y \in items /\ y \in Nat /\ c <= y /\ y <= g BY <2>3
      <4>2. c .. y \subseteq c .. g BY <2>3, <4>1
      <4> QED BY <1>1, <2>3, <4>1, <4>2
    <3> QED BY <3>1, <3>2
  <2>5. /\ IsFiniteSet(c .. g)
        /\ Cardinality(c .. g) = IF c > g THEN 0 ELSE g - c + 1
    <3>1. c \in Int /\ g \in Int BY <2>3
    <3> QED BY <3>1, FS_Interval, Zenon
  <2>6. IsFiniteSet(run) /\ Cardinality(run) = Cardinality(c .. g) BY <2>4, <2>5, Zenon
  <2>7. Cardinality(run) = g - c + 1 BY <2>3, <2>5, <2>6
  <2>8. c + Cardinality(run) - 1 = g /\ Cardinality(run) \in Nat BY <2>3, <2>7
  <2>9. k >= 0 => Cardinality(run) <= k BY <2>3, <2>7
  <2>10. run = c .. (c + Cardinality(run) - 1) BY <2>4, <2>8, Zenon
  <2> QED BY <2>6, <2>8, <2>9, <2>10
<1> QED BY <1>2, <1>3

================================================================================
