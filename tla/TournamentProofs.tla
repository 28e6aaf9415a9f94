---------------------------- MODULE TournamentProofs ---------------------------
(***************************************************************************)
(* The books of the casino balance, prizes are paid out of what was        *)
(* issued, nobody is left behind in a tournament and the leaderboards show *)
(* what players have, for any players, sessions, tournaments, bets and     *)
(* results, and any number of days.                                        *)
(***************************************************************************)
EXTENDS Tournament, DataTheorems, SequenceTheorems

----------------------------------------------------------------------------
(* The shares of a prize. *)

\* The weights 1/r, scaled by a common multiple F, and their sums s.
Weighs(k, F, s) ==
    /\ F \in Nat \ {0}
    /\ s \in [0 .. k -> Nat]
    /\ s[0] = 0
    /\ \A n \in 1 .. k : s[n] = F \div n + s[n - 1]

\* What Share computes: its two recursions are well founded.
LEMMA ShareIsDefined ==
    ASSUME NEW k \in Nat
    PROVE  \E F, s : /\ Weighs(k, F, s)
                     /\ \A pool, r : Share(pool, k, r) = (pool * (F \div r)) \div s[k]
<1> DEFINE IsFact(f) == f = [n \in 0 .. k |-> IF n = 0 THEN 1 ELSE n * f[n - 1]]
           fact == CHOOSE f : IsFact(f)
           IsSum(f) == f = [n \in 0 .. k |->
                              IF n = 0 THEN 0 ELSE fact[k] \div n + f[n - 1]]
           sum == CHOOSE f : IsSum(f)
<1>1. \A pool, r : Share(pool, k, r) = (pool * (fact[k] \div r)) \div sum[k]
  BY Zenon DEF Share
<1>2. IsFact(fact) /\ fact[k] \in Nat \ {0}
  <2> DEFINE V == Nat \ {0}
             step == [i \in 1 .. k |-> [v \in V |-> i * v]]
  <2>1. step \in [1 .. k -> [V -> V]] BY ProductPositive
  <2>2. 1 \in V OBVIOUS
  <2>3. \A i \in 1 .. k, v \in V : step[i][v] = i * v OBVIOUS
  <2> HIDE DEF V, step
  <2>4. PICK g : Follows(g, k, V, 1, step) BY <2>1, <2>2, RecursionExists, Zenon
  <2>5. ASSUME NEW n \in 0 .. k PROVE g[n] = IF n = 0 THEN 1 ELSE n * g[n - 1]
    <3>1. CASE n = 0 BY <2>4, <3>1 DEF Follows
    <3>2. CASE n # 0
      <4>1. n \in 1 .. k /\ n - 1 \in 0 .. k BY <3>2
      <4>2. g[n] = step[n][g[n - 1]] /\ g[n - 1] \in V BY <2>4, <4>1 DEF Follows
      <4> QED BY <2>3, <3>2, <4>1, <4>2
    <3> QED BY <3>1, <3>2
  <2>6. g = [n \in 0 .. k |-> g[n]] BY <2>4 DEF Follows
  <2>7. IsFact(g) BY <2>5, <2>6
  <2>8. IsFact(fact) BY <2>7, Zenon
  <2> HIDE DEF fact
  <2>9. \A n \in 0 .. k : fact[n] = IF n = 0 THEN 1 ELSE n * fact[n - 1] BY <2>8
  <2> DEFINE S == {n \in 0 .. k : fact[n] \in Nat \ {0}}
  <2>10. 0 \in S
    <3>1. 0 \in 0 .. k OBVIOUS
    <3> QED BY <2>9, <3>1
  <2>11. ASSUME NEW n \in 0 .. k - 1, n \in S PROVE n + 1 \in S
    <3>1. n + 1 \in 0 .. k /\ n + 1 # 0 /\ (n + 1) - 1 = n /\ n + 1 \in Nat OBVIOUS
    <3>2. fact[n + 1] = (n + 1) * fact[n] BY <2>9, <3>1
    <3>3. fact[n] \in Nat /\ fact[n] > 0 BY <2>11
    <3>4. (n + 1) * fact[n] \in Nat /\ (n + 1) * fact[n] > 0 BY <3>1, <3>3, ProductPositive
    <3> QED BY <3>1, <3>2, <3>4
  <2>12. 0 .. k \subseteq S
    <3>1. \A n \in 0 .. k - 1 : n \in S => n + 1 \in S BY <2>11
    <3> HIDE DEF S
    <3> QED BY <2>10, <3>1, InductionTo, Zenon
  <2>13. k \in 0 .. k OBVIOUS
  <2> QED BY <2>8, <2>12, <2>13
<1> DEFINE F == fact[k]
<1>3. F \in Nat \ {0} BY <1>2
<1> HIDE DEF fact
<1>4. IsSum(sum)
  <2> DEFINE step == [i \in 1 .. k |-> [v \in Nat |-> F \div i + v]]
  <2>1. step \in [1 .. k -> [Nat -> Nat]]
    <3>1. ASSUME NEW i \in 1 .. k PROVE F \div i \in Nat BY <1>3, DivBounds
    <3> HIDE DEF F
    <3> QED BY <3>1
  <2>2. \A i \in 1 .. k, v \in Nat : step[i][v] = F \div i + v OBVIOUS
  <2> HIDE DEF F, step
  <2>3. 0 \in Nat OBVIOUS
  <2>4. PICK g : Follows(g, k, Nat, 0, step) BY <2>1, <2>3, RecursionExists, Zenon
  <2>5. ASSUME NEW n \in 0 .. k PROVE g[n] = IF n = 0 THEN 0 ELSE F \div n + g[n - 1]
    <3>1. CASE n = 0 BY <2>4, <3>1 DEF Follows
    <3>2. CASE n # 0
      <4>1. n \in 1 .. k /\ n - 1 \in 0 .. k BY <3>2
      <4>2. g[n] = step[n][g[n - 1]] /\ g[n - 1] \in Nat BY <2>4, <4>1 DEF Follows
      <4> QED BY <2>2, <3>2, <4>1, <4>2
    <3> QED BY <3>1, <3>2
  <2>6. g = [n \in 0 .. k |-> g[n]] BY <2>4 DEF Follows
  <2>7. IsSum(g) BY <2>5, <2>6 DEF F
  <2> QED BY <2>7, Zenon
<1> HIDE DEF sum
<1>5. Weighs(k, F, sum)
  <2>1. \A n \in 0 .. k : sum[n] = IF n = 0 THEN 0 ELSE F \div n + sum[n - 1] BY <1>4
  <2>2. sum = [n \in 0 .. k |-> sum[n]] BY <1>4
  <2> HIDE DEF F
  <2>3. 0 \in 0 .. k /\ \A n \in 1 .. k : n \in 0 .. k /\ n # 0 OBVIOUS
  <2>4. sum[0] = 0 /\ \A n \in 1 .. k : sum[n] = F \div n + sum[n - 1] BY <2>1, <2>3
  <2> DEFINE S == {n \in 0 .. k : sum[n] \in Nat}
  <2>5. 0 \in S BY <2>3, <2>4
  <2>6. ASSUME NEW n \in 0 .. k - 1, n \in S PROVE n + 1 \in S
    <3>1. n + 1 \in 0 .. k /\ n + 1 \in 1 .. k /\ (n + 1) - 1 = n OBVIOUS
    <3>2. F \div (n + 1) \in Nat BY <1>3, <3>1, DivBounds
    <3>3. sum[n + 1] = F \div (n + 1) + sum[n] BY <2>4, <3>1
    <3>4. sum[n] \in Nat BY <2>6
    <3> QED BY <3>1, <3>2, <3>3, <3>4
  <2>7. 0 .. k \subseteq S
    <3>1. \A n \in 0 .. k - 1 : n \in S => n + 1 \in S BY <2>6
    <3> HIDE DEF S
    <3> QED BY <2>5, <3>1, InductionTo, Zenon
  <2>8. sum \in [0 .. k -> Nat] BY <2>2, <2>7
  <2> QED BY <1>3, <2>4, <2>8 DEF Weighs
<1> QED BY <1>1, <1>5, Zenon

\* The sum of the weights is positive as soon as there is a winner.
LEMMA WeightsPositive ==
    ASSUME NEW k \in Nat \ {0}, NEW F, NEW s, Weighs(k, F, s)
    PROVE  s[k] \in Nat /\ s[k] > 0
<1> DEFINE S == {n \in 0 .. k : n = 0 \/ (s[n] \in Nat /\ s[n] > 0)}
<1>1. 0 \in S
  <2>1. 0 \in 0 .. k OBVIOUS
  <2> QED BY <2>1
<1>2. ASSUME NEW n \in 0 .. k - 1, n \in S PROVE n + 1 \in S
  <2>1. n + 1 \in 0 .. k /\ n + 1 \in 1 .. k /\ (n + 1) - 1 = n /\ n \in 0 .. k OBVIOUS
  <2>2. s[n + 1] = F \div (n + 1) + s[n] /\ s[n] \in Nat BY <2>1 DEF Weighs
  <2>3. F \in Nat /\ F > 0 BY DEF Weighs
  <2>4. F \div (n + 1) \in Nat BY <2>1, <2>3, DivBounds
  <2>5. CASE n = 0
    <3>1. F \div 1 = F BY <2>3
    <3> QED BY <2>1, <2>2, <2>3, <2>5, <3>1
  <2>6. CASE n # 0 BY <1>2, <2>1, <2>2, <2>4, <2>6
  <2> QED BY <2>5, <2>6
<1>3. 0 .. k \subseteq S
  <2>1. \A n \in 0 .. k - 1 : n \in S => n + 1 \in S BY <1>2
  <2> HIDE DEF S
  <2> QED BY <1>1, <2>1, InductionTo, Zenon
<1>4. k \in 0 .. k /\ k # 0 OBVIOUS
<1> QED BY <1>3, <1>4

\* What the winners get in all is at most the prize: every share is rounded
\* down.
LEMMA SharesFit ==
    ASSUME NEW pool \in Nat, NEW k \in Nat
    PROVE  /\ \A r \in 1 .. k : Share(pool, k, r) \in Nat
           /\ Total([r \in 1 .. k |-> Share(pool, k, r)]) <= pool
<1>1. CASE k = 0
  <2>1. 1 .. k = {} BY <1>1
  <2>2. [r \in 1 .. k |-> Share(pool, k, r)] = [r \in 1 .. k |-> 0] BY <2>1
  <2>3. Total([r \in 1 .. k |-> 0]) = 0 BY TotalEmpty, Zenon
  <2> QED BY <2>1, <2>2, <2>3
<1>2. CASE k # 0
  <2>1. PICK F, s : /\ Weighs(k, F, s)
                    /\ \A q, r : Share(q, k, r) = (q * (F \div r)) \div s[k]
    BY ShareIsDefined, Zenon
  <2> DEFINE W == s[k]
  <2>2. k \in Nat \ {0} BY <1>2
  <2>3. W \in Nat /\ W > 0 BY <2>1, <2>2, WeightsPositive, Zenon
  <2>4. \A n \in 0 .. k : s[n] \in Nat BY <2>1 DEF Weighs
  <2> HIDE DEF W
  <2>5. ASSUME NEW r \in 1 .. k
        PROVE  /\ F \div r \in Nat
               /\ Share(pool, k, r) \in Nat
               /\ W * Share(pool, k, r) <= pool * (F \div r)
    <3>1. F \in Nat BY <2>1 DEF Weighs
    <3>2. F \div r \in Nat BY <3>1, DivBounds
    <3> DEFINE a == pool * (F \div r)
    <3>3. a \in Nat BY <3>2, ProductPositive
    <3>4. Share(pool, k, r) = a \div W BY <2>1 DEF W
    <3> HIDE DEF a
    <3>5. a \div W \in Nat /\ W * (a \div W) <= a BY <2>3, <3>3, DivBounds
    <3> QED BY <3>2, <3>4, <3>5 DEF a
  <2> DEFINE I == 1 .. k
             f == [r \in I |-> Share(pool, k, r)]
             part(n) == [r \in I |-> IF r <= n THEN Share(pool, k, r) ELSE 0]
             S == {n \in 0 .. k : W * Total(part(n)) <= pool * s[n]}
  <2>6. IsFiniteSet(I)
    <3>1. 1 \in Int /\ k \in Int OBVIOUS
    <3> QED BY <3>1, FS_Interval, Zenon
  <2>7. \A n \in 0 .. k : part(n) \in [I -> Nat] BY <2>5
  <2>8. \A n \in 0 .. k : Total(part(n)) \in Nat
    <3> HIDE DEF part, I
    <3> QED BY <2>6, <2>7, TotalType, Zenon
  <2>9. 0 \in S
    <3>1. part(0) = [r \in I |-> 0] OBVIOUS
    <3>2. Total([r \in I |-> 0]) = 0 BY TotalEmpty, Zenon
    <3>3. Total(part(0)) = 0 BY <3>1, <3>2, Zenon
    <3>4. 0 \in 0 .. k /\ s[0] = 0 BY <2>1 DEF Weighs
    <3> HIDE DEF part
    <3> QED BY <2>3, <3>3, <3>4
  <2>10. ASSUME NEW n \in 0 .. k - 1, n \in S PROVE n + 1 \in S
    <3>1. /\ n + 1 \in 0 .. k /\ n + 1 \in I /\ (n + 1) - 1 = n /\ n \in 0 .. k
          /\ n \in Nat
      OBVIOUS
    <3> DEFINE sh == Share(pool, k, n + 1)
               w == F \div (n + 1)
               T == Total(part(n))
    <3>2. sh \in Nat /\ w \in Nat /\ W * sh <= pool * w BY <2>5, <3>1
    <3>3. part(n + 1) = Add(part(n), n + 1, sh)
      <4>1. Add(part(n), n + 1, sh) = [r \in I |-> IF r = n + 1 THEN 0 + sh ELSE part(n)[r]]
        <5> DEFINE g == part(n)
        <5>1. g[n + 1] = 0 /\ g \in [I -> Nat] BY <2>7, <3>1
        <5> HIDE DEF g, sh, I
        <5>2. [g EXCEPT ![n + 1] = g[n + 1] + sh]
                = [r \in I |-> IF r = n + 1 THEN 0 + sh ELSE g[r]]
          BY <3>1, <5>1
        <5> QED BY <5>2 DEF Add, g
      <4>2. ASSUME NEW r \in I
            PROVE  (IF r <= n + 1 THEN Share(pool, k, r) ELSE 0)
                     = (IF r = n + 1 THEN 0 + sh ELSE part(n)[r])
        <5>1. CASE r = n + 1 BY <3>1, <3>2, <5>1
        <5>2. CASE r # n + 1 BY <3>1, <5>2
        <5> QED BY <5>1, <5>2
      <4>3. part(n + 1) = [r \in I |-> IF r = n + 1 THEN 0 + sh ELSE part(n)[r]]
        <5> HIDE DEF sh, I
        <5> QED BY <4>2
      <4> QED BY <4>1, <4>3, Zenon
    <3>4. Total(part(n + 1)) = T + sh
      <4> DEFINE g == part(n)
      <4>1. g \in [I -> Nat] BY <2>7, <3>1
      <4> HIDE DEF g, sh, I
      <4>2. Total(Add(g, n + 1, sh)) = Total(g) + sh BY <2>6, <3>1, <3>2, <4>1, TotalAdd, Zenon
      <4> QED BY <3>3, <4>2 DEF g
    <3>5. T \in Nat /\ W * T <= pool * s[n] /\ s[n] \in Nat /\ s[n + 1] = w + s[n]
      BY <2>1, <2>4, <2>8, <2>10, <3>1 DEF Weighs
    <3> HIDE DEF part, sh, w, T, I
    <3>6. W * (T + sh) = W * T + W * sh BY <2>3, <3>2, <3>5
    <3>7. pool * s[n + 1] = pool * w + pool * s[n] BY <3>2, <3>5
    <3>8. W * T \in Nat /\ W * sh \in Nat /\ pool * w \in Nat /\ pool * s[n] \in Nat
      BY <2>3, <3>2, <3>5, ProductPositive
    <3>9. W * Total(part(n + 1)) <= pool * s[n + 1] BY <3>2, <3>4, <3>5, <3>6, <3>7, <3>8
    <3> QED BY <3>1, <3>9
  <2>11. 0 .. k \subseteq S
    <3>1. \A n \in 0 .. k - 1 : n \in S => n + 1 \in S BY <2>10
    <3> HIDE DEF S
    <3> QED BY <2>9, <3>1, InductionTo, Zenon
  <2>12. k \in 0 .. k OBVIOUS
  <2>13. part(k) = f OBVIOUS
  <2>14. W * Total(f) <= pool * W /\ Total(f) \in Nat
    <3> HIDE DEF part, f
    <3> QED BY <2>8, <2>11, <2>12, <2>13 DEF W
  <2> HIDE DEF f, part
  <2>15. W * Total(f) <= W * pool BY <2>3, <2>14
  <2>16. Total(f) <= pool BY <2>3, <2>14, <2>15, Cancel
  <2> QED BY <2>5, <2>16 DEF f
<1> QED BY <1>1, <1>2

----------------------------------------------------------------------------
(* The ranking of a tournament. *)

\* What the ranking of a tournament needs.
Playable(t) ==
    /\ members[t] \in Seq(Players)
    /\ tchips \in [Players -> Nat]
    /\ prize[t] \in Nat

Ranked(t) == {i \in DOMAIN members[t] : members[t][i] \in registered}

\* The members who come before i.
Ahead(t, i) ==
    {j \in Ranked(t) : \/ tchips[members[t][j]] > tchips[members[t][i]]
                       \/ tchips[members[t][j]] = tchips[members[t][i]] /\ j < i}

LEMMA RankedFinite ==
    ASSUME NEW t, Playable(t)
    PROVE  /\ IsFiniteSet(Ranked(t)) /\ Ranked(t) \subseteq Nat
           /\ \A i \in Ranked(t) : members[t][i] \in Players /\ tchips[members[t][i]] \in Nat
<1>1. DOMAIN members[t] = 1 .. Len(members[t]) /\ Len(members[t]) \in Nat BY DEF Playable
<1>2. IsFiniteSet(1 .. Len(members[t]))
  <2>1. 1 \in Int /\ Len(members[t]) \in Int BY <1>1
  <2> QED BY <2>1, FS_Interval, Zenon
<1>3. Ranked(t) \in SUBSET (1 .. Len(members[t])) BY <1>1 DEF Ranked
<1>4. IsFiniteSet(Ranked(t)) BY <1>2, <1>3, FS_Subset, Zenon
<1>5. \A i \in 1 .. Len(members[t]) : members[t][i] \in Players BY ElementOfSeq DEF Playable
<1> QED BY <1>1, <1>3, <1>4, <1>5 DEF Playable

LEMMA RankIsAhead ==
    ASSUME NEW t, NEW i
    PROVE  Rank(t, i) = 1 + Cardinality(Ahead(t, i))
<1>1. {j \in DOMAIN members[t] :
          /\ members[t][j] \in registered
          /\ \/ tchips[members[t][j]] > tchips[members[t][i]]
             \/ tchips[members[t][j]] = tchips[members[t][i]] /\ j < i} = Ahead(t, i)
  BY DEF Ahead, Ranked
<1> QED BY <1>1 DEF Rank

\* Two members have two ranks.
LEMMA RanksDiffer ==
    ASSUME NEW t, Playable(t), NEW i \in Ranked(t), NEW j \in Ranked(t), i # j
    PROVE  Rank(t, i) \in Nat \ {0} /\ Rank(t, j) \in Nat \ {0} /\ Rank(t, i) # Rank(t, j)
<1>1. /\ IsFiniteSet(Ranked(t)) /\ i \in Nat /\ j \in Nat
      /\ \A k \in Ranked(t) : tchips[members[t][k]] \in Nat /\ k \in Nat
  BY RankedFinite
<1>2. ASSUME NEW k PROVE IsFiniteSet(Ahead(t, k)) /\ Cardinality(Ahead(t, k)) \in Nat
  <2>1. Ahead(t, k) \in SUBSET Ranked(t) BY DEF Ahead
  <2>2. IsFiniteSet(Ahead(t, k)) BY <1>1, <2>1, FS_Subset, Zenon
  <2> QED BY <2>2, FS_CardinalityType, Zenon
<1>3. ASSUME NEW a \in Ranked(t), NEW b \in Ranked(t), a \in Ahead(t, b)
      PROVE  Cardinality(Ahead(t, a)) # Cardinality(Ahead(t, b))
  <2>1. Ahead(t, a) \in SUBSET Ahead(t, b)
    <3>1. ASSUME NEW k \in Ahead(t, a) PROVE k \in Ahead(t, b)
      <4>1. k \in Ranked(t) BY DEF Ahead
      <4>2. /\ tchips[members[t][k]] \in Nat /\ tchips[members[t][a]] \in Nat
            /\ tchips[members[t][b]] \in Nat /\ k \in Nat /\ a \in Nat /\ b \in Nat
        BY <1>1, <4>1
      <4> QED BY <1>3, <4>1, <4>2 DEF Ahead
    <3> QED BY <3>1
  <2>2. a \notin Ahead(t, a)
    <3>2. \A x \in Nat : ~ (x < x) /\ ~ (x > x) OBVIOUS
    <3>1. ~ (a < a) /\ ~ (tchips[members[t][a]] > tchips[members[t][a]]) BY <1>1, <3>2, Zenon
    <3> QED BY <3>1, Zenon DEF Ahead
  <2>3. Ahead(t, a) # Ahead(t, b) BY <1>3, <2>2
  <2> QED BY <1>2, <2>1, <2>3, FS_Subset, Zenon
<1>4. i \in Ahead(t, j) \/ j \in Ahead(t, i)
  <2>1. tchips[members[t][i]] \in Nat /\ tchips[members[t][j]] \in Nat BY <1>1
  <2> QED BY <1>1, <2>1 DEF Ahead
<1>5. Cardinality(Ahead(t, i)) # Cardinality(Ahead(t, j)) BY <1>3, <1>4
<1> QED BY <1>2, <1>5, RankIsAhead

LEMMA WinnersType == ASSUME NEW n \in Nat PROVE NumWinners(n) \in Nat
<1>1. WinnersPercent \in Nat BY TournamentAssumption
<1>2. n * WinnersPercent \in Nat BY <1>1, ProductPositive
<1>3. n * WinnersPercent + 99 \in Nat BY <1>2
<1> DEFINE a == n * WinnersPercent + 99
<1> HIDE DEF a
<1>4. a \in Nat => a \div 100 \in Nat OBVIOUS
<1> QED BY <1>3, <1>4 DEF NumWinners, a

\* The prizes of a tournament go to registered players and are, in all, at
\* most its prize.
LEMMA PrizesFit ==
    ASSUME NEW t, Playable(t)
    PROVE  /\ Prizes(t) \in [Players -> Nat]
           /\ Total(Prizes(t)) <= prize[t]
           /\ \A p \in Players : p \notin registered => Prizes(t)[p] = 0
<1> DEFINE k == NumWinners(Cardinality(Ranked(t)))
           won(p) == {i \in Ranked(t) : members[t][i] = p /\ Rank(t, i) <= k}
           at(p) == CHOOSE i \in won(p) : TRUE
           f == [p \in Players |->
                   IF won(p) = {} THEN 0 ELSE Share(prize[t], k, Rank(t, at(p)))]
           g == [r \in 1 .. k |-> Share(prize[t], k, r)]
           r == [p \in Players |-> Rank(t, at(p))]
<1>1. Prizes(t) = f BY Zenon DEF Prizes, Ranked
<1>2. k \in Nat
  <2>1. Cardinality(Ranked(t)) \in Nat BY RankedFinite, FS_CardinalityType, Zenon
  <2> QED BY <2>1, WinnersType, Zenon
<1>3. prize[t] \in Nat BY DEF Playable
<1> HIDE DEF k
<1>4. (\A n \in 1 .. k : Share(prize[t], k, n) \in Nat) /\ Total(g) <= prize[t]
  BY <1>2, <1>3, SharesFit, Zenon
<1>5. ASSUME NEW p, won(p) # {} PROVE at(p) \in won(p) BY <1>5, Zenon
<1>6. ASSUME NEW i \in Ranked(t) PROVE Rank(t, i) \in Nat \ {0}
  <2>1. Ahead(t, i) \in SUBSET Ranked(t) BY DEF Ahead
  <2>2. IsFiniteSet(Ranked(t)) BY RankedFinite
  <2>3. IsFiniteSet(Ahead(t, i)) BY <2>1, <2>2, FS_Subset, Zenon
  <2>4. Cardinality(Ahead(t, i)) \in Nat BY <2>3, FS_CardinalityType, Zenon
  <2> QED BY <2>4, RankIsAhead
<1> HIDE DEF at
<1>7. ASSUME NEW p \in Players, won(p) # {} PROVE Rank(t, at(p)) \in 1 .. k
  <2>1. at(p) \in Ranked(t) /\ Rank(t, at(p)) <= k BY <1>5, <1>7
  <2>2. Rank(t, at(p)) \in Nat \ {0} BY <1>6, <2>1
  <2> QED BY <1>2, <2>1, <2>2
<1>8. f \in [Players -> Nat] /\ g \in [1 .. k -> Nat]
  <2>1. ASSUME NEW p \in Players, won(p) # {}
        PROVE  Share(prize[t], k, Rank(t, at(p))) \in Nat
    BY <1>4, <1>7, <2>1
  <2> HIDE DEF won
  <2> QED BY <1>4, <2>1
<1>9. ASSUME NEW p \in Players, f[p] > 0 PROVE won(p) # {}
  <2>1. won(p) = {} => f[p] = 0 BY Zenon
  <2> HIDE DEF won, f
  <2> QED BY <1>9, <2>1
<1>10. ASSUME NEW p \in Players, f[p] > 0 PROVE r[p] \in 1 .. k /\ f[p] <= g[r[p]]
  <2>1. won(p) # {} BY <1>9, <1>10
  <2>2. Rank(t, at(p)) \in 1 .. k BY <1>7, <2>1
  <2>3. f[p] = Share(prize[t], k, Rank(t, at(p))) BY <2>1, Zenon
  <2>4. g[Rank(t, at(p))] = Share(prize[t], k, Rank(t, at(p))) BY <2>2
  <2>5. r[p] = Rank(t, at(p)) OBVIOUS
  <2>6. f[p] \in Nat BY <1>8
  <2> HIDE DEF f, g, r, won
  <2> QED BY <2>2, <2>3, <2>4, <2>5, <2>6
<1>11. ASSUME NEW p \in Players, NEW q \in Players, f[p] > 0, f[q] > 0, r[p] = r[q]
       PROVE  p = q
  <2>1. won(p) # {} /\ won(q) # {} BY <1>9, <1>11
  <2>2. at(p) \in won(p) /\ at(q) \in won(q) BY <1>5, <2>1
  <2>3. /\ at(p) \in Ranked(t) /\ members[t][at(p)] = p
        /\ at(q) \in Ranked(t) /\ members[t][at(q)] = q
    BY <2>2
  <2>4. Rank(t, at(p)) = Rank(t, at(q)) BY <1>11
  <2>5. at(p) = at(q) BY <2>3, <2>4, RanksDiffer
  <2> QED BY <2>3, <2>5
<1>12. IsFiniteSet(1 .. k)
  <2>1. 1 \in Int /\ k \in Int BY <1>2
  <2> QED BY <2>1, FS_Interval, Zenon
<1>13. \A p \in Players : p \notin registered => f[p] = 0
  <2>1. ASSUME NEW p \in Players, p \notin registered PROVE won(p) = {} BY <2>1 DEF Ranked
  <2> HIDE DEF won
  <2> QED BY <2>1
<1>14. Total(f) <= Total(g)
  <2> DEFINE I == 1 .. k
  <2>0. g \in [I -> Nat] /\ IsFiniteSet(I) BY <1>8, <1>12
  <2>1. \A p \in Players : f[p] > 0 => r[p] \in I /\ f[p] <= g[r[p]] BY <1>10
  <2>2. \A p, q \in Players : f[p] > 0 /\ f[q] > 0 /\ r[p] = r[q] => p = q BY <1>11
  <2>3. f \in [Players -> Nat] BY <1>8
  <2> HIDE DEF f, g, r, I
  <2> QED BY <2>0, <2>1, <2>2, <2>3, TotalEmbeds, Zenon
<1>15. Total(f) \in Nat /\ Total(g) \in Nat
  <2> HIDE DEF f, g
  <2> QED BY <1>8, <1>12, CasinoAssumption, TotalType, Zenon
<1> HIDE DEF f, g
<1>16. Total(f) <= prize[t] BY <1>3, <1>4, <1>14, <1>15
<1> QED BY <1>1, <1>8, <1>13, <1>16, Zenon

----------------------------------------------------------------------------
(* The invariant, in groups of variables that change together. *)

\* What players hold for cash, and the house.
BooksInv ==
    /\ registered \subseteq Players
    /\ chips \in [Players -> Nat] /\ tchips \in [Players -> Nat]
    /\ netPnl \in Int /\ granted \in Nat
    /\ jackpot \in [Progressive -> Nat]
    /\ \A p \in Players : p \notin registered => chips[p] = 0
    /\ HouseBalances

ModifiersInv ==
    /\ shields \in Pools /\ doubles \in Pools
    /\ on \in [Players -> SUBSET Modifiers] /\ aura \in [Players -> 0 .. AuraMax]

LimitsInv ==
    /\ day \in 0 .. MaxDay
    /\ lastPlayed \in [Players -> 0 .. MaxDay] /\ played \in [Players -> 0 .. MaxPerDay]
    /\ lastClaim \in [Players -> Never .. MaxDay]

\* A session that exists belongs to a player that exists.
SessionsInv ==
    /\ sessions \in [Ids -> Sessions \cup {NoSession}]
    /\ \A i \in Ids : sessions[i].player # None => sessions[i].player \in registered

\* A tournament has no prize before it starts.
PrizesInv ==
    /\ phase \in [Tournaments -> {None, "registration", "active", "complete"}]
    /\ members \in [Tournaments -> Seq(Players)]
    /\ prize \in [Tournaments -> Nat] /\ issuance \in Nat /\ paid \in Nat
    /\ \A t \in Tournaments : phase[t] \in {None, "registration"} => prize[t] = 0
    /\ PrizesAreIssued

\* Only players that exist are in a tournament.
ActiveInv ==
    /\ active \in [Players -> Tournaments \cup {None}]
    /\ \A p \in Players : p \notin registered => active[p] = None
    /\ NobodyLeftBehind

IInv ==
    /\ BooksInv /\ ModifiersInv /\ LimitsInv
    /\ SessionsInv /\ PrizesInv /\ ActiveInv

----------------------------------------------------------------------------
(* What a game may do to the books. *)

LEMMA FeeType == ASSUME NEW n \in Nat PROVE SuperFee(n) \in Nat
BY CasinoAssumption, DivBounds DEF SuperFee

LEMMA BonusType ==
    ASSUME BooksInv, NEW g \in Progressive, NEW hand
    PROVE  Meter(g) \in Nat /\ Bonus(g, hand) \in Nat
<1>1. JackpotBase \in Nat /\ StraightShare \in Nat /\ StraightShare > 0 BY CasinoAssumption
<1>2. jackpot[g] \in Nat BY DEF BooksInv
<1>3. Meter(g) \in Nat /\ Meter(g) >= JackpotBase BY <1>1, <1>2 DEF Meter
<1>4. /\ Meter(g) \div StraightShare \in Nat /\ JackpotBase \div StraightShare \in Nat
      /\ JackpotBase \div StraightShare <= Meter(g) \div StraightShare
  BY <1>1, <1>3, DivBounds, DivMonotone
<1> DEFINE a == Meter(g) \div StraightShare
           b == JackpotBase \div StraightShare
           c == Meter(g) - JackpotBase
<1>5. c \in Nat /\ a - b \in Nat
  <2>1. a \in Nat /\ b \in Nat /\ b <= a BY <1>4
  <2> HIDE DEF a, b
  <2> QED BY <1>1, <1>3, <2>1
<1>6. Bonus(g, hand) \in {c, a - b, 0} BY Zenon DEF Bonus
<1> HIDE DEF a, b, c
<1> QED BY <1>3, <1>5, <1>6

\* Chips move between a player and the house, or in a tournament's stack.
MoneyMoves(p) ==
    \/ UNCHANGED <<chips, tchips, netPnl>>
    \/ \E t : \E n \in Nat : Gain(p, t, n) \/ Charge(p, t, n)

\* Whatever a game returns, the house books what the player gains or loses.
LEMMA MoneyMovesBooks ==
    ASSUME BooksInv, NEW p \in Players, p \in registered, MoneyMoves(p),
           jackpot' \in [Progressive -> Nat], UNCHANGED <<registered, granted>>
    PROVE  BooksInv'
<1>0. /\ chips \in [Players -> Nat] /\ tchips \in [Players -> Nat] /\ IsFiniteSet(Players)
      /\ netPnl \in Int /\ granted \in Nat
  BY CasinoAssumption DEF BooksInv
<1>1. Total(chips) \in Nat /\ Total(chips) + netPnl = granted
  BY <1>0, TotalType, Zenon DEF BooksInv, HouseBalances
<1>2. CASE UNCHANGED <<chips, tchips, netPnl>> BY <1>2 DEF BooksInv, HouseBalances
<1>3. ASSUME NEW t, NEW n \in Nat, Gain(p, t, n) PROVE BooksInv'
  <2>1. CASE t = None
    <3>1. chips' = Add(chips, p, n) /\ netPnl' = netPnl - n /\ tchips' = tchips
      BY <1>3, <2>1 DEF Gain
    <3>2. /\ chips' \in [Players -> Nat] /\ \A q \in Players : q # p => chips'[q] = chips[q]
      <4>1. /\ Add(chips, p, n) \in [Players -> Nat]
            /\ \A q \in Players : q # p => Add(chips, p, n)[q] = chips[q]
        BY <1>0 DEF Add
      <4> QED BY <3>1, <4>1
    <3>3. Total(chips') = Total(chips) + n BY <1>0, <3>1, TotalAdd, Zenon
    <3>4. netPnl' \in Int /\ Total(chips') + netPnl' = granted' BY <1>0, <1>1, <3>1, <3>3
    <3> QED BY <3>1, <3>2, <3>4 DEF BooksInv, HouseBalances
  <2>2. CASE t # None
    <3>1. tchips' = Add(tchips, p, n) /\ UNCHANGED <<chips, netPnl>>
      BY <1>3, <2>2 DEF Gain
    <3>2. tchips' \in [Players -> Nat] BY <1>0, <3>1, AddType
    <3> QED BY <3>1, <3>2 DEF BooksInv, HouseBalances
  <2> QED BY <2>1, <2>2
<1>4. ASSUME NEW t, NEW n \in Nat, Charge(p, t, n) PROVE BooksInv'
  <2>1. CASE t = None
    <3>1. chips' = Sub(chips, p, n) /\ netPnl' = netPnl + n /\ tchips' = tchips
      BY <1>4, <2>1 DEF Charge
    <3>2. n <= chips[p] BY <1>0, <1>4, <2>1 DEF Charge, Stack
    <3>3. /\ chips' \in [Players -> Nat] /\ \A q \in Players : q # p => chips'[q] = chips[q]
      BY <1>0, <3>1, <3>2, SubType
    <3>4. Total(chips') = Total(chips) - n BY <1>0, <3>1, <3>2, TotalSub, Zenon
    <3>5. netPnl' \in Int /\ Total(chips') + netPnl' = granted' BY <1>0, <1>1, <3>1, <3>4
    <3> QED BY <3>1, <3>3, <3>5 DEF BooksInv, HouseBalances
  <2>2. CASE t # None
    <3>1. tchips' = Sub(tchips, p, n) /\ UNCHANGED <<chips, netPnl>>
      BY <1>4, <2>2 DEF Charge
    <3>2. n <= tchips[p] BY <1>0, <1>4, <2>2 DEF Charge, Stack
    <3>3. tchips' \in [Players -> Nat] BY <1>0, <3>1, <3>2, SubType
    <3> QED BY <3>1, <3>3 DEF BooksInv, HouseBalances
  <2> QED BY <2>1, <2>2
<1> QED BY <1>2, <1>3, <1>4, Zenon DEF MoneyMoves

\* Chips are granted to one player.
LEMMA GrantBooks ==
    ASSUME BooksInv, NEW p \in Players, NEW n \in Nat, chips' = Add(chips, p, n),
           granted' = granted + n, p \in registered', registered \subseteq registered',
           registered' \subseteq Players, UNCHANGED <<tchips, netPnl, jackpot>>
    PROVE  BooksInv'
<1>1. /\ chips \in [Players -> Nat] /\ IsFiniteSet(Players) /\ netPnl \in Int /\ granted \in Nat
  BY CasinoAssumption DEF BooksInv
<1>2. Total(chips) \in Nat /\ Total(chips) + netPnl = granted
  BY <1>1, TotalType, Zenon DEF BooksInv, HouseBalances
<1>3. chips' \in [Players -> Nat] /\ \A q \in Players : q # p => chips'[q] = chips[q]
  BY <1>1, AddType
<1>4. Total(chips') = Total(chips) + n BY <1>1, TotalAdd, Zenon
<1>5. granted' \in Nat /\ Total(chips') + netPnl' = granted'
  <2> DEFINE a == Total(chips)
             b == Total(chips')
  <2>1. a \in Nat /\ b = a + n /\ a + netPnl = granted /\ netPnl' = netPnl BY <1>2, <1>4, Zenon
  <2> HIDE DEF a, b
  <2>2. b + netPnl' = granted' BY <1>1, <2>1
  <2> QED BY <1>1, <2>2 DEF b
<1>6. \A q \in Players : q \notin registered' => chips'[q] = 0 BY <1>3 DEF BooksInv
<1> QED BY <1>3, <1>5, <1>6 DEF BooksInv, HouseBalances

\* Prizes are granted to registered players.
LEMMA PrizesBooks ==
    ASSUME BooksInv, NEW f \in [Players -> Nat], \A p \in Players : p \notin registered => f[p] = 0,
           chips' = [p \in Players |-> chips[p] + f[p]], granted' = granted + Total(f),
           tchips' \in [Players -> Nat], UNCHANGED <<registered, netPnl, jackpot>>
    PROVE  BooksInv'
<1>1. /\ chips \in [Players -> Nat] /\ IsFiniteSet(Players) /\ netPnl \in Int /\ granted \in Nat
  BY CasinoAssumption DEF BooksInv
<1>2. Total(chips) \in Nat /\ Total(f) \in Nat /\ Total(chips) + netPnl = granted
  BY <1>1, TotalType, Zenon DEF BooksInv, HouseBalances
<1>3. chips' \in [Players -> Nat] BY <1>1
<1>4. Total(chips') = Total(chips) + Total(f) BY <1>1, TotalSum, Zenon
<1>5. granted' \in Nat /\ Total(chips') + netPnl' = granted' BY <1>1, <1>2, <1>4
<1>6. \A p \in Players : p \notin registered' => chips'[p] = 0 BY <1>1 DEF BooksInv
<1> QED BY <1>3, <1>5, <1>6 DEF BooksInv, HouseBalances

----------------------------------------------------------------------------
(* What a game may do to everything else. *)

\* A pool of modifiers, set or used.
LEMMA PoolSet ==
    ASSUME NEW f \in Pools, NEW p \in Players, NEW k \in Stacks, NEW n \in 0 .. StartingPool
    PROVE  [f EXCEPT ![p][k] = n] \in Pools
<1>1. f[p] \in [Stacks -> 0 .. StartingPool] BY DEF Pools
<1>2. [f[p] EXCEPT ![k] = n] \in [Stacks -> 0 .. StartingPool] BY <1>1
<1>3. [f EXCEPT ![p][k] = n] = [f EXCEPT ![p] = [f[p] EXCEPT ![k] = n]] BY DEF Pools
<1> QED BY <1>2, <1>3 DEF Pools

LEMMA PoolSpend ==
    ASSUME NEW f \in Pools, NEW p \in Players, NEW k \in Stacks, f[p][k] > 0
    PROVE  [f EXCEPT ![p][k] = @ - 1] \in Pools
<1>1. f[p] \in [Stacks -> 0 .. StartingPool] /\ f[p][k] \in 0 .. StartingPool BY DEF Pools
<1>2. f[p][k] - 1 \in 0 .. StartingPool BY <1>1, CasinoAssumption
<1> DEFINE n == f[p][k] - 1
<1> HIDE DEF n
<1>3. [f EXCEPT ![p][k] = n] \in Pools BY <1>2, PoolSet DEF n
<1> QED BY <1>3 DEF n

LEMMA KindType == ASSUME NEW t PROVE Kind(t) \in Stacks
BY DEF Kind, Stacks

LEMMA SpendShieldType ==
    ASSUME ModifiersInv, NEW p \in Players, NEW i, SpendShield(p, i)
    PROVE  shields' \in Pools /\ doubles' \in Pools
<1> DEFINE k == Kind(sessions[i].tournament)
<1>1. shields \in Pools /\ doubles \in Pools /\ k \in Stacks BY KindType DEF ModifiersInv
<1>2. doubles' = doubles BY DEF SpendShield
<1>3. CASE Shielded(p, i)
  <2>1. shields[p][k] > 0 BY <1>3, Zenon DEF Shielded
  <2>2. shields' = [shields EXCEPT ![p][k] = @ - 1] BY <1>3, Zenon DEF SpendShield
  <2> HIDE DEF k
  <2>3. [shields EXCEPT ![p][k] = @ - 1] \in Pools BY <1>1, <2>1, PoolSpend
  <2> QED BY <1>1, <1>2, <2>2, <2>3
<1>4. CASE ~Shielded(p, i)
  <2>1. shields' = shields BY <1>4, Zenon DEF SpendShield
  <2> QED BY <1>1, <1>2, <2>1
<1> QED BY <1>3, <1>4

LEMMA CompleteType ==
    ASSUME ModifiersInv, NEW p \in Players, NEW i, NEW won, Complete(p, i, won)
    PROVE  on' \in [Players -> SUBSET Modifiers] /\ aura' \in [Players -> 0 .. AuraMax]
<1>1. on' = [on EXCEPT ![p] = {}] /\ on \in [Players -> SUBSET Modifiers]
  BY DEF Complete, ModifiersInv
<1> DEFINE m == aura[p]
           n == AfterRound(sessions[i], m, won)
<1>2. m \in 0 .. AuraMax /\ AuraMax \in Nat BY CasinoAssumption DEF ModifiersInv
<1>3. n = m \/ n = 0 \/ (~(m >= AuraMax) /\ n = m + 1) BY Zenon DEF AfterRound
<1>4. n \in 0 .. AuraMax
  <2> HIDE DEF m, n
  <2> QED BY <1>2, <1>3
<1>5. aura' = [aura EXCEPT ![p] = n] /\ aura \in [Players -> 0 .. AuraMax]
  BY DEF Complete, ModifiersInv
<1> HIDE DEF n
<1> QED BY <1>1, <1>4, <1>5

LEMMA FeedType ==
    ASSUME BooksInv, NEW g \in Progressive, NEW hand, FeedJackpot(g, hand)
    PROVE  jackpot' \in [Progressive -> Nat]
<1>1. Meter(g) \in Nat /\ JackpotBase \in Nat BY BonusType, CasinoAssumption
<1> QED BY <1>1 DEF FeedJackpot, BooksInv

LEMMA PaysType ==
    ASSUME ModifiersInv, NEW p \in Players, NEW i, NEW base \in Nat, NEW bonus \in Nat,
           Pays(p, i, base, bonus)
    PROVE  MoneyMoves(p) /\ shields' \in Pools /\ doubles' \in Pools
<1> DEFINE t == sessions[i].tournament
           k == Kind(t)
           doubled == "double" \in on[p] /\ doubles[p][k] > 0
           payout == (base + bonus) * (IF doubled THEN 2 ELSE 1)
<1>1. /\ doubles' = IF doubled THEN [doubles EXCEPT ![p][k] = @ - 1] ELSE doubles
      /\ Gain(p, t, payout)
      /\ shields' = shields
  BY Zenon DEF Pays
<1>2. payout \in Nat
  <2> HIDE DEF doubled
  <2> QED OBVIOUS
<1>3. MoneyMoves(p)
  <2> HIDE DEF payout, t
  <2> QED BY <1>1, <1>2, Zenon DEF MoneyMoves
<1>4. shields \in Pools /\ doubles \in Pools /\ k \in Stacks BY KindType DEF ModifiersInv
<1>5. doubles' \in Pools
  <2>1. CASE doubled
    <3>1. doubles[p][k] > 0 BY <2>1, Zenon
    <3>2. doubles' = [doubles EXCEPT ![p][k] = @ - 1] BY <1>1, <2>1, Zenon
    <3> HIDE DEF k, doubled
    <3> QED BY <1>4, <3>1, <3>2, PoolSpend
  <2>2. CASE ~doubled
    <3>1. doubles' = doubles BY <1>1, <2>2, Zenon
    <3> QED BY <1>4, <3>1
  <2> QED BY <2>1, <2>2, Zenon
<1> QED BY <1>1, <1>3, <1>4, <1>5

\* A move may complete its session.
Completes(i) ==
    sessions' = sessions \/ sessions' = [sessions EXCEPT ![i].complete = TRUE]

MoveChanges(p, i) ==
    /\ MoneyMoves(p)
    /\ jackpot' \in [Progressive -> Nat]
    /\ ModifiersInv'
    /\ Completes(i)
    /\ UNCHANGED <<registered, active, day, lastClaim, lastPlayed, played, phase, members,
                   prize, issuance, granted, paid>>

LEMMA LosesType ==
    ASSUME ModifiersInv, NEW p \in Players, NEW i, NEW loss \in Nat, LosesPreDeducted(p, i, loss)
    PROVE  MoneyMoves(p) /\ shields' \in Pools /\ doubles' \in Pools
<1> DEFINE t == sessions[i].tournament
           refund == IF Shielded(p, i) THEN loss ELSE 0
<1>1. SpendShield(p, i) /\ Gain(p, t, refund) BY Zenon DEF LosesPreDeducted
<1>2. refund \in Nat OBVIOUS
<1>3. MoneyMoves(p)
  <2> HIDE DEF refund, t
  <2> QED BY <1>1, <1>2, Zenon DEF MoneyMoves
<1> QED BY <1>1, <1>3, SpendShieldType

LEMMA GameMoveChanges ==
    ASSUME IInv, NEW p \in Players, NEW i \in Ids, CasinoGameMove(p, i)
    PROVE  CanMove(p, i) /\ MoveChanges(p, i)
<1>0. BooksInv /\ ModifiersInv /\ jackpot \in [Progressive -> Nat]
  BY DEF IInv, BooksInv
<1>2. ASSUME NEW t, NEW n \in Nat, Gain(p, t, n) \/ Charge(p, t, n) PROVE MoneyMoves(p)
  BY <1>2, Zenon DEF MoneyMoves
<1>3. ASSUME UNCHANGED <<shields, doubles, on, aura>> PROVE ModifiersInv'
  BY <1>0, <1>3 DEF ModifiersInv, Pools
<1>4. ASSUME NEW won, Complete(p, i, won), shields' \in Pools, doubles' \in Pools,
             MoneyMoves(p), jackpot' \in [Progressive -> Nat]
      PROVE  MoveChanges(p, i)
  <2>1. ModifiersInv' BY <1>0, <1>4, CompleteType DEF ModifiersInv, Pools
  <2>2. /\ sessions' = [sessions EXCEPT ![i].complete = TRUE]
        /\ UNCHANGED <<registered, active, day, lastClaim, lastPlayed, played, phase, members,
                       prize, issuance, granted, paid>>
    BY <1>4 DEF Complete, limits, tournament
  <2> QED BY <1>4, <2>1, <2>2 DEF MoveChanges, Completes
<1>5. ASSUME NEW n \in Amounts, MoveBet(p, i, n) PROVE CanMove(p, i) /\ MoveChanges(p, i)
  <2> DEFINE s == sessions[i]
             total == n + (IF s.super THEN SuperFee(n) ELSE 0)
  <2>1. CanMove(p, i) /\ Charge(p, s.tournament, total) BY <1>5, Zenon DEF MoveBet
  <2>2. n \in Nat /\ SuperFee(n) \in Nat BY CasinoAssumption, FeeType
  <2>3. total \in Nat
    <3> HIDE DEF s
    <3> QED BY <2>2
  <2>4. MoneyMoves(p)
    <3> HIDE DEF total, s
    <3> QED BY <1>2, <2>1, <2>3
  <2>5. UNCHANGED <<registered, shields, doubles, on, aura, active, sessions, jackpot, granted,
                    paid, day, lastClaim, lastPlayed, played, phase, members, prize, issuance>>
    BY <1>5 DEF MoveBet, pools, limits, tournament
  <2> QED BY <1>0, <1>3, <2>1, <2>4, <2>5 DEF MoveChanges, Completes
<1>6. ASSUME NEW n \in Amounts, MovePaid(p, i, n) PROVE CanMove(p, i) /\ MoveChanges(p, i)
  <2>1. CanMove(p, i) /\ Gain(p, sessions[i].tournament, n) BY <1>6, Zenon DEF MovePaid
  <2>2. n \in Nat BY CasinoAssumption
  <2>3. MoneyMoves(p) BY <1>2, <2>1, <2>2
  <2>4. UNCHANGED <<registered, shields, doubles, on, aura, active, sessions, jackpot, granted,
                    paid, day, lastClaim, lastPlayed, played, phase, members, prize, issuance>>
    BY <1>6 DEF MovePaid, pools, limits, tournament
  <2> QED BY <1>0, <1>3, <2>1, <2>3, <2>4 DEF MoveChanges, Completes
<1>7. ASSUME NEW n \in Amounts, MoveWin(p, i, n) PROVE CanMove(p, i) /\ MoveChanges(p, i)
  <2>1. CanMove(p, i) /\ Complete(p, i, TRUE) /\ Pays(p, i, n, 0) /\ jackpot' = jackpot
    BY <1>7 DEF MoveWin
  <2>2. n \in Nat /\ 0 \in Nat BY CasinoAssumption
  <2>3. MoneyMoves(p) /\ shields' \in Pools /\ doubles' \in Pools
    BY <1>0, <2>1, <2>2, PaysType
  <2> QED BY <1>0, <1>4, <2>1, <2>3
<1>8. ASSUME NEW n \in Amounts, NEW hand, MoveWinMetered(p, i, n, hand)
      PROVE  CanMove(p, i) /\ MoveChanges(p, i)
  <2> DEFINE g == sessions[i].game
  <2>1. /\ CanMove(p, i) /\ g \in Progressive /\ Complete(p, i, TRUE)
        /\ Pays(p, i, n, Bonus(g, hand)) /\ FeedJackpot(g, hand)
    BY <1>8 DEF MoveWinMetered, Metered
  <2>2. n \in Nat BY CasinoAssumption
  <2> HIDE DEF g
  <2>3. Bonus(g, hand) \in Nat BY <1>0, <2>1, BonusType
  <2>4. MoneyMoves(p) /\ shields' \in Pools /\ doubles' \in Pools
    BY <1>0, <2>1, <2>2, <2>3, PaysType
  <2>5. jackpot' \in [Progressive -> Nat] BY <1>0, <2>1, FeedType
  <2> QED BY <1>4, <2>1, <2>4, <2>5
<1>9. ASSUME NEW n \in Amounts, MoveLossWithExtra(p, i, n)
      PROVE  CanMove(p, i) /\ MoveChanges(p, i)
  <2> DEFINE total == ExtraTotal(sessions[i], n)
  <2>1. /\ CanMove(p, i) /\ Complete(p, i, FALSE) /\ SpendShield(p, i)
        /\ Charge(p, sessions[i].tournament, total) /\ jackpot' = jackpot
    BY <1>9, Zenon DEF MoveLossWithExtra
  <2>2. n \in Nat /\ SuperFee(n) \in Nat BY CasinoAssumption, FeeType
  <2>3. total \in Nat BY <2>2 DEF ExtraTotal
  <2> HIDE DEF total
  <2>4. MoneyMoves(p) BY <1>2, <2>1, <2>3
  <2>5. shields' \in Pools /\ doubles' \in Pools BY <1>0, <2>1, SpendShieldType
  <2> QED BY <1>0, <1>4, <2>1, <2>4, <2>5
<1>10. ASSUME NEW n \in Amounts, MoveLossWithExtraRefused(p, i, n)
       PROVE  CanMove(p, i) /\ MoveChanges(p, i)
  <2>1. /\ CanMove(p, i) /\ sessions' = [sessions EXCEPT ![i].complete = TRUE]
        /\ UNCHANGED <<chips, tchips, netPnl>>
        /\ UNCHANGED <<registered, shields, doubles, on, aura, active, jackpot, granted, paid,
                       day, lastClaim, lastPlayed, played, phase, members, prize, issuance>>
    BY <1>10 DEF MoveLossWithExtraRefused, pools, limits, tournament
  <2>2. MoneyMoves(p) BY <2>1 DEF MoneyMoves
  <2> QED BY <1>0, <1>3, <2>1, <2>2 DEF MoveChanges, Completes
<1>11. ASSUME NEW n \in Amounts, MoveLossPreDeducted(p, i, n)
       PROVE  CanMove(p, i) /\ MoveChanges(p, i)
  <2>1. /\ CanMove(p, i) /\ Complete(p, i, FALSE) /\ LosesPreDeducted(p, i, n)
        /\ jackpot' = jackpot
    BY <1>11 DEF MoveLossPreDeducted
  <2>2. n \in Nat BY CasinoAssumption
  <2>3. MoneyMoves(p) /\ shields' \in Pools /\ doubles' \in Pools
    BY <1>0, <2>1, <2>2, LosesType
  <2> QED BY <1>0, <1>4, <2>1, <2>3
<1>12. ASSUME NEW n \in Amounts, MoveLossMetered(p, i, n)
       PROVE  CanMove(p, i) /\ MoveChanges(p, i)
  <2> DEFINE g == sessions[i].game
  <2>1. /\ CanMove(p, i) /\ g \in Progressive /\ Complete(p, i, FALSE)
        /\ LosesPreDeducted(p, i, n) /\ FeedJackpot(g, "other")
    BY <1>12 DEF MoveLossMetered, Metered
  <2>2. n \in Nat BY CasinoAssumption
  <2> HIDE DEF g
  <2>3. MoneyMoves(p) /\ shields' \in Pools /\ doubles' \in Pools
    BY <1>0, <2>1, <2>2, LosesType
  <2>4. jackpot' \in [Progressive -> Nat] BY <1>0, <2>1, FeedType
  <2> QED BY <1>4, <2>1, <2>3, <2>4
<1>13. ASSUME MoveLoss(p, i) PROVE CanMove(p, i) /\ MoveChanges(p, i)
  <2>1. /\ CanMove(p, i) /\ Complete(p, i, FALSE) /\ SpendShield(p, i)
        /\ UNCHANGED <<chips, tchips, netPnl>> /\ jackpot' = jackpot
    BY <1>13 DEF MoveLoss
  <2>2. MoneyMoves(p) BY <2>1 DEF MoneyMoves
  <2>3. shields' \in Pools /\ doubles' \in Pools BY <1>0, <2>1, SpendShieldType
  <2> QED BY <1>0, <1>4, <2>1, <2>2, <2>3
<1> QED
  BY <1>5, <1>6, <1>7, <1>8, <1>9, <1>10, <1>11, <1>12, <1>13, Zenon DEF CasinoGameMove

----------------------------------------------------------------------------
(* Every operation preserves the invariant. *)

\* The groups that depend on few variables.
LEMMA KeepPrizes ==
    ASSUME PrizesInv, UNCHANGED <<phase, members, prize, issuance, paid>>
    PROVE  PrizesInv'
BY DEF PrizesInv, PrizesAreIssued

LEMMA KeepLimits ==
    ASSUME LimitsInv, UNCHANGED <<day, lastClaim, lastPlayed, played>>
    PROVE  LimitsInv'
BY DEF LimitsInv

LEMMA KeepModifiers ==
    ASSUME ModifiersInv, UNCHANGED <<shields, doubles, on, aura>>
    PROVE  ModifiersInv'
BY DEF ModifiersInv, Pools

LEMMA KeepSessions ==
    ASSUME SessionsInv, sessions' = sessions, registered \subseteq registered'
    PROVE  SessionsInv'
BY DEF SessionsInv, Sessions

LEMMA KeepActive ==
    ASSUME ActiveInv, UNCHANGED <<active, phase, members>>, registered \subseteq registered'
    PROVE  ActiveInv'
BY DEF ActiveInv, NobodyLeftBehind, MembersOf

LEMMA KeepBooks ==
    ASSUME BooksInv, UNCHANGED <<registered, chips, tchips, netPnl, granted, jackpot>>
    PROVE  BooksInv'
BY DEF BooksInv, HouseBalances

LEMMA InitIInv == Init => IInv
<1> SUFFICES ASSUME Init PROVE IInv OBVIOUS
<1>1. BooksInv
  <2>1. Total([p \in Players |-> 0]) = 0 BY TotalEmpty, Zenon
  <2> QED BY <2>1 DEF Init, BooksInv, HouseBalances
<1>2. ModifiersInv BY CasinoAssumption DEF Init, ModifiersInv, Pools
<1>3. LimitsInv
  BY CasinoAssumption, TournamentAssumption DEF Init, LimitsInv, Never
<1>4. SessionsInv BY DEF Init, SessionsInv, NoSession
<1>5. PrizesInv
  <2>1. Total([t \in Tournaments |-> 0]) = 0 BY TotalEmpty, Zenon
  <2>2. [t \in Tournaments |-> IF phase[t] = "complete" THEN prize[t] ELSE 0]
          = [t \in Tournaments |-> 0]
    BY DEF Init, None
  <2>3. PrizesAreIssued BY <2>1, <2>2, TournamentAssumption DEF Init, PrizesAreIssued
  <2> QED BY <2>3 DEF Init, PrizesInv
<1>6. ActiveInv BY DEF Init, ActiveInv, NobodyLeftBehind
<1> QED BY <1>1, <1>2, <1>3, <1>4, <1>5, <1>6 DEF IInv

LEMMA RegisterIInv == ASSUME IInv, NEW p \in Players, CasinoRegister(p) PROVE IInv'
<1>1. /\ p \notin registered /\ registered' = registered \cup {p}
      /\ chips' = [chips EXCEPT ![p] = InitialChips]
      /\ shields' = [shields EXCEPT ![p]["cash"] = StartingPool]
      /\ doubles' = [doubles EXCEPT ![p]["cash"] = StartingPool]
      /\ granted' = granted + InitialChips
      /\ UNCHANGED <<tchips, on, aura, active, day, lastClaim, lastPlayed, played, sessions,
                     phase, members, prize, issuance, netPnl, jackpot, paid>>
  BY DEF CasinoRegister, limits, tournament
<1>2. BooksInv'
  <2>1. chips[p] = 0 /\ chips \in [Players -> Nat] /\ InitialChips \in Nat
    BY <1>1, CasinoAssumption DEF IInv, BooksInv
  <2>2. chips[p] + InitialChips = InitialChips BY <2>1
  <2>4. chips' = Add(chips, p, InitialChips) BY <1>1, <2>2 DEF Add
  <2>3. p \in registered' /\ registered \subseteq registered' /\ registered' \subseteq Players
    BY <1>1 DEF IInv, BooksInv
  <2> QED BY <1>1, <2>1, <2>3, <2>4, GrantBooks DEF IInv
<1>3. ModifiersInv'
  <2>1. "cash" \in Stacks /\ StartingPool \in 0 .. StartingPool BY CasinoAssumption DEF Stacks
  <2>2. shields' \in Pools /\ doubles' \in Pools
    BY <1>1, <2>1, PoolSet DEF IInv, ModifiersInv
  <2> QED BY <1>1, <2>2 DEF IInv, ModifiersInv, Pools
<1> QED
  BY <1>1, <1>2, <1>3, KeepLimits, KeepSessions, KeepPrizes, KeepActive DEF IInv

LEMMA DepositIInv ==
    ASSUME IInv, NEW p \in Players, NEW n \in Amounts, CasinoDeposit(p, n)
    PROVE  IInv'
<1>1. /\ p \in registered
      /\ chips' = Add(chips, p, n) /\ granted' = granted + n
      /\ lastClaim' = [lastClaim EXCEPT ![p] = day]
      /\ UNCHANGED <<day, lastPlayed, played, registered, tchips, shields, doubles, on, aura,
                     active, sessions, phase, members, prize, issuance, netPnl, jackpot, paid>>
  BY DEF CasinoDeposit, pools, tournament
<1>2. n \in Nat BY CasinoAssumption
<1>3. BooksInv'
  <2>1. p \in registered' /\ registered \subseteq registered' /\ registered' \subseteq Players
    BY <1>1 DEF IInv, BooksInv
  <2> QED BY <1>1, <1>2, <2>1, GrantBooks DEF IInv
<1>4. LimitsInv'
  <2>1. day \in Never .. MaxDay BY DEF IInv, LimitsInv, Never
  <2> QED BY <1>1, <2>1 DEF IInv, LimitsInv
<1> QED
  BY <1>1, <1>3, <1>4, KeepModifiers, KeepSessions, KeepPrizes, KeepActive DEF IInv

LEMMA ToggleIInv ==
    ASSUME IInv, NEW p \in Players, NEW m \in Modifiers, CasinoToggle(p, m)
    PROVE  IInv'
<1>1. /\ on' = [on EXCEPT ![p] = (@ \cup {m}) \ (@ \cap {m})]
      /\ UNCHANGED <<registered, chips, tchips, shields, doubles, aura, active, day, lastClaim,
                     lastPlayed, played, sessions, phase, members, prize, issuance, netPnl,
                     jackpot, granted, paid>>
  BY DEF CasinoToggle, pools, limits, tournament
<1>2. ModifiersInv' BY <1>1 DEF IInv, ModifiersInv, Pools
<1> QED
  BY <1>1, <1>2, KeepBooks, KeepLimits, KeepSessions, KeepPrizes, KeepActive DEF IInv

LEMMA StartGameIInv ==
    ASSUME IInv, NEW p \in Players, NEW i \in Ids, NEW g \in Games, NEW bet \in Bets,
           CasinoStartGame(p, i, g, bet)
    PROVE  IInv'
<1> DEFINE t == PlaysIn(p)
           super == "super" \in on[p]
           total == bet + (IF super THEN SuperFee(bet) ELSE 0)
<1>1. /\ p \in registered
      /\ Charge(p, t, total)
      /\ active' = [active EXCEPT ![p] = t]
      /\ sessions' = [sessions EXCEPT ![i] =
           [player |-> p, game |-> g, bet |-> bet, super |-> super,
            tournament |-> t, complete |-> FALSE]]
      /\ UNCHANGED <<registered, shields, doubles, on, aura, day, lastClaim, lastPlayed, played,
                     phase, members, prize, issuance, jackpot, granted, paid>>
  BY DEF CasinoStartGame, pools, limits, tournament
<1>2. bet \in Nat /\ SuperFee(bet) \in Nat BY CasinoAssumption, FeeType
<1>3. total \in Nat
  <2> HIDE DEF super
  <2> QED BY <1>2
<1>4. t \in Tournaments \cup {None} /\ (t = None \/ t = active[p])
  BY DEF PlaysIn, IInv, ActiveInv
<1>5. super \in BOOLEAN OBVIOUS
<1> HIDE DEF t, super, total
<1>6. BooksInv'
  <2>1. MoneyMoves(p) BY <1>1, <1>3, Zenon DEF MoneyMoves
  <2>2. jackpot' \in [Progressive -> Nat] BY <1>1 DEF IInv, BooksInv
  <2> QED BY <1>1, <2>1, <2>2, MoneyMovesBooks DEF IInv
<1>7. SessionsInv'
  <2> DEFINE new == [player |-> p, game |-> g, bet |-> bet, super |-> super,
                     tournament |-> t, complete |-> FALSE]
  <2>1. new \in Sessions BY <1>4, <1>5 DEF Sessions
  <2>2. new.player = p OBVIOUS
  <2> HIDE DEF new
  <2>3. sessions' = [sessions EXCEPT ![i] = new] BY <1>1 DEF new
  <2>4. sessions' \in [Ids -> Sessions \cup {NoSession}]
    BY <2>1, <2>3 DEF IInv, SessionsInv
  <2>5. \A j \in Ids : sessions'[j].player # None => sessions'[j].player \in registered'
    BY <1>1, <2>2, <2>3 DEF IInv, SessionsInv
  <2> QED BY <2>4, <2>5 DEF SessionsInv, Sessions
<1>8. ActiveInv'
  <2>1. active' \in [Players -> Tournaments \cup {None}] BY <1>1, <1>4 DEF IInv, ActiveInv
  <2>2. \A q \in Players : active'[q] = active[q] \/ (q = p /\ active'[q] = None)
    BY <1>1, <1>4 DEF IInv, ActiveInv
  <2>3. NobodyLeftBehind'
    BY <1>1, <2>2 DEF IInv, ActiveInv, NobodyLeftBehind, MembersOf
  <2>4. \A q \in Players : q \notin registered' => active'[q] = None
    BY <1>1, <2>2 DEF IInv, ActiveInv
  <2> QED BY <2>1, <2>3, <2>4 DEF ActiveInv
<1> QED
  BY <1>1, <1>6, <1>7, <1>8, KeepModifiers, KeepLimits, KeepPrizes DEF IInv

LEMMA GameMoveIInv ==
    ASSUME IInv, NEW p \in Players, NEW i \in Ids, CasinoGameMove(p, i)
    PROVE  IInv'
<1>1. CanMove(p, i) /\ MoveChanges(p, i) BY GameMoveChanges
<1>2. sessions[i].player = p /\ p # None BY <1>1, CasinoAssumption DEF CanMove
<1>3. p \in registered BY <1>2 DEF IInv, SessionsInv
<1>4. /\ MoneyMoves(p) /\ jackpot' \in [Progressive -> Nat] /\ ModifiersInv' /\ Completes(i)
      /\ UNCHANGED <<registered, active, day, lastClaim, lastPlayed, played, phase, members,
                     prize, issuance, granted, paid>>
  BY <1>1 DEF MoveChanges
<1>5. BooksInv' BY <1>3, <1>4, MoneyMovesBooks DEF IInv
<1>6. SessionsInv'
  <2>1. CASE sessions' = sessions BY <1>4, <2>1, KeepSessions DEF IInv
  <2>2. CASE sessions' = [sessions EXCEPT ![i].complete = TRUE]
    <3>1. sessions \in [Ids -> Sessions \cup {NoSession}] BY DEF IInv, SessionsInv
    <3>2. sessions[i] \in Sessions BY <1>2, <3>1 DEF NoSession
    <3> DEFINE new == [sessions[i] EXCEPT !.complete = TRUE]
    <3>3. new \in Sessions /\ new.player = sessions[i].player BY <3>2 DEF Sessions
    <3>4. sessions' = [sessions EXCEPT ![i] = new] BY <2>2, <3>1
    <3> HIDE DEF new
    <3>5. sessions' \in [Ids -> Sessions \cup {NoSession}] BY <3>1, <3>3, <3>4
    <3>6. \A j \in Ids : sessions'[j].player # None => sessions'[j].player \in registered'
      BY <1>2, <1>3, <1>4, <3>1, <3>3, <3>4 DEF IInv, SessionsInv
    <3> QED BY <3>5, <3>6 DEF SessionsInv, Sessions
  <2> QED BY <1>4, <2>1, <2>2 DEF Completes
<1> QED
  BY <1>4, <1>5, <1>6, KeepLimits, KeepPrizes, KeepActive DEF IInv

LEMMA NextDayIInv == ASSUME IInv, NextDay PROVE IInv'
<1>1. /\ day < MaxDay /\ day' = day + 1
      /\ UNCHANGED <<registered, chips, tchips, shields, doubles, on, aura, active, lastClaim,
                     lastPlayed, played, sessions, phase, members, prize, issuance, netPnl,
                     jackpot, granted, paid>>
  BY DEF NextDay, pools, tournament
<1>2. LimitsInv' BY <1>1, CasinoAssumption DEF IInv, LimitsInv
<1> QED
  BY <1>1, <1>2, KeepBooks, KeepModifiers, KeepSessions, KeepPrizes, KeepActive DEF IInv

\* The players in the list that m has for tournament t.
Listed(m, t) == {m[t][i] : i \in DOMAIN m[t]}

LEMMA MembersListed == \A t : MembersOf(t) = Listed(members, t)
BY DEF MembersOf, Listed

LEMMA BehindListed ==
    ASSUME \A q \in Players : active'[q] # None =>
              /\ q \in Listed(members', active'[q])
              /\ phase'[active'[q]] \in {"registration", "active"}
    PROVE  NobodyLeftBehind'
BY DEF NobodyLeftBehind, MembersOf, Listed

\* The prizes of the tournaments that are over.
Over == [t \in Tournaments |-> IF phase[t] = "complete" THEN prize[t] ELSE 0]

LEMMA JoinIInv ==
    ASSUME IInv, NEW p \in Players, NEW t \in Tournaments, CasinoJoinTournament(p, t)
    PROVE  IInv'
<1> DEFINE today == IF day > lastPlayed[p] THEN 0 ELSE played[p]
<1>1. /\ p \in registered
      /\ phase[t] \in {None, "registration"}
      /\ today < MaxPerDay /\ played' = [played EXCEPT ![p] = today + 1]
      /\ lastPlayed' = [lastPlayed EXCEPT ![p] = day]
      /\ active' = [active EXCEPT ![p] = t]
      /\ phase' = [phase EXCEPT ![t] = "registration"]
      /\ members' = [members EXCEPT ![t] = Append(@, p)]
      /\ UNCHANGED <<day, lastClaim, registered, chips, tchips, shields, doubles, on, aura,
                     sessions, prize, issuance, netPnl, jackpot, granted, paid>>
  BY DEF CasinoJoinTournament, pools
<1>2. /\ phase \in [Tournaments -> {None, "registration", "active", "complete"}]
      /\ members \in [Tournaments -> Seq(Players)] /\ members[t] \in Seq(Players)
      /\ active \in [Players -> Tournaments \cup {None}]
  BY DEF IInv, PrizesInv, ActiveInv
<1>3. LimitsInv'
  <2>1. today \in 0 .. MaxPerDay
    <3>1. played[p] \in 0 .. MaxPerDay BY DEF IInv, LimitsInv
    <3>2. 0 \in 0 .. MaxPerDay BY TournamentAssumption
    <3> QED BY <3>1, <3>2
  <2> HIDE DEF today
  <2>2. today + 1 \in 0 .. MaxPerDay BY <1>1, <2>1, TournamentAssumption
  <2> QED BY <1>1, <2>2 DEF IInv, LimitsInv
<1>4. members' \in [Tournaments -> Seq(Players)] /\ members'[t] = Append(members[t], p)
  BY <1>1, <1>2
<1>5. PrizesInv'
  <2>1. Over' = Over
    <3>1. \A u \in Tournaments : phase'[u] = "complete" <=> phase[u] = "complete"
      BY <1>1, <1>2 DEF None
    <3> QED BY <1>1, <3>1 DEF Over
  <2>2. PrizesAreIssued'
    BY <1>1, <2>1, Zenon DEF IInv, PrizesInv, PrizesAreIssued, Over
  <2>3. phase' \in [Tournaments -> {None, "registration", "active", "complete"}] BY <1>1, <1>2
  <2>4. \A u \in Tournaments : phase'[u] \in {None, "registration"} => prize[u] = 0
    BY <1>1, <1>2 DEF IInv, PrizesInv
  <2> QED BY <1>1, <1>4, <2>2, <2>3, <2>4 DEF IInv, PrizesInv
<1>6. ActiveInv'
  <2>1. Listed(members', t) = Listed(members, t) \cup {p}
    <3>1. /\ Len(members[t]) \in Nat /\ Len(members'[t]) = Len(members[t]) + 1
          /\ members'[t] \in Seq(Players)
          /\ members'[t][Len(members[t]) + 1] = p
          /\ \A i \in 1 .. Len(members[t]) : members'[t][i] = members[t][i]
      BY <1>2, <1>4, AppendProperties
    <3>2. /\ DOMAIN members[t] = 1 .. Len(members[t])
          /\ DOMAIN members'[t] = 1 .. (Len(members[t]) + 1)
      BY <1>2, <3>1
    <3>3. 1 .. (Len(members[t]) + 1) = (1 .. Len(members[t])) \cup {Len(members[t]) + 1}
      BY <3>1
    <3> QED BY <3>1, <3>2, <3>3 DEF Listed
  <2>2. \A u \in Tournaments : u # t => Listed(members', u) = Listed(members, u) /\ phase'[u] = phase[u]
    BY <1>1, <1>2 DEF Listed
  <2>3. phase'[t] = "registration" BY <1>1, <1>2
  <2>4. ASSUME NEW q \in Players, active'[q] # None
        PROVE  q \in Listed(members', active'[q]) /\ phase'[active'[q]] \in {"registration", "active"}
    <3>1. CASE q = p
      <4>1. active'[q] = t BY <1>1, <1>2, <3>1
      <4> QED BY <2>1, <2>3, <3>1, <4>1
    <3>2. CASE q # p
      <4> DEFINE u == active[q]
      <4>1. active'[q] = u /\ u \in Tournaments BY <1>1, <1>2, <2>4, <3>2
      <4>2. q \in Listed(members, u) /\ phase[u] \in {"registration", "active"}
        BY <2>4, <4>1, MembersListed DEF IInv, ActiveInv, NobodyLeftBehind
      <4> HIDE DEF u
      <4>3. q \in Listed(members', u) /\ phase'[u] \in {"registration", "active"}
        BY <2>1, <2>2, <2>3, <4>1, <4>2
      <4> QED BY <4>1, <4>3
    <3> QED BY <3>1, <3>2
  <2>5. NobodyLeftBehind' BY <2>4, BehindListed
  <2>6. active' \in [Players -> Tournaments \cup {None}] BY <1>1, <1>2
  <2>7. \A q \in Players : q \notin registered' => active'[q] = None
    BY <1>1, <1>2 DEF IInv, ActiveInv
  <2> QED BY <2>5, <2>6, <2>7 DEF ActiveInv
<1> QED
  BY <1>1, <1>3, <1>5, <1>6, KeepBooks, KeepModifiers, KeepSessions DEF IInv

\* A pool that is set for some players.
LEMMA SetPoolType ==
    ASSUME NEW f \in Pools, NEW ps, NEW n \in 0 .. StartingPool
    PROVE  SetPool(f, ps, n) \in Pools
<1>1. ASSUME NEW q \in Players
      PROVE  (IF q \in ps THEN [f[q] EXCEPT !["tournament"] = n] ELSE f[q])
                \in [Stacks -> 0 .. StartingPool]
  <2>1. f[q] \in [Stacks -> 0 .. StartingPool] /\ "tournament" \in Stacks BY DEF Pools, Stacks
  <2> QED BY <2>1
<1> QED BY <1>1, Zenon DEF SetPool, Pools

LEMMA StartIInv ==
    ASSUME IInv, NEW p \in Players, NEW t \in Tournaments, CasinoStartTournament(p, t)
    PROVE  IInv'
<1> DEFINE ps == IF phase[t] = None THEN <<p>> ELSE members[t]
           in == registered \cap {ps[i] : i \in DOMAIN ps}
<1>1. /\ phase[t] \in {None, "registration"}
      /\ members' = [members EXCEPT ![t] = ps]
      /\ phase' = [phase EXCEPT ![t] = "active"]
      /\ prize' = [prize EXCEPT ![t] = Emission]
      /\ issuance' = issuance + Emission
      /\ tchips' = [q \in Players |-> IF q \in in THEN StartingChips ELSE tchips[q]]
      /\ shields' = SetPool(shields, in, StartingPool)
      /\ doubles' = SetPool(doubles, in, StartingPool)
      /\ active' = [q \in Players |-> IF q \in in THEN t ELSE active[q]]
      /\ on' = [q \in Players |-> IF q \in in THEN {} ELSE on[q]]
      /\ aura' = [q \in Players |-> IF q \in in THEN 0 ELSE aura[q]]
      /\ UNCHANGED <<day, lastClaim, lastPlayed, played, registered, chips, sessions, netPnl,
                     jackpot, granted, paid>>
  BY Zenon DEF CasinoStartTournament, Begin, limits
<1>2. /\ phase \in [Tournaments -> {None, "registration", "active", "complete"}]
      /\ members \in [Tournaments -> Seq(Players)] /\ members[t] \in Seq(Players)
      /\ active \in [Players -> Tournaments \cup {None}]
      /\ prize \in [Tournaments -> Nat] /\ issuance \in Nat
  BY DEF IInv, PrizesInv, ActiveInv
<1>3. ps \in Seq(Players) BY <1>2
<1>4. in \subseteq registered OBVIOUS
<1>5. phase[t] = "registration" => in = registered \cap Listed(members, t)
  BY DEF Listed, None, MembersOf
<1>6. in \subseteq {ps[i] : i \in DOMAIN ps} OBVIOUS
<1> HIDE DEF ps, in
<1>7. BooksInv'
  <2>1. tchips' \in [Players -> Nat] BY <1>1, TournamentAssumption DEF IInv, BooksInv
  <2> QED BY <1>1, <2>1 DEF IInv, BooksInv, HouseBalances
<1>8. ModifiersInv'
  <2>1. StartingPool \in 0 .. StartingPool /\ 0 \in 0 .. AuraMax BY CasinoAssumption
  <2>2. shields' \in Pools /\ doubles' \in Pools
    BY <1>1, <2>1, SetPoolType DEF IInv, ModifiersInv
  <2>3. on' \in [Players -> SUBSET Modifiers] BY <1>1 DEF IInv, ModifiersInv
  <2>4. aura' \in [Players -> 0 .. AuraMax] BY <1>1, <2>1 DEF IInv, ModifiersInv
  <2> QED BY <2>2, <2>3, <2>4 DEF ModifiersInv, Pools
<1>9. PrizesInv'
  <2> DEFINE e == Emission
  <2>1. e \in Nat /\ issuance + e <= RewardPool
    BY <1>2, TournamentAssumption DEF Emission, IInv, PrizesInv, PrizesAreIssued
  <2>2. prize[t] = 0 BY <1>1 DEF IInv, PrizesInv
  <2> HIDE DEF e
  <2>3. prize' = Add(prize, t, e)
    <3>1. prize[t] + e = e BY <2>1, <2>2
    <3> QED BY <1>1, <3>1 DEF Add, e
  <2>4. Total(prize') = Total(prize) + e
    <3>1. IsFiniteSet(Tournaments) BY CasinoAssumption
    <3>2. prize \in [Tournaments -> Nat] /\ e \in Nat BY <1>2, <2>1
    <3>3. Total(Add(prize, t, e)) = Total(prize) + e BY <3>1, <3>2, TotalAdd, Zenon
    <3> QED BY <2>3, <3>3
  <2>5. issuance' = issuance + e BY <1>1 DEF e
  <2>6. Over' = Over
    <3>1. \A u \in Tournaments : phase'[u] = "complete" <=> phase[u] = "complete"
      BY <1>1, <1>2 DEF None
    <3>2. \A u \in Tournaments : phase[u] = "complete" => prize'[u] = prize[u]
      BY <1>1, <1>2 DEF None
    <3> QED BY <3>1, <3>2 DEF Over
  <2>7. PrizesAreIssued'
    <3>1. issuance = Total(prize) /\ paid <= Total(Over)
      BY DEF IInv, PrizesInv, PrizesAreIssued, Over
    <3>2. issuance' = Total(prize') BY <2>4, <2>5, <3>1
    <3>3. paid' <= Total(Over') BY <1>1, <2>6, <3>1
    <3>4. issuance' <= RewardPool BY <2>1, <2>5
    <3> QED BY <3>2, <3>3, <3>4, Zenon DEF PrizesAreIssued, Over
  <2>8. prize' \in [Tournaments -> Nat] /\ issuance' \in Nat BY <1>2, <2>1, <2>3, <2>5 DEF Add
  <2>9. phase' \in [Tournaments -> {None, "registration", "active", "complete"}] BY <1>1, <1>2
  <2>10. members' \in [Tournaments -> Seq(Players)] BY <1>1, <1>2, <1>3
  <2>11. \A u \in Tournaments : phase'[u] \in {None, "registration"} => prize'[u] = 0
    BY <1>1, <1>2 DEF IInv, PrizesInv, None
  <2> QED BY <1>1, <2>7, <2>8, <2>9, <2>10, <2>11 DEF IInv, PrizesInv
<1>10. ActiveInv'
  <2>1. Listed(members', t) = {ps[i] : i \in DOMAIN ps} BY <1>1, <1>2 DEF Listed
  <2>2. \A u \in Tournaments : u # t => Listed(members', u) = Listed(members, u) /\ phase'[u] = phase[u]
    BY <1>1, <1>2 DEF Listed
  <2>3. phase'[t] = "active" BY <1>1, <1>2
  <2>4. ASSUME NEW q \in Players, active'[q] # None
        PROVE  q \in Listed(members', active'[q]) /\ phase'[active'[q]] \in {"registration", "active"}
    <3>1. CASE q \in in
      <4>1. active'[q] = t BY <1>1, <3>1
      <4> QED BY <1>6, <2>1, <2>3, <3>1, <4>1
    <3>2. CASE q \notin in
      <4> DEFINE u == active[q]
      <4>1. active'[q] = u /\ u \in Tournaments BY <1>1, <1>2, <2>4, <3>2
      <4>2. q \in Listed(members, u) /\ phase[u] \in {"registration", "active"} /\ q \in registered
        BY <2>4, <4>1, MembersListed DEF IInv, ActiveInv, NobodyLeftBehind
      <4>3. u # t BY <1>1, <1>5, <3>2, <4>2 DEF None
      <4> HIDE DEF u
      <4>4. q \in Listed(members', u) /\ phase'[u] \in {"registration", "active"}
        BY <2>2, <4>1, <4>2, <4>3
      <4> QED BY <4>1, <4>4
    <3> QED BY <3>1, <3>2
  <2>5. NobodyLeftBehind' BY <2>4, BehindListed
  <2>6. active' \in [Players -> Tournaments \cup {None}] BY <1>1, <1>2
  <2>7. \A q \in Players : q \notin registered' => active'[q] = None
    BY <1>1, <1>2, <1>4 DEF IInv, ActiveInv
  <2> QED BY <2>5, <2>6, <2>7 DEF ActiveInv
<1> QED
  BY <1>1, <1>7, <1>8, <1>9, <1>10, KeepLimits, KeepSessions DEF IInv

LEMMA EndIInv ==
    ASSUME IInv, NEW t \in Tournaments, CasinoEndTournament(t)
    PROVE  IInv'
<1> DEFINE f == Prizes(t)
           out == Leavers(t)
<1>1. /\ phase[t] = "active"
      /\ chips' = [p \in Players |-> chips[p] + f[p]]
      /\ granted' = granted + Total(f)
      /\ paid' = paid + Total(f)
      /\ active' = [p \in Players |-> IF p \in out THEN None ELSE active[p]]
      /\ tchips' = [p \in Players |-> IF p \in out THEN 0 ELSE tchips[p]]
      /\ shields' = SetPool(shields, out, 0)
      /\ doubles' = SetPool(doubles, out, 0)
      /\ on' = [p \in Players |-> IF p \in out THEN {} ELSE on[p]]
      /\ phase' = [phase EXCEPT ![t] = "complete"]
      /\ UNCHANGED <<day, lastClaim, lastPlayed, played, registered, aura, sessions, members,
                     prize, issuance, netPnl, jackpot>>
  BY Zenon DEF CasinoEndTournament, limits
<1>2. /\ phase \in [Tournaments -> {None, "registration", "active", "complete"}]
      /\ members \in [Tournaments -> Seq(Players)]
      /\ active \in [Players -> Tournaments \cup {None}]
      /\ prize \in [Tournaments -> Nat] /\ prize[t] \in Nat /\ paid \in Nat
      /\ tchips \in [Players -> Nat]
  BY DEF IInv, PrizesInv, ActiveInv, BooksInv
<1>3. /\ f \in [Players -> Nat] /\ Total(f) <= prize[t]
      /\ \A p \in Players : p \notin registered => f[p] = 0
  <2>1. Playable(t) BY <1>2 DEF Playable
  <2> QED BY <2>1, PrizesFit, Zenon
<1>4. \A p \in Players : p \in out <=> p \in registered /\ p \in Listed(members, t) /\ active[p] = t
  BY MembersListed DEF Leavers
<1> HIDE DEF f, out
<1>5. Total(f) \in Nat BY <1>3, CasinoAssumption, TotalType, Zenon
<1>6. BooksInv'
  <2>1. tchips' \in [Players -> Nat] BY <1>1, <1>2
  <2> QED BY <1>1, <1>3, <2>1, PrizesBooks DEF IInv
<1>7. ModifiersInv'
  <2>1. 0 \in 0 .. StartingPool BY CasinoAssumption
  <2>2. shields' \in Pools /\ doubles' \in Pools
    BY <1>1, <2>1, SetPoolType DEF IInv, ModifiersInv
  <2>3. on' \in [Players -> SUBSET Modifiers] BY <1>1 DEF IInv, ModifiersInv
  <2> QED BY <1>1, <2>2, <2>3 DEF IInv, ModifiersInv, Pools
<1>8. PrizesInv'
  <2>1. Over \in [Tournaments -> Nat] BY <1>2 DEF Over
  <2>2. Over' = Add(Over, t, prize[t])
    <3>1. Over[t] + prize[t] = prize[t] BY <1>1, <1>2 DEF Over
    <3>2. Add(Over, t, prize[t]) = [Over EXCEPT ![t] = prize[t]] BY <3>1 DEF Add
    <3>3. Over' = [u \in Tournaments |-> IF u = t THEN prize[u] ELSE Over[u]]
      BY <1>1, <1>2 DEF Over
    <3>4. [Over EXCEPT ![t] = prize[t]] = [u \in Tournaments |-> IF u = t THEN prize[u] ELSE Over[u]]
      BY <2>1
    <3> QED BY <3>2, <3>3, <3>4
  <2>3. Total(Over') = Total(Over) + prize[t]
    <3>1. IsFiniteSet(Tournaments) BY CasinoAssumption
    <3>2. prize[t] \in Nat BY <1>2
    <3>3. Total(Add(Over, t, prize[t])) = Total(Over) + prize[t]
      BY <2>1, <3>1, <3>2, TotalAdd, Zenon
    <3> QED BY <2>2, <3>3
  <2>4. Total(Over) \in Nat BY <2>1, CasinoAssumption, TotalType, Zenon
  <2>5. paid <= Total(Over) /\ issuance = Total(prize) /\ issuance <= RewardPool
    BY DEF IInv, PrizesInv, PrizesAreIssued, Over
  <2>6. paid' <= Total(Over') BY <1>1, <1>2, <1>3, <1>5, <2>3, <2>4, <2>5
  <2>7. PrizesAreIssued'
    <3>1. issuance' = Total(prize') /\ issuance' <= RewardPool BY <1>1, <2>5
    <3> QED BY <2>6, <3>1, Zenon DEF PrizesAreIssued, Over
  <2>8. phase' \in [Tournaments -> {None, "registration", "active", "complete"}] BY <1>1, <1>2
  <2>9. \A u \in Tournaments : phase'[u] \in {None, "registration"} => prize'[u] = 0
    BY <1>1, <1>2 DEF IInv, PrizesInv, None
  <2>10. paid' \in Nat BY <1>1, <1>2, <1>5
  <2> QED BY <1>1, <2>7, <2>8, <2>9, <2>10 DEF IInv, PrizesInv
<1>9. ActiveInv'
  <2>1. \A u \in Tournaments : Listed(members', u) = Listed(members, u) /\ (u # t => phase'[u] = phase[u])
    BY <1>1, <1>2 DEF Listed
  <2>2. ASSUME NEW q \in Players, active'[q] # None
        PROVE  q \in Listed(members', active'[q]) /\ phase'[active'[q]] \in {"registration", "active"}
    <3> DEFINE u == active[q]
    <3>1. q \notin out /\ active'[q] = u /\ u \in Tournaments BY <1>1, <1>2, <2>2
    <3>2. q \in Listed(members, u) /\ phase[u] \in {"registration", "active"} /\ q \in registered
      BY <2>2, <3>1, MembersListed DEF IInv, ActiveInv, NobodyLeftBehind
    <3>3. u # t BY <1>4, <3>1, <3>2
    <3> HIDE DEF u
    <3>4. q \in Listed(members', u) /\ phase'[u] \in {"registration", "active"}
      BY <2>1, <3>1, <3>2, <3>3
    <3> QED BY <3>1, <3>4
  <2>3. NobodyLeftBehind' BY <2>2, BehindListed
  <2>4. active' \in [Players -> Tournaments \cup {None}] BY <1>1, <1>2
  <2>5. \A q \in Players : q \notin registered' => active'[q] = None
    BY <1>1, <1>2 DEF IInv, ActiveInv
  <2> QED BY <2>3, <2>4, <2>5 DEF ActiveInv
<1> QED
  BY <1>1, <1>6, <1>7, <1>8, <1>9, KeepLimits, KeepSessions DEF IInv

LEMMA NextIInv == IInv /\ [Next]_vars => IInv'
<1> SUFFICES ASSUME IInv, [Next]_vars PROVE IInv' OBVIOUS
<1>1. ASSUME NEW p \in Players, PlayerStep(p) PROVE IInv'
  <2>1. CASE CasinoRegister(p) BY <2>1, RegisterIInv
  <2>2. ASSUME NEW n \in Amounts, CasinoDeposit(p, n) PROVE IInv' BY <2>2, DepositIInv
  <2>3. ASSUME NEW m \in Modifiers, CasinoToggle(p, m) PROVE IInv' BY <2>3, ToggleIInv
  <2>4. ASSUME NEW i \in Ids, NEW g \in Games, NEW bet \in Bets, CasinoStartGame(p, i, g, bet)
        PROVE  IInv'
    BY <2>4, StartGameIInv
  <2>5. ASSUME NEW i \in Ids, CasinoGameMove(p, i) PROVE IInv' BY <2>5, GameMoveIInv
  <2> QED BY <1>1, <2>1, <2>2, <2>3, <2>4, <2>5, Zenon DEF PlayerStep
<1>2. ASSUME NEW p \in Players, NEW t \in Tournaments, CasinoJoinTournament(p, t) PROVE IInv'
  BY <1>2, JoinIInv
<1>3. ASSUME NEW p \in Players, NEW t \in Tournaments, CasinoStartTournament(p, t) PROVE IInv'
  BY <1>3, StartIInv
<1>4. ASSUME NEW t \in Tournaments, CasinoEndTournament(t) PROVE IInv'
  BY <1>4, EndIInv
<1>5. CASE NextDay BY <1>5, NextDayIInv
<1>6. CASE UNCHANGED vars
  <2>1. UNCHANGED <<registered, chips, tchips, shields, doubles, on, aura, active, day, lastClaim,
                    lastPlayed, played, sessions, phase, members, prize, issuance, netPnl,
                    jackpot, granted, paid>>
    BY <1>6 DEF vars
  <2> QED
    BY <2>1, KeepBooks, KeepModifiers, KeepLimits, KeepSessions, KeepPrizes, KeepActive DEF IInv
<1> QED BY <1>1, <1>2, <1>3, <1>4, <1>5, <1>6, Zenon DEF Next

----------------------------------------------------------------------------
\* The inductive invariant holds in every reachable state.
LEMMA Invariance == Spec => []IInv
BY InitIInv, NextIInv, PTL DEF Spec

\* Every variable of the casino keeps its type: no player's chips, pool of
\* modifiers, meter or daily count leaves its range.
THEOREM TypeCorrect == Spec => []TypeOK
<1>1. IInv => TypeOK
  BY DEF IInv, BooksInv, ModifiersInv, LimitsInv, SessionsInv, PrizesInv, ActiveInv, TypeOK
<1> QED BY <1>1, Invariance, PTL

\* Whatever the games return and whatever tournaments run, the cash of the
\* players and the house's net result add up to what was granted.
THEOREM HouseAlwaysBalances == Spec => []HouseBalances
<1>1. IInv => HouseBalances BY DEF IInv, BooksInv
<1> QED BY <1>1, Invariance, PTL

\* Every prize is issued once, within the reward pool, and what the ended
\* tournaments paid, rounded share by share, is at most their prizes.
THEOREM PrizesAreAlwaysIssued == Spec => []PrizesAreIssued
<1>1. IInv => PrizesAreIssued BY DEF IInv, PrizesInv
<1> QED BY <1>1, Invariance, PTL

\* A player's active tournament is one the player is a member of and that is
\* not over, however joining, starting and ending interleave.
THEOREM NobodyIsLeftBehind == Spec => []NobodyLeftBehind
<1>1. IInv => NobodyLeftBehind BY DEF IInv, ActiveInv
<1> QED BY <1>1, Invariance, PTL

----------------------------------------------------------------------------
(* Leaderboards: what an update of a board leaves. *)

Entries == [player : Players, chips : Nat]

\* The entries of one board are among those of another, without player p.
Others(b, board, p) ==
    \A i \in 1 .. Len(b) :
        \E j \in 1 .. Len(board) : b[i] = board[j] /\ board[j].player # p

\* One entry per player, the richest first.
Ordered(b) ==
    \A i, j \in 1 .. Len(b) :
        i < j => b[i].player # b[j].player /\ b[i].chips >= b[j].chips

\* Taking out a player's entry keeps the order of the others.
LEMMA WithoutIs ==
    ASSUME NEW board \in Seq(Entries), Ordered(board), NEW p
    PROVE  LET b == Without(board, p)
           IN  /\ b \in Seq(Entries) /\ Len(b) <= Len(board) /\ Ordered(b)
               /\ Others(b, board, p)
<1> DEFINE n == Len(board)
           V == Seq(Entries)
           Is(f) == f = [k \in 0 .. n |->
                          IF k = 0 THEN <<>>
                          ELSE IF board[k].player = p THEN f[k - 1] ELSE Append(f[k - 1], board[k])]
           kept == CHOOSE f : Is(f)
           step == [i \in 1 .. n |->
                      [v \in V |-> IF board[i].player = p THEN v ELSE Append(v, board[i])]]
<1>1. Without(board, p) = kept[n] BY Zenon DEF Without
<1>2. n \in Nat /\ \A i \in 1 .. n : board[i] \in Entries OBVIOUS
<1>3. \A i \in 1 .. n, v \in V :
        /\ step[i][v] = IF board[i].player = p THEN v ELSE Append(v, board[i])
        /\ step[i][v] \in V
  <2> SUFFICES ASSUME NEW i \in 1 .. n, NEW v \in V
               PROVE  /\ step[i][v] = IF board[i].player = p THEN v ELSE Append(v, board[i])
                      /\ step[i][v] \in V
    OBVIOUS
  <2>1. step[i][v] = IF board[i].player = p THEN v ELSE Append(v, board[i]) OBVIOUS
  <2>2. Append(v, board[i]) \in V BY <1>2
  <2> QED BY <2>1, <2>2
<1>4. step \in [1 .. n -> [V -> V]]
  <2>1. \A i \in 1 .. n : step[i] \in [V -> V] BY <1>3
  <2> QED BY <2>1
<1>5. <<>> \in V OBVIOUS
<1> HIDE DEF step, V, n
<1>6. PICK g : Follows(g, n, V, <<>>, step) BY <1>2, <1>4, <1>5, RecursionExists, Zenon
<1>7. ASSUME NEW k \in 0 .. n
      PROVE  g[k] = IF k = 0 THEN <<>>
                    ELSE IF board[k].player = p THEN g[k - 1] ELSE Append(g[k - 1], board[k])
  <2>1. CASE k = 0 BY <1>6, <2>1 DEF Follows
  <2>2. CASE k # 0
    <3>1. k \in 1 .. n /\ k - 1 \in 0 .. n BY <1>2, <2>2
    <3>2. g[k] = step[k][g[k - 1]] /\ g[k - 1] \in V BY <1>6, <3>1 DEF Follows
    <3> QED BY <1>3, <2>2, <3>1, <3>2
  <2> QED BY <2>1, <2>2
<1>8. g = [k \in 0 .. n |-> g[k]] BY <1>6 DEF Follows
<1>9. Is(g) BY <1>7, <1>8
<1>10. Is(kept) BY <1>9, Zenon
<1> HIDE DEF kept
<1>11. \A k \in 0 .. n :
         kept[k] = IF k = 0 THEN <<>>
                   ELSE IF board[k].player = p THEN kept[k - 1] ELSE Append(kept[k - 1], board[k])
  BY <1>10
<1> DEFINE From(v, k) == \A i \in 1 .. Len(v) :
                            \E j \in 1 .. k : v[i] = board[j] /\ board[j].player # p
           S == {k \in 0 .. n : /\ kept[k] \in V /\ Len(kept[k]) <= k
                                /\ From(kept[k], k) /\ Ordered(kept[k])}
<1>12. 0 \in S
  <2>1. 0 \in 0 .. n BY <1>2
  <2>2. kept[0] = <<>> /\ Len(kept[0]) = 0 BY <1>11, <2>1
  <2> QED BY <1>5, <2>1, <2>2 DEF Ordered
<1>13. ASSUME NEW k \in 0 .. n - 1, k \in S PROVE k + 1 \in S
  <2> DEFINE v == kept[k]
             e == board[k + 1]
  <2>1. /\ k + 1 \in 0 .. n /\ k + 1 # 0 /\ (k + 1) - 1 = k /\ k + 1 \in 1 .. n
        /\ k \in Nat /\ k \in 0 .. n
    BY <1>2
  <2>2. /\ v \in Seq(Entries) /\ Len(v) \in Nat /\ Len(v) <= k /\ From(v, k) /\ Ordered(v)
    BY <1>13 DEF V
  <2>3. e \in Entries BY <1>2, <2>1
  <2>4. kept[k + 1] = IF e.player = p THEN v ELSE Append(v, e) BY <1>11, <2>1
  <2>5. CASE e.player = p
    <3>1. kept[k + 1] = v BY <2>4, <2>5
    <3>2. From(v, k + 1)
      <4>1. \A j \in 1 .. k : j \in 1 .. k + 1 BY <2>1
      <4> QED BY <2>2, <4>1
    <3>3. Len(v) <= k + 1 BY <2>1, <2>2
    <3> HIDE DEF v, From
    <3> QED BY <2>1, <2>2, <3>1, <3>2, <3>3 DEF V
  <2>6. CASE e.player # p
    <3> DEFINE w == Append(v, e)
               m == Len(v)
    <3>1. kept[k + 1] = w BY <2>4, <2>6
    <3>2. /\ w \in Seq(Entries) /\ Len(w) = m + 1 /\ w[m + 1] = e
          /\ \A i \in 1 .. m : w[i] = v[i]
      <4> HIDE DEF v, e
      <4> QED BY <2>2, <2>3, AppendProperties
    <3>3. \A i \in 1 .. Len(w) : i \in 1 .. m \/ i = m + 1 BY <2>2, <3>2
    <3> HIDE DEF w, m
    <3>4. From(w, k + 1)
      <4> SUFFICES ASSUME NEW i \in 1 .. Len(w)
                   PROVE  \E j \in 1 .. k + 1 : w[i] = board[j] /\ board[j].player # p
        OBVIOUS
      <4>1. CASE i = m + 1
        <5>1. k + 1 \in 1 .. k + 1 BY <2>1
        <5> QED BY <2>6, <3>2, <4>1, <5>1
      <4>2. CASE i \in 1 .. m
        <5>1. PICK j \in 1 .. k : v[i] = board[j] /\ board[j].player # p BY <2>2, <4>2 DEF m
        <5>2. j \in 1 .. k + 1 BY <2>1
        <5> QED BY <3>2, <4>2, <5>1, <5>2
      <4> QED BY <3>3, <4>1, <4>2
    <3>5. Ordered(w)
      <4> SUFFICES ASSUME NEW i \in 1 .. Len(w), NEW j \in 1 .. Len(w), i < j
                   PROVE  w[i].player # w[j].player /\ w[i].chips >= w[j].chips
        BY DEF Ordered
      <4>1. i \in 1 .. m BY <2>2, <3>2 DEF m
      <4>2. CASE j \in 1 .. m BY <2>2, <3>2, <4>1, <4>2 DEF Ordered, m
      <4>3. CASE j = m + 1
        <5>1. PICK h \in 1 .. k : v[i] = board[h] BY <2>2, <4>1 DEF m
        <5>2. h \in 1 .. Len(board) /\ k + 1 \in 1 .. Len(board) /\ h < k + 1
          BY <1>2, <2>1 DEF n
        <5>3. board[h].player # board[k + 1].player /\ board[h].chips >= board[k + 1].chips
          BY <5>2 DEF Ordered
        <5> QED BY <3>2, <4>1, <4>3, <5>1, <5>3
      <4> QED BY <3>3, <4>2, <4>3
    <3>6. Len(w) <= k + 1 BY <2>1, <2>2, <3>2 DEF m
    <3> HIDE DEF From
    <3> QED BY <2>1, <3>1, <3>2, <3>4, <3>5, <3>6 DEF V
  <2> QED BY <2>5, <2>6
<1>14. 0 .. n \subseteq S
  <2>1. \A i \in 0 .. n - 1 : i \in S => i + 1 \in S BY <1>13
  <2> HIDE DEF S
  <2> QED BY <1>2, <1>12, <2>1, InductionTo, Zenon
<1>15. n \in S
  <2>1. n \in 0 .. n BY <1>2
  <2> QED BY <1>14, <2>1
<1> QED BY <1>1, <1>15 DEF Others, V, n

\* Inserting at k moves the entries from k on by one.
LEMMA InsertIs ==
    ASSUME NEW E, NEW s \in Seq(E), NEW k \in 1 .. Len(s) + 1, NEW e \in E
    PROVE  LET r == InsertAt(s, k, e)
           IN  /\ r \in Seq(E) /\ Len(r) = Len(s) + 1 /\ r[k] = e
               /\ \A i \in 1 .. k - 1 : r[i] = s[i]
               /\ \A i \in k + 1 .. Len(s) + 1 : r[i] = s[i - 1]
<1> DEFINE a == SubSeq(s, 1, k - 1)
           c == SubSeq(s, k, Len(s))
           ae == a \o <<e>>
           r == ae \o c
<1>1. Len(s) \in Nat /\ k \in Nat /\ k >= 1 /\ k <= Len(s) + 1 OBVIOUS
<1>2. InsertAt(s, k, e) = r BY DEF InsertAt
<1>3. a \in Seq(E) /\ Len(a) = k - 1 /\ \A i \in 1 .. k - 1 : a[i] = s[i]
  BY <1>1
<1>4. c \in Seq(E) /\ Len(c) = Len(s) - k + 1 /\ \A i \in 1 .. Len(s) - k + 1 : c[i] = s[k + i - 1]
  <2>1. \A i \in k .. Len(s) : i \in 1 .. Len(s) BY <1>1
  <2>2. \A i \in k .. Len(s) : s[i] \in E BY <2>1
  <2>3. k \in Int /\ Len(s) \in Int BY <1>1
  <2>4. Len(c) = Len(s) - k + 1
    <3>1. Len(c) = IF k <= Len(s) THEN Len(s) - k + 1 ELSE 0 BY <2>2, <2>3, SubSeqProperties
    <3> QED BY <1>1, <3>1
  <2> QED BY <2>2, <2>3, <2>4, SubSeqProperties
<1> HIDE DEF a, c
<1>5. /\ ae \in Seq(E) /\ Len(ae) = k /\ ae[k] = e /\ \A i \in 1 .. k - 1 : ae[i] = s[i]
  <2>1. <<e>> \in Seq(E) /\ Len(<<e>>) = 1 /\ <<e>>[1] = e OBVIOUS
  <2>2. ae \in Seq(E) /\ Len(ae) = k BY <1>1, <1>3, <2>1
  <2>3. ae[k] = e BY <1>1, <1>3
  <2>4. \A i \in 1 .. k - 1 : ae[i] = s[i] BY <1>1, <1>3
  <2> QED BY <2>2, <2>3, <2>4
<1> HIDE DEF ae
<1>6. /\ r \in Seq(E) /\ Len(r) = Len(s) + 1
  <2>1. r \in Seq(E) /\ Len(r) = Len(ae) + Len(c) BY <1>4, <1>5, ConcatProperties
  <2> QED BY <1>1, <1>4, <1>5, <2>1
<1>7. \A i \in 1 .. k : r[i] = ae[i]
  <2>1. \A i \in 1 .. k : i \in 1 .. Len(ae) BY <1>5
  <2> QED BY <1>4, <1>5, <2>1, ConcatProperties
<1>8. \A i \in k + 1 .. Len(s) + 1 : r[i] = s[i - 1]
  <2> SUFFICES ASSUME NEW i \in k + 1 .. Len(s) + 1 PROVE r[i] = s[i - 1] OBVIOUS
  <2>1. /\ i \in Len(ae) + 1 .. Len(ae) + Len(c) /\ i - k \in 1 .. Len(s) - k + 1
        /\ k + (i - k) - 1 = i - 1
    BY <1>1, <1>4, <1>5
  <2>2. i \in 1 .. Len(ae) + Len(c) /\ ~(i <= Len(ae)) /\ i - Len(ae) = i - k
    BY <1>1, <1>4, <1>5, <2>1
  <2>3. r[i] = IF i <= Len(ae) THEN ae[i] ELSE c[i - Len(ae)]
    BY <1>4, <1>5, <2>2, ConcatProperties
  <2>4. r[i] = c[i - k] BY <2>2, <2>3
  <2> QED BY <1>4, <2>1, <2>4
<1>9. k \in 1 .. k /\ \A i \in 1 .. k - 1 : i \in 1 .. k BY <1>1
<1> QED BY <1>2, <1>5, <1>6, <1>7, <1>8, <1>9

\* The entries before position k are not poorer than c, and from k on not richer.
Splits(s, c, k) ==
    /\ k \in 1 .. Len(s) + 1
    /\ \A i \in 1 .. Len(s) : i < k => s[i].chips >= c
    /\ \A i \in 1 .. Len(s) : i >= k => c >= s[i].chips

\* A search ends between the richer and the poorer entries.
LEMMA PositionsSplit ==
    ASSUME NEW s \in Seq(Entries), Ordered(s), NEW c \in Nat, NEW k \in Positions(s, c)
    PROVE  Splits(s, c, k)
<1> DEFINE n == Len(s)
           equal == {i \in 1 .. n : s[i].chips = c}
           more == {i \in 1 .. n : s[i].chips > c}
<1>1. n \in Nat /\ DOMAIN s = 1 .. n OBVIOUS
<1>2. \A i \in 1 .. n : s[i].chips \in Nat
  <2>1. \A i \in 1 .. n : s[i] \in Entries OBVIOUS
  <2> QED BY <2>1 DEF Entries
<1>3. \A i, j \in 1 .. n : i < j => s[i].chips >= s[j].chips BY DEF Ordered
<1>4. k \in IF equal # {} THEN equal ELSE {1 + Cardinality(more)}
  BY <1>1 DEF Positions
<1> HIDE DEF n
<1>5. CASE equal # {}
  <2>1. k \in 1 .. n /\ s[k].chips = c BY <1>4, <1>5
  <2>2. k \in 1 .. n + 1 BY <1>1, <2>1
  <2>3. ASSUME NEW i \in 1 .. n PROVE (i < k => s[i].chips >= c) /\ (i >= k => c >= s[i].chips)
    <3>1. i < k \/ i = k \/ k < i BY <1>1, <2>1
    <3>2. s[i].chips \in Nat BY <1>2
    <3> QED BY <1>3, <2>1, <3>1, <3>2
  <2> QED BY <2>2, <2>3 DEF Splits, n
<1>6. CASE equal = {}
  <2>1. k = 1 + Cardinality(more) BY <1>4, <1>6
  <2>2. \E m \in 0 .. n : more = 1 .. m
    <3>1. CASE more = {}
      <4>1. 0 \in 0 .. n /\ 1 .. 0 = {} BY <1>1
      <4> QED BY <3>1, <4>1
    <3>2. CASE more # {}
      <4>1. more \subseteq Nat /\ \A y \in more : y <= n BY <1>1
      <4> DEFINE m == Greatest(more)
      <4>2. m \in more /\ \A y \in more : y <= m
        <5> HIDE DEF more
        <5> QED BY <1>1, <3>2, <4>1, GreatestIsGreatest
      <4> HIDE DEF m
      <4>3. m \in 1 .. n /\ s[m].chips > c BY <4>2
      <4>4. ASSUME NEW y \in 1 .. m PROVE y \in more
        <5>1. y \in 1 .. n /\ (y = m \/ y < m) BY <1>1, <4>3
        <5>2. s[y].chips >= s[m].chips BY <1>2, <1>3, <4>3, <5>1
        <5>3. s[y].chips \in Nat /\ s[m].chips \in Nat BY <1>2, <4>3, <5>1
        <5> QED BY <4>3, <5>1, <5>2, <5>3
      <4>5. ASSUME NEW y \in more PROVE y \in 1 .. m BY <1>1, <4>2, <4>3
      <4>6. m \in 0 .. n BY <1>1, <4>3
      <4> QED BY <4>4, <4>5, <4>6
    <3> QED BY <3>1, <3>2
  <2>3. PICK m \in 0 .. n : more = 1 .. m BY <2>2
  <2>4. Cardinality(more) = m
    <3>1. 1 \in Int /\ m \in Int BY <1>1, <2>3
    <3>2. Cardinality(1 .. m) = IF 1 > m THEN 0 ELSE m - 1 + 1 BY <3>1, FS_Interval
    <3>3. Cardinality(1 .. m) = m BY <1>1, <2>3, <3>2
    <3> HIDE DEF more
    <3> QED BY <2>3, <3>3
  <2>5. k = m + 1 /\ k \in 1 .. n + 1 BY <1>1, <2>1, <2>3, <2>4
  <2>6. ASSUME NEW i \in 1 .. n PROVE (i < k => s[i].chips >= c) /\ (i >= k => c >= s[i].chips)
    <3>1. s[i].chips \in Nat BY <1>2
    <3>2. i < k <=> i \in 1 .. m BY <1>1, <2>5
    <3>3. i < k <=> s[i].chips > c BY <2>3, <3>2
    <3> QED BY <1>1, <2>5, <3>1, <3>3
  <2> QED BY <2>5, <2>6 DEF Splits, n
<1> QED BY <1>5, <1>6

\* A board that is cut to its limit.
LEMMA TruncatedIs ==
    ASSUME NEW s \in Seq(Entries), Ordered(s)
    PROVE  LET b == Truncated(s)
           IN  /\ b \in Seq(Entries) /\ Len(b) <= Top /\ Len(b) <= Len(s) /\ Ordered(b)
               /\ \A i \in 1 .. Len(b) : b[i] = s[i]
<1> DEFINE m == IF Len(s) <= Top THEN Len(s) ELSE Top
           b == SubSeq(s, 1, m)
<1>1. Len(s) \in Nat /\ Top \in Nat BY TopAssumption
<1>2. m \in Nat /\ m <= Top /\ m <= Len(s) BY <1>1
<1>3. Truncated(s) = b BY DEF Truncated
<1> HIDE DEF m
<1>4. b \in Seq(Entries) /\ Len(b) = m /\ \A i \in 1 .. m : b[i] = s[i]
  BY <1>1, <1>2
<1> HIDE DEF b
<1>5. \A i \in 1 .. m : i \in 1 .. Len(s) BY <1>1, <1>2
<1>6. Ordered(b) BY <1>4, <1>5 DEF Ordered
<1> QED BY <1>2, <1>3, <1>4, <1>6

\* A board of the invariant.
IsKept(b) == b \in Seq(Entries) /\ Ordered(b) /\ Len(b) <= Top

\* What an update leaves: the player's new entry, or none, and entries of others.
Shown(b, board, p, c) ==
    \A i \in 1 .. Len(b) :
        \/ b[i] = Entry(p, c)
        \/ \E j \in 1 .. Len(board) : b[i] = board[j] /\ board[j].player # p

\* Every board that an update may leave is sorted, within the limit, with one entry
\* per player, and shows the new stack or nothing of the player.
LEMMA UpdatedIs ==
    ASSUME NEW board, IsKept(board), NEW p \in Players, NEW c \in Nat,
           NEW b \in Updated(board, p, c)
    PROVE  IsKept(b) /\ Shown(b, board, p, c)
<1> DEFINE rest == Without(board, p)
           e == Entry(p, c)
<1>1. /\ board \in Seq(Entries) /\ Ordered(board) /\ Len(board) <= Top BY DEF IsKept
<1>2. /\ rest \in Seq(Entries) /\ Len(rest) <= Len(board) /\ Ordered(rest)
      /\ Others(rest, board, p)
  BY <1>1, WithoutIs
<1>3. e \in Entries /\ e.player = p /\ e.chips = c BY DEF Entry, Entries
<1>4. \/ b = rest
      \/ \E k \in Positions(rest, c) : b = Truncated(InsertAt(rest, k, e))
  BY Zenon DEF Updated
<1> HIDE DEF rest, e
<1>5. CASE b = rest
  <2>1. Len(rest) <= Top
    <3>1. Len(rest) \in Nat /\ Len(board) \in Nat /\ Top \in Nat BY <1>1, <1>2, TopAssumption
    <3> QED BY <1>1, <1>2, <3>1
  <2> QED BY <1>2, <1>5, <2>1 DEF IsKept, Shown, Others
<1>6. ASSUME NEW k \in Positions(rest, c), b = Truncated(InsertAt(rest, k, e))
      PROVE  IsKept(b) /\ Shown(b, board, p, c)
  <2> DEFINE r == InsertAt(rest, k, e)
             n == Len(rest)
  <2>1. /\ k \in 1 .. n + 1
        /\ \A i \in 1 .. n : i < k => rest[i].chips >= c
        /\ \A i \in 1 .. n : i >= k => c >= rest[i].chips
    BY <1>2, PositionsSplit DEF Splits
  <2>2. /\ r \in Seq(Entries) /\ Len(r) = n + 1 /\ r[k] = e
        /\ \A i \in 1 .. k - 1 : r[i] = rest[i]
        /\ \A i \in k + 1 .. n + 1 : r[i] = rest[i - 1]
    BY <1>2, <1>3, <2>1, InsertIs
  <2>3. n \in Nat BY <1>2
  <2> HIDE DEF r, n
  \* Where an entry of r comes from.
  <2> DEFINE at == [i \in 1 .. n + 1 |-> IF i < k THEN i ELSE i - 1]
  <2>4. ASSUME NEW i \in 1 .. n + 1, i # k
        PROVE  /\ at[i] \in 1 .. n /\ r[i] = rest[at[i]]
               /\ i < k => at[i] < k /\ r[i].chips >= c
               /\ k < i => at[i] >= k /\ c >= r[i].chips
    <3>1. CASE i < k
      <4>1. i \in 1 .. k - 1 /\ i \in 1 .. n /\ at[i] = i BY <2>1, <2>3, <3>1
      <4> QED BY <2>1, <2>2, <3>1, <4>1
    <3>2. CASE k < i
      <4>1. i \in k + 1 .. n + 1 /\ i - 1 \in 1 .. n /\ i - 1 >= k /\ at[i] = i - 1
        BY <2>1, <2>3, <3>2
      <4> QED BY <2>1, <2>2, <3>2, <4>1
    <3> QED BY <2>1, <2>3, <2>4, <3>1, <3>2
  <2>5. ASSUME NEW i \in 1 .. n + 1, NEW j \in 1 .. n + 1, i < j, i # k, j # k
        PROVE  at[i] < at[j]
    BY <2>1, <2>3, <2>5
  <2> HIDE DEF at
  <2>6. \A i \in 1 .. n : rest[i].player # p
    BY <1>2 DEF Others, n
  <2>7. Ordered(r)
    <3> SUFFICES ASSUME NEW i \in 1 .. n + 1, NEW j \in 1 .. n + 1, i < j
                 PROVE  r[i].player # r[j].player /\ r[i].chips >= r[j].chips
      BY <2>2 DEF Ordered
    <3>1. CASE i = k
      <4>1. j # k /\ k < j BY <2>1, <2>3, <3>1
      <4> QED BY <1>3, <2>2, <2>4, <2>6, <3>1, <4>1
    <3>2. CASE j = k
      <4>1. i # k /\ i < k BY <2>1, <2>3, <3>2
      <4> QED BY <1>3, <2>2, <2>4, <2>6, <3>2, <4>1
    <3>3. CASE i # k /\ j # k
      <4>1. /\ at[i] \in 1 .. Len(rest) /\ at[j] \in 1 .. Len(rest) /\ at[i] < at[j]
            /\ r[i] = rest[at[i]] /\ r[j] = rest[at[j]]
        BY <2>4, <2>5, <3>3 DEF n
      <4> QED BY <1>2, <4>1 DEF Ordered
    <3> QED BY <3>1, <3>2, <3>3
  <2>8. /\ b \in Seq(Entries) /\ Len(b) <= Top /\ Len(b) <= Len(r) /\ Ordered(b)
        /\ \A i \in 1 .. Len(b) : b[i] = r[i]
    BY <1>6, <2>2, <2>7, TruncatedIs DEF r
  <2>9. Shown(b, board, p, c)
    <3> SUFFICES ASSUME NEW i \in 1 .. Len(b)
                 PROVE  \/ b[i] = Entry(p, c)
                        \/ \E j \in 1 .. Len(board) : b[i] = board[j] /\ board[j].player # p
      BY DEF Shown
    <3>1. Len(b) \in Nat /\ i \in 1 .. n + 1 /\ b[i] = r[i] BY <2>2, <2>3, <2>8
    <3>2. CASE i = k BY <2>2, <3>1, <3>2 DEF e
    <3>3. CASE i # k
      <4>1. at[i] \in 1 .. Len(rest) /\ b[i] = rest[at[i]] BY <2>4, <3>1, <3>3 DEF n
      <4> QED BY <1>2, <4>1 DEF Others
    <3> QED BY <3>2, <3>3
  <2> QED BY <2>8, <2>9 DEF IsKept
<1> QED BY <1>4, <1>5, <1>6

\* The boards that a tournament may start with: its players that exist, each
\* with the starting stack.
LEMMA FreshBoardsAre ==
    ASSUME NEW ps \in Seq(Players), NEW b \in FreshBoards(ps)
    PROVE  /\ IsKept(b)
           /\ \A i \in 1 .. Len(b) : /\ b[i].chips = StartingChips
                                     /\ b[i].player \in registered \cap {ps[j] : j \in DOMAIN ps}
<1> DEFINE n == Len(ps)
           in == registered \cap {ps[j] : j \in DOMAIN ps}
           Good == {v \in Seq(Entries) :
                      /\ IsKept(v)
                      /\ \A i \in 1 .. Len(v) : v[i].chips = StartingChips /\ v[i].player \in in}
           V == SUBSET Good
           Enter(k, W) == IF ps[k] \notin registered THEN W
                          ELSE UNION {Updated(v, ps[k], StartingChips) : v \in W}
           Is(f) == f = [k \in 0 .. n |-> IF k = 0 THEN {<<>>} ELSE Enter(k, f[k - 1])]
           after == CHOOSE f : Is(f)
           step == [k \in 1 .. n |-> [W \in V |-> Enter(k, W)]]
<1>1. FreshBoards(ps) = after[n] BY Zenon DEF FreshBoards
<1>2. n \in Nat /\ DOMAIN ps = 1 .. n /\ \A k \in 1 .. n : ps[k] \in Players OBVIOUS
<1>3. {<<>>} \in V
  <2>1. <<>> \in Seq(Entries) /\ Len(<<>>) = 0 /\ 0 <= Top BY TopAssumption
  <2>2. IsKept(<<>>) BY <2>1 DEF IsKept, Ordered
  <2> QED BY <2>1, <2>2
<1>4. ASSUME NEW k \in 1 .. n, NEW W \in V PROVE Enter(k, W) \in V
  <2>1. CASE ps[k] \notin registered BY <2>1
  <2>2. CASE ps[k] \in registered
    <3>1. ASSUME NEW w \in Enter(k, W) PROVE w \in Good
      <4>1. PICK v \in W : w \in Updated(v, ps[k], StartingChips) BY <2>2, <3>1
      <4>2. /\ v \in Seq(Entries) /\ IsKept(v)
            /\ \A i \in 1 .. Len(v) : v[i].chips = StartingChips /\ v[i].player \in in
        OBVIOUS
      <4>3. StartingChips \in Nat /\ ps[k] \in Players BY <1>2, TournamentAssumption
      <4>4. IsKept(w) /\ Shown(w, v, ps[k], StartingChips) BY <4>1, <4>2, <4>3, UpdatedIs
      <4>5. ps[k] \in in BY <1>2, <2>2
      <4>6. ASSUME NEW i \in 1 .. Len(w)
            PROVE  w[i].chips = StartingChips /\ w[i].player \in in
        <5> HIDE DEF in
        <5>1. CASE w[i] = Entry(ps[k], StartingChips) BY <4>5, <5>1 DEF Entry
        <5>2. CASE \E j \in 1 .. Len(v) : w[i] = v[j] BY <4>2, <5>2
        <5> QED BY <4>4, <5>1, <5>2 DEF Shown
      <4>7. w \in Seq(Entries) BY <4>4 DEF IsKept
      <4> HIDE DEF in
      <4> QED BY <4>4, <4>6, <4>7
    <3> QED BY <3>1
  <2> QED BY <2>1, <2>2
<1> HIDE DEF n, V, Enter, after
<1>5. step \in [1 .. n -> [V -> V]]
  <2>1. \A k \in 1 .. n : step[k] \in [V -> V] BY <1>4
  <2> QED BY <2>1
<1>6. \A k \in 1 .. n, W \in V : step[k][W] = Enter(k, W) OBVIOUS
<1> HIDE DEF step
<1>7. PICK g : Follows(g, n, V, {<<>>}, step) BY <1>2, <1>3, <1>5, RecursionExists, Zenon
<1>8. ASSUME NEW k \in 0 .. n PROVE g[k] = IF k = 0 THEN {<<>>} ELSE Enter(k, g[k - 1])
  <2>1. CASE k = 0 BY <1>7, <2>1 DEF Follows
  <2>2. CASE k # 0
    <3>1. k \in 1 .. n /\ k - 1 \in 0 .. n BY <1>2, <2>2
    <3>2. g[k] = step[k][g[k - 1]] /\ g[k - 1] \in V BY <1>7, <3>1 DEF Follows
    <3> QED BY <1>6, <2>2, <3>1, <3>2
  <2> QED BY <2>1, <2>2
<1>9. g = [k \in 0 .. n |-> g[k]] BY <1>7 DEF Follows
<1>10. Is(g) BY <1>8, <1>9
<1>11. Is(after) BY <1>10, Zenon DEF after
<1>12. Follows(after, n, V, {<<>>}, step)
  <2>1. after = [k \in 0 .. n |-> after[k]] BY <1>11
  <2>2. \A k \in 0 .. n : after[k] = IF k = 0 THEN {<<>>} ELSE Enter(k, after[k - 1]) BY <1>11
  <2>3. 0 \in 0 .. n /\ \A k \in 1 .. n : k \in 0 .. n /\ k # 0 BY <1>2
  <2>4. after[0] = {<<>>} BY <2>2, <2>3
  <2>5. \A k \in 1 .. n : after[k - 1] \in V => after[k] = step[k][after[k - 1]]
    BY <1>6, <2>2, <2>3
  <2> QED BY <1>2, <1>3, <1>5, <2>1, <2>4, <2>5, RecursionFollows, Zenon
<1>13. after[n] \in V
  <2>1. n \in 0 .. n BY <1>2
  <2> QED BY <1>12, <2>1 DEF Follows
<1>14. b \in Good BY <1>1, <1>13 DEF V
<1> QED BY <1>14

----------------------------------------------------------------------------
(* What a board shows. *)

Rooms == Tournaments \cup {None}

\* The stack that counts in t.
StackIn(ch, tc, p, t) == IF t = None THEN ch[p] ELSE tc[p]

\* The entries of p on the board of t that may be out of date.
Excused(ph, m, t, p) ==
    IF t = None THEN \E u \in Tournaments : ph[u] = "complete" /\ p \in Listed(m, u)
    ELSE \/ ph[t] # "active"
         \/ \E u \in Tournaments : u # t /\ ph[u] # "registration" /\ p \in Listed(m, u)

Shows(bs, ph, m, ch, tc) ==
    \A t \in Rooms : \A j \in 1 .. Len(bs[t]) :
        ~Excused(ph, m, t, bs[t][j].player)
          => bs[t][j].chips = StackIn(ch, tc, bs[t][j].player, t)

BoardsTypes == boards \in [Rooms -> Seq(Entries)] /\ \A t \in Rooms : IsKept(boards[t])

\* A tournament that nobody joined has no players.
ListsInv == \A t \in Tournaments : phase[t] = None => members[t] = <<>>

\* A game in a tournament is played by one of its players, once it has started.
Plays(ph, m, s) ==
    s.tournament # None => /\ ph[s.tournament] \in {"active", "complete"}
                           /\ s.player \in Listed(m, s.tournament)

PlaysInv == \A i \in Ids : Plays(phase, members, sessions[i])

BInv == BoardsTypes /\ Shows(boards, phase, members, chips, tchips) /\ ListsInv /\ PlaysInv

\* The board of t0 is right after a step, and what the others show has not changed.
LEMMA ShowsStep ==
    ASSUME BoardsTypes, Shows(boards, phase, members, chips, tchips), NEW t0,
           \A t \in Rooms : t # t0 => boards'[t] = boards[t],
           \A j \in 1 .. Len(boards'[t0]) : ~Excused(phase', members', t0, boards'[t0][j].player)
              => boards'[t0][j].chips = StackIn(chips', tchips', boards'[t0][j].player, t0),
           \A t \in Rooms, q \in Players : t # t0 /\ ~Excused(phase', members', t, q) =>
              /\ ~Excused(phase, members, t, q)
              /\ StackIn(chips', tchips', q, t) = StackIn(chips, tchips, q, t)
    PROVE  Shows(boards', phase', members', chips', tchips')
<1> SUFFICES ASSUME NEW t \in Rooms, NEW j \in 1 .. Len(boards'[t]),
                    ~Excused(phase', members', t, boards'[t][j].player)
             PROVE  boards'[t][j].chips = StackIn(chips', tchips', boards'[t][j].player, t)
  BY DEF Shows
<1>1. CASE t = t0 BY <1>1
<1>2. CASE t # t0
  <2>1. boards'[t] = boards[t] /\ boards[t] \in Seq(Entries) BY <1>2 DEF BoardsTypes
  <2> DEFINE q == boards[t][j].player
  <2>2. j \in 1 .. Len(boards[t]) /\ boards[t][j] \in Entries BY <2>1
  <2>3. q \in Players BY <2>2 DEF Entries
  <2>4. /\ ~Excused(phase, members, t, q)
        /\ StackIn(chips', tchips', q, t) = StackIn(chips, tchips, q, t)
    BY <1>2, <2>1, <2>3
  <2>5. boards[t][j].chips = StackIn(chips, tchips, q, t) BY <2>2, <2>4 DEF Shows
  <2> QED BY <2>1, <2>4, <2>5
<1> QED BY <1>1, <1>2

\* A step that changes no board.
LEMMA QuietStep ==
    ASSUME BoardsTypes, Shows(boards, phase, members, chips, tchips), boards' = boards,
           UNCHANGED <<chips, tchips>>,
           \A t \in Rooms, q \in Players :
              Excused(phase, members, t, q) => Excused(phase', members', t, q)
    PROVE  BoardsTypes' /\ Shows(boards', phase', members', chips', tchips')
<1>1. BoardsTypes' BY DEF BoardsTypes
<1>2. boards \in [Rooms -> Seq(Entries)] BY DEF BoardsTypes
<1>3. Shows(boards', phase', members', chips', tchips')
  <2> SUFFICES ASSUME NEW t \in Rooms, NEW j \in 1 .. Len(boards[t]),
                      ~Excused(phase', members', t, boards[t][j].player)
               PROVE  boards[t][j].chips = StackIn(chips, tchips, boards[t][j].player, t)
    BY DEF Shows
  <2>1. boards[t][j] \in Entries BY <1>2
  <2>2. boards[t][j].player \in Players BY <2>1 DEF Entries
  <2> QED BY <2>2 DEF Shows
<1> QED BY <1>1, <1>3

----------------------------------------------------------------------------
(* Games and grants update the board of the stack they change. *)

\* Player p plays in t: no other stack changes, and the board of t is updated.
MovesIn(p, t) ==
    /\ \A q \in Players : q # p => chips'[q] = chips[q] /\ tchips'[q] = tchips[q]
    /\ IF t = None THEN tchips' = tchips ELSE chips' = chips
    /\ Show(p, t, StackIn(chips', tchips', p, t))

LEMMA GainShows ==
    ASSUME BooksInv, NEW p \in Players, NEW t, NEW n \in Nat,
           Gain(p, t, n), Show(p, t, Stack(p, t) + n)
    PROVE  MovesIn(p, t)
<1>1. chips \in [Players -> Nat] /\ tchips \in [Players -> Nat] BY DEF BooksInv
<1>2. CASE t = None
  <2>1. chips' = Add(chips, p, n) /\ tchips' = tchips BY <1>2 DEF Gain
  <2>2. \A q \in Players : q # p => chips'[q] = chips[q] BY <1>1, <2>1 DEF Add
  <2>3. chips'[p] = chips[p] + n BY <1>1, <2>1 DEF Add
  <2>4. Stack(p, t) + n = StackIn(chips', tchips', p, t) BY <1>2, <2>3 DEF Stack, StackIn
  <2> QED BY <1>2, <2>1, <2>2, <2>4 DEF MovesIn
<1>3. CASE t # None
  <2>1. tchips' = Add(tchips, p, n) /\ chips' = chips BY <1>3 DEF Gain
  <2>2. \A q \in Players : q # p => tchips'[q] = tchips[q] BY <1>1, <2>1, AddType
  <2>3. tchips'[p] = tchips[p] + n BY <1>1, <2>1 DEF Add
  <2>4. Stack(p, t) + n = StackIn(chips', tchips', p, t) BY <1>3, <2>3 DEF Stack, StackIn
  <2> QED BY <1>3, <2>1, <2>2, <2>4 DEF MovesIn
<1> QED BY <1>2, <1>3

LEMMA ChargeShows ==
    ASSUME BooksInv, NEW p \in Players, NEW t, NEW n \in Nat,
           Charge(p, t, n), Show(p, t, Stack(p, t) - n)
    PROVE  MovesIn(p, t)
<1>1. chips \in [Players -> Nat] /\ tchips \in [Players -> Nat] BY DEF BooksInv
<1>2. CASE t = None
  <2>1. chips' = Sub(chips, p, n) /\ tchips' = tchips BY <1>2 DEF Charge
  <2>2. \A q \in Players : q # p => chips'[q] = chips[q] BY <1>1, <2>1 DEF Sub
  <2>3. chips'[p] = chips[p] - n BY <1>1, <2>1 DEF Sub
  <2>4. Stack(p, t) - n = StackIn(chips', tchips', p, t) BY <1>2, <2>3 DEF Stack, StackIn
  <2> QED BY <1>2, <2>1, <2>2, <2>4 DEF MovesIn
<1>3. CASE t # None
  <2>1. tchips' = Sub(tchips, p, n) /\ chips' = chips BY <1>3 DEF Charge
  <2>2. \A q \in Players : q # p => tchips'[q] = tchips[q] BY <1>1, <2>1 DEF Sub
  <2>3. tchips'[p] = tchips[p] - n BY <1>1, <2>1 DEF Sub
  <2>4. Stack(p, t) - n = StackIn(chips', tchips', p, t) BY <1>3, <2>3 DEF Stack, StackIn
  <2> QED BY <1>3, <2>1, <2>2, <2>4 DEF MovesIn
<1> QED BY <1>2, <1>3

\* Every move of a game shows what it leaves, except the one that is refused.
LEMMA GameMoveShows ==
    ASSUME IInv, NEW p \in Players, NEW i \in Ids, CasinoGameMove(p, i)
    PROVE  MovesIn(p, sessions[i].tournament) \/ UNCHANGED <<chips, tchips, boards>>
<1> DEFINE t == sessions[i].tournament
<1>0. BooksInv BY DEF IInv
<1>1. ASSUME NEW n \in Amounts, NEW s PROVE /\ n \in Nat /\ SuperFee(n) \in Nat
                                            /\ ExtraTotal(s, n) \in Nat
                                            /\ n + (IF s.super THEN SuperFee(n) ELSE 0) \in Nat
  <2>1. n \in Nat /\ SuperFee(n) \in Nat BY CasinoAssumption, FeeType
  <2> QED BY <2>1 DEF ExtraTotal
<1>2. ASSUME NEW n \in Amounts, MoveBet(p, i, n) PROVE MovesIn(p, t)
  <2> DEFINE total == n + (IF sessions[i].super THEN SuperFee(n) ELSE 0)
  <2>1. Charge(p, t, total) /\ Show(p, t, Stack(p, t) - total) BY <1>2, Zenon DEF MoveBet
  <2>2. total \in Nat BY <1>1
  <2> HIDE DEF total, t
  <2> QED BY <1>0, <2>1, <2>2, ChargeShows
<1>3. ASSUME NEW n \in Amounts, MovePaid(p, i, n) PROVE MovesIn(p, t)
  <2>1. Gain(p, t, n) /\ Show(p, t, Stack(p, t) + n) BY <1>3, Zenon DEF MovePaid
  <2>2. n \in Nat BY <1>1
  <2> HIDE DEF t
  <2> QED BY <1>0, <2>1, <2>2, GainShows
<1>4. ASSUME NEW base \in Nat, NEW bonus \in Nat, Pays(p, i, base, bonus) PROVE MovesIn(p, t)
  <2> DEFINE doubled == "double" \in on[p] /\ doubles[p][Kind(t)] > 0
             payout == (base + bonus) * (IF doubled THEN 2 ELSE 1)
  <2>1. Gain(p, t, payout) /\ Show(p, t, Stack(p, t) + payout) BY <1>4, Zenon DEF Pays
  <2>2. payout \in Nat
    <3> HIDE DEF doubled
    <3> QED OBVIOUS
  <2> HIDE DEF payout, t
  <2> QED BY <1>0, <2>1, <2>2, GainShows
<1>5. ASSUME NEW n \in Amounts, MoveWin(p, i, n) PROVE MovesIn(p, t)
  <2>1. Pays(p, i, n, 0) BY <1>5 DEF MoveWin
  <2>2. n \in Nat /\ 0 \in Nat BY <1>1
  <2> QED BY <1>4, <2>1, <2>2
<1>6. ASSUME NEW n \in Amounts, NEW hand, MoveWinMetered(p, i, n, hand) PROVE MovesIn(p, t)
  <2> DEFINE g == sessions[i].game
  <2>1. g \in Progressive /\ Pays(p, i, n, Bonus(g, hand)) BY <1>6 DEF MoveWinMetered, Metered
  <2>2. n \in Nat BY <1>1
  <2> HIDE DEF g
  <2>3. Bonus(g, hand) \in Nat BY <1>0, <2>1, BonusType
  <2> QED BY <1>4, <2>1, <2>2, <2>3
<1>7. ASSUME NEW n \in Amounts, MoveLossWithExtra(p, i, n) PROVE MovesIn(p, t)
  <2> DEFINE total == ExtraTotal(sessions[i], n)
  <2>1. Charge(p, t, total) /\ Show(p, t, Stack(p, t) - total)
    BY <1>7, Zenon DEF MoveLossWithExtra
  <2>2. total \in Nat BY <1>1
  <2> HIDE DEF total, t
  <2> QED BY <1>0, <2>1, <2>2, ChargeShows
<1>8. ASSUME NEW n \in Amounts, MoveLossWithExtraRefused(p, i, n)
      PROVE  UNCHANGED <<chips, tchips, boards>>
  BY <1>8 DEF MoveLossWithExtraRefused
<1>9. ASSUME NEW loss \in Nat, LosesPreDeducted(p, i, loss) PROVE MovesIn(p, t)
  <2> DEFINE refund == IF Shielded(p, i) THEN loss ELSE 0
  <2>1. Gain(p, t, refund) /\ Show(p, t, Stack(p, t) + refund)
    BY <1>9, Zenon DEF LosesPreDeducted
  <2>2. refund \in Nat OBVIOUS
  <2> HIDE DEF refund, t
  <2> QED BY <1>0, <2>1, <2>2, GainShows
<1>10. ASSUME NEW n \in Amounts, MoveLossPreDeducted(p, i, n) PROVE MovesIn(p, t)
  BY <1>1, <1>9, <1>10 DEF MoveLossPreDeducted
<1>11. ASSUME NEW n \in Amounts, MoveLossMetered(p, i, n) PROVE MovesIn(p, t)
  BY <1>1, <1>9, <1>11 DEF MoveLossMetered
<1>12. ASSUME MoveLoss(p, i) PROVE MovesIn(p, t)
  <2>1. Show(p, t, Stack(p, t)) /\ chips' = chips /\ tchips' = tchips BY <1>12 DEF MoveLoss
  <2>2. Stack(p, t) = StackIn(chips', tchips', p, t) BY <2>1 DEF Stack, StackIn
  <2> HIDE DEF t
  <2> QED BY <2>1, <2>2 DEF MovesIn
<1> QED
  BY <1>2, <1>3, <1>5, <1>6, <1>7, <1>8, <1>10, <1>11, <1>12, Zenon DEF CasinoGameMove

\* A player's move leaves every board right: another tournament whose board shows
\* the player's stack is one it is in beside this one.
LEMMA MovesStep ==
    ASSUME BInv, BooksInv', NEW p \in Players, NEW t \in Rooms, MovesIn(p, t),
           UNCHANGED <<phase, members>>,
           t # None => phase[t] \in {"active", "complete"} /\ p \in Listed(members, t)
    PROVE  BoardsTypes' /\ Shows(boards', phase', members', chips', tchips')
<1> DEFINE c == StackIn(chips', tchips', p, t)
<1>1. /\ boards \in [Rooms -> Seq(Entries)] /\ IsKept(boards[t])
      /\ \A u \in Rooms : IsKept(boards[u])
  BY DEF BInv, BoardsTypes
<1>2. c \in Nat BY DEF BooksInv, StackIn
<1> HIDE DEF c
<1>3. PICK b \in Updated(boards[t], p, c) : boards' = [boards EXCEPT ![t] = b]
  BY DEF MovesIn, Show, c
<1>4. IsKept(b) /\ Shown(b, boards[t], p, c) BY <1>1, <1>2, UpdatedIs
<1>5. boards'[t] = b /\ \A u \in Rooms : u # t => boards'[u] = boards[u] BY <1>1, <1>3
<1>6. BoardsTypes'
  <2>1. b \in Seq(Entries) BY <1>4 DEF IsKept
  <2>2. boards' \in [Rooms -> Seq(Entries)] BY <1>1, <1>3, <2>1
  <2>3. \A u \in Rooms : IsKept(boards'[u]) BY <1>1, <1>4, <1>5
  <2> QED BY <2>2, <2>3 DEF BoardsTypes
<1>7. \A q \in Players : q # p =>
        \A u : StackIn(chips', tchips', q, u) = StackIn(chips, tchips, q, u)
  BY DEF MovesIn, StackIn
<1>8. ASSUME NEW j \in 1 .. Len(boards'[t]), ~Excused(phase', members', t, boards'[t][j].player)
      PROVE  boards'[t][j].chips = StackIn(chips', tchips', boards'[t][j].player, t)
  <2>1. CASE b[j] = Entry(p, c) BY <1>5, <2>1 DEF Entry, c
  <2>2. ASSUME NEW h \in 1 .. Len(boards[t]), b[j] = boards[t][h], boards[t][h].player # p
        PROVE  boards'[t][j].chips = StackIn(chips', tchips', boards'[t][j].player, t)
    <3>1. boards[t][h] \in Entries BY <1>1
    <3>2. boards[t][h].player \in Players BY <3>1 DEF Entries
    <3>3. ~Excused(phase, members, t, boards[t][h].player) BY <1>5, <1>8, <2>2
    <3>4. boards[t][h].chips = StackIn(chips, tchips, boards[t][h].player, t)
      BY <3>3 DEF BInv, Shows
    <3> QED BY <1>5, <1>7, <2>2, <3>2, <3>4
  <2> QED BY <1>4, <1>5, <2>1, <2>2 DEF Shown
<1>9. ASSUME NEW u \in Rooms, NEW q \in Players, u # t, ~Excused(phase', members', u, q)
      PROVE  /\ ~Excused(phase, members, u, q)
             /\ StackIn(chips', tchips', q, u) = StackIn(chips, tchips, q, u)
  <2>1. ~Excused(phase, members, u, q) BY <1>9
  <2>2. CASE q # p BY <1>7, <2>1, <2>2
  <2>3. CASE q = p
    <3>1. CASE t = None
      <4>1. tchips' = tchips /\ u # None BY <1>9, <3>1 DEF MovesIn
      <4> QED BY <2>1, <4>1 DEF StackIn
    <3>2. CASE t # None /\ u = None
      <4>1. chips' = chips BY <3>2 DEF MovesIn
      <4> QED BY <2>1, <3>2, <4>1 DEF StackIn
    <3>3. CASE t # None /\ u # None
      <4>1. t \in Tournaments BY <3>3 DEF Rooms
      <4>2. Excused(phase, members, u, q) BY <1>9, <2>3, <3>3, <4>1 DEF Excused
      <4> QED BY <2>1, <4>2
    <3> QED BY <3>1, <3>2, <3>3
  <2> QED BY <2>2, <2>3
<1>10. Shows(boards', phase', members', chips', tchips')
  <2>1. BoardsTypes /\ Shows(boards, phase, members, chips, tchips) BY DEF BInv
  <2>2. \A j \in 1 .. Len(boards'[t]) : ~Excused(phase', members', t, boards'[t][j].player)
          => boards'[t][j].chips = StackIn(chips', tchips', boards'[t][j].player, t)
    BY <1>8, Zenon
  <2>3. \A u \in Rooms, q \in Players : u # t /\ ~Excused(phase', members', u, q) =>
          /\ ~Excused(phase, members, u, q)
          /\ StackIn(chips', tchips', q, u) = StackIn(chips, tchips, q, u)
    BY <1>9, Zenon
  <2> QED BY <1>5, <2>1, <2>2, <2>3, ShowsStep, Zenon
<1> QED BY <1>6, <1>10

----------------------------------------------------------------------------
(* Every operation preserves what the boards show. *)

\* Tournaments that have started stay so, with the same players.
Goes ==
    \A u \in Tournaments : phase[u] \in {"active", "complete"} =>
        phase'[u] \in {"active", "complete"} /\ Listed(members', u) = Listed(members, u)

LEMMA SessionsGo ==
    ASSUME IInv, PlaysInv, Goes, NEW i \in Ids
    PROVE  Plays(phase', members', sessions[i])
<1>1. sessions[i].tournament \in Tournaments \cup {None}
  BY DEF IInv, SessionsInv, Sessions, NoSession
<1>2. Plays(phase, members, sessions[i]) BY DEF PlaysInv
<1> QED BY <1>1, <1>2 DEF Plays, Goes

LEMMA InitBInv == Init => BInv
<1> SUFFICES ASSUME Init PROVE BInv OBVIOUS
<1>1. /\ boards = [t \in Rooms |-> <<>>] /\ phase = [t \in Tournaments |-> None]
      /\ members = [t \in Tournaments |-> <<>>] /\ sessions = [i \in Ids |-> NoSession]
  BY DEF Init, Rooms
<1>2. <<>> \in Seq(Entries) /\ Len(<<>>) = 0 /\ IsKept(<<>>)
  BY TopAssumption DEF IsKept, Ordered
<1>3. BoardsTypes BY <1>1, <1>2 DEF BoardsTypes
<1>4. Shows(boards, phase, members, chips, tchips) BY <1>1, <1>2 DEF Shows
<1>5. ListsInv BY <1>1 DEF ListsInv
<1>6. PlaysInv BY <1>1 DEF PlaysInv, Plays, NoSession
<1> QED BY <1>3, <1>4, <1>5, <1>6 DEF BInv

\* A step that changes neither tournaments nor the players of sessions.
LEMMA StillBInv ==
    ASSUME IInv, BInv, UNCHANGED <<phase, members>>,
           \A i \in Ids : /\ sessions'[i].tournament = sessions[i].tournament
                          /\ sessions'[i].player = sessions[i].player,
           BoardsTypes', Shows(boards', phase', members', chips', tchips')
    PROVE  BInv'
<1>1. ListsInv' BY DEF BInv, ListsInv
<1>2. PlaysInv' BY DEF BInv, PlaysInv, Plays
<1> QED BY <1>1, <1>2, Zenon DEF BInv

LEMMA QuietBInv ==
    ASSUME IInv, BInv, UNCHANGED <<phase, members, sessions, boards, chips, tchips>>
    PROVE  BInv'
<1>1. BoardsTypes' /\ Shows(boards', phase', members', chips', tchips')
  BY QuietStep DEF BInv
<1> QED BY <1>1, StillBInv

LEMMA GrantBInv ==
    ASSUME IInv, IInv', BInv, NEW p \in Players, MovesIn(p, None),
           UNCHANGED <<phase, members, sessions>>
    PROVE  BInv'
<1>1. None \in Rooms /\ BooksInv' BY DEF Rooms, IInv
<1>2. BoardsTypes' /\ Shows(boards', phase', members', chips', tchips') BY <1>1, MovesStep
<1> QED BY <1>2, StillBInv

LEMMA RegisterBInv == ASSUME IInv, IInv', BInv, NEW p \in Players, CasinoRegister(p) PROVE BInv'
<1>1. /\ chips' = [chips EXCEPT ![p] = InitialChips] /\ Show(p, None, InitialChips)
      /\ UNCHANGED <<tchips, phase, members, sessions>>
  BY DEF CasinoRegister, tournament
<1>2. chips \in [Players -> Nat] BY DEF IInv, BooksInv
<1>3. StackIn(chips', tchips', p, None) = InitialChips BY <1>1, <1>2 DEF StackIn
<1>4. MovesIn(p, None) BY <1>1, <1>2, <1>3 DEF MovesIn
<1> QED BY <1>1, <1>4, GrantBInv

LEMMA DepositBInv ==
    ASSUME IInv, IInv', BInv, NEW p \in Players, NEW n \in Amounts, CasinoDeposit(p, n)
    PROVE  BInv'
<1>1. /\ chips' = Add(chips, p, n) /\ Show(p, None, chips[p] + n)
      /\ UNCHANGED <<tchips, phase, members, sessions>>
  BY DEF CasinoDeposit, tournament
<1>2. chips \in [Players -> Nat] BY DEF IInv, BooksInv
<1>3. StackIn(chips', tchips', p, None) = chips[p] + n BY <1>1, <1>2 DEF StackIn, Add
<1>4. MovesIn(p, None) BY <1>1, <1>2, <1>3 DEF MovesIn, Add
<1> QED BY <1>1, <1>4, GrantBInv

LEMMA StartGameBInv ==
    ASSUME IInv, IInv', BInv, NEW p \in Players, NEW i \in Ids, NEW g \in Games, NEW bet \in Bets,
           CasinoStartGame(p, i, g, bet)
    PROVE  BInv'
<1> DEFINE t == PlaysIn(p)
           total == bet + (IF "super" \in on[p] THEN SuperFee(bet) ELSE 0)
           new == [player |-> p, game |-> g, bet |-> bet, super |-> "super" \in on[p],
                   tournament |-> t, complete |-> FALSE]
<1>1. /\ Charge(p, t, total) /\ Show(p, t, Stack(p, t) - total)
      /\ sessions' = [sessions EXCEPT ![i] = new]
      /\ phase' = phase /\ members' = members
  BY Zenon DEF CasinoStartGame, tournament
<1>2. total \in Nat
  <2>1. bet \in Nat /\ SuperFee(bet) \in Nat BY CasinoAssumption, FeeType
  <2> QED BY <2>1
<1>3. t \in Rooms /\ (t # None => phase[t] = "active" /\ p \in Listed(members, t))
  BY MembersListed DEF PlaysIn, Rooms, IInv, ActiveInv, NobodyLeftBehind
<1>4. new.player = p /\ new.tournament = t OBVIOUS
<1> HIDE DEF t, total, new
<1>5. MovesIn(p, t) BY <1>1, <1>2, ChargeShows DEF IInv
<1>6. BoardsTypes' /\ Shows(boards', phase', members', chips', tchips')
  BY <1>1, <1>3, <1>5, MovesStep DEF IInv
<1>7. ListsInv' BY <1>1 DEF BInv, ListsInv
<1>8. PlaysInv'
  <2>1. sessions \in [Ids -> Sessions \cup {NoSession}] BY DEF IInv, SessionsInv
  <2>2. Plays(phase, members, new) BY <1>3, <1>4 DEF Plays
  <2>3. \A j \in Ids : sessions'[j] = new \/ sessions'[j] = sessions[j] BY <1>1, <2>1
  <2>4. \A j \in Ids : Plays(phase, members, sessions'[j]) BY <2>2, <2>3 DEF BInv, PlaysInv
  <2> QED BY <1>1, <2>4 DEF PlaysInv
<1> QED BY <1>6, <1>7, <1>8, Zenon DEF BInv

LEMMA GameMoveBInv ==
    ASSUME IInv, IInv', BInv, NEW p \in Players, NEW i \in Ids, CasinoGameMove(p, i)
    PROVE  BInv'
<1> DEFINE t == sessions[i].tournament
<1>1. CanMove(p, i) /\ MoveChanges(p, i) BY GameMoveChanges
<1>2. sessions[i].player = p /\ Completes(i) /\ UNCHANGED <<phase, members>>
  BY <1>1 DEF CanMove, MoveChanges
<1>3. \A j \in Ids : /\ sessions'[j].tournament = sessions[j].tournament
                     /\ sessions'[j].player = sessions[j].player
  <2>1. sessions \in [Ids -> Sessions \cup {NoSession}] BY DEF IInv, SessionsInv
  <2>2. CASE sessions' = sessions BY <2>2
  <2>3. CASE sessions' = [sessions EXCEPT ![i].complete = TRUE]
    <3> DEFINE new == [sessions[i] EXCEPT !.complete = TRUE]
    <3>1. new.tournament = sessions[i].tournament /\ new.player = sessions[i].player
      BY <2>1 DEF Sessions, NoSession
    <3>2. sessions' = [sessions EXCEPT ![i] = new] BY <2>1, <2>3
    <3> HIDE DEF new
    <3> QED BY <2>1, <3>1, <3>2
  <2> QED BY <1>2, <2>2, <2>3 DEF Completes
<1>4. /\ t \in Rooms
      /\ t # None => phase[t] \in {"active", "complete"} /\ p \in Listed(members, t)
  <2>1. t \in Rooms BY DEF IInv, SessionsInv, Sessions, NoSession, Rooms
  <2> QED BY <1>2, <2>1 DEF BInv, PlaysInv, Plays
<1>5. BoardsTypes' /\ Shows(boards', phase', members', chips', tchips')
  <2>1. CASE MovesIn(p, t)
    <3> HIDE DEF t
    <3> QED BY <1>2, <1>4, <2>1, MovesStep DEF IInv
  <2>2. CASE UNCHANGED <<chips, tchips, boards>> BY <1>2, <2>2, QuietStep DEF BInv
  <2> QED BY <2>1, <2>2, GameMoveShows
<1> QED BY <1>2, <1>3, <1>5, StillBInv

LEMMA JoinBInv ==
    ASSUME IInv, IInv', BInv, NEW p \in Players, NEW t \in Tournaments, CasinoJoinTournament(p, t)
    PROVE  BInv'
<1>1. /\ phase[t] \in {None, "registration"}
      /\ phase' = [phase EXCEPT ![t] = "registration"]
      /\ members' = [members EXCEPT ![t] = Append(@, p)]
      /\ UNCHANGED <<chips, tchips, sessions, boards>>
  BY DEF CasinoJoinTournament
<1>2. /\ phase \in [Tournaments -> {None, "registration", "active", "complete"}]
      /\ members \in [Tournaments -> Seq(Players)]
  BY DEF IInv, PrizesInv
<1>3. /\ phase'[t] = "registration"
      /\ \A u \in Tournaments : u # t =>
           phase'[u] = phase[u] /\ Listed(members', u) = Listed(members, u)
  BY <1>1, <1>2 DEF Listed
<1>4. phase[t] = None => Listed(members, t) = {}
  BY DEF BInv, ListsInv, Listed
<1>5. ASSUME NEW u \in Rooms, NEW q \in Players, Excused(phase, members, u, q)
      PROVE  Excused(phase', members', u, q)
  <2>1. CASE u = None
    <3>1. PICK v \in Tournaments : phase[v] = "complete" /\ q \in Listed(members, v)
      BY <1>5, <2>1 DEF Excused
    <3>2. v # t BY <1>1, <3>1 DEF None
    <3> QED BY <1>3, <2>1, <3>1, <3>2 DEF Excused
  <2>2. CASE u # None /\ phase[u] # "active"
    <3>1. u \in Tournaments BY <2>2 DEF Rooms
    <3>2. phase'[u] # "active" BY <1>3, <2>2, <3>1
    <3> QED BY <2>2, <3>2 DEF Excused
  <2>3. CASE u # None /\ phase[u] = "active"
    <3>1. PICK v \in Tournaments : v # u /\ phase[v] # "registration" /\ q \in Listed(members, v)
      BY <1>5, <2>3 DEF Excused
    <3>2. v # t BY <1>1, <1>4, <3>1
    <3> QED BY <1>3, <2>3, <3>1, <3>2 DEF Excused
  <2> QED BY <2>1, <2>2, <2>3
<1>6. BoardsTypes' /\ Shows(boards', phase', members', chips', tchips')
  BY <1>1, <1>5, QuietStep DEF BInv
<1>7. ListsInv' BY <1>1, <1>2, <1>3 DEF BInv, ListsInv, None
<1>8. PlaysInv'
  <2>1. Goes BY <1>1, <1>3 DEF Goes, None
  <2>2. \A i \in Ids : Plays(phase', members', sessions[i]) BY <2>1, SessionsGo DEF BInv
  <2> QED BY <1>1, <2>2 DEF PlaysInv
<1> QED BY <1>6, <1>7, <1>8, Zenon DEF BInv

LEMMA StartBInv ==
    ASSUME IInv, IInv', BInv, NEW p \in Players, NEW t \in Tournaments, CasinoStartTournament(p, t)
    PROVE  BInv'
<1> DEFINE ps == IF phase[t] = None THEN <<p>> ELSE members[t]
           in == registered \cap {ps[i] : i \in DOMAIN ps}
<1>1. /\ phase[t] \in {None, "registration"}
      /\ members' = [members EXCEPT ![t] = ps]
      /\ phase' = [phase EXCEPT ![t] = "active"]
      /\ tchips' = [q \in Players |-> IF q \in in THEN StartingChips ELSE tchips[q]]
      /\ \E b \in FreshBoards(ps) : boards' = [boards EXCEPT ![t] = b]
      /\ UNCHANGED <<chips, sessions>>
  BY Zenon DEF CasinoStartTournament, Begin
<1>2. /\ phase \in [Tournaments -> {None, "registration", "active", "complete"}]
      /\ members \in [Tournaments -> Seq(Players)] /\ members[t] \in Seq(Players)
      /\ boards \in [Rooms -> Seq(Entries)] /\ t \in Rooms /\ t # None
      /\ tchips \in [Players -> Nat]
  BY CasinoAssumption DEF IInv, PrizesInv, BooksInv, BInv, BoardsTypes, Rooms
<1>3. ps \in Seq(Players) BY <1>2
<1>4. in \subseteq {ps[i] : i \in DOMAIN ps} OBVIOUS
<1>5. PICK b \in FreshBoards(ps) : boards' = [boards EXCEPT ![t] = b] BY <1>1, Zenon
<1>6. /\ IsKept(b)
      /\ \A i \in 1 .. Len(b) : b[i].chips = StartingChips /\ b[i].player \in in
  <2>1. ps \in Seq(Players) /\ b \in FreshBoards(ps) BY <1>3, <1>5, Zenon
  <2> HIDE DEF ps
  <2> QED BY <2>1, FreshBoardsAre, Zenon
<1> HIDE DEF ps, in
<1>7. b \in Seq(Entries) BY <1>6 DEF IsKept
<1>8. boards'[t] = b /\ \A u \in Rooms : u # t => boards'[u] = boards[u] BY <1>2, <1>5
<1>9. BoardsTypes'
  <2>1. boards' \in [Rooms -> Seq(Entries)] BY <1>2, <1>5, <1>7
  <2>2. \A u \in Rooms : IsKept(boards'[u]) BY <1>6, <1>8 DEF BInv, BoardsTypes
  <2> QED BY <2>1, <2>2 DEF BoardsTypes
<1>10. /\ phase'[t] = "active"
       /\ \A u \in Tournaments : u # t =>
            phase'[u] = phase[u] /\ Listed(members', u) = Listed(members, u)
       /\ in \subseteq Listed(members', t)
  BY <1>1, <1>2, <1>4 DEF Listed
<1>11. phase[t] = None => Listed(members, t) = {}
  BY DEF BInv, ListsInv, Listed
<1>12. ASSUME NEW j \in 1 .. Len(boards'[t])
       PROVE  boards'[t][j].chips = StackIn(chips', tchips', boards'[t][j].player, t)
  <2>1. b[j].chips = StartingChips /\ b[j].player \in in /\ b[j] \in Entries BY <1>6, <1>7, <1>8
  <2>2. b[j].player \in Players BY <2>1 DEF Entries
  <2>3. tchips'[b[j].player] = StartingChips BY <1>1, <2>1, <2>2
  <2> QED BY <1>2, <1>8, <2>1, <2>3 DEF StackIn
<1>13. ASSUME NEW u \in Rooms, NEW q \in Players, u # t, ~Excused(phase', members', u, q)
       PROVE  /\ ~Excused(phase, members, u, q)
              /\ StackIn(chips', tchips', q, u) = StackIn(chips, tchips, q, u)
  <2>1. CASE u = None
    <3>1. ~Excused(phase, members, u, q)
      <4> SUFFICES ASSUME Excused(phase, members, u, q) PROVE FALSE OBVIOUS
      <4>1. PICK v \in Tournaments : phase[v] = "complete" /\ q \in Listed(members, v)
        BY <2>1 DEF Excused
      <4>2. v # t BY <1>1, <4>1 DEF None
      <4> QED BY <1>10, <1>13, <2>1, <4>1, <4>2 DEF Excused
    <3> QED BY <1>1, <2>1, <3>1 DEF StackIn
  <2>2. CASE u # None
    <3>1. u \in Tournaments BY <2>2 DEF Rooms
    <3>2. ~Excused(phase, members, u, q)
      <4> SUFFICES ASSUME Excused(phase, members, u, q) PROVE FALSE OBVIOUS
      <4>1. phase[u] = "active" BY <1>10, <1>13, <2>2, <3>1 DEF Excused
      <4>2. PICK v \in Tournaments : v # u /\ phase[v] # "registration" /\ q \in Listed(members, v)
        BY <2>2, <4>1 DEF Excused
      <4>3. v # t BY <1>1, <1>11, <4>2
      <4> QED BY <1>10, <1>13, <2>2, <4>2, <4>3 DEF Excused
    <3>3. q \notin in
      <4> SUFFICES ASSUME q \in in PROVE FALSE OBVIOUS
      <4>1. q \in Listed(members', t) /\ phase'[t] # "registration" BY <1>10
      <4> QED BY <1>13, <2>2, <4>1 DEF Excused
    <3>4. tchips'[q] = tchips[q] BY <1>1, <3>3
    <3> QED BY <2>2, <3>2, <3>4 DEF StackIn
  <2> QED BY <2>1, <2>2
<1>14. Shows(boards', phase', members', chips', tchips')
  <2>1. BoardsTypes /\ Shows(boards, phase, members, chips, tchips) BY DEF BInv
  <2>2. \A j \in 1 .. Len(boards'[t]) : ~Excused(phase', members', t, boards'[t][j].player)
          => boards'[t][j].chips = StackIn(chips', tchips', boards'[t][j].player, t)
    BY <1>12, Zenon
  <2>3. \A u \in Rooms, q \in Players : u # t /\ ~Excused(phase', members', u, q) =>
          /\ ~Excused(phase, members, u, q)
          /\ StackIn(chips', tchips', q, u) = StackIn(chips, tchips, q, u)
    BY <1>13, Zenon
  <2> QED BY <1>8, <2>1, <2>2, <2>3, ShowsStep, Zenon
<1>15. ListsInv' BY <1>1, <1>2, <1>10 DEF BInv, ListsInv, None
<1>16. PlaysInv'
  <2>1. Goes BY <1>1, <1>10 DEF Goes, None
  <2>2. \A i \in Ids : Plays(phase', members', sessions[i]) BY <2>1, SessionsGo DEF BInv
  <2> QED BY <1>1, <2>2 DEF PlaysInv
<1> QED BY <1>9, <1>14, <1>15, <1>16, Zenon DEF BInv

LEMMA EndBInv ==
    ASSUME IInv, IInv', BInv, NEW t \in Tournaments, CasinoEndTournament(t)
    PROVE  BInv'
<1> DEFINE f == Prizes(t)
           out == Leavers(t)
<1>1. /\ phase[t] = "active"
      /\ chips' = [p \in Players |-> chips[p] + f[p]]
      /\ tchips' = [p \in Players |-> IF p \in out THEN 0 ELSE tchips[p]]
      /\ phase' = [phase EXCEPT ![t] = "complete"]
      /\ UNCHANGED <<sessions, boards, members>>
  BY Zenon DEF CasinoEndTournament
<1>2. /\ phase \in [Tournaments -> {None, "registration", "active", "complete"}]
      /\ chips \in [Players -> Nat] /\ tchips \in [Players -> Nat] /\ t # None
  BY CasinoAssumption DEF IInv, PrizesInv, BooksInv
<1>3. \A q \in Players : q \notin Listed(members, t) => f[q] = 0
  BY DEF Prizes, Listed
<1>4. out \subseteq Listed(members, t) BY MembersListed DEF Leavers
<1> HIDE DEF f, out
<1>5. /\ phase'[t] = "complete"
      /\ \A u \in Tournaments : u # t => phase'[u] = phase[u]
  BY <1>1, <1>2
<1>6. BoardsTypes' BY <1>1 DEF BInv, BoardsTypes
<1>7. ASSUME NEW u \in Rooms, NEW q \in Players, u # t, ~Excused(phase', members', u, q)
      PROVE  /\ ~Excused(phase, members, u, q)
             /\ StackIn(chips', tchips', q, u) = StackIn(chips, tchips, q, u)
  <2>1. CASE u = None
    <3>1. \A v \in Tournaments : phase'[v] = "complete" => q \notin Listed(members, v)
      BY <1>1, <1>7, <2>1 DEF Excused
    <3>2. \A v \in Tournaments : phase[v] = "complete" => phase'[v] = "complete" BY <1>5
    <3>3. ~Excused(phase, members, u, q) BY <2>1, <3>1, <3>2 DEF Excused
    <3>4. f[q] = 0 BY <1>3, <1>5, <3>1
    <3>5. chips'[q] = chips[q] BY <1>1, <1>2, <3>4
    <3> QED BY <2>1, <3>3, <3>5 DEF StackIn
  <2>2. CASE u # None
    <3>1. u \in Tournaments BY <2>2 DEF Rooms
    <3>2. /\ phase'[u] = "active"
          /\ \A v \in Tournaments :
               v # u /\ phase'[v] # "registration" => q \notin Listed(members, v)
      BY <1>1, <1>7, <2>2 DEF Excused
    <3>3. phase[u] = "active" BY <1>5, <1>7, <3>1, <3>2
    <3>4. \A v \in Tournaments : phase[v] # "registration" => phase'[v] # "registration" BY <1>5
    <3>5. ~Excused(phase, members, u, q) BY <2>2, <3>2, <3>3, <3>4 DEF Excused
    <3>6. q \notin out BY <1>4, <1>5, <1>7, <3>2
    <3>7. tchips'[q] = tchips[q] BY <1>1, <3>6
    <3> QED BY <2>2, <3>5, <3>7 DEF StackIn
  <2> QED BY <2>1, <2>2
<1>8. Shows(boards', phase', members', chips', tchips')
  <2>1. BoardsTypes /\ Shows(boards, phase, members, chips, tchips) BY DEF BInv
  <2>2. \A q : Excused(phase', members', t, q) BY <1>2, <1>5 DEF Excused
  <2>3. \A j \in 1 .. Len(boards'[t]) : ~Excused(phase', members', t, boards'[t][j].player)
          => boards'[t][j].chips = StackIn(chips', tchips', boards'[t][j].player, t)
    BY <2>2, Zenon
  <2>4. \A u \in Rooms, q \in Players : u # t /\ ~Excused(phase', members', u, q) =>
          /\ ~Excused(phase, members, u, q)
          /\ StackIn(chips', tchips', q, u) = StackIn(chips, tchips, q, u)
    BY <1>7, Zenon
  <2>5. \A u \in Rooms : u # t => boards'[u] = boards[u] BY <1>1
  <2> QED BY <2>1, <2>3, <2>4, <2>5, ShowsStep, Zenon
<1>9. ListsInv' BY <1>1, <1>2, <1>5 DEF BInv, ListsInv, None
<1>10. PlaysInv'
  <2>1. Goes BY <1>1, <1>5 DEF Goes
  <2>2. \A i \in Ids : Plays(phase', members', sessions[i]) BY <2>1, SessionsGo DEF BInv
  <2> QED BY <1>1, <2>2 DEF PlaysInv
<1> QED BY <1>6, <1>8, <1>9, <1>10, Zenon DEF BInv

LEMMA NextBInv == IInv /\ IInv' /\ BInv /\ [Next]_vars => BInv'
<1> SUFFICES ASSUME IInv, IInv', BInv, [Next]_vars PROVE BInv' OBVIOUS
<1>1. ASSUME NEW p \in Players, PlayerStep(p) PROVE BInv'
  <2>1. CASE CasinoRegister(p) BY <2>1, RegisterBInv
  <2>2. ASSUME NEW n \in Amounts, CasinoDeposit(p, n) PROVE BInv' BY <2>2, DepositBInv
  <2>3. ASSUME NEW m \in Modifiers, CasinoToggle(p, m) PROVE BInv'
    BY <2>3, QuietBInv DEF CasinoToggle, tournament
  <2>4. ASSUME NEW i \in Ids, NEW g \in Games, NEW bet \in Bets, CasinoStartGame(p, i, g, bet)
        PROVE  BInv'
    BY <2>4, StartGameBInv
  <2>5. ASSUME NEW i \in Ids, CasinoGameMove(p, i) PROVE BInv' BY <2>5, GameMoveBInv
  <2> QED BY <1>1, <2>1, <2>2, <2>3, <2>4, <2>5, Zenon DEF PlayerStep
<1>2. ASSUME NEW p \in Players, NEW t \in Tournaments, CasinoJoinTournament(p, t) PROVE BInv'
  BY <1>2, JoinBInv
<1>3. ASSUME NEW p \in Players, NEW t \in Tournaments, CasinoStartTournament(p, t) PROVE BInv'
  BY <1>3, StartBInv
<1>4. ASSUME NEW t \in Tournaments, CasinoEndTournament(t) PROVE BInv' BY <1>4, EndBInv
<1>5. CASE NextDay BY <1>5, QuietBInv DEF NextDay, tournament
<1>6. CASE UNCHANGED vars BY <1>6, QuietBInv DEF vars
<1> QED BY <1>1, <1>2, <1>3, <1>4, <1>5, <1>6, Zenon DEF Next

\* What the invariant says of the boards.
LEMMA BoardsFollow == IInv /\ BInv => BoardsAreCurrent
<1> SUFFICES ASSUME IInv, BInv PROVE BoardsAreCurrent OBVIOUS
<1>1. boards \in [Rooms -> Seq(Entries)] /\ \A t \in Rooms : IsKept(boards[t])
  BY DEF BInv, BoardsTypes
<1>2. \A t \in Rooms : DOMAIN boards[t] = 1 .. Len(boards[t]) BY <1>1
<1>3. ASSUME NEW t \in Tournaments \cup {None} PROVE IsBoard(boards[t])
  <2>1. t \in Rooms BY DEF Rooms
  <2> QED BY <1>1, <1>2, <2>1 DEF IsKept, Ordered, IsBoard
<1>4. ASSUME NEW t \in Tournaments, phase[t] = "active", NEW i \in DOMAIN boards[t],
             {u \in Tournaments \ {t} : /\ boards[t][i].player \in MembersOf(u)
                                        /\ phase[u] # "registration"} = {}
      PROVE  boards[t][i].chips = tchips[boards[t][i].player]
  <2>1. t \in Rooms /\ t # None /\ i \in 1 .. Len(boards[t])
    BY <1>2, CasinoAssumption DEF Rooms
  <2>2. ~Excused(phase, members, t, boards[t][i].player)
    BY <1>4, <2>1, MembersListed DEF Excused
  <2> QED BY <2>1, <2>2 DEF BInv, Shows, StackIn
<1>5. ASSUME NEW i \in DOMAIN boards[None],
             \A t \in Tournaments :
               phase[t] = "complete" => boards[None][i].player \notin MembersOf(t)
      PROVE  boards[None][i].chips = chips[boards[None][i].player]
  <2>1. None \in Rooms BY DEF Rooms
  <2>2. i \in 1 .. Len(boards[None]) BY <1>2, <2>1
  <2>3. ~Excused(phase, members, None, boards[None][i].player) BY <1>5, MembersListed DEF Excused
  <2> QED BY <2>1, <2>2, <2>3 DEF BInv, Shows, StackIn
<1> QED BY <1>3, <1>4, <1>5, Zenon DEF BoardsAreCurrent

\* However games, deposits and tournaments follow each other, every leaderboard is
\* sorted and has one entry per player, and no entry is out of date but those
\* of players whose tournament stack was replaced or whose prize was paid.
THEOREM BoardsAreAlwaysCurrent == Spec => []BoardsAreCurrent
<1>1. Init => BInv BY InitBInv
<1>2. IInv /\ IInv' /\ BInv /\ [Next]_vars => BInv' BY NextBInv
<1> QED BY <1>1, <1>2, Invariance, BoardsFollow, PTL DEF Spec

================================================================================
