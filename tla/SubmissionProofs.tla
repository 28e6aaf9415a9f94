---------------------------- MODULE SubmissionProofs ---------------------------
(***************************************************************************)
(* What is notarized holds consecutive nonces, and the page gives up a     *)
(* record only when the chain is past it or in the named cases, for any    *)
(* number of requests and faults and any size of blocks.                   *)
(***************************************************************************)
EXTENDS Submission, DataTheorems, SequenceTheorems

----------------------------------------------------------------------------
(* The recursions that apply a block and a chain. *)

BlockSteps(b) == [i \in 1 .. Len(b) |-> [v \in Nat |-> Prepare(v, b[i])]]
ChainSteps(bs) == [i \in 1 .. Len(bs) |-> [v \in Nat |-> ApplyBlock(v, bs[i])]]

LEMMA ApplyBlockRuns ==
    ASSUME NEW next \in Nat, NEW b, Len(b) \in Nat
    PROVE  \E f : Follows(f, Len(b), Nat, next, BlockSteps(b)) /\ ApplyBlock(next, b) = f[Len(b)]
<1> DEFINE n == Len(b)
           Is(f) == f = [k \in 0 .. n |-> IF k = 0 THEN next ELSE Prepare(f[k - 1], b[k])]
           after == CHOOSE f : Is(f)
           step == BlockSteps(b)
<1>1. ApplyBlock(next, b) = after[n] BY Zenon DEF ApplyBlock
<1>2. \A i \in 1 .. n, v \in Nat : step[i][v] = Prepare(v, b[i]) /\ Prepare(v, b[i]) \in Nat
  BY DEF BlockSteps, Prepare
<1>3. step \in [1 .. n -> [Nat -> Nat]] BY <1>2 DEF BlockSteps
<1> HIDE DEF step, n
<1>4. n \in Nat BY DEF n
<1>5. PICK g : Follows(g, n, Nat, next, step) BY <1>3, <1>4, RecursionExists, Zenon
<1>6. ASSUME NEW k \in 0 .. n PROVE g[k] = IF k = 0 THEN next ELSE Prepare(g[k - 1], b[k])
  <2>1. CASE k = 0 BY <1>5, <2>1 DEF Follows
  <2>2. CASE k # 0
    <3>1. k \in 1 .. n /\ k - 1 \in 0 .. n BY <1>4, <2>2
    <3>2. g[k] = step[k][g[k - 1]] /\ g[k - 1] \in Nat BY <1>5, <3>1 DEF Follows
    <3> QED BY <1>2, <2>2, <3>1, <3>2
  <2> QED BY <2>1, <2>2
<1>7. g = [k \in 0 .. n |-> g[k]] BY <1>5 DEF Follows
<1>8. Is(g) BY <1>6, <1>7
<1>9. Is(after) BY <1>8, Zenon
<1> HIDE DEF after
<1>10. after = [k \in 0 .. n |-> after[k]] BY <1>9
<1>11. \A k \in 0 .. n : after[k] = IF k = 0 THEN next ELSE Prepare(after[k - 1], b[k]) BY <1>9
<1>12. after[0] = next
  <2>1. 0 \in 0 .. n BY <1>4
  <2> QED BY <1>11, <2>1
<1>13. \A i \in 1 .. n : after[i - 1] \in Nat => after[i] = step[i][after[i - 1]]
  <2>1. \A i \in 1 .. n : i \in 0 .. n /\ i # 0 BY <1>4
  <2> QED BY <1>2, <1>11, <2>1
<1>14. Follows(after, n, Nat, next, step)
  BY <1>3, <1>4, <1>10, <1>12, <1>13, RecursionFollows, Zenon
<1> QED BY <1>1, <1>14 DEF n, step

\* Applying a block moves the nonce forward, if at all.
LEMMA ApplyBlockGrows ==
    ASSUME NEW next \in Nat, NEW b, Len(b) \in Nat
    PROVE  ApplyBlock(next, b) \in Nat /\ next <= ApplyBlock(next, b)
<1>1. PICK f : Follows(f, Len(b), Nat, next, BlockSteps(b)) /\ ApplyBlock(next, b) = f[Len(b)]
  BY ApplyBlockRuns
<1> DEFINE n == Len(b)
           S == {i \in 0 .. n : f[i] \in Nat /\ next <= f[i]}
<1>2. 0 \in S
  <2>1. 0 \in 0 .. n OBVIOUS
  <2> QED BY <1>1, <2>1 DEF Follows
<1>3. ASSUME NEW i \in 0 .. n - 1, i \in S PROVE i + 1 \in S
  <2>1. i + 1 \in 0 .. n /\ i + 1 \in 1 .. n /\ (i + 1) - 1 = i OBVIOUS
  <2>2. f[i + 1] = BlockSteps(b)[i + 1][f[i]] /\ f[i] \in Nat /\ next <= f[i]
    BY <1>1, <1>3, <2>1 DEF Follows
  <2>3. f[i + 1] = Prepare(f[i], b[i + 1]) BY <2>1, <2>2 DEF BlockSteps
  <2> QED BY <2>1, <2>2, <2>3 DEF Prepare
<1>4. 0 .. n \subseteq S
  <2>1. \A i \in 0 .. n - 1 : i \in S => i + 1 \in S BY <1>3
  <2>2. n \in Nat OBVIOUS
  <2> HIDE DEF S, n
  <2> QED BY <1>2, <2>1, <2>2, InductionTo, Zenon
<1>5. n \in 0 .. n OBVIOUS
<1> QED BY <1>1, <1>4, <1>5

\* A sequence of sequences.
IsChain(bs) == Len(bs) \in Nat /\ \A i \in 1 .. Len(bs) : Len(bs[i]) \in Nat

LEMMA ChainStepsType ==
    ASSUME NEW bs, IsChain(bs)
    PROVE  ChainSteps(bs) \in [1 .. Len(bs) -> [Nat -> Nat]]
BY ApplyBlockGrows DEF ChainSteps, IsChain

LEMMA ApplyRuns ==
    ASSUME NEW next \in Nat, NEW bs, IsChain(bs)
    PROVE  \E f : Follows(f, Len(bs), Nat, next, ChainSteps(bs)) /\ Apply(next, bs) = f[Len(bs)]
<1> DEFINE n == Len(bs)
           Is(f) == f = [k \in 0 .. n |-> IF k = 0 THEN next ELSE ApplyBlock(f[k - 1], bs[k])]
           after == CHOOSE f : Is(f)
           step == ChainSteps(bs)
<1>1. Apply(next, bs) = after[n] BY Zenon DEF Apply
<1>2. \A i \in 1 .. n, v \in Nat : step[i][v] = ApplyBlock(v, bs[i])
  BY DEF ChainSteps
<1>3. step \in [1 .. n -> [Nat -> Nat]] BY ChainStepsType
<1> HIDE DEF step, n
<1>4. n \in Nat BY DEF n, IsChain
<1>5. PICK g : Follows(g, n, Nat, next, step) BY <1>3, <1>4, RecursionExists, Zenon
<1>6. ASSUME NEW k \in 0 .. n PROVE g[k] = IF k = 0 THEN next ELSE ApplyBlock(g[k - 1], bs[k])
  <2>1. CASE k = 0 BY <1>5, <2>1 DEF Follows
  <2>2. CASE k # 0
    <3>1. k \in 1 .. n /\ k - 1 \in 0 .. n BY <1>4, <2>2
    <3>2. g[k] = step[k][g[k - 1]] /\ g[k - 1] \in Nat BY <1>5, <3>1 DEF Follows
    <3> QED BY <1>2, <2>2, <3>1, <3>2
  <2> QED BY <2>1, <2>2
<1>7. g = [k \in 0 .. n |-> g[k]] BY <1>5 DEF Follows
<1>8. Is(g) BY <1>6, <1>7
<1>9. Is(after) BY <1>8, Zenon
<1> HIDE DEF after
<1>10. after = [k \in 0 .. n |-> after[k]] BY <1>9
<1>11. \A k \in 0 .. n : after[k] = IF k = 0 THEN next ELSE ApplyBlock(after[k - 1], bs[k]) BY <1>9
<1>12. after[0] = next
  <2>1. 0 \in 0 .. n BY <1>4
  <2> QED BY <1>11, <2>1
<1>13. \A i \in 1 .. n : after[i - 1] \in Nat => after[i] = step[i][after[i - 1]]
  <2>1. \A i \in 1 .. n : i \in 0 .. n /\ i # 0 BY <1>4
  <2> QED BY <1>2, <1>11, <2>1
<1>14. Follows(after, n, Nat, next, step)
  BY <1>3, <1>4, <1>10, <1>12, <1>13, RecursionFollows, Zenon
<1> QED BY <1>1, <1>14 DEF n, step

\* The nonce after the first h blocks.
At(bs, h) == Apply(0, SubSeq(bs, 1, h))

LEMMA PrefixIsChain ==
    ASSUME NEW S, NEW bs \in Seq(Seq(S)), NEW n \in 0 .. Len(bs)
    PROVE  /\ IsChain(SubSeq(bs, 1, n)) /\ Len(SubSeq(bs, 1, n)) = n
           /\ SubSeq(bs, 1, n) \in Seq(Seq(S))
           /\ \A i \in 1 .. n : SubSeq(bs, 1, n)[i] = bs[i]
<1>1. Len(bs) \in Nat /\ n \in Nat OBVIOUS
<1>2. /\ SubSeq(bs, 1, n) \in Seq(Seq(S)) /\ Len(SubSeq(bs, 1, n)) = n
      /\ \A i \in 1 .. n : SubSeq(bs, 1, n)[i] = bs[i]
  BY <1>1
<1>3. \A i \in 1 .. n : bs[i] \in Seq(S) BY <1>1
<1>4. IsChain(SubSeq(bs, 1, n)) BY <1>1, <1>2, <1>3 DEF IsChain
<1> QED BY <1>2, <1>4

LEMMA ApplyType ==
    ASSUME NEW next \in Nat, NEW bs, IsChain(bs)
    PROVE  Apply(next, bs) \in Nat /\ (Len(bs) = 0 => Apply(next, bs) = next)
<1>1. PICK f : Follows(f, Len(bs), Nat, next, ChainSteps(bs)) /\ Apply(next, bs) = f[Len(bs)]
  BY ApplyRuns
<1>2. Len(bs) \in 0 .. Len(bs) BY DEF IsChain
<1> QED BY <1>1, <1>2 DEF Follows

\* One block more.
LEMMA ApplyNextBlock ==
    ASSUME NEW S, NEW bs \in Seq(Seq(S)), NEW next \in Nat, NEW n \in 1 .. Len(bs)
    PROVE  Apply(next, SubSeq(bs, 1, n)) = ApplyBlock(Apply(next, SubSeq(bs, 1, n - 1)), bs[n])
<1> DEFINE p == SubSeq(bs, 1, n)
           q == SubSeq(bs, 1, n - 1)
<1>1. /\ n \in 0 .. Len(bs) /\ n - 1 \in 0 .. Len(bs) /\ n \in Nat /\ n - 1 \in 0 .. n
      /\ n \in 1 .. n
  OBVIOUS
<1>2. /\ IsChain(p) /\ Len(p) = n /\ \A i \in 1 .. n : p[i] = bs[i]
      /\ IsChain(q) /\ Len(q) = n - 1 /\ \A i \in 1 .. n - 1 : q[i] = bs[i]
  BY <1>1, PrefixIsChain
<1> HIDE DEF p, q
<1>3. PICK f : Follows(f, n, Nat, next, ChainSteps(p)) /\ Apply(next, p) = f[n]
  BY <1>2, ApplyRuns
<1>4. PICK g : Follows(g, n - 1, Nat, next, ChainSteps(q)) /\ Apply(next, q) = g[n - 1]
  BY <1>2, ApplyRuns
<1>5. \A i \in 1 .. n - 1 : ChainSteps(p)[i] = ChainSteps(q)[i]
  <2>1. \A i \in 1 .. n - 1 : i \in 1 .. n /\ p[i] = q[i] BY <1>2
  <2> QED BY <1>2, <2>1 DEF ChainSteps
<1>6. f[n - 1] = g[n - 1]
  <2> DEFINE m == n - 1
  <2>1. m \in 0 .. n BY <1>1
  <2>2. Follows(g, m, Nat, next, ChainSteps(q)) BY <1>4
  <2>3. Follows(f, n, Nat, next, ChainSteps(p)) BY <1>3
  <2>4. \A i \in 1 .. m : ChainSteps(p)[i] = ChainSteps(q)[i] BY <1>5
  <2>5. n \in Nat BY <1>1
  <2> HIDE DEF m
  <2>6. f[m] = g[m] BY <2>1, <2>2, <2>3, <2>4, <2>5, RunsAgree
  <2> QED BY <2>6 DEF m
<1>7. f[n] = ChainSteps(p)[n][f[n - 1]] /\ f[n - 1] \in Nat BY <1>1, <1>3 DEF Follows
<1>8. f[n] = ApplyBlock(f[n - 1], bs[n]) BY <1>1, <1>2, <1>7 DEF ChainSteps
<1> QED BY <1>3, <1>4, <1>6, <1>8 DEF p, q

\* The nonce never falls along a chain.
LEMMA AtGrows ==
    ASSUME NEW S, NEW bs \in Seq(Seq(S)), NEW m \in 0 .. Len(bs), NEW n \in m .. Len(bs)
    PROVE  At(bs, m) \in Nat /\ At(bs, n) \in Nat /\ At(bs, m) <= At(bs, n)
<1>1. \A k \in 0 .. Len(bs) : At(bs, k) \in Nat
  BY PrefixIsChain, ApplyType DEF At
<1> DEFINE d == n - m
           T == {i \in 0 .. d : At(bs, m) <= At(bs, m + i)}
<1>2. Len(bs) \in Nat /\ d \in Nat /\ m + d = n /\ m \in Nat OBVIOUS
<1> HIDE DEF d
<1>3. 0 \in T
  <2>1. 0 \in 0 .. d /\ m + 0 = m BY <1>2
  <2> QED BY <1>1, <2>1
<1>4. ASSUME NEW i \in 0 .. d - 1, i \in T PROVE i + 1 \in T
  <2> DEFINE k == m + i + 1
  <2>1. /\ k \in 1 .. Len(bs) /\ k - 1 = m + i /\ k = m + (i + 1) /\ k - 1 \in 0 .. Len(bs)
        /\ i + 1 \in 0 .. d
    BY <1>2
  <2> HIDE DEF k
  <2>2. At(bs, k) = ApplyBlock(At(bs, k - 1), bs[k]) BY <2>1, ApplyNextBlock DEF At
  <2>3. bs[k] \in Seq(S) /\ Len(bs[k]) \in Nat BY <2>1
  <2>4. At(bs, k - 1) \in Nat BY <1>1, <2>1
  <2>5. At(bs, k - 1) <= At(bs, k) /\ At(bs, k) \in Nat BY <2>2, <2>3, <2>4, ApplyBlockGrows
  <2>6. At(bs, m) <= At(bs, k - 1) BY <1>4, <2>1
  <2>7. At(bs, m) \in Nat BY <1>1
  <2>8. At(bs, m) <= At(bs, k) BY <2>4, <2>5, <2>6, <2>7
  <2> QED BY <2>1, <2>8
<1>5. 0 .. d \subseteq T
  <2>1. \A i \in 0 .. d - 1 : i \in T => i + 1 \in T BY <1>4
  <2> HIDE DEF T
  <2> QED BY <1>2, <1>3, <2>1, InductionTo, Zenon
<1>6. d \in T
  <2>1. d \in 0 .. d BY <1>2
  <2> QED BY <1>5, <2>1
<1>7. At(bs, m) <= At(bs, n) BY <1>2, <1>6
<1>8. n \in 0 .. Len(bs) BY <1>2
<1> QED BY <1>1, <1>7, <1>8

\* The blocks from one height on are applied on top of those up to it.
LEMMA ApplySplits ==
    ASSUME NEW S, NEW bs \in Seq(Seq(S)), NEW e \in 0 .. Len(bs)
    PROVE  Apply(At(bs, e), SubSeq(bs, e + 1, Len(bs))) = At(bs, Len(bs))
<1> DEFINE c == SubSeq(bs, e + 1, Len(bs))
           d == Len(bs) - e
           x == At(bs, e)
           T == {i \in 0 .. d : Apply(x, SubSeq(c, 1, i)) = At(bs, e + i)}
<1>1. Len(bs) \in Nat /\ d \in Nat /\ e + d = Len(bs) /\ e \in Nat OBVIOUS
<1>2. /\ c \in Seq(Seq(S)) /\ Len(c) = d /\ \A i \in 1 .. d : c[i] = bs[e + i]
  <2> DEFINE m == e + 1
             n == Len(bs)
  <2>1. /\ m \in Int /\ n \in Int
        /\ (m > n => d = 0) /\ (m <= n => d = (n - m) + 1)
    <3>1. e <= Len(bs) /\ e \in Nat /\ Len(bs) \in Nat BY <1>1
    <3> QED BY <3>1
  <2>2. \A i \in m .. n : i \in 1 .. Len(bs) BY <1>1
  <2>3. \A i \in m .. n : bs[i] \in Seq(S) BY <2>2
  <2> HIDE DEF m, n
  <2>4. /\ SubSeq(bs, m, n) \in Seq(Seq(S))
        /\ Len(SubSeq(bs, m, n)) = d
        /\ \A i \in 1 .. d : SubSeq(bs, m, n)[i] = bs[(m + i) - 1]
    BY <2>1, <2>3, SubSeqProperties
  <2>5. \A i \in 1 .. d : (m + i) - 1 = e + i BY <1>1 DEF m
  <2> QED BY <2>4, <2>5 DEF m, n
<1>3. x \in Nat
  <2>1. e \in e .. Len(bs) BY <1>1
  <2> QED BY <2>1, AtGrows
<1>4. \A k \in 0 .. Len(bs) : At(bs, k) \in Nat BY PrefixIsChain, ApplyType DEF At
<1> HIDE DEF c, d, x
<1>5. 0 \in T
  <2>1. 0 \in 0 .. d /\ 0 \in 0 .. Len(c) /\ e + 0 = e BY <1>1, <1>2
  <2>2. Apply(x, SubSeq(c, 1, 0)) = x BY <1>2, <1>3, <2>1, PrefixIsChain, ApplyType
  <2> QED BY <2>1, <2>2 DEF x
<1>6. ASSUME NEW i \in 0 .. d - 1, i \in T PROVE i + 1 \in T
  <2> DEFINE k == i + 1
             h == e + i + 1
  <2>1. /\ k \in 1 .. Len(c) /\ k \in 1 .. d /\ k \in 0 .. d /\ k - 1 = i
        /\ h \in 1 .. Len(bs) /\ h = e + k /\ h - 1 = e + i
    BY <1>1, <1>2
  <2>2. c[k] = bs[h] BY <1>2, <2>1
  <2> HIDE DEF k, h
  <2>3. Apply(x, SubSeq(c, 1, k)) = ApplyBlock(Apply(x, SubSeq(c, 1, k - 1)), c[k])
    BY <1>2, <1>3, <2>1, ApplyNextBlock
  <2>4. At(bs, h) = ApplyBlock(At(bs, h - 1), bs[h]) BY <2>1, ApplyNextBlock DEF At
  <2>5. Apply(x, SubSeq(c, 1, k - 1)) = At(bs, h - 1) BY <1>6, <2>1
  <2>6. Apply(x, SubSeq(c, 1, k)) = At(bs, e + k) BY <2>1, <2>2, <2>3, <2>4, <2>5
  <2> QED BY <2>1, <2>6 DEF k
<1>7. 0 .. d \subseteq T
  <2>1. \A i \in 0 .. d - 1 : i \in T => i + 1 \in T BY <1>6
  <2> HIDE DEF T
  <2> QED BY <1>1, <1>5, <2>1, InductionTo, Zenon
<1>8. Apply(x, SubSeq(c, 1, d)) = At(bs, e + d)
  <2>1. d \in 0 .. d BY <1>1
  <2> QED BY <1>7, <2>1
<1>9. SubSeq(c, 1, d) = c BY <1>1, <1>2
<1> QED BY <1>1, <1>8, <1>9 DEF c, x

\* A prefix of a chain leaves the same states.
LEMMA PrefixStates ==
    ASSUME NEW S, NEW bs \in Seq(Seq(S)), NEW n \in 0 .. Len(bs), NEW k \in 0 .. n
    PROVE  At(SubSeq(bs, 1, n), k) = At(bs, k)
<1> DEFINE p == SubSeq(SubSeq(bs, 1, n), 1, k)
           q == SubSeq(bs, 1, k)
<1>1. Len(bs) \in Nat /\ n \in Nat /\ k \in Nat /\ k <= n /\ k \in 0 .. Len(bs) OBVIOUS
<1>2. /\ SubSeq(bs, 1, n) \in Seq(Seq(S)) /\ Len(SubSeq(bs, 1, n)) = n
      /\ \A i \in 1 .. n : SubSeq(bs, 1, n)[i] = bs[i]
  BY PrefixIsChain
<1>3. q \in Seq(Seq(S)) /\ Len(q) = k /\ \A i \in 1 .. k : q[i] = bs[i]
  BY <1>1, PrefixIsChain
<1>4. k \in 0 .. Len(SubSeq(bs, 1, n)) BY <1>1, <1>2
<1>5. p \in Seq(Seq(S)) /\ Len(p) = k /\ \A i \in 1 .. k : p[i] = SubSeq(bs, 1, n)[i]
  BY <1>2, <1>4, PrefixIsChain
<1>6. \A i \in 1 .. k : p[i] = q[i]
  <2>1. \A i \in 1 .. k : i \in 1 .. n BY <1>1
  <2> QED BY <1>2, <1>3, <1>5, <2>1
<1> HIDE DEF p, q
<1>7. p = q BY <1>3, <1>5, <1>6, SeqEqual
<1> QED BY <1>7 DEF At, p, q

LEMMA AppendKeepsPrefix ==
    ASSUME NEW T, NEW bs \in Seq(T), NEW b \in T
    PROVE  /\ Append(bs, b) \in Seq(T) /\ Len(Append(bs, b)) = Len(bs) + 1
           /\ SubSeq(Append(bs, b), 1, Len(bs)) = bs
           /\ Append(bs, b)[Len(bs) + 1] = b
           /\ \A i \in 1 .. Len(bs) : Append(bs, b)[i] = bs[i]
<1> DEFINE c == Append(bs, b)
           n == Len(bs)
<1>1. /\ c \in Seq(T) /\ Len(c) = n + 1 /\ c[n + 1] = b /\ n \in Nat
      /\ \A i \in 1 .. n : c[i] = bs[i]
  OBVIOUS
<1> HIDE DEF c
<1>2. /\ SubSeq(c, 1, n) \in Seq(T) /\ Len(SubSeq(c, 1, n)) = n
      /\ \A i \in 1 .. n : SubSeq(c, 1, n)[i] = c[i]
  BY <1>1
<1>3. SubSeq(c, 1, n) = bs BY <1>1, <1>2, SeqEqual
<1> QED BY <1>1, <1>3 DEF c

----------------------------------------------------------------------------
(* The inductive invariant. *)

Tx == [nonce : Nat, request : Nat]

\* The transactions of a block follow on from a nonce, one by one.
FollowOn(block, next) == \A i \in 1 .. Len(block) : block[i].nonce = next + i - 1

\* Every block of a chain follows on from the state its parent leaves.
Valid(bs) == \A h \in 1 .. Len(bs) : FollowOn(bs[h], At(bs, h - 1))

ChainInv ==
    /\ chain \in Seq(Seq(Tx))
    /\ executed \in 0 .. Len(chain)
    /\ pool \subseteq Tx
    /\ Valid(chain)

\* A proposal is asked for on the notarized chain.  Until it is settled the chain
\* loses blocks to abandonment but never grows past that ancestry, although the
\* executed height may catch up with it.
OnChain(ancestry, bs) ==
    /\ ancestry \in Seq(Seq(Tx))
    /\ Len(bs) \in 0 .. Len(ancestry)
    /\ bs = SubSeq(ancestry, 1, Len(bs))

ProposalInv ==
    /\ parent # <<>> => parent = <<parent[1]>> /\ OnChain(parent[1], chain)
    /\ built # <<>> =>
          /\ parent # <<>>
          /\ built = <<built[1]>>
          /\ built[1] \in Seq(Tx)
          /\ FollowOn(built[1], Apply(0, parent[1]))

OnePerNonce(txs) == \A t, u \in txs : t.nonce = u.nonce => t = u

ClientTypes ==
    /\ page \in {"up", "asking", "asked"}
    /\ account \in Nat \cup {Null}
    /\ nonce \in Nat
    /\ made \in Nat
    /\ stored \subseteq Tx
    /\ resending \subseteq Tx
    /\ wire \subseteq Tx

\* What a round resends was accepted, and no other record has taken the place of
\* one it still holds.
RoundInv ==
    /\ OnePerNonce(stored)
    /\ OnePerNonce(resending)
    /\ \A t \in resending : t.nonce < nonce
    /\ \A t \in resending, u \in stored : t.nonce = u.nonce => t = u
    /\ page # "up" => resending = {}

\* The index announces only what was executed, indexes what it announced, and
\* answers with no nonce the chain has not reached.
IndexInv ==
    /\ announced \subseteq 1 .. executed
    /\ indexed \subseteq announced
    /\ \A n \in updates : n \in Int /\ n + 1 \in 0 .. At(chain, executed)
    /\ account # Null => account <= At(chain, executed)

SInv == ChainInv /\ ProposalInv /\ ClientTypes /\ RoundInv /\ IndexInv

LEMMA StateType ==
    ASSUME ChainInv
    PROVE  /\ StateNonce = At(chain, executed) /\ StateNonce \in Nat
           /\ \A h \in 0 .. Len(chain) : NonceAt(h) = At(chain, h) /\ NonceAt(h) \in Nat
<1>1. \A h \in 0 .. Len(chain) : At(chain, h) \in Nat
  BY PrefixIsChain, ApplyType DEF At, ChainInv
<1> QED BY <1>1 DEF ChainInv, StateNonce, NonceAt, At

LEMMA ValidIsProposed ==
    ASSUME ChainInv
    PROVE  ProposedAreValid
<1>1. Len(chain) \in Nat /\ DOMAIN chain = 1 .. Len(chain) BY DEF ChainInv
<1> SUFFICES ASSUME NEW h \in 1 .. Len(chain), NEW i \in DOMAIN chain[h]
             PROVE  chain[h][i].nonce = NonceAt(h - 1) + i - 1
  BY <1>1 DEF ProposedAreValid
<1>2. chain[h] \in Seq(Tx) BY DEF ChainInv
<1>3. i \in 1 .. Len(chain[h]) BY <1>2
<1> QED BY <1>3 DEF ChainInv, Valid, FollowOn, NonceAt, At

LEMMA InitInv == ASSUME Init PROVE SInv
<1> USE DEF Init, ClientInit, ProposerInit
<1>1. chain = <<>> /\ Len(chain) = 0 OBVIOUS
<1>2. chain \in Seq(Seq(Tx)) BY <1>1
<1>3. Valid(chain) BY <1>1 DEF Valid
<1>4. ChainInv BY <1>1, <1>2, <1>3 DEF ChainInv
<1>5. ProposalInv BY DEF ProposalInv
<1>6. ClientTypes BY DEF ClientTypes
<1>7. RoundInv BY DEF RoundInv, OnePerNonce
<1>8. IndexInv BY DEF IndexInv
<1> QED BY <1>4, <1>5, <1>6, <1>7, <1>8 DEF SInv

----------------------------------------------------------------------------
(* The validator and consensus. *)

LEMMA ValidPrefix ==
    ASSUME NEW bs \in Seq(Seq(Tx)), NEW n \in 0 .. Len(bs), Valid(bs)
    PROVE  Valid(SubSeq(bs, 1, n))
<1> DEFINE c == SubSeq(bs, 1, n)
<1>1. Len(bs) \in Nat /\ Len(c) = n /\ \A i \in 1 .. n : c[i] = bs[i] BY PrefixIsChain
<1>2. ASSUME NEW h \in 1 .. n PROVE FollowOn(c[h], At(c, h - 1))
  <2>1. h - 1 \in 0 .. n /\ h \in 1 .. Len(bs) BY <1>1
  <2>2. At(c, h - 1) = At(bs, h - 1) BY <2>1, PrefixStates
  <2> QED BY <1>1, <2>1, <2>2 DEF Valid
<1> QED BY <1>1, <1>2 DEF Valid

LEMMA ValidAppend ==
    ASSUME NEW bs \in Seq(Seq(Tx)), NEW b \in Seq(Tx), Valid(bs), FollowOn(b, Apply(0, bs))
    PROVE  /\ Valid(Append(bs, b))
           /\ \A k \in 0 .. Len(bs) : At(Append(bs, b), k) = At(bs, k)
<1> DEFINE c == Append(bs, b)
           n == Len(bs)
<1>1. /\ c \in Seq(Seq(Tx)) /\ Len(c) = n + 1 /\ SubSeq(c, 1, n) = bs /\ c[n + 1] = b
      /\ \A i \in 1 .. n : c[i] = bs[i]
  BY AppendKeepsPrefix
<1>2. n \in Nat /\ n \in 0 .. Len(c) BY <1>1
<1>3. SubSeq(bs, 1, n) = bs OBVIOUS
<1> HIDE DEF c
<1>4. \A k \in 0 .. n : At(c, k) = At(bs, k) BY <1>1, <1>2, PrefixStates
<1>5. ASSUME NEW h \in 1 .. n + 1 PROVE FollowOn(c[h], At(c, h - 1))
  <2>1. CASE h = n + 1
    <3>1. h - 1 = n /\ n \in 0 .. n BY <1>2, <2>1
    <3>2. At(c, h - 1) = Apply(0, bs) BY <1>3, <1>4, <3>1 DEF At
    <3> QED BY <1>1, <2>1, <3>2
  <2>2. CASE h # n + 1
    <3>1. h \in 1 .. n /\ h - 1 \in 0 .. n BY <1>2, <2>2
    <3> QED BY <1>1, <1>4, <3>1 DEF Valid
  <2> QED BY <2>1, <2>2
<1> QED BY <1>1, <1>4, <1>5 DEF Valid, c

\* The state at a height the chain keeps is unchanged, and an executed block only
\* moves the account's nonce forward.
Grows(bs, e, cs, f) == At(cs, f) \in Nat /\ At(bs, e) <= At(cs, f) /\ e <= f

LEMMA Unmoved ==
    ASSUME ChainInv
    PROVE  Grows(chain, executed, chain, executed)
<1>1. executed \in Nat BY DEF ChainInv
<1>2. At(chain, executed) \in Nat BY StateType
<1> QED BY <1>1, <1>2 DEF Grows

\* Ancestry applies to the state of now what it has not executed of the ancestry,
\* and so reaches the state that the whole of it leaves.
LEMMA NextNonceIsAhead ==
    ASSUME ChainInv, NEW a, OnChain(a, chain)
    PROVE  NextNonce(a) = Apply(0, a) /\ Apply(0, a) \in Nat
<1>1. /\ a \in Seq(Seq(Tx)) /\ Len(a) \in Nat /\ Len(chain) \in 0 .. Len(a)
      /\ executed \in 0 .. Len(chain) /\ executed \in 0 .. Len(a) /\ Len(a) \in 0 .. Len(a)
  BY DEF ChainInv, OnChain
<1>2. At(chain, executed) = At(a, executed)
  <2>1. chain = SubSeq(a, 1, Len(chain)) BY DEF OnChain
  <2> DEFINE n == Len(chain)
  <2>2. n \in 0 .. Len(a) /\ executed \in 0 .. n BY <1>1
  <2> HIDE DEF n
  <2>3. At(SubSeq(a, 1, n), executed) = At(a, executed) BY <1>1, <2>2, PrefixStates
  <2> QED BY <2>1, <2>3 DEF n
<1>3. NextNonce(a) = Apply(At(a, executed), SubSeq(a, executed + 1, Len(a)))
  BY <1>2, StateType DEF NextNonce
<1>4. NextNonce(a) = At(a, Len(a)) BY <1>1, <1>3, ApplySplits
<1>5. At(a, Len(a)) \in Nat BY <1>1, PrefixIsChain, ApplyType DEF At
<1>6. SubSeq(a, 1, Len(a)) = a BY <1>1
<1> QED BY <1>4, <1>5, <1>6 DEF At

\* The pool's transactions that follow on from a nonce end somewhere.
LEMMA RunExists ==
    ASSUME NEW next \in Nat, NEW room \in Nat, pool \subseteq Tx
    PROVE  /\ Run(next, room) \in 0 .. room
           /\ \A i \in 0 .. Run(next, room) - 1 : \E t \in pool : t.nonce = next + i
<1> DEFINE Ends(n) ==
             /\ \A i \in 0 .. n - 1 : \E t \in pool : t.nonce = next + i
             /\ n < room => ~\E t \in pool : t.nonce = next + n
           S == {n \in 0 .. room : n < room => ~\E t \in pool : t.nonce = next + n}
<1>1. S \subseteq Nat /\ room \in S OBVIOUS
<1>2. PICK n \in S : \A m \in S : n <= m
  <2>1. S # {} BY <1>1
  <2> HIDE DEF S
  <2> QED BY <1>1, <2>1, LeastExists
<1>3. \A i \in 0 .. n - 1 : \E t \in pool : t.nonce = next + i
  <2> SUFFICES ASSUME NEW i \in 0 .. n - 1, ~\E t \in pool : t.nonce = next + i PROVE FALSE
    OBVIOUS
  <2>1. n \in Nat /\ n <= room BY <1>2
  <2>2. i \in 0 .. room /\ i < n BY <2>1
  <2>3. i \in S BY <2>2
  <2> QED BY <1>2, <2>1, <2>2, <2>3
<1>4. n \in 0 .. room /\ Ends(n) BY <1>2, <1>3
<1>5. Run(next, room) = CHOOSE m \in 0 .. room : Ends(m) BY DEF Run
<1> HIDE DEF Ends
<1>6. Run(next, room) \in 0 .. room /\ Ends(Run(next, room)) BY <1>4, <1>5, Zenon
<1> QED BY <1>6 DEF Ends

LEMMA AncestryStep ==
    ASSUME ChainInv, ProposalInv, NEW room \in 1 .. MaxBlock, Ancestry(room)
    PROVE  /\ ChainInv' /\ ProposalInv' /\ UNCHANGED <<chain, executed>>
<1> USE BlockAssumption
<1> DEFINE a == parent[1]
           next == NextNonce(a)
           n == Run(next, room)
           block == [i \in 1 .. n |-> CHOOSE t \in pool : t.nonce = next + i - 1]
<1>1. /\ parent # <<>> /\ built = <<>> /\ UNCHANGED <<chain, executed>>
      /\ pool' = IF n = room THEN {t \in pool : t.nonce >= next + n} ELSE {}
      /\ IF n = 0 THEN parent' = <<>> /\ UNCHANGED built
         ELSE built' = <<block>> /\ UNCHANGED parent
  BY DEF Ancestry
<1>2. parent = <<a>> /\ OnChain(a, chain) BY <1>1 DEF ProposalInv
<1>3. next = Apply(0, a) /\ next \in Nat BY <1>2, NextNonceIsAhead
<1>4. room \in Nat OBVIOUS
<1>5. pool \subseteq Tx BY DEF ChainInv
<1> HIDE DEF next, n, a
<1>6. n \in 0 .. room /\ \A i \in 0 .. n - 1 : \E t \in pool : t.nonce = next + i
  BY <1>3, <1>4, <1>5, RunExists DEF n
<1>7. ASSUME NEW i \in 1 .. n PROVE block[i] \in Tx /\ block[i].nonce = next + i - 1
  <2>1. i - 1 \in 0 .. n - 1 /\ next + (i - 1) = next + i - 1 BY <1>3, <1>6
  <2>2. \E t \in pool : t.nonce = next + i - 1 BY <1>6, <2>1
  <2>3. block[i] = CHOOSE t \in pool : t.nonce = next + i - 1 OBVIOUS
  <2>4. block[i] \in pool /\ block[i].nonce = next + i - 1 BY <2>2, <2>3
  <2> QED BY <1>5, <2>4
<1>8. n \in Nat /\ block \in [1 .. n -> Tx]
  BY <1>4, <1>6, <1>7
<1> HIDE DEF block
<1>9. block \in Seq(Tx) /\ Len(block) = n BY <1>8
<1>10. FollowOn(block, Apply(0, a)) BY <1>3, <1>7, <1>9 DEF FollowOn
<1>11. pool' \subseteq Tx BY <1>1, <1>5
<1>12. ChainInv' BY <1>1, <1>11 DEF ChainInv
<1>13. ASSUME n = 0 PROVE ProposalInv' BY <1>1, <1>13 DEF ProposalInv
<1>14. ASSUME n # 0 PROVE ProposalInv'
  <2>1. built' = <<block>> /\ parent' = parent /\ built' # <<>> /\ built'[1] = block BY <1>1, <1>14
  <2>2. parent'[1] = a /\ parent' # <<>> BY <1>1, <2>1 DEF a
  <2>3. OnChain(a, chain') BY <1>1, <1>2
  <2> QED BY <1>2, <1>9, <1>10, <2>1, <2>2, <2>3 DEF ProposalInv
<1> QED BY <1>1, <1>12, <1>13, <1>14

LEMMA NotarizeStep ==
    ASSUME ChainInv, ProposalInv, Notarize
    PROVE  ChainInv' /\ ProposalInv' /\ Grows(chain, executed, chain', executed')
<1> DEFINE b == built[1]
<1>1. /\ built # <<>> /\ parent[1] = chain /\ chain' = Append(chain, b)
      /\ parent' = <<>> /\ built' = <<>> /\ UNCHANGED <<pool, executed>>
  BY DEF Notarize
<1>2. b \in Seq(Tx) /\ FollowOn(b, Apply(0, chain)) BY <1>1 DEF ProposalInv
<1>3. chain \in Seq(Seq(Tx)) /\ Valid(chain) /\ executed \in 0 .. Len(chain) /\ Len(chain) \in Nat
  BY DEF ChainInv
<1> HIDE DEF b
<1>4. Append(chain, b) \in Seq(Seq(Tx)) /\ Len(Append(chain, b)) = Len(chain) + 1
  BY <1>2, <1>3, AppendKeepsPrefix
<1>5. Valid(Append(chain, b)) /\ At(Append(chain, b), executed) = At(chain, executed)
  BY <1>2, <1>3, ValidAppend
<1>6. executed \in 0 .. Len(chain) + 1 BY <1>3
<1>7. ChainInv' BY <1>1, <1>4, <1>5, <1>6 DEF ChainInv
<1>8. ProposalInv' BY <1>1 DEF ProposalInv
<1>9. Grows(chain, executed, chain', executed') BY <1>1, <1>5, Unmoved DEF Grows
<1> QED BY <1>7, <1>8, <1>9

LEMMA AbandonStep ==
    ASSUME ChainInv, ProposalInv, NEW height \in 0 .. Len(chain) - 1, Abandon(height)
    PROVE  ChainInv' /\ ProposalInv' /\ Grows(chain, executed, chain', executed')
<1> DEFINE c == SubSeq(chain, 1, height)
<1>1. /\ height \in executed .. Len(chain) - 1 /\ chain' = c
      /\ UNCHANGED <<pool, parent, built, executed>>
  BY DEF Abandon
<1>2. chain \in Seq(Seq(Tx)) /\ Valid(chain) /\ executed \in 0 .. Len(chain) /\ Len(chain) \in Nat
  BY DEF ChainInv
<1>3. height \in 0 .. Len(chain) /\ executed \in 0 .. height /\ height \in Nat BY <1>1, <1>2
<1>4. c \in Seq(Seq(Tx)) /\ Len(c) = height /\ \A i \in 1 .. height : c[i] = chain[i]
  BY <1>2, <1>3, PrefixIsChain
<1>5. Valid(c) /\ At(c, executed) = At(chain, executed)
  BY <1>2, <1>3, ValidPrefix, PrefixStates
<1>6. ASSUME NEW a, OnChain(a, chain) PROVE OnChain(a, c)
  <2>1. /\ a \in Seq(Seq(Tx)) /\ Len(a) \in Nat /\ Len(chain) \in 0 .. Len(a)
        /\ chain = SubSeq(a, 1, Len(chain))
    BY <1>6 DEF OnChain
  <2>2. height \in 0 .. Len(a) BY <1>3, <2>1
  <2>3. \A i \in 1 .. height : i \in 1 .. Len(chain) BY <1>3
  <2>4. \A i \in 1 .. Len(chain) : chain[i] = a[i] BY <2>1, PrefixIsChain
  <2>5. /\ SubSeq(a, 1, height) \in Seq(Seq(Tx)) /\ Len(SubSeq(a, 1, height)) = height
        /\ \A i \in 1 .. height : SubSeq(a, 1, height)[i] = a[i]
    BY <2>1, <2>2, PrefixIsChain
  <2> HIDE DEF c
  <2>6. \A i \in 1 .. height : c[i] = SubSeq(a, 1, height)[i] BY <1>4, <2>3, <2>4, <2>5
  <2>7. c = SubSeq(a, 1, height) BY <1>4, <2>5, <2>6, SeqEqual
  <2> QED BY <1>4, <2>1, <2>2, <2>7 DEF OnChain
<1> HIDE DEF c
<1>7. ChainInv' BY <1>1, <1>2, <1>3, <1>4, <1>5 DEF ChainInv
<1>8. ProposalInv' BY <1>1, <1>6 DEF ProposalInv
<1>9. Grows(chain, executed, chain', executed') BY <1>1, <1>5, Unmoved DEF Grows
<1> QED BY <1>7, <1>8, <1>9

LEMMA ExecuteStep ==
    ASSUME ChainInv, ProposalInv, Execute
    PROVE  ChainInv' /\ ProposalInv' /\ Grows(chain, executed, chain', executed')
<1>1. /\ executed < Len(chain) /\ executed' = executed + 1 /\ pool' \subseteq pool
      /\ UNCHANGED <<parent, built, chain>>
  BY DEF Execute
<1>2. chain \in Seq(Seq(Tx)) /\ executed \in 0 .. Len(chain) /\ Len(chain) \in Nat BY DEF ChainInv
<1>3. executed + 1 \in executed .. Len(chain) /\ executed + 1 \in 0 .. Len(chain) /\ executed \in Nat
  BY <1>1, <1>2
<1>4. At(chain, executed + 1) \in Nat /\ At(chain, executed) <= At(chain, executed + 1)
  BY <1>2, <1>3, AtGrows
<1>5. ChainInv' BY <1>1, <1>3 DEF ChainInv
<1>6. ProposalInv' BY <1>1 DEF ProposalInv
<1>7. Grows(chain, executed, chain', executed') BY <1>1, <1>3, <1>4 DEF Grows
<1> QED BY <1>5, <1>6, <1>7

\* Receive, Propose, Discard, the end of the stream and a restart.
LEMMA QuietSteps ==
    ASSUME ChainInv, ProposalInv,
           \/ \E tx \in Tx : Receive(tx)
           \/ Propose \/ Discard \/ StreamEnds \/ Restart
           \/ UNCHANGED proposerVars
    PROVE  ChainInv' /\ ProposalInv' /\ Grows(chain, executed, chain', executed')
<1>1. UNCHANGED <<chain, executed>>
  BY DEF Receive, Propose, Discard, StreamEnds, Restart, proposerVars
<1>2. pool' \subseteq Tx
  BY DEF ChainInv, Receive, Propose, Discard, StreamEnds, Restart, proposerVars
<1>3. ChainInv' BY <1>1, <1>2 DEF ChainInv
<1>4. ASSUME Propose PROVE ProposalInv'
  <2>1. parent' = <<chain>> /\ parent'[1] = chain /\ built' = <<>> BY <1>4 DEF Propose
  <2>2. OnChain(chain, chain)
    <3>1. chain \in Seq(Seq(Tx)) /\ Len(chain) \in Nat BY DEF ChainInv
    <3> QED BY <3>1 DEF OnChain
  <2> QED BY <1>1, <2>1, <2>2 DEF ProposalInv
<1>5. ASSUME Discard \/ Restart PROVE ProposalInv' BY <1>5 DEF Discard, Restart, ProposalInv
<1>6. ASSUME UNCHANGED <<parent, built>> PROVE ProposalInv' BY <1>1, <1>6 DEF ProposalInv
<1>7. ProposalInv' BY <1>4, <1>5, <1>6 DEF Receive, StreamEnds, proposerVars
<1>8. Grows(chain, executed, chain', executed') BY <1>1, Unmoved DEF Grows
<1> QED BY <1>3, <1>7, <1>8

LEMMA ValidatorKeeps ==
    ASSUME ChainInv, ProposalInv,
           \/ ValidatorStep \/ StreamEnds \/ Restart \/ UNCHANGED proposerVars
           \/ \E tx \in Tx : Receive(tx)
    PROVE  ChainInv' /\ ProposalInv' /\ Grows(chain, executed, chain', executed')
<1>1. ASSUME NEW room \in 1 .. MaxBlock, Ancestry(room)
      PROVE  ChainInv' /\ ProposalInv' /\ Grows(chain, executed, chain', executed')
  BY <1>1, AncestryStep, Unmoved
<1> QED BY <1>1, NotarizeStep, AbandonStep, ExecuteStep, QuietSteps DEF ValidatorStep

----------------------------------------------------------------------------
(* The page. *)

\* The lowest nonce of a round is that of one of its transactions.
LEMMA FirstIsOne ==
    ASSUME NEW txs, txs \subseteq Tx, txs # {}
    PROVE  First(txs) \in txs
<1> DEFINE S == {t.nonce : t \in txs}
<1>1. S \subseteq Nat /\ S # {} BY DEF Tx
<1>2. PICK x \in S : \A y \in S : x <= y
  <2> HIDE DEF S
  <2> QED BY <1>1, LeastExists
<1>3. PICK t \in txs : t.nonce = x OBVIOUS
<1>4. \A u \in txs : t.nonce <= u.nonce BY <1>2, <1>3
<1> QED BY <1>3, <1>4, Zenon DEF First

LEMMA SendType ==
    ASSUME NEW round, round \subseteq Tx, wire \subseteq Tx
    PROVE  Send(round) \subseteq Tx
BY FirstIsOne DEF Send

LEMMA SubmitKeeps ==
    ASSUME ClientTypes, RoundInv, Submit
    PROVE  ClientTypes' /\ RoundInv' /\ UNCHANGED updates
<1> DEFINE tx == [nonce |-> nonce, request |-> made + 1]
<1>1. /\ stored' = Store(stored, tx) /\ wire' = wire \cup {tx} /\ made' = made + 1
      /\ UNCHANGED <<page, account, nonce, resending, updates>>
  BY DEF Submit
<1>2. tx \in Tx /\ tx.nonce = nonce BY DEF ClientTypes, Tx
<1> HIDE DEF tx
<1>3. \A t \in stored' : t = tx \/ (t \in stored /\ t.nonce # tx.nonce) BY <1>1 DEF Store
<1>4. ClientTypes' BY <1>1, <1>2, <1>3 DEF ClientTypes
<1>5. OnePerNonce(stored') BY <1>3 DEF RoundInv, OnePerNonce
<1>6. \A t \in resending : t.nonce # nonce
  <2>1. \A t \in resending : t.nonce \in Nat BY DEF ClientTypes, Tx
  <2> QED BY <2>1 DEF ClientTypes, RoundInv
<1>7. \A t \in resending', u \in stored' : t.nonce = u.nonce => t = u
  BY <1>1, <1>2, <1>3, <1>6 DEF RoundInv
<1>8. RoundInv' BY <1>1, <1>5, <1>7 DEF RoundInv
<1> QED BY <1>1, <1>4, <1>8

LEMMA ResubmitKeeps ==
    ASSUME ClientTypes, RoundInv, Resubmit
    PROVE  ClientTypes' /\ RoundInv' /\ UNCHANGED updates
<1>1. /\ stored' = {t \in stored : t.nonce < nonce} /\ resending' = stored'
      /\ wire' = Send(resending') /\ page = "up"
      /\ UNCHANGED <<page, account, nonce, made, updates>>
  BY DEF Resubmit
<1>2. stored' \subseteq Tx /\ resending' \subseteq Tx BY <1>1 DEF ClientTypes
<1>3. wire' \subseteq Tx BY <1>1, <1>2, SendType DEF ClientTypes
<1>4. ClientTypes' BY <1>1, <1>2, <1>3 DEF ClientTypes
<1>5. RoundInv' BY <1>1 DEF RoundInv, OnePerNonce
<1> QED BY <1>1, <1>4, <1>5

LEMMA ResendKeeps ==
    ASSUME ClientTypes, RoundInv, NEW tx \in resending, ResendAccepted(tx)
    PROVE  ClientTypes' /\ RoundInv' /\ UNCHANGED updates
<1>1. /\ stored' = Store(stored, tx) /\ resending' = resending \ {tx}
      /\ wire' = Send(resending')
      /\ UNCHANGED <<page, account, nonce, made, updates>>
  BY DEF ResendAccepted
<1>2. tx \in Tx BY DEF ClientTypes
<1>3. \A t \in stored' : t = tx \/ (t \in stored /\ t.nonce # tx.nonce) BY <1>1 DEF Store
<1>4. resending' \subseteq Tx BY <1>1 DEF ClientTypes
<1>5. wire' \subseteq Tx BY <1>1, <1>4, SendType DEF ClientTypes
<1>6. ClientTypes' BY <1>1, <1>2, <1>3, <1>4, <1>5 DEF ClientTypes
<1>7. OnePerNonce(stored') BY <1>3 DEF RoundInv, OnePerNonce
<1>8. \A t \in resending', u \in stored' : t.nonce = u.nonce => t = u
  BY <1>1, <1>3 DEF RoundInv, OnePerNonce
<1>9. RoundInv' BY <1>1, <1>7, <1>8 DEF RoundInv, OnePerNonce
<1> QED BY <1>1, <1>6, <1>9

LEMMA UpdateKeeps ==
    ASSUME ClientTypes, RoundInv, NEW n \in updates, n \in Int, n + 1 \in Nat, Update(n)
    PROVE  ClientTypes' /\ RoundInv' /\ updates' \subseteq updates
<1>1. /\ updates' \subseteq updates /\ UNCHANGED <<page, account, made, resending, wire>>
      /\ stored' \subseteq stored /\ nonce' \in Nat /\ nonce <= nonce'
  BY DEF Update, Unconfirmed, ClientTypes
<1>2. ClientTypes' BY <1>1 DEF ClientTypes
<1>3. \A t \in resending : t.nonce \in Nat BY DEF ClientTypes, Tx
<1>4. \A t \in resending' : t.nonce < nonce' BY <1>1, <1>3 DEF RoundInv, ClientTypes
<1>5. RoundInv' BY <1>1, <1>4 DEF RoundInv, OnePerNonce
<1> QED BY <1>1, <1>2, <1>5

LEMMA AcceptedKeeps ==
    ASSUME ClientTypes, RoundInv, Accepted \/ Failed \/ ResendFailed \/ Reload
    PROVE  ClientTypes' /\ RoundInv' /\ UNCHANGED updates
<1>1. /\ UNCHANGED <<account, stored, made, wire, updates>> /\ nonce' \in Nat /\ nonce <= nonce'
      /\ resending' \subseteq resending /\ page' \in {"up", "asking", "asked"}
      /\ (page' # "up" => page # "up" \/ resending' = {})
  BY DEF Accepted, Failed, ResendFailed, Reload, ClientTypes
<1>2. ClientTypes' BY <1>1 DEF ClientTypes
<1>3. \A t \in resending : t.nonce \in Nat BY DEF ClientTypes, Tx
<1>4. \A t \in resending' : t.nonce < nonce' BY <1>1, <1>3 DEF RoundInv, ClientTypes
<1>5. RoundInv' BY <1>1, <1>4 DEF RoundInv, OnePerNonce
<1> QED BY <1>1, <1>2, <1>5

LEMMA SyncKeeps ==
    ASSUME ClientTypes, RoundInv, SyncWithAccountState
    PROVE  ClientTypes' /\ RoundInv' /\ UNCHANGED updates
<1>1. /\ page = "asked" /\ page' = "up" /\ stored' \subseteq stored /\ nonce' \in Nat
      /\ account' = Null /\ UNCHANGED <<made, resending, wire, updates>>
  BY DEF SyncWithAccountState, Unconfirmed, ClientTypes
<1>2. resending = {} BY <1>1 DEF RoundInv
<1>3. ClientTypes' BY <1>1 DEF ClientTypes
<1>4. RoundInv' BY <1>1, <1>2 DEF RoundInv, OnePerNonce
<1> QED BY <1>1, <1>3, <1>4

LEMMA ClientKeeps ==
    ASSUME ClientTypes, RoundInv, \A n \in updates : n \in Int /\ n + 1 \in Nat,
           ClientStep \/ Reload
    PROVE  ClientTypes' /\ RoundInv' /\ updates' \subseteq updates
<1>1. ASSUME NEW n \in updates, UpdateLost(n)
      PROVE  ClientTypes' /\ RoundInv' /\ updates' \subseteq updates
  BY <1>1 DEF UpdateLost, ClientTypes, RoundInv, OnePerNonce
<1>2. ASSUME NEW n \in updates, Update(n)
      PROVE  ClientTypes' /\ RoundInv' /\ updates' \subseteq updates
  BY <1>2, UpdateKeeps
<1> QED
  BY <1>1, <1>2, SubmitKeeps, ResubmitKeeps, ResendKeeps, AcceptedKeeps, SyncKeeps DEF ClientStep

----------------------------------------------------------------------------
(* The whole. *)

\* The page takes no account's nonce from anywhere but the index.
LEMMA AccountKeeps ==
    ASSUME ClientStep \/ Reload
    PROVE  account' \in {account, Null}
BY DEF ClientStep, Submit, Accepted, Failed, Resubmit, ResendAccepted, ResendFailed, Update,
       UpdateLost, SyncWithAccountState, Reload

\* What is on its way to the page stays true while the chain grows.
LEMMA IndexKeeps ==
    ASSUME ChainInv, IndexInv, account \in Nat \cup {Null}, account' \in {account, Null},
           updates' \subseteq updates, UNCHANGED indexVars,
           Grows(chain, executed, chain', executed'), executed' \in Nat
    PROVE  IndexInv'
<1>1. executed \in Nat /\ At(chain, executed) \in Nat BY StateType DEF ChainInv, StateNonce
<1>2. announced' \subseteq 1 .. executed' /\ indexed' \subseteq announced'
  BY <1>1 DEF IndexInv, Grows, indexVars
<1>3. \A n \in updates' : n \in Int /\ n + 1 \in 0 .. At(chain', executed')
  BY <1>1 DEF IndexInv, Grows
<1>4. account' # Null => account' <= At(chain', executed')
  <2> SUFFICES ASSUME account' # Null PROVE account' <= At(chain', executed') OBVIOUS
  <2>1. account' = account /\ account \in Nat /\ account <= At(chain, executed) BY DEF IndexInv
  <2> QED BY <1>1, <2>1 DEF Grows
<1> QED BY <1>2, <1>3, <1>4 DEF IndexInv

LEMMA AnnounceKeeps ==
    ASSUME SInv, NEW height \in 1 .. executed, Announce(height)
    PROVE  SInv'
<1>1. /\ announced' = announced \cup {height} /\ updates' = updates \cup {NonceAt(height) - 1}
      /\ UNCHANGED <<page, account, nonce, stored, made, resending, wire, proposerVars, indexed>>
  BY DEF Announce
<1>2. ChainInv' /\ ProposalInv' /\ chain' = chain /\ executed' = executed
  BY <1>1, ValidatorKeeps DEF SInv, proposerVars
<1>3. ClientTypes' /\ RoundInv' BY <1>1 DEF SInv, ClientTypes, RoundInv, OnePerNonce
<1>4. chain \in Seq(Seq(Tx)) /\ executed \in 0 .. Len(chain) /\ Len(chain) \in Nat
  BY DEF SInv, ChainInv
<1>5. height \in 0 .. Len(chain) /\ executed \in height .. Len(chain) BY <1>4
<1>6. At(chain, height) \in Nat /\ At(chain, executed) \in Nat /\ At(chain, height) <= At(chain, executed)
  BY <1>4, <1>5, AtGrows
<1>7. NonceAt(height) = At(chain, height) BY DEF NonceAt, At
<1>8. \A n \in updates' : n \in Int /\ n + 1 \in 0 .. At(chain, executed)
  BY <1>1, <1>6, <1>7 DEF SInv, IndexInv
<1>9. IndexInv' BY <1>1, <1>2, <1>8 DEF SInv, IndexInv
<1> QED BY <1>2, <1>3, <1>9 DEF SInv

LEMMA QueryKeeps ==
    ASSUME SInv, Query
    PROVE  SInv'
<1>1. /\ page = "asking" /\ page' = "asked" /\ account' = AccountAnswer
      /\ UNCHANGED <<nonce, stored, made, resending, wire, updates, proposerVars, indexVars>>
  BY DEF Query, AtClient, GetAccount
<1>2. ChainInv' /\ ProposalInv' /\ Grows(chain, executed, chain', executed')
  BY <1>1, ValidatorKeeps DEF SInv
<1>3. /\ AccountAnswer \in Nat \cup {Null}
      /\ AccountAnswer # Null => AccountAnswer <= At(chain, executed)
  <2>1. CASE indexed = {} BY <2>1 DEF AccountAnswer
  <2>2. CASE indexed # {}
    <3>1. executed \in 0 .. Len(chain) /\ Len(chain) \in Nat BY DEF SInv, ChainInv
    <3>2. indexed \subseteq 1 .. executed BY DEF SInv, IndexInv
    <3>3. PICK top \in indexed : \A g \in indexed : g <= top
      <4> DEFINE S == {executed - h : h \in indexed}
      <4>1. \A h \in indexed : executed - h \in Nat BY <3>1, <3>2
      <4>2. S \subseteq Nat BY <4>1
      <4>3. S # {} BY <2>2
      <4>4. PICK x \in S : \A y \in S : x <= y
        <5> HIDE DEF S
        <5> QED BY <4>2, <4>3, LeastExists
      <4>5. PICK h \in indexed : x = executed - h BY <4>4
      <4>6. \A g \in indexed : executed - h <= executed - g BY <4>4, <4>5
      <4>7. \A g \in indexed : g <= h BY <3>1, <3>2, <4>6
      <4> QED BY <4>7
    <3> DEFINE m == CHOOSE h \in indexed : \A g \in indexed : g <= h
    <3>4. m \in indexed BY <3>3, Zenon
    <3>5. AccountAnswer = NonceAt(m) BY <2>2, Zenon DEF AccountAnswer
    <3> HIDE DEF m
    <3>6. m \in 0 .. Len(chain) /\ executed \in m .. Len(chain) BY <3>1, <3>2, <3>4
    <3>7. NonceAt(m) = At(chain, m) /\ NonceAt(m) \in Nat BY <3>6, StateType DEF SInv
    <3>8. chain \in Seq(Seq(Tx)) BY DEF SInv, ChainInv
    <3>9. At(chain, m) <= At(chain, executed) BY <3>6, <3>8, AtGrows
    <3> QED BY <3>5, <3>7, <3>9
  <2> QED BY <2>1, <2>2
<1>4. ClientTypes' BY <1>1, <1>3 DEF SInv, ClientTypes
<1>5. RoundInv' BY <1>1 DEF SInv, RoundInv, OnePerNonce
<1>6. IndexInv' BY <1>1, <1>3 DEF SInv, IndexInv, indexVars, proposerVars
<1> QED BY <1>2, <1>4, <1>5, <1>6 DEF SInv

LEMMA NextInv ==
    ASSUME SInv, [Next]_vars
    PROVE  SInv'
<1>1. executed \in Nat /\ At(chain, executed) \in Nat BY StateType DEF SInv, ChainInv, StateNonce
<1>2. \A n \in updates : n \in Int /\ n + 1 \in Nat BY <1>1 DEF SInv, IndexInv
<1>3. ASSUME ChainInv', ProposalInv', Grows(chain, executed, chain', executed'),
             ClientTypes', RoundInv', updates' \subseteq updates, account' \in {account, Null},
             UNCHANGED indexVars
      PROVE  SInv'
  <2>1. executed' \in Nat BY <1>3 DEF ChainInv
  <2>2. account \in Nat \cup {Null} BY DEF SInv, ClientTypes
  <2> QED BY <1>3, <2>1, <2>2, IndexKeeps DEF SInv
<1>4. ASSUME UNCHANGED proposerVars
      PROVE  ChainInv' /\ ProposalInv' /\ Grows(chain, executed, chain', executed')
  BY <1>4, ValidatorKeeps DEF SInv
<1>5. ASSUME UNCHANGED clientVars
      PROVE  ClientTypes' /\ RoundInv' /\ updates' \subseteq updates /\ account' = account
  BY <1>5 DEF SInv, clientVars, ClientTypes, RoundInv, OnePerNonce
<1>6. CASE AtClient(ClientStep)
  <2>1. ClientStep /\ UNCHANGED proposerVars /\ UNCHANGED indexVars BY <1>6 DEF AtClient
  <2> QED BY <1>2, <1>3, <1>4, <2>1, ClientKeeps, AccountKeeps DEF SInv
<1>7. CASE AtValidator(ValidatorStep)
  <2>1. ValidatorStep /\ UNCHANGED clientVars /\ UNCHANGED indexVars BY <1>7 DEF AtValidator
  <2> QED BY <1>3, <1>5, <2>1, ValidatorKeeps DEF SInv
<1>8. ASSUME NEW tx \in wire, Deliver(tx) \/ Lose(tx) PROVE SInv'
  <2>1. /\ UNCHANGED <<page, account, nonce, stored, made, resending, updates, indexVars>>
        /\ wire' \subseteq wire /\ (Receive(tx) \/ UNCHANGED proposerVars)
    BY <1>8 DEF Deliver, Lose
  <2>2. tx \in Tx BY DEF SInv, ClientTypes
  <2>3. ChainInv' /\ ProposalInv' /\ Grows(chain, executed, chain', executed')
    BY <2>1, <2>2, ValidatorKeeps DEF SInv
  <2>4. ClientTypes' /\ RoundInv' BY <2>1 DEF SInv, ClientTypes, RoundInv, OnePerNonce
  <2> QED BY <1>3, <2>1, <2>3, <2>4
<1>9. ASSUME NEW height \in 1 .. executed, Index(height) PROVE SInv'
  <2>1. /\ UNCHANGED clientVars /\ UNCHANGED proposerVars /\ announced' = announced
        /\ indexed' \subseteq announced
    BY <1>9 DEF Index, SInv, IndexInv
  <2>2. IndexInv' BY <2>1 DEF SInv, IndexInv, clientVars, proposerVars
  <2> QED BY <1>4, <1>5, <2>1, <2>2 DEF SInv
<1>10. CASE Fault
  <2>1. /\ UNCHANGED indexVars
        /\ \/ Reload /\ UNCHANGED proposerVars
           \/ (StreamEnds \/ Restart) /\ UNCHANGED clientVars
    BY <1>10 DEF Fault
  <2>2. CASE Reload /\ UNCHANGED proposerVars
    BY <1>2, <1>3, <1>4, <2>1, <2>2, ClientKeeps, AccountKeeps DEF SInv
  <2>3. CASE (StreamEnds \/ Restart) /\ UNCHANGED clientVars
    BY <1>3, <1>5, <2>1, <2>3, ValidatorKeeps DEF SInv
  <2> QED BY <2>1, <2>2, <2>3
<1>11. CASE UNCHANGED vars
  <2>1. UNCHANGED clientVars /\ UNCHANGED proposerVars /\ UNCHANGED indexVars BY <1>11 DEF vars
  <2> QED BY <1>3, <1>4, <1>5, <2>1
<1> QED
  BY <1>6, <1>7, <1>8, <1>9, <1>10, <1>11, AnnounceKeeps, QueryKeeps DEF Next

LEMMA Invariance == Spec => []SInv
BY InitInv, NextInv, PTL DEF Spec

\* Whatever is resent, lost, abandoned or executed while a proposal is made, the
\* blocks that consensus notarizes hold the account's nonces one after the other:
\* the Noncer of application/actor.rs is never wrong about the ancestry, although
\* verification does not check it.
THEOREM ProposedAreAlwaysValid == Spec => []ProposedAreValid
<1>1. SInv => ProposedAreValid BY ValidIsProposed DEF SInv
<1> QED BY <1>1, Invariance, PTL

Gone(tx) ==
    \/ tx.nonce < StateNonce
    \/ page = "up" /\ tx.nonce >= nonce
    \/ page = "asked" /\ ~KeepsPending

Keeps == \A tx \in stored \ stored' : Gone(tx)

\* The nonce manager of the website drops a record only when the chain has executed
\* its nonce, but for records at or above the page's nonce and for those a reload
\* drops all together, for any order of updates, resubmissions, answers and reloads.
THEOREM RecordsAreAlwaysKept == Spec => RecordsAreKept
<1>1. ASSUME SInv, [Next]_vars PROVE [Keeps]_vars
  <2> SUFFICES ASSUME NEW tx \in stored, tx \notin stored', [Next]_vars PROVE Gone(tx)
    BY <1>1 DEF Keeps
  <2>1. stored' # stored OBVIOUS
  <2>2. tx.nonce \in Nat /\ nonce \in Nat BY <1>1 DEF SInv, ClientTypes, Tx
  <2>3. ClientStep
    BY <2>1 DEF Next, AtClient, AtValidator, Deliver, Lose, Announce, Index, Query, GetAccount,
                Fault, Reload, clientVars, vars
  <2>4. CASE Submit
    <3>1. page = "up" /\ tx.nonce = nonce BY <2>4 DEF Submit, Store
    <3> QED BY <2>2, <3>1 DEF Gone
  <2>5. CASE Resubmit BY <2>2, <2>5 DEF Resubmit, Gone
  <2>6. ASSUME NEW t \in resending, ResendAccepted(t) PROVE FALSE
    <3>1. tx.nonce = t.nonce /\ t \in stored' BY <2>6 DEF ResendAccepted, Store
    <3>2. t = tx BY <1>1, <3>1 DEF SInv, RoundInv
    <3> QED BY <3>1, <3>2
  <2>7. ASSUME NEW n \in updates, Update(n) PROVE Gone(tx)
    <3>1. n \in Int /\ n + 1 \in 0 .. StateNonce /\ StateNonce \in Nat
      BY <1>1, StateType DEF SInv, IndexInv
    <3>2. tx.nonce <= n BY <2>2, <2>7, <3>1 DEF Update, Unconfirmed
    <3> QED BY <2>2, <3>1, <3>2 DEF Gone
  <2>8. CASE SyncWithAccountState
    <3>1. page = "asked" /\ (KeepsPending => tx \notin Unconfirmed(stored, account - 1))
      BY <2>8 DEF SyncWithAccountState
    <3>2. CASE ~KeepsPending BY <3>1, <3>2 DEF Gone
    <3>3. CASE KeepsPending
      <4>1. account \in Nat /\ account <= StateNonce /\ StateNonce \in Nat
        BY <1>1, <3>3, StateType DEF KeepsPending, SInv, ClientTypes, IndexInv
      <4>2. tx.nonce <= account - 1 BY <2>2, <3>1, <3>3, <4>1 DEF Unconfirmed
      <4> QED BY <2>2, <4>1, <4>2 DEF Gone
    <3> QED BY <3>2, <3>3
  <2> QED
    BY <2>1, <2>3, <2>4, <2>5, <2>6, <2>7, <2>8
       DEF ClientStep, Accepted, Failed, ResendFailed, UpdateLost
<1>2. [][Keeps]_vars => RecordsAreKept BY PTL DEF Keeps, Gone, RecordsAreKept
<1> QED BY <1>1, <1>2, Invariance, PTL DEF Spec

================================================================================
