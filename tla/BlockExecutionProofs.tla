-------------------------- MODULE BlockExecutionProofs -------------------------
(***************************************************************************)
(* Proofs about block execution, for every set of accounts, every number   *)
(* of blocks and every number of crashes.                                  *)
(*                                                                         *)
(* The invariant has two halves.  The stores are what a validator that     *)
(* never crashed has, always (StoreInv).  The journal of results is what   *)
(* the network certifies up to the moment when a response is dropped and   *)
(* marshal moves its save point past its block (RecordInv).                *)
(*                                                                         *)
(* For most of it what a block does is opaque: a block is executed once,   *)
(* on the state its predecessor left.  Only the claims about transactions  *)
(* and ranges look into Execute, by induction on the block.                *)
(***************************************************************************)
EXTENDS BlockExecution, DataTheorems, SequenceTheorems, TLAPS

\* s is a sequence of length n, of whatever values.
IsTuple(s, n) == n \in Nat /\ s = [i \in 1 .. n |-> s[i]]

\* The length of a tuple, and what Append does to it.
LEMMA AppendTuple ==
    ASSUME NEW n, NEW s, IsTuple(s, n), NEW e
    PROVE  /\ Len(s) = n
           /\ IsTuple(Append(s, e), n + 1)
           /\ Len(Append(s, e)) = n + 1
           /\ Append(s, e)[n + 1] = e
           /\ \A i \in 1 .. n : Append(s, e)[i] = s[i]
<1> DEFINE S == {s[i] : i \in 1 .. n} \cup {e}
<1>1. s \in [1 .. n -> S] /\ n \in Nat
  BY DEF IsTuple
<1>2. s \in Seq(S) /\ Len(s) = n
  BY <1>1
<1>3. /\ Append(s, e) \in Seq(S)
      /\ Len(Append(s, e)) = n + 1
      /\ Append(s, e)[n + 1] = e
      /\ \A i \in 1 .. n : Append(s, e)[i] = s[i]
  BY <1>2, AppendProperties
<1>4. Append(s, e) = [i \in 1 .. n + 1 |-> Append(s, e)[i]]
  <2>1. Append(s, e) \in [1 .. n + 1 -> S]
    BY <1>3, LenProperties
  <2> QED
    BY <2>1
<1> QED
  BY <1>1, <1>2, <1>3, <1>4 DEF IsTuple

----------------------------------------------------------------------------
(* What executing a block does. *)

Runs == [nonces : [Accounts -> Nat], processed : Seq(Txs)]

RunStep(r, tx) ==
    IF Prepare(r.nonces, tx)
    THEN [nonces |-> [r.nonces EXCEPT ![tx.public] = @ + 1],
          processed |-> Append(r.processed, tx)]
    ELSE r

\* A block is a sequence of transactions.
LEMMA BlockType ==
    ASSUME NEW block \in Blocks
    PROVE  Len(block) \in Nat /\ block \in [1 .. Len(block) -> Txs]
<1>1. PICK n \in 0 .. MaxBlockTxs : block \in [1 .. n -> Txs] BY DEF Blocks
<1>2. n \in Nat BY BoundsAssumption
<1>3. block \in Seq(Txs) /\ Len(block) = n BY <1>1, <1>2
<1> QED BY <1>1, <1>2, <1>3

\* A step of a run is a run.
LEMMA RunStepType ==
    ASSUME NEW r \in Runs, NEW tx \in Txs
    PROVE  RunStep(r, tx) \in Runs
<1>1. r.nonces \in [Accounts -> Nat] /\ r.processed \in Seq(Txs) BY DEF Runs
<1>2. tx.public \in Accounts /\ r.nonces[tx.public] \in Nat BY <1>1 DEF Txs
<1>3. [r.nonces EXCEPT ![tx.public] = @ + 1] \in [Accounts -> Nat] BY <1>1, <1>2
<1>4. Append(r.processed, tx) \in Seq(Txs) BY <1>1, AppendProperties
<1> QED BY <1>3, <1>4 DEF RunStep, Runs

\* Execute takes one transaction of the block after the other.
LEMMA ExecuteIsRun ==
    ASSUME NEW nonces \in [Accounts -> Nat], NEW block \in Blocks
    PROVE  \E f \in [0 .. Len(block) -> Runs] :
              /\ f[0] = [nonces |-> nonces, processed |-> <<>>]
              /\ \A i \in 1 .. Len(block) : f[i] = RunStep(f[i - 1], block[i])
              /\ Execute(nonces, block) = f[Len(block)]
<1> DEFINE n == Len(block)
           base == [nonces |-> nonces, processed |-> <<>>]
           step == [i \in 1 .. n |-> [r \in Runs |-> RunStep(r, block[i])]]
           Solves(f) == f = [i \in 0 .. n |->
              IF i = 0 THEN [nonces |-> nonces, processed |-> <<>>]
              ELSE IF Prepare(f[i - 1].nonces, block[i])
              THEN [nonces |-> [f[i - 1].nonces EXCEPT ![block[i].public] = @ + 1],
                    processed |-> Append(f[i - 1].processed, block[i])]
              ELSE f[i - 1]]
           after == CHOOSE f : Solves(f)
<1>1. n \in Nat /\ \A i \in 1 .. n : block[i] \in Txs BY BlockType
<1>2. base \in Runs
  <2>1. <<>> \in Seq(Txs) OBVIOUS
  <2> QED BY <2>1 DEF Runs
<1>3. step \in [1 .. n -> [Runs -> Runs]]
  <2>1. ASSUME NEW i \in 1 .. n, NEW r \in Runs PROVE RunStep(r, block[i]) \in Runs
    <3>1. block[i] \in Txs BY <1>1
    <3> QED BY <3>1, RunStepType, Zenon
  <2> QED BY <2>1, Zenon
<1>4. \A x \in Runs, i \in 1 .. n : step[i][x] = RunStep(x, block[i])
  OBVIOUS
<1> HIDE DEF base, step
<1>5. PICK g :
          /\ g \in [0 .. n -> Runs]
          /\ g[0] = base
          /\ \A i \in 1 .. n : g[i] = step[i][g[i - 1]]
  <2> HIDE DEF n
  <2>1. PICK g : Follows(g, n, Runs, base, step)
    BY <1>1, <1>2, <1>3, RecursionExists, Zenon
  <2> QED BY <2>1, Zenon DEF Follows
<1>6. Solves(g)
  <2>1. ASSUME NEW i \in 0 .. n
        PROVE g[i] = IF i = 0 THEN base ELSE RunStep(g[i - 1], block[i])
    <3>1. CASE i = 0 BY <1>5, <3>1
    <3>2. CASE i # 0
      <4>1. i \in 1 .. n /\ i - 1 \in 0 .. n BY <1>1, <3>2
      <4>2. g[i - 1] \in Runs BY <1>5, <4>1
      <4>3. g[i] = step[i][g[i - 1]] BY <1>5, <4>1
      <4> QED BY <1>4, <3>2, <4>1, <4>2, <4>3
    <3> QED BY <3>1, <3>2
  <2>2. g = [i \in 0 .. n |-> g[i]] BY <1>5
  <2>3. g = [i \in 0 .. n |-> IF i = 0 THEN base ELSE RunStep(g[i - 1], block[i])]
    <3> HIDE DEF n
    <3> QED BY <2>1, <2>2
  <2> QED BY <2>3, Zenon DEF RunStep, base
<1>7. Solves(after) BY <1>6, Zenon
<1>8. Execute(nonces, block) = after[n] BY Zenon DEF Execute
<1> HIDE DEF after
<1>9. after = [i \in 0 .. n |-> IF i = 0 THEN base ELSE RunStep(after[i - 1], block[i])]
  BY <1>7, Zenon DEF RunStep, base
<1>10. /\ after[0] = base
       /\ \A i \in 1 .. n : after[i] = RunStep(after[i - 1], block[i])
  <2>1. 0 \in 0 .. n /\ \A i \in 1 .. n : i \in 0 .. n /\ i # 0 BY <1>1
  <2> HIDE DEF n
  <2> QED BY <1>9, <2>1
<1>11. after \in [0 .. n -> Runs]
  <2> DEFINE S == {i \in 0 .. n : after[i] \in Runs}
  <2>1. 0 \in S
    <3>1. 0 \in 0 .. n BY <1>1
    <3> QED BY <1>2, <1>10, <3>1
  <2>2. ASSUME NEW i \in 0 .. n - 1, i \in S PROVE i + 1 \in S
    <3>1. i + 1 \in 1 .. n /\ i + 1 \in 0 .. n /\ (i + 1) - 1 = i BY <1>1
    <3>2. after[i + 1] = RunStep(after[i], block[i + 1]) BY <1>10, <3>1
    <3>3. RunStep(after[i], block[i + 1]) \in Runs
      <4>1. after[i] \in Runs /\ block[i + 1] \in Txs BY <1>1, <2>2, <3>1
      <4> QED BY <4>1, RunStepType, Zenon
    <3> QED BY <3>1, <3>2, <3>3
  <2>3. 0 .. n \subseteq S
    <3>1. \A i \in 0 .. n - 1 : i \in S => i + 1 \in S BY <2>2
    <3> HIDE DEF S, n
    <3> QED BY <1>1, <2>1, <3>1, InductionTo, Zenon
  <2>4. \A i \in 0 .. n : after[i] \in Runs BY <2>3
  <2>5. after = [i \in 0 .. n |-> after[i]]
    <3> HIDE DEF n
    <3> QED BY <1>9
  <2> HIDE DEF n
  <2> QED BY <2>4, <2>5
<1> QED BY <1>8, <1>10, <1>11, Zenon DEF base

\* Every processed transaction used up its nonce: it has the nonce its
\* account had before, or a later one, and its account has moved past it.
UsedUp(before, run) ==
    /\ run \in Runs
    /\ \A a \in Accounts : before[a] <= run.nonces[a]
    /\ \A i \in 1 .. Len(run.processed) :
          /\ before[run.processed[i].public] <= run.processed[i].nonce
          /\ run.processed[i].nonce < run.nonces[run.processed[i].public]

\* No two items of a sequence are the same.
Distinct(s) == \A i, j \in 1 .. Len(s) : s[i] = s[j] => i = j

\* One more transaction.
LEMMA RunStepUsesUp ==
    ASSUME NEW before \in [Accounts -> Nat], NEW r, UsedUp(before, r), Distinct(r.processed),
           NEW tx \in Txs
    PROVE  UsedUp(before, RunStep(r, tx)) /\ Distinct(RunStep(r, tx).processed)
<1> DEFINE new == RunStep(r, tx)
           p == r.processed
           q == new.processed
<1>1. r.nonces \in [Accounts -> Nat] /\ p \in Seq(Txs) /\ Len(p) \in Nat
  BY DEF UsedUp, Runs
<1>2. tx.public \in Accounts /\ tx.nonce \in Nat BY BoundsAssumption DEF Txs
<1>3. new \in Runs BY RunStepType DEF UsedUp
<1>4. CASE ~Prepare(r.nonces, tx) BY <1>4 DEF RunStep
<1>5. CASE Prepare(r.nonces, tx)
  <2>1. /\ new.nonces = [r.nonces EXCEPT ![tx.public] = @ + 1]
        /\ q = Append(p, tx)
    BY <1>5 DEF RunStep
  <2>2. r.nonces[tx.public] = tx.nonce BY <1>5 DEF Prepare
  <2>3. /\ Len(q) = Len(p) + 1
        /\ q[Len(p) + 1] = tx
        /\ \A i \in 1 .. Len(p) : q[i] = p[i]
    BY <1>1, <2>1, AppendProperties
  <2> HIDE DEF new, p, q
  <2>4. \A i \in 1 .. Len(p) : p[i] \in Txs BY <1>1, ElementOfSeq
  <2>5. \A i \in 1 .. Len(p) : p[i].public \in Accounts /\ p[i].nonce \in Nat
    BY <2>4, BoundsAssumption DEF Txs
  <2>6. \A a \in Accounts : new.nonces[a] \in Nat /\ r.nonces[a] <= new.nonces[a]
    BY <1>1, <1>2, <2>1
  <2>7. new.nonces[tx.public] = tx.nonce + 1 BY <1>1, <1>2, <2>1, <2>2
  <2>8. \A i \in 1 .. Len(p) :
            /\ before[p[i].public] <= p[i].nonce
            /\ p[i].nonce < r.nonces[p[i].public]
    BY DEF UsedUp, p
  <2>9. \A a \in Accounts : before[a] \in Nat /\ before[a] <= r.nonces[a] BY DEF UsedUp
  <2>10. \A a \in Accounts : before[a] <= new.nonces[a]
    BY <1>1, <2>6, <2>9
  <2>11. ASSUME NEW i \in 1 .. Len(q)
         PROVE  before[q[i].public] <= q[i].nonce /\ q[i].nonce < new.nonces[q[i].public]
    <3>1. CASE i = Len(p) + 1 BY <1>2, <2>2, <2>3, <2>7, <2>9, <3>1
    <3>2. CASE i \in 1 .. Len(p)
      <4>1. q[i] = p[i] BY <2>3, <3>2
      <4>2. /\ p[i].public \in Accounts /\ p[i].nonce \in Nat
            /\ before[p[i].public] <= p[i].nonce
            /\ p[i].nonce < r.nonces[p[i].public]
        BY <2>5, <2>8, <3>2
      <4> QED BY <1>1, <2>6, <4>1, <4>2
    <3> QED BY <1>1, <2>3, <3>1, <3>2
  <2>12. UsedUp(before, new) BY <1>3, <2>10, <2>11 DEF UsedUp, q
  <2>13. \A i \in 1 .. Len(p) : p[i] # tx BY <1>1, <1>2, <2>2, <2>8, <2>5
  <2>14. \A i, j \in 1 .. Len(p) : p[i] = p[j] => i = j BY DEF Distinct, p
  <2>15. Distinct(q)
    <3>1. ASSUME NEW i \in 1 .. Len(q), NEW j \in 1 .. Len(q), q[i] = q[j] PROVE i = j
      <4>1. \A k \in 1 .. Len(q) : k \in 1 .. Len(p) \/ k = Len(p) + 1 BY <1>1, <2>3
      <4> QED BY <2>3, <2>13, <2>14, <3>1, <4>1
    <3> QED BY <3>1 DEF Distinct
  <2> QED BY <2>12, <2>15 DEF new, q
<1> QED BY <1>4, <1>5

\* A block uses up the nonces of what it processes, and processes nothing
\* twice.
LEMMA ExecuteUsesUp ==
    ASSUME NEW before \in [Accounts -> Nat], NEW block \in Blocks
    PROVE  /\ UsedUp(before, Execute(before, block))
           /\ Distinct(Execute(before, block).processed)
<1> DEFINE n == Len(block)
<1>1. PICK f \in [0 .. n -> Runs] :
          /\ f[0] = [nonces |-> before, processed |-> <<>>]
          /\ \A i \in 1 .. n : f[i] = RunStep(f[i - 1], block[i])
          /\ Execute(before, block) = f[n]
  BY ExecuteIsRun, Zenon
<1>2. n \in Nat /\ \A i \in 1 .. n : block[i] \in Txs BY BlockType
<1> HIDE DEF n
<1> DEFINE S == {i \in 0 .. n : UsedUp(before, f[i]) /\ Distinct(f[i].processed)}
<1>3. 0 \in S
  <2>1. 0 \in 0 .. n /\ f[0] \in Runs BY <1>1, <1>2
  <2>2. f[0].nonces = before /\ f[0].processed = <<>> BY <1>1
  <2>3. Len(f[0].processed) = 0 BY <2>2
  <2> QED BY <2>1, <2>2, <2>3 DEF UsedUp, Distinct
<1>4. ASSUME NEW i \in 0 .. n - 1, i \in S PROVE i + 1 \in S
  <2>1. i + 1 \in 1 .. n /\ i + 1 \in 0 .. n /\ (i + 1) - 1 = i BY <1>2
  <2>2. f[i + 1] = RunStep(f[i], block[i + 1]) /\ block[i + 1] \in Txs BY <1>1, <1>2, <2>1
  <2>3. UsedUp(before, f[i]) /\ Distinct(f[i].processed) BY <1>4
  <2>4. UsedUp(before, f[i + 1]) /\ Distinct(f[i + 1].processed)
    BY <2>2, <2>3, RunStepUsesUp, Zenon
  <2> QED BY <2>1, <2>4
<1>5. 0 .. n \subseteq S
  <2>1. \A i \in 0 .. n - 1 : i \in S => i + 1 \in S BY <1>4
  <2> HIDE DEF S
  <2> QED BY <1>2, <1>3, <2>1, InductionTo, Zenon
<1>6. n \in 0 .. n BY <1>2
<1> QED BY <1>1, <1>5, <1>6

\* What is true of the stores of any height: every processed transaction is
\* behind its account's nonce, and none was processed twice.
Sound(s) ==
    /\ s.state.contents \in [Accounts -> Nat]
    /\ s.events.contents \in Seq(Txs)
    /\ s.events.ops \in Nat
    /\ Distinct(s.events.contents)
    /\ \A i \in 1 .. Len(s.events.contents) :
          s.events.contents[i].nonce < s.state.contents[s.events.contents[i].public]

LEMMA GenesisSound == Sound(GenesisStores)
<1>1. /\ GenesisStores.state.contents = NoNonces
      /\ GenesisStores.events.contents = <<>>
      /\ GenesisStores.events.ops = 0
  BY DEF GenesisStores, Store
<1>2. NoNonces \in [Accounts -> Nat] /\ <<>> \in Seq(Txs) /\ Len(<<>>) = 0 BY DEF NoNonces
<1> QED BY <1>1, <1>2 DEF Sound, Distinct

\* One more block leaves them so, and its range of events is not empty.
LEMMA StoresAfterSound ==
    ASSUME NEW last, Sound(last), NEW h, NEW block \in Blocks
    PROVE  /\ Sound(StoresAfter(last, h, block))
           /\ StoresAfter(last, h, block).events.start \in Nat
           /\ StoresAfter(last, h, block).events.start < StoresAfter(last, h, block).events.ops
<1> DEFINE run == Execute(last.state.contents, block)
           c == last.events.contents
           p == run.processed
           d == c \o p
           was == last.state.contents
           is == run.nonces
           after == StoresAfter(last, h, block)
<1>1. was \in [Accounts -> Nat] /\ c \in Seq(Txs) /\ last.events.ops \in Nat BY DEF Sound
<1>2. UsedUp(was, run) /\ Distinct(p) BY <1>1, ExecuteUsesUp, Zenon
<1> HIDE DEF run
<1>3. is \in [Accounts -> Nat] /\ p \in Seq(Txs) BY <1>2 DEF UsedUp, Runs
<1>4. /\ after.state.contents = is
      /\ after.events.contents = d
      /\ after.events.start = last.events.ops
      /\ after.events.ops = last.events.ops + OutputsPerTx * Len(p) + 1
  BY DEF StoresAfter, CommitState, CommitEvents, Store, run
<1> DEFINE m == Len(c)
           k == Len(p)
<1>5. /\ m \in Nat /\ k \in Nat /\ d \in Seq(Txs) /\ Len(d) = m + k
      /\ \A i \in 1 .. m : d[i] = c[i]
      /\ \A i \in 1 .. k : d[m + i] = p[i]
  <2>1. m \in Nat /\ k \in Nat BY <1>1, <1>3
  <2>2. d \in Seq(Txs) /\ Len(d) = m + k BY <1>1, <1>3, ConcatProperties, Zenon
  <2>3. \A i \in 1 .. m + k : d[i] = IF i <= m THEN c[i] ELSE p[i - m]
    BY <1>1, <1>3, ConcatProperties, Zenon
  <2> HIDE DEF c, p, d, m, k
  <2>4. ASSUME NEW i \in 1 .. m PROVE d[i] = c[i]
    <3>1. i \in 1 .. m + k /\ i <= m BY <2>1
    <3> QED BY <2>3, <3>1
  <2>5. ASSUME NEW i \in 1 .. k PROVE d[m + i] = p[i]
    <3>1. m + i \in 1 .. m + k /\ ~(m + i <= m) /\ (m + i) - m = i BY <2>1
    <3> QED BY <2>3, <3>1
  <2> QED BY <2>1, <2>2, <2>4, <2>5
<1>6. after.events.ops \in Nat /\ after.events.start \in Nat
      /\ after.events.start < after.events.ops
  BY <1>1, <1>4, <1>5 DEF OutputsPerTx
<1>7. \A i \in 1 .. m : /\ c[i].public \in Accounts /\ c[i].nonce \in Nat
                        /\ c[i].nonce < was[c[i].public]
  <2>1. \A i \in 1 .. m : c[i] \in Txs BY <1>1, ElementOfSeq
  <2>2. \A i \in 1 .. m : c[i].nonce < was[c[i].public] BY DEF Sound
  <2> HIDE DEF c, m, was
  <2> QED BY <2>1, <2>2, BoundsAssumption DEF Txs
<1>8. \A i \in 1 .. k : /\ p[i].public \in Accounts /\ p[i].nonce \in Nat
                        /\ was[p[i].public] <= p[i].nonce
                        /\ p[i].nonce < is[p[i].public]
  <2>1. \A i \in 1 .. k : p[i] \in Txs BY <1>3, ElementOfSeq
  <2> QED BY <1>2, <2>1, BoundsAssumption DEF UsedUp, Txs
<1>9. \A a \in Accounts : was[a] \in Nat /\ is[a] \in Nat /\ was[a] <= is[a]
  BY <1>1, <1>2, <1>3 DEF UsedUp
<1> HIDE DEF c, p, d, m, k, was, is, after
<1>10. \A i \in 1 .. m + k : i \in 1 .. m \/ \E j \in 1 .. k : i = m + j
  <2>1. ASSUME NEW i \in 1 .. m + k, i \notin 1 .. m PROVE \E j \in 1 .. k : i = m + j
    <3>1. i - m \in 1 .. k /\ i = m + (i - m) BY <1>5, <2>1
    <3> QED BY <3>1
  <2> QED BY <2>1
<1>11. ASSUME NEW i \in 1 .. m + k PROVE d[i].nonce < is[d[i].public]
  <2>1. CASE i \in 1 .. m
    <3>1. d[i] = c[i] BY <1>5, <2>1
    <3>2. c[i].public \in Accounts /\ c[i].nonce \in Nat /\ c[i].nonce < was[c[i].public]
      BY <1>7, <2>1
    <3> QED BY <1>9, <3>1, <3>2
  <2>2. ASSUME NEW j \in 1 .. k, i = m + j PROVE d[i].nonce < is[d[i].public]
    BY <1>5, <1>8, <2>2
  <2> QED BY <1>10, <2>1, <2>2
<1>12. ASSUME NEW i \in 1 .. m, NEW j \in 1 .. k PROVE c[i] # p[j]
  BY <1>7, <1>8, <1>9
<1>13. \A i, j \in 1 .. m : c[i] = c[j] => i = j BY DEF Sound, Distinct, c, m
<1>14. \A i, j \in 1 .. k : p[i] = p[j] => i = j BY <1>2 DEF Distinct, k
<1>15. ASSUME NEW i \in 1 .. m + k, NEW j \in 1 .. m + k, d[i] = d[j] PROVE i = j
  <2>1. CASE i \in 1 .. m /\ j \in 1 .. m BY <1>5, <1>13, <1>15, <2>1
  <2>2. ASSUME NEW x \in 1 .. k, i = m + x, j \in 1 .. m PROVE FALSE
    <3>1. d[i] = p[x] /\ d[j] = c[j] BY <1>5, <2>2
    <3> QED BY <1>12, <1>15, <2>2, <3>1
  <2>3. ASSUME NEW x \in 1 .. k, j = m + x, i \in 1 .. m PROVE FALSE
    <3>1. d[j] = p[x] /\ d[i] = c[i] BY <1>5, <2>3
    <3> QED BY <1>12, <1>15, <2>3, <3>1
  <2>4. ASSUME NEW x \in 1 .. k, i = m + x, NEW y \in 1 .. k, j = m + y PROVE i = j
    <3>1. d[i] = p[x] /\ d[j] = p[y] BY <1>5, <2>4
    <3> QED BY <1>14, <1>15, <2>4, <3>1
  <2> QED BY <1>10, <2>1, <2>2, <2>3, <2>4
<1>16. Sound(after)
  <2>1. Distinct(d) BY <1>5, <1>15 DEF Distinct
  <2> QED BY <1>3, <1>4, <1>5, <1>6, <1>11, <2>1 DEF Sound, is
<1> QED BY <1>6, <1>16 DEF after

----------------------------------------------------------------------------
(* The invariant. *)

\* The chain, and the stores the network certifies for it.
ChainInv ==
    /\ chain \in Seq(Blocks) /\ Len(chain) <= MaxHeight
    /\ IsTuple(chain, Len(chain))
    /\ IsTuple(expected, Len(chain))
    /\ \A h \in 1 .. Len(chain) :
          expected[h] = StoresAfter(StoresAt(h - 1), h, chain[h])
    /\ \A h \in 0 .. Len(chain) : Sound(StoresAt(h))

\* How far each durable store has come.  The events are at most one block
\* ahead of the state, and the journal of the save point.
ProgressInv ==
    /\ savePoint \in Nat /\ savePoint <= Len(chain)
    /\ state.height \in Nat /\ events.height \in Nat
    /\ state.height <= events.height /\ events.height <= state.height + 1
    /\ events.height <= Len(chain)
    /\ IsTuple(results, Len(results))
    /\ Len(results) <= savePoint + 1 /\ Len(results) <= Len(chain)

\* What is in hand at each step.
Pcs == {"idle", "seed", "transition", "apply", "prove", "record", "respond", "down"}

InHandInv ==
    /\ pc \in Pcs
    /\ pc \in Pcs \ {"idle", "down"} => Height <= Len(chain)
    /\ pc = "apply" =>
          /\ Height = state.height + 1
          /\ events.height = Height
          /\ layer = Execute(state.contents, InHand).nonces

Reasons == {"no", "mismatch", "empty proof"}

CountersInv ==
    /\ panicked \in Reasons
    /\ skipped \in BOOLEAN
    /\ crashes \in 0 .. MaxCrashes

StoreInv ==
    /\ ChainInv
    /\ ProgressInv
    /\ InHandInv
    /\ CountersInv
    /\ StoresMatchCertified

\* Until a response is dropped, the journal and the state are at most one
\* block ahead of the save point, and the result in hand is the one of the
\* stores.
RecordInv ==
    /\ savePoint <= Len(results) /\ Len(results) <= state.height
    /\ state.height <= savePoint + 1
    /\ events.height = state.height + 1 => savePoint = state.height
    /\ pc \in {"prove", "record", "respond"} =>
          /\ Height = state.height
          /\ events.height = Height
          /\ result = ResultOf(Height, state, events)
    /\ pc = "respond" => Len(results) = Height
    /\ RecordedAreCertified

IInv ==
    /\ StoreInv
    /\ ~skipped => RecordInv
    /\ NoEmptyProof

\* Nothing is in the chain or in the stores at first.
LEMMA InitIInv == Init => IInv
<1> SUFFICES ASSUME Init PROVE IInv
  OBVIOUS
<1>1. Len(<<>>) = 0 /\ IsTuple(<<>>, 0) /\ <<>> \in Seq(Blocks) BY DEF IsTuple
<1>2. ChainInv
  <2>1. StoresAt(0) = GenesisStores /\ Sound(StoresAt(0)) BY GenesisSound DEF StoresAt
  <2>2. 0 .. 0 = {0} /\ 1 .. 0 = {} /\ 0 <= MaxHeight BY BoundsAssumption
  <2>3. chain = <<>> /\ expected = <<>> /\ Len(chain) = 0 BY <1>1 DEF Init
  <2> QED BY <1>1, <2>1, <2>2, <2>3 DEF ChainInv
<1>3. ProgressInv BY <1>1 DEF Init, ProgressInv, Store
<1>4. InHandInv BY DEF Init, InHandInv, Pcs
<1>5. CountersInv
  <2>1. 0 \in 0 .. MaxCrashes BY BoundsAssumption
  <2> QED BY <2>1, Zenon DEF Init, CountersInv, Reasons
<1>6. StoresMatchCertified
  BY DEF Init, StoresMatchCertified, StoresAt, GenesisStores, Store
<1>7. RecordInv BY <1>1 DEF Init, RecordInv, RecordedAreCertified, Store
<1>8. NoEmptyProof BY Zenon DEF Init, NoEmptyProof
<1> QED BY <1>2, <1>3, <1>4, <1>5, <1>6, <1>7, <1>8, Zenon DEF IInv, StoreInv

\* A step that neither panics nor drops a response.
LEMMA KeepCounters ==
    ASSUME IInv, UNCHANGED <<panicked, skipped>>, crashes' \in 0 .. MaxCrashes
    PROVE  CountersInv' /\ NoEmptyProof'
BY Zenon DEF IInv, StoreInv, CountersInv, NoEmptyProof

\* A new block extends the chain and leaves what is certified below it alone.
LEMMA FinalizeIInv == ASSUME IInv, NEW block \in Blocks, Finalize(block) PROVE IInv'
<1> DEFINE n == Len(chain)
           e == StoresAfter(StoresAt(n), n + 1, block)
<1>1. /\ chain' = Append(chain, block)
      /\ expected' = Append(expected, e)
      /\ n < MaxHeight
      /\ UNCHANGED <<savePoint, state, events, results, pc, layer, result, panicked,
                     skipped, crashes>>
  BY DEF Finalize
<1>2. n \in Nat /\ IsTuple(chain, n) /\ IsTuple(expected, n) /\ chain \in Seq(Blocks)
  BY DEF IInv, StoreInv, ChainInv, IsTuple
<1>3. /\ IsTuple(chain', n + 1)
      /\ Len(chain') = n + 1
      /\ chain'[n + 1] = block
      /\ \A i \in 1 .. n : chain'[i] = chain[i]
  BY <1>1, <1>2, AppendTuple
<1>4. /\ IsTuple(expected', n + 1)
      /\ expected'[n + 1] = e
      /\ \A i \in 1 .. n : expected'[i] = expected[i]
  BY <1>1, <1>2, AppendTuple
<1>5. \A h \in 0 .. n : StoresAt(h)' = StoresAt(h)
  BY <1>2, <1>4 DEF StoresAt, GenesisStores, Store, NoNonces
<1>6. ChainInv'
  <2>1. ASSUME NEW h \in 1 .. n + 1
        PROVE  expected'[h] = StoresAfter(StoresAt(h - 1)', h, chain'[h])
    <3>1. CASE h = n + 1
      BY <1>2, <1>3, <1>4, <1>5, <3>1
    <3>2. CASE h \in 1 .. n
      <4>1. expected[h] = StoresAfter(StoresAt(h - 1), h, chain[h])
        BY <3>2 DEF IInv, StoreInv, ChainInv
      <4>2. StoresAt(h - 1)' = StoresAt(h - 1)
        BY <1>2, <1>5, <3>2
      <4> QED
        BY <1>3, <1>4, <3>2, <4>1, <4>2
    <3> QED
      BY <1>2, <3>1, <3>2
  <2>2. ASSUME NEW h \in 0 .. n + 1 PROVE Sound(StoresAt(h)')
    <3>1. \A k \in 0 .. n : Sound(StoresAt(k)) BY DEF IInv, StoreInv, ChainInv
    <3>2. CASE h \in 0 .. n BY <1>5, <3>1, <3>2
    <3>3. CASE h = n + 1
      <4>1. StoresAt(h)' = expected'[n + 1] BY <1>2, <3>3 DEF StoresAt
      <4>2. n \in 0 .. n BY <1>2
      <4>3. Sound(e) BY <3>1, <4>2, StoresAfterSound, Zenon
      <4> QED BY <1>4, <4>1, <4>3
    <3> QED BY <1>2, <3>2, <3>3
  <2>3. chain' \in Seq(Blocks) BY <1>1, <1>2, AppendProperties
  <2>4. n + 1 <= MaxHeight BY <1>1, <1>2, BoundsAssumption
  <2> QED
    BY <1>3, <1>4, <2>1, <2>2, <2>3, <2>4, Zenon DEF ChainInv
<1>7. ProgressInv'
  BY <1>1, <1>2, <1>3 DEF IInv, StoreInv, ProgressInv, IsTuple
<1>8. Height' = Height /\ (Height \in Nat /\ Height >= 1)
  BY <1>1 DEF Height, IInv, StoreInv, ProgressInv
<1>9. InHandInv'
  <2>1. Height <= n => InHand' = InHand
    BY <1>2, <1>3, <1>8 DEF InHand
  <2>2. pc = "apply" => layer = Execute(state.contents, InHand').nonces
    <3>1. "apply" \in Pcs \ {"idle", "down"} BY DEF Pcs
    <3> QED BY <2>1, <3>1 DEF IInv, StoreInv, InHandInv
  <2> QED
    BY <1>1, <1>2, <1>3, <1>8, <2>2 DEF IInv, StoreInv, InHandInv
<1>10. CountersInv' /\ NoEmptyProof'
  <2>1. crashes' \in 0 .. MaxCrashes BY <1>1, Zenon DEF IInv, StoreInv, CountersInv
  <2> QED BY <1>1, <2>1, KeepCounters
<1>11. StoresMatchCertified'
  <2>1. state.height \in 0 .. n /\ events.height \in 0 .. n
    BY <1>2 DEF IInv, StoreInv, ProgressInv
  <2> QED BY <1>1, <1>5, <2>1 DEF IInv, StoreInv, StoresMatchCertified
<1>12. ~skipped => RecordInv'
  <2> SUFFICES ASSUME ~skipped PROVE RecordInv' OBVIOUS
  <2>1. Len(results) \in Nat /\ Len(results) <= n
    BY <1>2 DEF IInv, StoreInv, ProgressInv, IsTuple
  <2>2. ASSUME NEW h \in 1 .. Len(results) PROVE results[h] = Certified(h)'
    <3>1. results[h] = Certified(h)
      BY DEF IInv, RecordInv, RecordedAreCertified
    <3>2. expected'[h] = expected[h]
      BY <1>2, <1>4, <2>1
    <3> QED
      BY <3>1, <3>2 DEF Certified
  <2>3. RecordedAreCertified'
    BY <1>1, <2>2 DEF RecordedAreCertified
  <2> QED BY <1>1, <1>8, <2>3 DEF IInv, RecordInv
<1> QED
  BY <1>1, <1>6, <1>7, <1>9, <1>10, <1>11, <1>12 DEF IInv, StoreInv

\* Steps that touch neither the chain nor a store keep what concerns them.
LEMMA KeepStores ==
    ASSUME IInv, UNCHANGED <<chain, expected, state, events>>
    PROVE  /\ ChainInv' /\ StoresMatchCertified'
           /\ \A h : StoresAt(h)' = StoresAt(h)
           /\ \A h : Certified(h)' = Certified(h)
<1>1. \A h : StoresAt(h)' = StoresAt(h)
  BY DEF StoresAt, GenesisStores, Store, NoNonces
<1>2. \A h : Certified(h)' = Certified(h)
  BY DEF Certified
<1>3. ChainInv'
  BY <1>1 DEF IInv, StoreInv, ChainInv
<1>4. StoresMatchCertified'
  BY <1>1 DEF IInv, StoreInv, StoresMatchCertified
<1> QED
  BY <1>1, <1>2, <1>3, <1>4

LEMMA KeepDurable ==
    ASSUME IInv, UNCHANGED <<chain, expected, savePoint, state, events, results>>
    PROVE  /\ ChainInv' /\ ProgressInv' /\ StoresMatchCertified'
           /\ RecordedAreCertified => RecordedAreCertified'
           /\ Height' = Height /\ InHand' = InHand
<1>1. ProgressInv'
  BY DEF IInv, StoreInv, ProgressInv
<1>2. RecordedAreCertified => RecordedAreCertified'
  BY DEF RecordedAreCertified, Certified
<1> QED
  BY <1>1, <1>2, KeepStores DEF Height, InHand

\* The next block's events go to the log: the events are one block ahead.
LEMMA ExecuteNextIInv == ASSUME IInv, ExecuteNext PROVE IInv'
<1> DEFINE h == Height
           run == Execute(state.contents, InHand)
<1>1. /\ events' = CommitEvents(events, h, run.processed)
      /\ layer' = run.nonces
      /\ pc = "transition" /\ pc' = "apply"
      /\ UNCHANGED <<chain, expected, savePoint, state, results, result, panicked, skipped, crashes>>
      /\ h = state.height + 1
      /\ events.height = state.height
  BY DEF ExecuteNext
<1>2. /\ h \in Nat /\ h >= 1 /\ h <= Len(chain) /\ Len(chain) \in Nat
      /\ savePoint = state.height
  BY <1>1 DEF IInv, StoreInv, InHandInv, ProgressInv, ChainInv, IsTuple, Height, Pcs
<1>3. events'.height = h
  BY <1>1 DEF CommitEvents, Store
<1>4. \A k : StoresAt(k)' = StoresAt(k)
  BY <1>1 DEF StoresAt, GenesisStores, Store, NoNonces
<1>5. h' = h /\ InHand' = InHand
  BY <1>1 DEF Height, InHand
<1>6. events' = StoresAt(h).events
  <2>1. expected[h] = StoresAfter(StoresAt(h - 1), h, chain[h])
    BY <1>2 DEF IInv, StoreInv, ChainInv
  <2>2. h - 1 = state.height
    BY <1>1, <1>2 DEF IInv, StoreInv, ProgressInv
  <2>3. StoresAt(h - 1).state = state /\ StoresAt(h - 1).events = events
    BY <1>1, <2>2 DEF IInv, StoreInv, StoresMatchCertified
  <2>4. StoresAt(h) = expected[h]
    BY <1>2 DEF StoresAt
  <2>5. StoresAfter(StoresAt(h - 1), h, chain[h]).events
          = CommitEvents(StoresAt(h - 1).events, h,
                         Execute(StoresAt(h - 1).state.contents, chain[h]).processed)
    BY DEF StoresAfter
  <2> QED
    BY <1>1, <2>1, <2>3, <2>4, <2>5 DEF InHand
<1>7. ChainInv'
  BY <1>1, <1>4 DEF IInv, StoreInv, ChainInv
<1>8. ProgressInv'
  BY <1>1, <1>2, <1>3 DEF IInv, StoreInv, ProgressInv
<1>9. InHandInv'
  BY <1>1, <1>2, <1>3, <1>5 DEF InHandInv, Pcs
<1>10. StoresMatchCertified'
  BY <1>1, <1>3, <1>4, <1>6 DEF IInv, StoreInv, StoresMatchCertified
<1>11. CountersInv' /\ NoEmptyProof'
  <2>1. crashes' \in 0 .. MaxCrashes BY <1>1, Zenon DEF IInv, StoreInv, CountersInv
  <2> QED BY <1>1, <2>1, KeepCounters
<1>12. ~skipped => RecordInv'
  <2>1. RecordedAreCertified => RecordedAreCertified'
    BY <1>1 DEF RecordedAreCertified, Certified
  <2> QED BY <1>1, <1>2, <1>3, <1>5, <2>1 DEF IInv, RecordInv
<1> QED
  BY <1>1, <1>7, <1>8, <1>9, <1>10, <1>11, <1>12 DEF IInv, StoreInv

\* The state catches up with the events.
LEMMA ApplyStateIInv == ASSUME IInv, ApplyState PROVE IInv'
<1> DEFINE h == Height
<1>1. /\ state' = CommitState(state, h, layer)
      /\ result' = ResultOf(h, state', events)
      /\ pc = "apply" /\ pc' = "prove"
      /\ UNCHANGED <<chain, expected, savePoint, events, results, panicked, skipped, crashes>>
  BY DEF ApplyState
<1>2. /\ h \in Nat /\ h >= 1 /\ h <= Len(chain) /\ Len(chain) \in Nat
      /\ h = state.height + 1 /\ events.height = h
      /\ layer = Execute(state.contents, InHand).nonces
      /\ savePoint = state.height
  BY <1>1 DEF IInv, StoreInv, InHandInv, ProgressInv, ChainInv, IsTuple, Height, Pcs
<1>3. state'.height = h
  BY <1>1 DEF CommitState, Store
<1>4. \A k : StoresAt(k)' = StoresAt(k)
  BY <1>1 DEF StoresAt, GenesisStores, Store, NoNonces
<1>5. h' = h /\ InHand' = InHand
  BY <1>1 DEF Height, InHand
<1>6. state' = StoresAt(h).state
  <2>1. expected[h] = StoresAfter(StoresAt(h - 1), h, chain[h])
    BY <1>2 DEF IInv, StoreInv, ChainInv
  <2>2. h - 1 = state.height
    BY <1>2 DEF IInv, StoreInv, ProgressInv
  <2>3. StoresAt(h - 1).state = state
    BY <2>2 DEF IInv, StoreInv, StoresMatchCertified
  <2>4. StoresAt(h) = expected[h]
    BY <1>2 DEF StoresAt
  <2>5. StoresAfter(StoresAt(h - 1), h, chain[h]).state
          = CommitState(StoresAt(h - 1).state, h,
                        Execute(StoresAt(h - 1).state.contents, chain[h]).nonces)
    BY DEF StoresAfter
  <2> QED
    BY <1>1, <1>2, <2>1, <2>3, <2>4, <2>5 DEF InHand
<1>7. ChainInv'
  BY <1>1, <1>4 DEF IInv, StoreInv, ChainInv
<1>8. ProgressInv'
  BY <1>1, <1>2, <1>3 DEF IInv, StoreInv, ProgressInv, IsTuple
<1>9. InHandInv'
  BY <1>1, <1>2, <1>3, <1>5 DEF InHandInv, Pcs
<1>10. StoresMatchCertified'
  BY <1>1, <1>3, <1>4, <1>6 DEF IInv, StoreInv, StoresMatchCertified
<1>11. CountersInv' /\ NoEmptyProof'
  <2>1. crashes' \in 0 .. MaxCrashes BY <1>1, Zenon DEF IInv, StoreInv, CountersInv
  <2> QED BY <1>1, <2>1, KeepCounters
<1>12. ~skipped => RecordInv'
  <2> SUFFICES ASSUME RecordInv PROVE RecordInv' BY Zenon DEF IInv
  <2>1. RecordedAreCertified'
    BY <1>1 DEF RecordInv, RecordedAreCertified, Certified
  <2>2. Len(results) \in Nat /\ savePoint \in Nat
    BY DEF IInv, StoreInv, ProgressInv, IsTuple
  <2> QED BY <1>1, <1>2, <1>3, <1>5, <2>1, <2>2 DEF RecordInv
<1> QED
  BY <1>1, <1>7, <1>8, <1>9, <1>10, <1>11, <1>12 DEF IInv, StoreInv

\* The result of the block in hand takes its place in the journal, unless it
\* is already there.
LEMMA RecordIInv == ASSUME IInv, Record PROVE IInv'
<1> DEFINE h == Height
<1>1. /\ results' = IF MustRecord(h) THEN Append(results, result) ELSE results
      /\ pc = "record" /\ pc' = "respond"
      /\ UNCHANGED <<chain, expected, savePoint, state, events, layer, result, panicked,
                     skipped, crashes>>
  BY DEF Record
<1>2. /\ h \in Nat /\ h >= 1 /\ h <= Len(chain) /\ Len(chain) \in Nat
      /\ Len(results) \in Nat /\ IsTuple(results, Len(results))
      /\ h = savePoint + 1 /\ savePoint \in Nat /\ Len(results) <= h
  BY <1>1 DEF IInv, StoreInv, InHandInv, ProgressInv, ChainInv, IsTuple, Height, Pcs
<1>3. h' = h /\ InHand' = InHand
  BY <1>1 DEF Height, InHand
<1>4. /\ IsTuple(results', Len(results')) /\ Len(results') \in Nat /\ Len(results') <= h
      /\ Len(results) >= h - 1 => Len(results') = h
  <2>1. CASE Len(results) = h BY <1>1, <1>2, <2>1 DEF MustRecord
  <2>2. CASE Len(results) # h
    <3>1. IsTuple(results', Len(results) + 1) /\ Len(results') = Len(results) + 1
      BY <1>1, <1>2, <2>2, AppendTuple DEF MustRecord
    <3> QED BY <1>2, <2>2, <3>1
  <2> QED BY <2>1, <2>2
<1>5. ChainInv' /\ StoresMatchCertified' /\ \A k : Certified(k)' = Certified(k)
  BY <1>1, KeepStores
<1>6. ProgressInv'
  BY <1>1, <1>2, <1>4 DEF IInv, StoreInv, ProgressInv
<1>7. InHandInv'
  BY <1>1, <1>2, <1>3 DEF InHandInv, Pcs
<1>8. CountersInv' /\ NoEmptyProof'
  <2>1. crashes' \in 0 .. MaxCrashes BY <1>1, Zenon DEF IInv, StoreInv, CountersInv
  <2> QED BY <1>1, <2>1, KeepCounters
<1>9. ~skipped => RecordInv'
  <2> SUFFICES ASSUME RecordInv PROVE RecordInv' BY Zenon DEF IInv
  <2>1. /\ h = state.height /\ events.height = h
        /\ result = ResultOf(h, state, events)
        /\ Len(results) \in {h - 1, h}
    BY <1>1, <1>2 DEF RecordInv
  <2>2. result = Certified(h)
    <3>1. StoresAt(h) = expected[h]
      BY <1>2 DEF StoresAt
    <3>2. state = expected[h].state /\ events = expected[h].events
      BY <2>1, <3>1 DEF IInv, StoreInv, StoresMatchCertified
    <3> QED
      BY <2>1, <3>2 DEF Certified
  <2>3. Len(results') = h BY <1>2, <1>4, <2>1
  <2>4. \A k \in 1 .. h : results'[k] = Certified(k)
    <3>1. CASE Len(results) = h
      BY <1>1, <3>1 DEF MustRecord, RecordInv, RecordedAreCertified
    <3>2. CASE Len(results) = h - 1
      <4>1. /\ results'[(h - 1) + 1] = result
            /\ \A k \in 1 .. h - 1 : results'[k] = results[k]
        BY <1>1, <1>2, <3>2, AppendTuple DEF MustRecord
      <4>2. (h - 1) + 1 = h
        BY <1>2
      <4>3. \A k \in 1 .. h - 1 : results[k] = Certified(k)
        BY <3>2 DEF RecordInv, RecordedAreCertified
      <4>4. ASSUME NEW k \in 1 .. h PROVE results'[k] = Certified(k)
        <5>1. CASE k = h
          BY <2>2, <4>1, <4>2, <5>1
        <5>2. CASE k \in 1 .. h - 1
          BY <4>1, <4>3, <5>2
        <5> QED
          BY <1>2, <5>1, <5>2
      <4> QED
        BY <4>4
    <3> QED
      BY <2>1, <3>1, <3>2
  <2>5. RecordedAreCertified'
    BY <1>5, <2>3, <2>4 DEF RecordedAreCertified
  <2> QED BY <1>1, <1>2, <1>3, <2>1, <2>3, <2>5 DEF RecordInv
<1> QED
  BY <1>1, <1>5, <1>6, <1>7, <1>8, <1>9 DEF IInv, StoreInv

\* The save point moves: the stores are as they were, and if it moved to a
\* block in the journal so is what was recorded.
LEMMA RespondIInv == ASSUME IInv, Respond PROVE IInv'
<1>1. /\ savePoint' = Height
      /\ pc = "respond" /\ pc' = "idle"
      /\ UNCHANGED <<chain, expected, state, events, results, panicked, skipped, crashes>>
      /\ Height = savePoint + 1
  BY DEF Respond, Height
<1>2. Height <= Len(chain) /\ savePoint \in Nat /\ Len(results) \in Nat /\ Len(chain) \in Nat
  BY <1>1 DEF IInv, StoreInv, ChainInv, InHandInv, ProgressInv, IsTuple, Pcs
<1>3. ChainInv' /\ StoresMatchCertified' /\ \A k : Certified(k)' = Certified(k)
  BY <1>1, KeepStores
<1>4. ProgressInv'
  BY <1>1, <1>2 DEF IInv, StoreInv, ProgressInv
<1>5. InHandInv'
  BY <1>1 DEF InHandInv, Pcs
<1>6. CountersInv' /\ NoEmptyProof'
  <2>1. crashes' \in 0 .. MaxCrashes BY <1>1, Zenon DEF IInv, StoreInv, CountersInv
  <2> QED BY <1>1, <2>1, KeepCounters
<1>7. ~skipped => RecordInv'
  <2> SUFFICES ASSUME RecordInv PROVE RecordInv' BY Zenon DEF IInv
  <2>1. Height = state.height /\ events.height = Height /\ Len(results) = Height
    BY <1>1 DEF RecordInv
  <2>2. RecordedAreCertified'
    BY <1>1, <1>3 DEF RecordInv, RecordedAreCertified
  <2> QED BY <1>1, <1>2, <2>1, <2>2 DEF RecordInv
<1> QED
  BY <1>1, <1>3, <1>4, <1>5, <1>6, <1>7 DEF IInv, StoreInv

\* A block that was dropped: the application went down, and marshal moved on
\* or not.
LEMMA DropIInv ==
    ASSUME IInv, pc \in Pcs \ {"idle", "down"}, pc' = "down",
           savePoint' \in {savePoint, Height},
           skipped' = (skipped \/ savePoint' # savePoint),
           panicked' \in Reasons,
           crashes' \in 0 .. MaxCrashes,
           NoEmptyProof',
           UNCHANGED <<chain, expected, state, events, results>>
    PROVE  IInv'
<1>1. /\ Height = savePoint + 1 /\ savePoint \in Nat /\ Height <= Len(chain)
      /\ Len(results) \in Nat /\ Len(chain) \in Nat
  BY DEF IInv, StoreInv, ChainInv, InHandInv, ProgressInv, IsTuple, Height
<1>2. ChainInv' /\ StoresMatchCertified' /\ \A k : Certified(k)' = Certified(k)
  BY KeepStores
<1>3. ProgressInv'
  <2>1. /\ savePoint' \in Nat /\ savePoint' <= Len(chain)
        /\ Len(results) <= savePoint' + 1
    BY <1>1 DEF IInv, StoreInv, ProgressInv
  <2> QED BY <1>1, <2>1 DEF IInv, StoreInv, ProgressInv
<1>4. InHandInv' BY DEF InHandInv, Pcs
<1>5. CountersInv' BY Zenon DEF IInv, StoreInv, CountersInv
<1>6. ~skipped' => RecordInv'
  <2> SUFFICES ASSUME ~skipped' PROVE RecordInv' OBVIOUS
  <2>1. ~skipped /\ savePoint' = savePoint OBVIOUS
  <2>2. RecordedAreCertified'
    BY <1>2, <2>1 DEF IInv, RecordInv, RecordedAreCertified
  <2> QED BY <2>1, <2>2 DEF IInv, RecordInv
<1> QED BY <1>2, <1>3, <1>4, <1>5, <1>6 DEF IInv, StoreInv

\* The stores of a height above 0 have a range of events that is not empty.
LEMMA RangeNotEmpty ==
    ASSUME IInv, events.height >= 1
    PROVE  events.start \in Nat /\ events.ops \in Nat /\ events.start < events.ops
<1> DEFINE h == events.height
<1>1. h \in 1 .. Len(chain) /\ Len(chain) \in Nat
  BY DEF IInv, StoreInv, ProgressInv, ChainInv, IsTuple
<1>2. expected[h] = StoresAfter(StoresAt(h - 1), h, chain[h])
  BY <1>1 DEF IInv, StoreInv, ChainInv
<1>3. events = expected[h].events
  BY <1>1 DEF IInv, StoreInv, StoresMatchCertified, StoresAt
<1>4. h - 1 \in 0 .. Len(chain) BY <1>1
<1>5. Sound(StoresAt(h - 1)) BY <1>4 DEF IInv, StoreInv, ChainInv
<1>6. chain[h] \in Blocks BY <1>1, ElementOfSeq DEF IInv, StoreInv, ChainInv
<1> HIDE DEF h
<1>7. /\ StoresAfter(StoresAt(h - 1), h, chain[h]).events.start \in Nat
      /\ StoresAfter(StoresAt(h - 1), h, chain[h]).events.start
            < StoresAfter(StoresAt(h - 1), h, chain[h]).events.ops
      /\ Sound(StoresAfter(StoresAt(h - 1), h, chain[h]))
  BY <1>5, <1>6, StoresAfterSound, Zenon
<1> QED BY <1>2, <1>3, <1>7 DEF Sound

\* A panic on an empty proof comes only after a response was dropped.
LEMMA ProveNothingIInv == ASSUME IInv, ProveNothing PROVE IInv'
<1>1. /\ pc = "prove" /\ result.eventsEnd - result.eventsStart = 0
      /\ pc' = "down" /\ panicked' = "empty proof"
      /\ savePoint' \in {savePoint, Height}
      /\ skipped' = (skipped \/ savePoint' # savePoint)
      /\ UNCHANGED <<chain, expected, state, events, results, crashes>>
  BY DEF ProveNothing, Panic
<1>2. skipped
  <2>1. SUFFICES ASSUME RecordInv PROVE FALSE BY Zenon DEF IInv
  <2>2. result = ResultOf(Height, state, events) /\ events.height = savePoint + 1
    BY <1>1, <2>1 DEF RecordInv, Height
  <2>3. result.eventsEnd = events.ops /\ result.eventsStart = events.start
    BY <2>2 DEF ResultOf
  <2>4. events.height >= 1 BY <2>2 DEF IInv, StoreInv, ProgressInv
  <2>5. events.start \in Nat /\ events.ops \in Nat /\ events.start < events.ops
    BY <2>4, RangeNotEmpty
  <2>6. result.eventsEnd - result.eventsStart = 0 BY <1>1, Zenon
  <2> QED BY <2>3, <2>5, <2>6
<1>3. crashes' \in 0 .. MaxCrashes BY <1>1, Zenon DEF IInv, StoreInv, CountersInv
<1>4. NoEmptyProof' BY <1>1, <1>2, Zenon DEF NoEmptyProof
<1>5. pc \in Pcs \ {"idle", "down"} BY <1>1 DEF Pcs
<1> QED BY <1>1, <1>3, <1>4, <1>5, DropIInv, Zenon DEF Reasons

LEMMA HeightMismatchIInv == ASSUME IInv, HeightMismatch PROVE IInv'
<1>1. /\ pc = "transition"
      /\ pc' = "down" /\ panicked' = "mismatch"
      /\ savePoint' \in {savePoint, Height}
      /\ skipped' = (skipped \/ savePoint' # savePoint)
      /\ UNCHANGED <<chain, expected, state, events, results, crashes>>
  BY DEF HeightMismatch, Panic
<1>2. crashes' \in 0 .. MaxCrashes BY <1>1, Zenon DEF IInv, StoreInv, CountersInv
<1>3. NoEmptyProof' BY <1>1, Zenon DEF NoEmptyProof
<1>4. pc \in Pcs \ {"idle", "down"} BY <1>1 DEF Pcs
<1> QED BY <1>1, <1>2, <1>3, <1>4, DropIInv, Zenon DEF Reasons

LEMMA StopDuringSeedIInv == ASSUME IInv, StopDuringSeed PROVE IInv'
<1>1. /\ pc = "seed" /\ pc' = "down" /\ savePoint' = Height /\ skipped' = TRUE
      /\ crashes < MaxCrashes /\ crashes' = crashes + 1
      /\ UNCHANGED <<chain, expected, state, events, results, panicked>>
  BY DEF StopDuringSeed
<1>2. crashes' \in 0 .. MaxCrashes
  <2>1. crashes \in 0 .. MaxCrashes BY Zenon DEF IInv, StoreInv, CountersInv
  <2> QED BY <1>1, <2>1, BoundsAssumption
<1>3. panicked' \in Reasons
  BY <1>1, Zenon DEF IInv, StoreInv, CountersInv
<1>4. savePoint \in Nat /\ Height # savePoint
  BY DEF IInv, StoreInv, ProgressInv, Height
<1>5. NoEmptyProof' BY <1>1, Zenon DEF NoEmptyProof
<1>6. pc \in Pcs \ {"idle", "down"} BY <1>1 DEF Pcs
<1>7. skipped' = (skipped \/ savePoint' # savePoint) BY <1>1, <1>4, Zenon
<1> QED BY <1>1, <1>2, <1>3, <1>5, <1>6, <1>7, DropIInv, Zenon

\* Steps that only move the block in hand along.
LEMMA MoveIInv ==
    ASSUME IInv,
           UNCHANGED <<chain, expected, savePoint, state, events, results, panicked, skipped>>,
           pc' \in Pcs \ {"apply"},
           crashes' \in 0 .. MaxCrashes,
           pc' \in Pcs \ {"idle", "down"} => Height <= Len(chain),
           ~skipped /\ pc' \in {"prove", "record", "respond"} =>
               /\ Height = state.height
               /\ events.height = Height
               /\ result' = ResultOf(Height, state, events),
           ~skipped /\ pc' = "respond" => Len(results) = Height
    PROVE  IInv'
<1>1. /\ ChainInv' /\ ProgressInv' /\ StoresMatchCertified'
      /\ RecordedAreCertified => RecordedAreCertified'
      /\ Height' = Height
  BY KeepDurable
<1>2. InHandInv' BY <1>1 DEF InHandInv, Pcs
<1>3. CountersInv' /\ NoEmptyProof' BY KeepCounters
<1>4. ~skipped => RecordInv' BY <1>1 DEF IInv, RecordInv
<1> QED BY <1>1, <1>2, <1>3, <1>4 DEF IInv, StoreInv

\* Every step preserves the invariant.
LEMMA NextIInv == IInv /\ [Next]_vars => IInv'
<1> SUFFICES ASSUME IInv, [Next]_vars PROVE IInv'
  OBVIOUS
<1>0. crashes \in 0 .. MaxCrashes /\ pc \in Pcs
  BY Zenon DEF IInv, StoreInv, CountersInv, InHandInv
<1>1. ASSUME NEW block \in Blocks, Finalize(block) PROVE IInv'
  BY <1>1, FinalizeIInv
<1>2. CASE Deliver
  BY <1>0, <1>2, MoveIInv DEF Deliver, Pcs
<1>3. CASE Seeded
  <2>1. Height <= Len(chain) BY <1>3 DEF Seeded, IInv, StoreInv, InHandInv, Pcs
  <2> QED BY <1>0, <1>3, <2>1, MoveIInv DEF Seeded, Pcs
<1>4. CASE ExecuteNext
  BY <1>4, ExecuteNextIInv
<1>5. CASE ApplyState
  BY <1>5, ApplyStateIInv
<1>6. CASE Replay
  <2>1. Height <= Len(chain) BY <1>6 DEF Replay, IInv, StoreInv, InHandInv, Pcs
  <2>2. ~skipped => events.height = Height
    <3>1. SUFFICES ASSUME RecordInv PROVE events.height = Height BY Zenon DEF IInv
    <3> QED BY <1>6, <3>1 DEF Replay, IInv, StoreInv, RecordInv, ProgressInv, Height
  <2> QED BY <1>0, <1>6, <2>1, <2>2, MoveIInv DEF Replay, Pcs
<1>7. CASE InvalidHeight
  <2>1. Height <= Len(chain) BY <1>7 DEF InvalidHeight, IInv, StoreInv, InHandInv, Pcs
  <2>2. skipped
    <3>1. SUFFICES ASSUME RecordInv PROVE FALSE BY Zenon DEF IInv
    <3>2. Len(results) \in Nat BY DEF IInv, StoreInv, ProgressInv, IsTuple
    <3> QED BY <1>7, <3>1, <3>2 DEF InvalidHeight, IInv, StoreInv, RecordInv, ProgressInv, Height
  <2> QED BY <1>0, <1>7, <2>1, <2>2, MoveIInv DEF InvalidHeight, Pcs
<1>8. CASE HeightMismatch
  BY <1>8, HeightMismatchIInv
<1>9. CASE ProveNothing
  BY <1>9, ProveNothingIInv
<1>10. CASE Prove
  <2>1. Height <= Len(chain) BY <1>10 DEF Prove, IInv, StoreInv, InHandInv, Pcs
  <2>2. ~skipped => /\ Height = state.height
                    /\ events.height = Height
                    /\ result = ResultOf(Height, state, events)
    BY <1>10 DEF Prove, IInv, RecordInv
  <2> QED BY <1>0, <1>10, <2>1, <2>2, MoveIInv DEF Prove, Pcs
<1>11. CASE Record
  BY <1>11, RecordIInv
<1>12. CASE Respond
  BY <1>12, RespondIInv
<1>13. CASE Restart
  BY <1>0, <1>13, MoveIInv DEF Restart, Pcs
<1>14. CASE Crash
  <2>1. crashes' \in 0 .. MaxCrashes BY <1>0, <1>14, BoundsAssumption DEF Crash
  <2> QED BY <1>14, <2>1, MoveIInv DEF Crash, Pcs
<1>15. CASE StopDuringSeed
  BY <1>15, StopDuringSeedIInv
<1>16. CASE UNCHANGED vars
  <2>1. UNCHANGED <<chain, expected, savePoint, state, events, results, pc, layer, result,
                    panicked, skipped, crashes>>
    BY <1>16 DEF vars
  <2>2. InHandInv'
    BY <2>1, KeepDurable DEF IInv, StoreInv, InHandInv
  <2>3. CountersInv' /\ NoEmptyProof' BY <1>0, <2>1, KeepCounters
  <2>4. ~skipped => RecordInv' BY <2>1, KeepDurable DEF IInv, RecordInv
  <2> QED
    BY <2>1, <2>2, <2>3, <2>4, KeepDurable DEF IInv, StoreInv
<1> QED
  BY <1>1, <1>2, <1>3, <1>4, <1>5, <1>6, <1>7, <1>8, <1>9, <1>10, <1>11, <1>12, <1>13,
     <1>14, <1>15, <1>16 DEF Next, NodeStep

----------------------------------------------------------------------------
\* The inductive invariant holds in every reachable state.
THEOREM Invariance == Spec => []IInv
<1> QED
  BY InitIInv, NextIInv, PTL DEF Spec

\* Every variable of the state transition keeps its type, whatever crashes:
\* no height runs ahead of the chain.
THEOREM TypeCorrect == Spec => []TypeOK
<1>1. IInv => TypeOK
  <2> SUFFICES ASSUME IInv PROVE TypeOK OBVIOUS
  <2>1. Len(chain) \in Nat /\ Len(results) \in Nat
    BY DEF IInv, StoreInv, ChainInv, ProgressInv, IsTuple
  <2>2. Len(expected) = Len(chain)
    BY AppendTuple, Zenon DEF IInv, StoreInv, ChainInv
  <2>3. chain \in Seq(Blocks) /\ Len(chain) <= MaxHeight BY DEF IInv, StoreInv, ChainInv
  <2>4. /\ savePoint \in 0 .. Len(chain)
        /\ state.height \in 0 .. Len(chain) /\ events.height \in 0 .. Len(chain)
        /\ Len(results) <= Len(chain)
    BY <2>1 DEF IInv, StoreInv, ProgressInv
  <2> QED BY <2>2, <2>3, <2>4 DEF IInv, StoreInv, InHandInv, CountersInv, Pcs, Reasons, TypeOK
<1> QED
  BY <1>1, Invariance, PTL

\* Through any number of crashes, and whether or not responses are dropped,
\* the events and the state are those of a validator that never crashed, at
\* their own heights.
THEOREM StoresAreCertified == Spec => []StoresMatchCertified
<1>1. IInv => StoresMatchCertified
  BY DEF IInv, StoreInv
<1> QED
  BY <1>1, Invariance, PTL

\* Through any number of crashes, a node records for every height the result
\* the network certifies, until a response is dropped.
THEOREM ResultsAreCertified == Spec => []ResultsMatchCertified
<1>1. IInv => ResultsMatchCertified
  BY DEF IInv, RecordInv, ResultsMatchCertified
<1> QED
  BY <1>1, Invariance, PTL

\* What lies behind marshal's save point is recorded: a block is not lost,
\* wherever the node crashed, until a response is dropped.
THEOREM NothingLostBehindSavePoint == Spec => []SavePointIsRecorded
<1>1. IInv => SavePointIsRecorded
  BY DEF IInv, StoreInv, RecordInv, ProgressInv, SavePointIsRecorded
<1> QED
  BY <1>1, Invariance, PTL

\* execute_state_transition hands the prover a range of events that is not
\* empty, until a response is dropped: NZU64! does not panic.
THEOREM ProofsAreNeverEmpty == Spec => []NoEmptyProof
<1>1. IInv => NoEmptyProof
  BY DEF IInv
<1> QED
  BY <1>1, Invariance, PTL

\* No transaction takes effect twice, in one block or in two, through crashes
\* and redelivery: what the events hold lies behind its account's nonce.
THEOREM TransactionsTakeEffectOnce == Spec => []NoTransactionTwice
<1>1. IInv => NoTransactionTwice
  <2> SUFFICES ASSUME IInv PROVE NoTransactionTwice OBVIOUS
  <2>1. events.height \in 0 .. Len(chain)
    BY DEF IInv, StoreInv, ChainInv, ProgressInv, IsTuple
  <2>2. Sound(StoresAt(events.height)) BY <2>1 DEF IInv, StoreInv, ChainInv
  <2>3. events.contents = StoresAt(events.height).events.contents
    BY DEF IInv, StoreInv, StoresMatchCertified
  <2>4. Distinct(events.contents) /\ events.contents \in Seq(Txs) BY <2>2, <2>3 DEF Sound
  <2>5. DOMAIN events.contents = 1 .. Len(events.contents) BY <2>4
  <2> QED BY <2>4, <2>5, Zenon DEF Distinct, NoTransactionTwice
<1> QED
  BY <1>1, Invariance, PTL

================================================================================
