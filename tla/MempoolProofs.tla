----------------------------- MODULE MempoolProofs -----------------------------
(***************************************************************************)
(* Proofs about the mempool, for every set of accounts and every value of  *)
(* the limits.                                                             *)
(***************************************************************************)
EXTENDS Mempool, FiniteSetTheorems, FunctionTheorems, SequenceTheorems,
        WellFoundedInduction, TLAPS

\* Every nonempty set of naturals has a least element.
LEMMA LeastExists ==
    ASSUME NEW S \in SUBSET Nat, S # {}
    PROVE  \E x \in S : \A y \in S : x <= y
<1>1. PICK x \in S : \A y \in S : ~ (<<y, x>> \in OpToRel(<, Nat))
  BY WFMin, NatLessThanWellFounded
<1>2. \A y \in S : ~ (y < x)
  BY <1>1 DEF OpToRel
<1> QED
  BY <1>2

\* pop_first of a nonempty entry takes a member with the least nonce.
LEMMA LowestInEntry ==
    ASSUME NEW E \in SUBSET Txs, E # {}
    PROVE  Lowest(E) \in E /\ \A u \in E : Lowest(E).nonce <= u.nonce
<1>1. NoncesOf(E) \in SUBSET Nat /\ NoncesOf(E) # {}
  BY LimitsAssumption DEF NoncesOf, Txs, Nonces
<1>2. PICK n \in NoncesOf(E) : \A k \in NoncesOf(E) : n <= k
  BY <1>1, LeastExists
<1>3. PICK t \in E : t.nonce = n
  BY <1>2 DEF NoncesOf
<1>4. \A u \in E : t.nonce <= u.nonce
  BY <1>2, <1>3 DEF NoncesOf
<1> QED
  BY <1>3, <1>4 DEF Lowest

\* pop_last of a nonempty entry takes a member with the largest nonce.
LEMMA FurthestInEntry ==
    ASSUME NEW E \in SUBSET Txs, E # {}
    PROVE  Furthest(E) \in E /\ \A u \in E : u.nonce <= Furthest(E).nonce
<1> DEFINE D == {MaxNonce - t.nonce : t \in E}
<1>1. D \in SUBSET Nat /\ D # {}
  BY LimitsAssumption DEF Txs, Nonces
<1>2. PICK n \in D : \A k \in D : n <= k
  BY <1>1, LeastExists
<1>3. PICK t \in E : MaxNonce - t.nonce = n
  BY <1>2
<1>4. ASSUME NEW u \in E PROVE u.nonce <= t.nonce
  <2>1. MaxNonce - t.nonce <= MaxNonce - u.nonce
    BY <1>2, <1>3
  <2> QED
    BY <2>1, LimitsAssumption DEF Txs, Nonces
<1> QED
  BY <1>3, <1>4 DEF Furthest

----------------------------------------------------------------------------
\* Compacting the queue yields a queue, in which every account that was in
\* the old one and is kept by the filter still has an entry.
LEMMA CompactKeeps ==
    ASSUME NEW q \in Seq(Accounts), NEW S
    PROVE  /\ Compact(q, S) \in Seq(Accounts)
           /\ \A i \in DOMAIN q : q[i] \in S =>
                 \E n \in DOMAIN Compact(q, S) : Compact(q, S)[n] = q[i]
<1> DEFINE K == Positions(q, S)
           c == Cardinality(K)
           r == [i \in K |-> Rank(K, i)]
<1>1. K \subseteq 1 .. Len(q) /\ Len(q) \in Nat
  BY DEF Positions
<1>2. IsFiniteSet(K) /\ c \in Nat
  <2>1. IsFiniteSet(1 .. Len(q))
    BY <1>1, FS_Interval
  <2> QED
    BY <1>1, <2>1, FS_Subset, FS_CardinalityType
<1>3. ASSUME NEW i \in K
      PROVE  /\ IsFiniteSet({j \in K : j <= i})
             /\ Rank(K, i) \in 1 .. c
  <2> DEFINE B == {j \in K : j <= i}
  <2>1. B \in SUBSET K /\ i \in B
    BY <1>1
  <2>2. IsFiniteSet(B) /\ Cardinality(B) <= c /\ Cardinality(B) \in Nat
    BY <1>2, <2>1, FS_Subset, FS_CardinalityType
  <2>3. Cardinality(B) # 0
    BY <2>1, <2>2, FS_EmptySet
  <2> QED
    BY <1>2, <2>2, <2>3 DEF Rank
<1>4. ASSUME NEW i \in K, NEW j \in K, i < j
      PROVE  Rank(K, i) # Rank(K, j)
  <2> DEFINE Bi == {k \in K : k <= i}
             Bj == {k \in K : k <= j}
  <2>1. Bi \in SUBSET Bj /\ j \in Bj /\ j \notin Bi
    BY <1>1, <1>4
  <2>2. IsFiniteSet(Bj)
    BY <1>3
  <2>3. Cardinality(Bj) = Cardinality(Bi) => Bj = Bi
    BY <2>1, <2>2, FS_Subset
  <2> QED
    BY <2>1, <2>3 DEF Rank
<1>5. \A i, j \in K : Rank(K, i) = Rank(K, j) => i = j
  <2> SUFFICES ASSUME NEW i \in K, NEW j \in K, i # j PROVE Rank(K, i) # Rank(K, j)
    OBVIOUS
  <2>1. i < j \/ j < i
    BY <1>1
  <2> QED
    BY <2>1, <1>4
<1>6. r \in Injection(K, 1 .. c)
  BY <1>3, <1>5 DEF Injection, IsInjective
<1>7. Cardinality(1 .. c) = c /\ IsFiniteSet(1 .. c)
  BY <1>2, FS_Interval
<1>8. r \in Surjection(K, 1 .. c)
  BY <1>6, <1>7, FS_Injection
<1>9. ASSUME NEW n \in 1 .. c
      PROVE  \E i \in K : Rank(K, i) = n
  BY <1>8 DEF Surjection
<1>10. Compact(q, S) = [n \in 1 .. c |-> q[CHOOSE i \in K : Rank(K, i) = n]]
  BY DEF Compact
<1>11. ASSUME NEW n \in 1 .. c
       PROVE  q[CHOOSE i \in K : Rank(K, i) = n] \in Accounts
  <2>1. (CHOOSE i \in K : Rank(K, i) = n) \in K
    BY <1>9
  <2> QED
    BY <2>1, <1>1
<1>12. Compact(q, S) \in Seq(Accounts)
  <2>1. Compact(q, S) \in [1 .. c -> Accounts]
    BY <1>10, <1>11
  <2> QED
    BY <1>2, <2>1
<1>13. ASSUME NEW i \in DOMAIN q, q[i] \in S
       PROVE  \E n \in DOMAIN Compact(q, S) : Compact(q, S)[n] = q[i]
  <2>1. i \in K
    BY <1>13 DEF Positions
  <2>2. Rank(K, i) \in 1 .. c
    BY <2>1, <1>3
  <2>3. (CHOOSE j \in K : Rank(K, j) = Rank(K, i)) = i
    BY <2>1, <1>5
  <2> QED
    BY <2>2, <2>3, <1>10
<1> QED
  BY <1>12, <1>13

----------------------------------------------------------------------------
\* The inductive invariant.  NoneStranded needs IndexesAgree (what is served
\* is tracked), WithinLimits needs the pool to be finite, and the action
\* property needs to know that a call in progress has returned nothing yet.
IInv ==
    /\ TypeOK
    /\ IsFiniteSet(transactions)
    /\ IndexesAgree
    /\ NoneStranded
    /\ WithinLimits
    /\ mode = "next" => returned = None

\* The pool starts empty and consistent.
LEMMA InitIInv == Init => IInv
<1> SUFFICES ASSUME Init PROVE IInv
  OBVIOUS
<1>1. IsFiniteSet({}) /\ Cardinality({}) = 0
  BY FS_EmptySet
<1>2. TypeOK
  BY LimitsAssumption DEF Init, TypeOK
<1> QED
  BY <1>1, <1>2, LimitsAssumption
     DEF Init, IInv, IndexesAgree, NoneStranded, WithinLimits

\* What is tracked for an account is a finite set of its transactions.
LEMMA TrackedFinite ==
    ASSUME IInv, NEW a \in Accounts
    PROVE  /\ tracked[a] \in SUBSET Txs
           /\ tracked[a] \subseteq transactions
           /\ IsFiniteSet(tracked[a])
           /\ Cardinality(tracked[a]) \in Nat
           /\ Cardinality(tracked[a]) <= MaxBacklog
<1>1. tracked[a] \in SUBSET Txs /\ tracked[a] \subseteq transactions
  BY DEF IInv, TypeOK, IndexesAgree
<1>2. IsFiniteSet(tracked[a])
  BY <1>1, FS_Subset DEF IInv
<1> QED
  BY <1>1, <1>2, FS_CardinalityType DEF IInv, WithinLimits

\* Adding a transaction keeps the pool consistent and within its limits.
LEMMA AddIInv == ASSUME IInv, NEW tx \in Txs, Add(tx) PROVE IInv'
<1> DEFINE a == tx.public
           old == tracked[a]
           entry == Insert(old, tx)
<1>1. a \in Accounts /\ tx.nonce \in Nat
  BY LimitsAssumption DEF Txs, Nonces
<1>2. /\ old \in SUBSET Txs
      /\ old \subseteq transactions
      /\ IsFiniteSet(old)
      /\ Cardinality(old) \in Nat
      /\ Cardinality(old) <= MaxBacklog
  BY <1>1, TrackedFinite
<1>3. tx \notin transactions /\ \A t \in old : t.nonce # tx.nonce
  BY DEF Add, CanAdd, NoncesOf
<1>4. entry = old \cup {tx} /\ tx \notin old
  BY <1>2, <1>3 DEF Insert
<1>5. IsFiniteSet(entry) /\ Cardinality(entry) = Cardinality(old) + 1
  BY <1>2, <1>4, FS_AddElement
<1>6. Evicted(entry) \subseteq entry
  BY <1>2, <1>4, FurthestInEntry DEF Evicted
<1>7. /\ tracked' = [tracked EXCEPT ![a] = entry \ Evicted(entry)]
      /\ transactions' = (transactions \cup {tx}) \ Evicted(entry)
      /\ queue' = IF Enqueues(tx, entry) THEN Append(queue, a) ELSE queue
      /\ queued' = IF Enqueues(tx, entry) THEN queued \cup {a} ELSE queued
      /\ UNCHANGED <<mode, staleSkips, returned>>
      /\ mode = "idle"
  BY DEF Add
<1>8. /\ IsFiniteSet(entry \ Evicted(entry))
      /\ Cardinality(entry \ Evicted(entry)) <= MaxBacklog
      /\ entry \ Evicted(entry) # {}
  <2>1. CASE Overflows(entry)
    <3>1. Evicted(entry) = {Furthest(entry)} /\ Furthest(entry) \in entry
      BY <1>6, <2>1 DEF Evicted
    <3>2. /\ IsFiniteSet(entry \ {Furthest(entry)})
          /\ Cardinality(entry \ {Furthest(entry)}) = Cardinality(old)
      BY <1>2, <1>5, <3>1, FS_RemoveElement
    <3>3. Cardinality(old) # 0
      BY <1>2, <1>5, <2>1, LimitsAssumption DEF Overflows
    <3> QED
      BY <1>2, <3>1, <3>2, <3>3, FS_EmptySet
  <2>2. CASE ~Overflows(entry)
    BY <1>2, <1>4, <1>5, <2>2, LimitsAssumption DEF Evicted, Overflows
  <2> QED
    BY <2>1, <2>2
<1>9. IsFiniteSet(transactions') /\ Cardinality(transactions') <= MaxTransactions
  <2>1. /\ IsFiniteSet(transactions \cup {tx})
        /\ Cardinality(transactions \cup {tx}) = Cardinality(transactions) + 1
    BY <1>3, FS_AddElement DEF IInv
  <2>2. Cardinality(transactions) \in Nat /\ Cardinality(transactions) < MaxTransactions
    BY FS_CardinalityType DEF Add, CanAdd, IInv
  <2>3. transactions' \in SUBSET (transactions \cup {tx})
    BY <1>7
  <2>4. /\ IsFiniteSet(transactions')
        /\ Cardinality(transactions') <= Cardinality(transactions \cup {tx})
    BY <2>1, <2>3, FS_Subset
  <2>5. Cardinality(transactions') \in Nat
    BY <2>4, FS_CardinalityType
  <2> QED
    BY <2>1, <2>2, <2>4, <2>5, LimitsAssumption
<1>10. TypeOK'
  <2>1. queue' \in Seq(Accounts)
    BY <1>1, <1>7 DEF IInv, TypeOK
  <2>2. entry \ Evicted(entry) \in SUBSET Txs
    BY <1>2, <1>4
  <2> QED
    BY <1>1, <1>7, <2>1, <2>2 DEF IInv, TypeOK
<1>11. IndexesAgree'
  <2>1. \A b \in Accounts : tracked'[b] = {t \in transactions' : t.public = b}
    <3> SUFFICES ASSUME NEW b \in Accounts
                 PROVE  tracked'[b] = {t \in transactions' : t.public = b}
      OBVIOUS
    <3>0. tracked[b] = {t \in transactions : t.public = b}
      BY DEF IInv, IndexesAgree
    <3>1. CASE b = a
      BY <1>4, <1>7, <3>0, <3>1 DEF IInv, TypeOK
    <3>2. CASE b # a
      <4>1. \A t \in Evicted(entry) : t.public = a
        BY <1>1, <1>4, <1>6 DEF IInv, IndexesAgree
      <4> QED
        BY <1>7, <3>0, <3>2, <4>1 DEF IInv, TypeOK
    <3> QED
      BY <3>1, <3>2
  <2>2. \A t \in transactions : t.public = a => t \in old
    BY <1>1 DEF IInv, IndexesAgree
  <2>3. transactions' \subseteq transactions \cup {tx}
    BY <1>7
  <2>4. \A t, u \in transactions' : t.public = u.public /\ t.nonce = u.nonce => t = u
    BY <1>3, <2>2, <2>3 DEF IInv, IndexesAgree
  <2> QED
    BY <2>1, <2>4 DEF IndexesAgree
<1>12. NoneStranded'
  <2>1. \A b \in Accounts : b # a => tracked'[b] = tracked[b]
    BY <1>7 DEF IInv, TypeOK
  <2>2. tracked'[a] # {}
    BY <1>1, <1>7, <1>8 DEF IInv, TypeOK
  <2>3. a \in queued' /\ queued' \subseteq queued \cup {a} /\ queued \subseteq queued'
    <3>1. CASE a \in queued
      BY <1>7, <3>1
    <3>2. CASE a \notin queued
      <4>1. old = {}
        BY <1>1, <3>2 DEF IInv, NoneStranded
      <4>2. Cardinality(entry) = 1
        BY <1>5, <4>1, FS_EmptySet
      <4> QED
        BY <1>7, <3>2, <4>2 DEF Enqueues
    <3> QED
      BY <3>1, <3>2
  <2>4. ASSUME NEW b \in queued' PROVE \E i \in DOMAIN queue' : queue'[i] = b
    <3>1. queue \in Seq(Accounts) /\ queued \subseteq Accounts
      BY DEF IInv, TypeOK
    <3>2. \A c \in queued : \E i \in DOMAIN queue : queue[i] = c
      BY DEF IInv, NoneStranded
    <3>3. CASE Enqueues(tx, entry)
      <4>1. /\ DOMAIN queue' = 1 .. Len(queue) + 1
            /\ \A i \in DOMAIN queue : queue'[i] = queue[i]
            /\ DOMAIN queue = 1 .. Len(queue)
            /\ queue'[Len(queue) + 1] = a
        BY <1>1, <1>7, <3>1, <3>3
      <4> QED
        BY <1>7, <2>4, <3>1, <3>2, <3>3, <4>1
    <3>4. CASE ~Enqueues(tx, entry)
      BY <1>7, <2>4, <3>2, <3>4
    <3> QED
      BY <3>3, <3>4
  <2> QED
    BY <2>1, <2>2, <2>3, <2>4, <1>1 DEF IInv, NoneStranded
<1>13. WithinLimits'
  <2>1. ASSUME NEW b \in Accounts PROVE Cardinality(tracked'[b]) <= MaxBacklog
    <3>1. CASE b = a
      BY <1>7, <1>8, <3>1 DEF IInv, TypeOK
    <3>2. CASE b # a
      BY <1>7, <3>2 DEF IInv, TypeOK, WithinLimits
    <3> QED
      BY <3>1, <3>2
  <2> QED
    BY <1>9, <2>1 DEF WithinLimits
<1> QED
  BY <1>7, <1>9, <1>10, <1>11, <1>12, <1>13 DEF IInv

\* Dropping old nonces keeps the pool consistent; an emptied account leaves
\* `queued' and only its stale entry stays behind in the queue.
LEMMA RetainIInv ==
    ASSUME IInv, NEW a \in Accounts, NEW min \in 1 .. MaxNonce + 1, Retain(a, min)
    PROVE  IInv'
<1> DEFINE old == {t \in tracked[a] : t.nonce < min}
<1>1. /\ transactions' = transactions \ old
      /\ tracked' = [tracked EXCEPT ![a] = tracked[a] \ old]
      /\ queued' = IF old = tracked[a] THEN queued \ {a} ELSE queued
      /\ UNCHANGED <<queue, mode, staleSkips, returned>>
  BY DEF Retain
<1>2. IsFiniteSet(transactions') /\ Cardinality(transactions') <= MaxTransactions
  <2>1. transactions' \in SUBSET transactions /\ IsFiniteSet(transactions)
    BY <1>1 DEF IInv
  <2>2. /\ IsFiniteSet(transactions')
        /\ Cardinality(transactions') <= Cardinality(transactions)
    BY <2>1, FS_Subset
  <2>3. Cardinality(transactions') \in Nat /\ Cardinality(transactions) \in Nat
    BY <2>1, <2>2, FS_CardinalityType
  <2> QED
    BY <2>2, <2>3, LimitsAssumption DEF IInv, WithinLimits
<1>3. TypeOK'
  BY <1>1 DEF IInv, TypeOK
<1>4. IndexesAgree'
  <2>1. ASSUME NEW b \in Accounts
        PROVE  tracked'[b] = {t \in transactions' : t.public = b}
    <3>1. tracked[b] = {t \in transactions : t.public = b}
      BY DEF IInv, IndexesAgree
    <3>2. tracked[a] = {t \in transactions : t.public = a}
      BY DEF IInv, IndexesAgree
    <3>3. CASE b = a
      BY <1>1, <3>2, <3>3 DEF IInv, TypeOK
    <3>4. CASE b # a
      BY <1>1, <3>1, <3>2, <3>4 DEF IInv, TypeOK
    <3> QED
      BY <3>3, <3>4
  <2> QED
    BY <1>1, <2>1 DEF IInv, IndexesAgree
<1>5. NoneStranded'
  <2>1. \A b \in Accounts : b # a => tracked'[b] = tracked[b]
    BY <1>1 DEF IInv, TypeOK
  <2>2. tracked'[a] = tracked[a] \ old /\ tracked[a] # {} /\ a \in queued
    BY <1>1 DEF IInv, TypeOK, Retain, NoneStranded
  <2>3. tracked'[a] = {} <=> old = tracked[a]
    BY <2>2
  <2> QED
    BY <1>1, <2>1, <2>2, <2>3 DEF IInv, NoneStranded
<1>6. WithinLimits'
  <2>1. ASSUME NEW b \in Accounts PROVE Cardinality(tracked'[b]) <= MaxBacklog
    <3>1. /\ IsFiniteSet(tracked[b])
          /\ Cardinality(tracked[b]) <= MaxBacklog
          /\ Cardinality(tracked[b]) \in Nat
      BY TrackedFinite
    <3>2. tracked'[b] \in SUBSET tracked[b]
      BY <1>1 DEF IInv, TypeOK
    <3>3. /\ Cardinality(tracked'[b]) <= Cardinality(tracked[b])
          /\ IsFiniteSet(tracked'[b])
      BY <3>1, <3>2, FS_Subset
    <3>4. Cardinality(tracked'[b]) \in Nat
      BY <3>3, FS_CardinalityType
    <3> QED
      BY <3>1, <3>3, <3>4, LimitsAssumption
  <2> QED
    BY <1>2, <2>1 DEF WithinLimits
<1> QED
  BY <1>1, <1>2, <1>3, <1>4, <1>5, <1>6 DEF IInv

----------------------------------------------------------------------------
\* Skipping a stale entry, with or without a compaction, strands nobody.
LEMMA NextSkipIInv == ASSUME IInv, NextSkip PROVE IInv'
<1> DEFINE h == Head(queue)
<1>1. /\ queue \in Seq(Accounts)
      /\ queue # <<>>
      /\ h \in Accounts
      /\ Tail(queue) \in Seq(Accounts)
      /\ h = queue[1]
      /\ Len(queue) \in Nat
      /\ Len(Tail(queue)) = Len(queue) - 1
      /\ \A i \in 1 .. Len(Tail(queue)) : Tail(queue)[i] = queue[i + 1]
  BY HeadTailProperties DEF NextSkip, IInv, TypeOK
<1>2. h \notin queued /\ queued' = queued
  BY <1>1 DEF NextSkip, IInv, NoneStranded
<1>3. \A b \in queued : \E i \in DOMAIN Tail(queue) : Tail(queue)[i] = b
  <2> SUFFICES ASSUME NEW b \in queued
               PROVE  \E i \in DOMAIN Tail(queue) : Tail(queue)[i] = b
    OBVIOUS
  <2>1. PICK i \in DOMAIN queue : queue[i] = b
    BY DEF IInv, NoneStranded
  <2>2. i \in 1 .. Len(queue) /\ i # 1
    BY <1>1, <1>2, <2>1
  <2>3. i - 1 \in 1 .. Len(Tail(queue)) /\ Tail(queue)[i - 1] = b
    BY <1>1, <2>1, <2>2
  <2>4. i - 1 \in DOMAIN Tail(queue)
    BY <1>1, <2>3
  <2> QED
    BY <2>3, <2>4
<1>4. queue' = Tail(queue) \/ queue' = Compact(Tail(queue), queued)
  BY <1>2 DEF NextSkip
<1>5. queue' \in Seq(Accounts) /\ \A b \in queued : \E i \in DOMAIN queue' : queue'[i] = b
  <2>1. CASE queue' = Tail(queue)
    BY <1>1, <1>3, <2>1
  <2>2. CASE queue' = Compact(Tail(queue), queued)
    <3>1. ASSUME NEW b \in queued PROVE \E i \in DOMAIN queue' : queue'[i] = b
      <4>1. PICK i \in DOMAIN Tail(queue) : Tail(queue)[i] = b
        BY <1>3
      <4>2. \E n \in DOMAIN Compact(Tail(queue), queued) :
               Compact(Tail(queue), queued)[n] = Tail(queue)[i]
        <5>1. Tail(queue) \in Seq(Accounts) /\ Tail(queue)[i] \in queued
          BY <1>1, <4>1
        <5> QED
          BY <5>1, CompactKeeps, Zenon
      <4> QED
        BY <2>2, <4>1, <4>2
    <3> QED
      BY <1>1, <2>2, <3>1, CompactKeeps
  <2> QED
    BY <1>4, <2>1, <2>2
<1>6. staleSkips' \in 0 .. CompactAfter - 1
  BY LimitsAssumption DEF NextSkip, IInv, TypeOK
<1>7. UNCHANGED <<transactions, tracked, mode, returned>>
  BY DEF NextSkip
<1> QED
  BY <1>2, <1>5, <1>6, <1>7
     DEF IInv, TypeOK, IndexesAgree, NoneStranded, WithinLimits

\* Serving an account keeps everybody else's place and, if it has more, gives
\* it a new one.
LEMMA NextServeIInv == ASSUME IInv, NextServe PROVE IInv'
<1> DEFINE h == Head(queue)
           tx == Lowest(tracked[h])
           more == tracked[h] # {tx}
<1>1. /\ queue \in Seq(Accounts)
      /\ queue # <<>>
      /\ h \in Accounts
      /\ Tail(queue) \in Seq(Accounts)
      /\ h = queue[1]
      /\ Len(queue) \in Nat
      /\ Len(Tail(queue)) = Len(queue) - 1
      /\ \A i \in 1 .. Len(Tail(queue)) : Tail(queue)[i] = queue[i + 1]
  BY HeadTailProperties DEF NextServe, IInv, TypeOK
<1>2. /\ tracked' = [tracked EXCEPT ![h] = tracked[h] \ {tx}]
      /\ transactions' = transactions \ {tx}
      /\ queue' = IF more THEN Append(Tail(queue), h) ELSE Tail(queue)
      /\ queued' = IF more THEN queued ELSE queued \ {h}
      /\ returned' = tx
      /\ mode' = "idle"
      /\ UNCHANGED staleSkips
      /\ h \in queued
      /\ tracked[h] # {}
  BY DEF NextServe
<1>3. tx \in tracked[h] /\ tracked[h] \in SUBSET Txs /\ tx \in Txs
  BY <1>1, <1>2, LowestInEntry, TrackedFinite
<1>4. \A b \in queued : b # h => \E i \in DOMAIN Tail(queue) : Tail(queue)[i] = b
  <2> SUFFICES ASSUME NEW b \in queued, b # h
               PROVE  \E i \in DOMAIN Tail(queue) : Tail(queue)[i] = b
    OBVIOUS
  <2>1. PICK i \in DOMAIN queue : queue[i] = b
    BY DEF IInv, NoneStranded
  <2>2. i \in 1 .. Len(queue) /\ i # 1
    BY <1>1, <2>1
  <2>3. i - 1 \in 1 .. Len(Tail(queue)) /\ Tail(queue)[i - 1] = b
    BY <1>1, <2>1, <2>2
  <2>4. i - 1 \in DOMAIN Tail(queue)
    BY <1>1, <2>3
  <2> QED
    BY <2>3, <2>4
<1>5. queue' \in Seq(Accounts) /\ \A b \in queued' : \E i \in DOMAIN queue' : queue'[i] = b
  <2>1. CASE more
    <3>1. /\ queue' \in Seq(Accounts)
          /\ DOMAIN queue' = 1 .. Len(Tail(queue)) + 1
          /\ DOMAIN Tail(queue) = 1 .. Len(Tail(queue))
          /\ \A i \in 1 .. Len(Tail(queue)) : queue'[i] = Tail(queue)[i]
          /\ queue'[Len(Tail(queue)) + 1] = h
      BY <1>1, <1>2, <2>1, AppendProperties
    <3>2. Len(Tail(queue)) \in Nat
      BY <1>1
    <3>3. \E i \in DOMAIN queue' : queue'[i] = h
      BY <3>1, <3>2
    <3>4. ASSUME NEW b \in queued, b # h PROVE \E i \in DOMAIN queue' : queue'[i] = b
      <4>1. PICK i \in DOMAIN Tail(queue) : Tail(queue)[i] = b
        BY <1>4, <3>4
      <4> QED
        BY <3>1, <3>2, <4>1
    <3> QED
      BY <1>2, <2>1, <3>1, <3>3, <3>4
  <2>2. CASE ~more
    BY <1>1, <1>2, <1>4, <2>2
  <2> QED
    BY <2>1, <2>2
<1>6. TypeOK'
  BY <1>1, <1>2, <1>3, <1>5 DEF IInv, TypeOK
<1>7. IsFiniteSet(transactions') /\ Cardinality(transactions') <= MaxTransactions
  <2>1. IsFiniteSet(transactions) /\ tx \in transactions
    BY <1>1, <1>3, TrackedFinite DEF IInv
  <2>2. /\ IsFiniteSet(transactions')
        /\ Cardinality(transactions') = Cardinality(transactions) - 1
        /\ Cardinality(transactions) \in Nat
    BY <1>2, <2>1, FS_RemoveElement, FS_CardinalityType
  <2> QED
    BY <2>2, LimitsAssumption DEF IInv, WithinLimits
<1>8. IndexesAgree'
  <2>1. ASSUME NEW b \in Accounts
        PROVE  tracked'[b] = {t \in transactions' : t.public = b}
    <3>1. tracked[b] = {t \in transactions : t.public = b}
      BY DEF IInv, IndexesAgree
    <3>2. tracked[h] = {t \in transactions : t.public = h}
      BY <1>1 DEF IInv, IndexesAgree
    <3>3. CASE b = h
      BY <1>2, <3>2, <3>3 DEF IInv, TypeOK
    <3>4. CASE b # h
      BY <1>2, <1>3, <3>1, <3>2, <3>4 DEF IInv, TypeOK
    <3> QED
      BY <3>3, <3>4
  <2> QED
    BY <1>2, <2>1 DEF IInv, IndexesAgree
<1>9. NoneStranded'
  <2>1. \A b \in Accounts : b # h => tracked'[b] = tracked[b]
    BY <1>2 DEF IInv, TypeOK
  <2>2. tracked'[h] = tracked[h] \ {tx}
    BY <1>1, <1>2 DEF IInv, TypeOK
  <2>3. tracked'[h] # {} <=> more
    BY <1>3, <2>2
  <2>4. \A b \in Accounts : b \in queued' <=> tracked'[b] # {}
    BY <1>1, <1>2, <2>1, <2>3 DEF IInv, NoneStranded
  <2> QED
    BY <1>5, <2>4 DEF NoneStranded
<1>10. WithinLimits'
  <2>1. ASSUME NEW b \in Accounts PROVE Cardinality(tracked'[b]) <= MaxBacklog
    <3>1. /\ IsFiniteSet(tracked[b])
          /\ Cardinality(tracked[b]) <= MaxBacklog
          /\ Cardinality(tracked[b]) \in Nat
      BY TrackedFinite
    <3>2. tracked'[b] \in SUBSET tracked[b]
      BY <1>2 DEF IInv, TypeOK
    <3>3. /\ Cardinality(tracked'[b]) <= Cardinality(tracked[b])
          /\ IsFiniteSet(tracked'[b])
      BY <3>1, <3>2, FS_Subset
    <3>4. Cardinality(tracked'[b]) \in Nat
      BY <3>3, FS_CardinalityType
    <3> QED
      BY <3>1, <3>3, <3>4, LimitsAssumption
  <2> QED
    BY <1>7, <2>1 DEF WithinLimits
<1> QED
  BY <1>2, <1>6, <1>7, <1>8, <1>9, <1>10 DEF IInv

\* Every step of the pool preserves the invariant.
LEMMA NextIInv == IInv /\ [Next]_vars => IInv'
<1> SUFFICES ASSUME IInv, [Next]_vars PROVE IInv'
  OBVIOUS
<1>1. ASSUME NEW tx \in Txs, Add(tx) PROVE IInv'
  BY <1>1, AddIInv
<1>2. ASSUME NEW a \in Accounts, NEW min \in 1 .. MaxNonce + 1, Retain(a, min) PROVE IInv'
  BY <1>2, RetainIInv
<1>3. CASE NextCall
  BY <1>3, LimitsAssumption
     DEF NextCall, IInv, TypeOK, IndexesAgree, NoneStranded, WithinLimits
<1>4. CASE NextEmpty
  BY <1>4 DEF NextEmpty, IInv, TypeOK, IndexesAgree, NoneStranded, WithinLimits
<1>5. CASE NextSkip
  BY <1>5, NextSkipIInv
<1>6. CASE NextServe
  BY <1>6, NextServeIInv
<1>7. CASE UNCHANGED vars
  BY <1>7 DEF vars, IInv, TypeOK, IndexesAgree, NoneStranded, WithinLimits
<1> QED
  BY <1>1, <1>2, <1>3, <1>4, <1>5, <1>6, <1>7 DEF Next

\* The inductive invariant holds in every state of the pool.
THEOREM Invariance == Spec => []IInv
  BY InitIInv, NextIInv, PTL DEF Spec

\* The variables of the pool keep their types.
THEOREM TypeCorrect == Spec => []TypeOK
<1>1. IInv => TypeOK
  BY DEF IInv
<1> QED
  BY <1>1, Invariance, PTL

\* The index by digest and the index by account and nonce never disagree, so
\* the expect of `next' on the transactions map cannot fail.
THEOREM IndexesAlwaysAgree == Spec => []IndexesAgree
<1>1. IInv => IndexesAgree
  BY DEF IInv
<1> QED
  BY <1>1, Invariance, PTL

\* Whatever the order of add, retain, next and compactions, an account is
\* queued exactly while it has pooled transactions, and then has an entry in
\* the queue for `next' to reach.
THEOREM NobodyIsStranded == Spec => []NoneStranded
<1>1. IInv => NoneStranded
  BY DEF IInv
<1> QED
  BY <1>1, Invariance, PTL

\* Both limits hold in every state, for every value of the limits.
THEOREM LimitsHold == Spec => []WithinLimits
<1>1. IInv => WithinLimits
  BY DEF IInv
<1> QED
  BY <1>1, Invariance, PTL

\* What a call of `next' may do in one step.
LosslessStep ==
    mode = "next" =>
      /\ transactions \ transactions' \subseteq {returned'}
      /\ mode' = "idle" /\ returned' = None => transactions = {}
      /\ returned' # None =>
           \A t \in transactions :
              t.public = returned'.public => returned'.nonce <= t.nonce

\* No call of `next' loses a transaction, returns None while any is pooled,
\* or returns a transaction ahead of a lower nonce of the same account.
THEOREM NextLosesNothing == Spec => NextIsLossless
<1>1. IInv /\ [Next]_vars => [LosslessStep]_vars
  <2> SUFFICES ASSUME IInv, Next, mode = "next" PROVE LosslessStep
    BY DEF LosslessStep
  <2>1. returned = None
    BY DEF IInv
  <2>2. CASE NextEmpty
    <3>1. queued = {}
      BY <2>2 DEF NextEmpty, IInv, NoneStranded
    <3>2. \A a \in Accounts : tracked[a] = {}
      BY <3>1 DEF IInv, NoneStranded
    <3>3. \A t \in transactions : t \in tracked[t.public] /\ t.public \in Accounts
      BY DEF IInv, IndexesAgree, TypeOK, Txs
    <3>4. transactions = {}
      BY <3>2, <3>3
    <3> QED
      BY <2>1, <2>2, <3>4 DEF NextEmpty, LosslessStep
  <2>3. CASE NextSkip
    BY <2>1, <2>3 DEF NextSkip, LosslessStep
  <2>4. CASE NextServe
    <3> DEFINE h == Head(queue)
    <3>1. h \in Accounts /\ tracked[h] # {} /\ returned' = Lowest(tracked[h])
      BY <2>4, HeadTailProperties DEF NextServe, IInv, TypeOK
    <3>2. tracked[h] \in SUBSET Txs /\ tracked[h] = {t \in transactions : t.public = h}
      BY <3>1, TrackedFinite DEF IInv, IndexesAgree
    <3>3. /\ returned' \in tracked[h]
          /\ \A u \in tracked[h] : returned'.nonce <= u.nonce
      BY <3>1, <3>2, LowestInEntry
    <3>4. returned' # None
      BY <3>2, <3>3, NoneAssumption
    <3> QED
      BY <2>4, <3>1, <3>2, <3>3, <3>4 DEF NextServe, LosslessStep
  <2> QED
    BY <2>2, <2>3, <2>4 DEF Next, Add, Retain, NextCall
<1>2. [][LosslessStep]_vars => NextIsLossless
  BY PTL DEF NextIsLossless, LosslessStep
<1> QED
  BY <1>1, <1>2, Invariance, PTL DEF Spec

----------------------------------------------------------------------------
(* The mempool implements the abstract pool of transactions.               *)

\* What is tracked is what is pooled.
LEMMA PooledIsTransactions == ASSUME IInv PROVE Pool!Pooled = transactions
<1>1. \A a \in Accounts : tracked[a] = {t \in transactions : t.public = a}
  BY DEF IInv, IndexesAgree
<1>2. \A t \in transactions : t.public \in Accounts
  BY DEF IInv, TypeOK, Txs
<1> QED
  BY <1>1, <1>2 DEF Pool!Pooled

\* The abstract pool counts with the same operator.
LEMMA PoolCardinality == ASSUME NEW S PROVE Pool!Cardinality(S) = Cardinality(S)
  BY Zenon DEF Cardinality, Pool!Cardinality

\* An addition is a submission: refused for the same reasons, and what the limit
\* pushes out is the furthest nonce of the account.
LEMMA AddSubmits == ASSUME IInv, NEW tx \in Txs, Add(tx) PROVE Pool!Submit(tx)
<1> DEFINE a == tx.public
           all == tracked[a] \cup {tx}
<1>1. a \in Accounts /\ tracked[a] \in SUBSET Txs /\ tx \in Txs
  BY TrackedFinite DEF Txs
<1>2. \A t \in tracked[a] : t.nonce # tx.nonce
  BY DEF Add, CanAdd, NoncesOf
<1>3. Insert(tracked[a], tx) = all
  BY <1>2 DEF Insert
<1>4. Pool!Cardinality(Pool!Pooled) < MaxTransactions
  BY PooledIsTransactions, PoolCardinality DEF Add, CanAdd
<1>5. /\ tracked' = [tracked EXCEPT ![a] = all \ Evicted(all)]
      /\ mode = "idle" /\ mode' = mode /\ returned' = returned
  BY <1>3 DEF Add
<1>6. Cardinality(all) \in Nat /\ MaxBacklog \in Nat
  <2>1. IsFiniteSet(all)
    BY <1>1, TrackedFinite, FS_AddElement
  <2> QED
    BY <2>1, FS_CardinalityType, LimitsAssumption
<1>7. CASE Overflows(all)
  <2>1. all \in SUBSET Txs /\ all # {}
    BY <1>1
  <2>2. Furthest(all) \in all /\ \A t \in all : t.nonce <= Furthest(all).nonce
    BY <2>1, FurthestInEntry
  <2>3. tracked' = [tracked EXCEPT ![a] = all \ {Furthest(all)}]
    BY <1>5, <1>7 DEF Evicted
  <2>4. Pool!Cardinality(all) > MaxBacklog
    BY <1>7, PoolCardinality DEF Overflows
  <2> HIDE DEF all
  <2>5. \E last \in all : /\ \A t \in all : t.nonce <= last.nonce
                          /\ tracked' = [tracked EXCEPT ![a] = all \ {last}]
    BY <2>2, <2>3
  <2> QED
    BY <1>2, <1>4, <1>5, <2>4, <2>5, Zenon DEF Pool!Submit, all
<1>8. CASE ~Overflows(all)
  <2>1. Pool!Cardinality(all) <= MaxBacklog
    BY <1>6, <1>8, PoolCardinality DEF Overflows
  <2>2. tracked' = [tracked EXCEPT ![a] = all]
    BY <1>5, <1>8 DEF Evicted
  <2> QED
    BY <1>2, <1>4, <1>5, <2>1, <2>2, Zenon DEF Pool!Submit
<1> QED
  BY <1>7, <1>8

\* Retaining forgets what lies below the nonce.
LEMMA RetainForgets ==
    ASSUME IInv, NEW a \in Accounts, NEW min \in 1 .. MaxNonce + 1, Retain(a, min)
    PROVE  Pool!Forget(a, min)
<1>1. \A t \in tracked[a] : t.nonce \in Nat
  BY TrackedFinite, LimitsAssumption DEF Txs, Nonces
<1>2. min \in Nat
  BY LimitsAssumption
<1>3. tracked[a] \ {t \in tracked[a] : t.nonce < min} = {t \in tracked[a] : t.nonce >= min}
  BY <1>1, <1>2
<1>4. tracked' = [tracked EXCEPT ![a] = {t \in tracked[a] : t.nonce >= min}]
  BY <1>3 DEF Retain
<1>5. mode = "idle" /\ mode' = mode /\ returned' = returned
  BY DEF Retain
<1> QED
  BY <1>4, <1>5, Zenon DEF Pool!Forget

\* A call that finds the queue empty finds the pool empty.
LEMMA EmptyComesBack == ASSUME IInv, NextEmpty PROVE Pool!ComeBackEmpty
<1>1. queued = {}
  BY DEF NextEmpty, IInv, NoneStranded
<1>2. \A a \in Accounts : tracked[a] = {}
  BY <1>1 DEF IInv, NoneStranded
<1>3. Pool!Pooled = {}
  BY <1>2 DEF Pool!Pooled
<1>4. mode = "next" /\ mode' = "idle" /\ UNCHANGED <<tracked, returned>>
  BY DEF NextEmpty
<1> QED
  BY <1>3, <1>4, Zenon DEF Pool!ComeBackEmpty

\* A call that serves an account takes its lowest nonce.
LEMMA ServeTakes == ASSUME IInv, NextServe PROVE \E a \in Accounts : Pool!Take(a)
<1> DEFINE h == Head(queue)
           tx == Lowest(tracked[h])
<1>1. h \in Accounts /\ tracked[h] # {}
  BY HeadTailProperties DEF NextServe, IInv, TypeOK
<1>2. tracked[h] \in SUBSET Txs
  BY <1>1, TrackedFinite
<1>3. tx \in tracked[h] /\ \A t \in tracked[h] : tx.nonce <= t.nonce
  BY <1>1, <1>2, LowestInEntry
<1>4. /\ mode = "next" /\ mode' = "idle" /\ returned' = tx
      /\ tracked' = [tracked EXCEPT ![h] = tracked[h] \ {tx}]
  BY DEF NextServe
<1> HIDE DEF h, tx
<1>5. \E x \in tracked[h] : /\ \A t \in tracked[h] : x.nonce <= t.nonce
                            /\ returned' = x
                            /\ tracked' = [tracked EXCEPT ![h] = tracked[h] \ {x}]
  BY <1>3, <1>4
<1>6. Pool!Take(h)
  BY <1>4, <1>5, Zenon DEF Pool!Take
<1> QED
  BY <1>1, <1>6

\* The mempool, with its queue of live and stale entries and its compactions,
\* implements the bounded pool that the application relies on: for all
\* limits, a call takes the lowest nonce of some account, loses nothing else, and
\* returns None only when nothing is pooled.
THEOREM PoolImplemented == Spec => PoolIsImplemented
<1>1. Init => Pool!PoolInit
  BY Zenon DEF Init, Pool!PoolInit
<1>2. ASSUME IInv, [Next]_vars
      PROVE  [Pool!PoolNext]_<<tracked, mode = "next", returned>>
  <2>1. ASSUME NEW tx \in Txs, Add(tx) PROVE Pool!PoolNext
    BY <1>2, <2>1, AddSubmits DEF Pool!PoolNext, Pool!PoolTxs, Txs
  <2>2. ASSUME NEW a \in Accounts, NEW min \in 1 .. MaxNonce + 1, Retain(a, min)
        PROVE  Pool!PoolNext
    <3>1. min - 1 \in Nonces /\ min = (min - 1) + 1
      BY LimitsAssumption DEF Nonces
    <3>2. min \in {n + 1 : n \in Nonces}
      BY <3>1
    <3>3. Pool!Forget(a, min)
      BY <1>2, <2>2, RetainForgets
    <3> QED
      BY <3>2, <3>3, Zenon DEF Pool!PoolNext
  <2>3. CASE NextCall
    <3>1. mode = "idle" /\ mode' = "next" /\ returned' = None /\ UNCHANGED tracked
      BY <2>3 DEF NextCall
    <3>2. Pool!Ask
      BY <3>1, Zenon DEF Pool!Ask
    <3> QED
      BY <3>2 DEF Pool!PoolNext
  <2>4. CASE NextEmpty
    BY <1>2, <2>4, EmptyComesBack DEF Pool!PoolNext
  <2>5. CASE NextSkip
    BY <2>5 DEF NextSkip
  <2>6. CASE NextServe
    BY <1>2, <2>6, ServeTakes DEF Pool!PoolNext
  <2>7. CASE UNCHANGED vars
    BY <2>7 DEF vars
  <2> QED
    BY <1>2, <2>1, <2>2, <2>3, <2>4, <2>5, <2>6, <2>7 DEF Next
<1> QED
  BY <1>1, <1>2, Invariance, PTL DEF Spec, PoolIsImplemented, Pool!PoolSpec

================================================================================
