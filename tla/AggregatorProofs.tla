---------------------------- MODULE AggregatorProofs ---------------------------
(***************************************************************************)
(* The aggregator gives up proofs only behind the indexer, fetches every   *)
(* certificate it lacks and never drops a request unanswered, for any      *)
(* number of heights, upload slots and crashes, and any size of a blob.    *)
(***************************************************************************)
EXTENDS Aggregator, DataTheorems

\* What is missing is waited for, what is waited for is not there yet, and the
\* resolver is at it.
WaitingInv ==
    up => /\ Missing(certificates) \subseteq waiting
          /\ waiting \subseteq fetching
          /\ waiting \cap certificates = {}

\* Executed, and what a crash in the middle of it leaves: the block in hand is
\* the one after the last acknowledged, and either of its writes may be done.
WritesInv ==
    /\ executing \in {0, acked + 1}
    /\ writes # {} => executing # 0
    /\ executing # 0 /\ "proofs" \notin writes => executing \in cache
    /\ recorded \in {acked, acked + 1}
    /\ executing # 0 /\ "result" \notin writes => recorded = executing
    /\ \A h \in cache : h <= acked + 1

\* What an upload task has reported is with the indexer, and so is everything
\* below the boundary; tasks are behind the cursor.
UploadInv ==
    /\ reported \subseteq indexed /\ tracked \subseteq indexed
    /\ \A h \in Heights : h < boundary => h \in indexed
    /\ uploading \cap reported = {}
    /\ \A h \in uploading \cup reported : h < cursor

\* While the node is down nothing runs and nothing waits.
DownInv ==
    ~up => /\ executing = 0 /\ pending = {}
           /\ uploading = {} /\ reported = {} /\ tracked = {}

IInv ==
    /\ TypeOK
    /\ WaitingInv
    /\ WritesInv
    /\ UploadInv
    /\ DownInv
    /\ PrunedIsIndexed
    /\ PendingAreAhead

----------------------------------------------------------------------------
LEMMA Bounds ==
    /\ MaxHeight \in Nat /\ MaxCrashes \in Nat /\ MaxUploads \in Nat
    /\ IsFiniteSet(Heights)
    /\ \A h \in Heights : h \in Nat /\ 1 <= h /\ h <= MaxHeight
<1>1. MaxHeight \in Nat /\ MaxCrashes \in Nat /\ MaxUploads \in Nat BY BoundsAssumption
<1>2. MaxHeight \in Int /\ 1 \in Int BY <1>1
<1>3. IsFiniteSet(Heights) BY <1>2, FS_Interval, Zenon DEF Heights
<1> QED BY <1>1, <1>3 DEF Heights

\* With a new certificate the resolver drops nothing that is still waited for.
LEMMA StillFetchedKeeps ==
    ASSUME NEW h, NEW certs, certs \subseteq Heights,
           NEW wait, wait \subseteq Heights, wait \subseteq fetching, wait \cap certs = {}
    PROVE  wait \subseteq StillFetched(h, certs) /\ StillFetched(h, certs) \subseteq fetching
<1>1. CASE 1 \notin certs BY <1>1 DEF StillFetched
<1>2. CASE 1 \in certs
  <2> DEFINE e == EndOfRun(certs, 1)
  <2>1. e \in certs /\ 1 .. e \subseteq certs BY <1>2, Bounds, RunEnds DEF Heights
  <2> HIDE DEF e
  <2>2. \A w \in wait : w \in Nat /\ w >= 1 /\ w \notin certs BY Bounds
  <2>3. e \in Nat BY <2>1, Bounds
  <2>4. \A w \in wait : w > e BY <2>1, <2>2, <2>3
  <2> QED BY <1>2, <2>4 DEF StillFetched, e
<1> QED BY <1>1, <1>2

\* Enqueueing makes everything that is missing waited for.
LEMMA EnqueueInv ==
    ASSUME NEW certs, certs \subseteq Heights, NEW wait, wait \subseteq Heights,
           NEW fetch, fetch \subseteq Heights, wait \subseteq fetch, wait \cap certs = {},
           Enqueue(certs, wait, fetch)
    PROVE  /\ waiting' \subseteq Heights /\ fetching' \subseteq Heights
           /\ Missing(certs) \subseteq waiting'
           /\ waiting' \subseteq fetching'
           /\ waiting' \cap certs = {}
<1> DEFINE missing == Missing(certs)
<1>1. missing \subseteq Heights /\ missing \cap certs = {}
  BY Bounds, MissingAreGaps DEF Heights, Missing
<1>2. waiting' = wait \cup missing /\ fetching' = fetch \cup (missing \ wait)
  BY DEF Enqueue
<1> HIDE DEF missing
<1>3. waiting' \subseteq Heights /\ fetching' \subseteq Heights BY <1>1, <1>2
<1>4. missing \subseteq waiting' BY <1>2
<1>5. waiting' \subseteq fetching' BY <1>2
<1>6. waiting' \cap certs = {} BY <1>1, <1>2
<1> QED BY <1>3, <1>4, <1>5, <1>6 DEF missing

\* The upload loop starts tasks for the heights at the cursor, within the slots.
LEMMA LoopInv ==
    ASSUME TypeOK, UploadInv, NEW busy, busy \subseteq Busy, NEW proofs, NEW certs, NEW journal,
           UploadLoop(cursor, busy, proofs, certs, journal), reported' \subseteq reported,
           busy = uploading \cup reported'
    PROVE  /\ cursor' \in 1 .. MaxHeight + 1
           /\ uploading' \subseteq Heights /\ Cardinality(Busy') <= MaxUploads
           /\ uploading' \cap reported' = {}
           /\ \A h \in uploading' \cup reported' : h < cursor'
           /\ panicked' \in BOOLEAN
<1> DEFINE items == Heights \cap proofs \cap certs
           k == Slots(busy)
           next == RunFrom(items, cursor, k)
           n == Cardinality(next)
<1>1. IsFiniteSet(Busy)
  <2>1. Busy \subseteq Heights BY DEF TypeOK, Busy
  <2> QED BY <2>1, Bounds, FS_Subset, Zenon
<1>2. IsFiniteSet(busy) /\ Cardinality(busy) <= Cardinality(Busy) BY <1>1, FS_Subset, Zenon
<1>3. Cardinality(busy) \in Nat /\ Cardinality(Busy) \in Nat
  BY <1>1, <1>2, FS_CardinalityType, Zenon
<1>4. k \in Int /\ k >= 0 /\ Cardinality(busy) + k = MaxUploads
  BY <1>2, <1>3, Bounds DEF TypeOK, Slots
<1>5. cursor \in Nat \ {0} /\ cursor <= MaxHeight + 1 BY Bounds DEF TypeOK
<1>6. /\ cursor' = cursor + n /\ uploading' = uploading \cup next
      /\ panicked' \in BOOLEAN
  <2> DEFINE started == {h \in Heights : /\ cursor <= h /\ h < cursor + Slots(busy)
                                        /\ \A i \in cursor .. h : i \in proofs /\ i \in certs}
  <2>1. /\ cursor' = cursor + Cardinality(started) /\ uploading' = uploading \cup started
        /\ panicked' = (panicked \/ \E h \in started : h > journal)
    BY DEF UploadLoop
  <2>2. started = next
    <3>1. ASSUME NEW h \in Heights, cursor <= h
          PROVE  (\A i \in cursor .. h : i \in proofs /\ i \in certs)
                   <=> h \in items /\ cursor .. h \subseteq items
      <4>1. h \in cursor .. h /\ cursor .. h \subseteq Heights
        BY <1>5, <3>1, Bounds DEF Heights
      <4> QED BY <4>1
    <3> QED BY <3>1 DEF RunFrom
  <2>3. panicked' \in BOOLEAN BY <2>1
  <2> QED BY <2>1, <2>2, <2>3
<1>7. /\ IsFiniteSet(next) /\ n \in Nat /\ next = cursor .. (cursor + n - 1) /\ n <= k
  <2> HIDE DEF items, k
  <2>1. items \subseteq 1 .. MaxHeight BY DEF items, Heights
  <2> QED BY <1>4, <1>5, <2>1, Bounds, RunIsInterval, Zenon
<1>8. next \subseteq Heights BY DEF RunFrom
<1> HIDE DEF next, items, k
<1>9. cursor' \in 1 .. MaxHeight + 1
  <2> HIDE DEF n
  <2>1. CASE n = 0 BY <1>5, <1>6, <2>1, Bounds
  <2>2. CASE n # 0
    <3>1. cursor + n - 1 \in next BY <1>5, <1>7, <2>2
    <3>2. cursor + n - 1 \in Heights BY <1>8, <3>1, Zenon
    <3>3. cursor + n - 1 <= MaxHeight BY <3>2, Bounds
    <3> QED BY <1>5, <1>6, <1>7, <3>3, Bounds
  <2> QED BY <2>1, <2>2
<1>10. \A h \in next : h \in Nat /\ cursor <= h /\ h < cursor'
  <2> HIDE DEF n
  <2> QED BY <1>5, <1>6, <1>7
<1>11. \A h \in Busy : h \in Nat /\ h < cursor BY Bounds DEF TypeOK, UploadInv, Busy
<1>12. cursor <= cursor' /\ cursor' \in Nat
  <2> HIDE DEF n
  <2> QED BY <1>5, <1>6, <1>7
<1>13. \A h \in uploading' \cup reported' : h < cursor'
  <2> SUFFICES ASSUME NEW h \in uploading' \cup reported' PROVE h < cursor' OBVIOUS
  <2>1. CASE h \in next BY <1>10, <2>1
  <2>2. CASE h \in Busy BY <1>5, <1>11, <1>12, <2>2
  <2> QED BY <1>6, <2>1, <2>2 DEF Busy
<1>14. uploading' \cap reported' = {}
  <2>1. SUFFICES ASSUME NEW h \in next, h \in reported PROVE FALSE
    BY <1>6 DEF UploadInv
  <2>2. h \in Nat /\ h < cursor /\ cursor <= h BY <1>10, <1>11, <2>1 DEF Busy
  <2> QED BY <1>5, <2>2
<1>15. Cardinality(Busy') <= MaxUploads
  <2>1. Busy' = busy \cup next BY <1>6 DEF Busy
  <2>2. Cardinality(busy \cup next)
          = Cardinality(busy) + Cardinality(next) - Cardinality(busy \cap next)
    BY <1>2, <1>7, FS_Union, Zenon
  <2>3. IsFiniteSet(busy \cap next) BY <1>2, FS_Intersection, Zenon
  <2>4. Cardinality(busy \cap next) \in Nat BY <2>3, FS_CardinalityType, Zenon
  <2> QED BY <1>3, <1>4, <1>7, <2>1, <2>2, <2>4, Bounds
<1>16. uploading' \subseteq Heights BY <1>6, <1>8 DEF TypeOK
<1> QED BY <1>6, <1>9, <1>13, <1>14, <1>15, <1>16

\* A handler that falls through to the loop with its own state already changed.
LEMMA FallThroughInv ==
    ASSUME TypeOK, UploadInv, NEW certs, FallThrough(certs), reported' = reported
    PROVE  /\ cursor' \in 1 .. MaxHeight + 1
           /\ uploading' \subseteq Heights /\ Cardinality(Busy') <= MaxUploads
           /\ uploading' \cap reported' = {}
           /\ \A i \in uploading' \cup reported' : i < cursor'
           /\ panicked' \in BOOLEAN
<1>1. Busy \subseteq Busy /\ reported' \subseteq reported /\ Busy = uploading \cup reported'
  BY DEF Busy
<1>2. UploadLoop(cursor, Busy, cache, certs, recorded) BY DEF FallThrough
<1> QED BY <1>1, <1>2, LoopInv

----------------------------------------------------------------------------
LEMMA InitInv == Init => IInv
<1> SUFFICES ASSUME Init PROVE IInv OBVIOUS
<1>1. Busy = {} BY DEF Init, StartUploads, Busy
<1>2. Cardinality(Busy) = 0 BY <1>1, FS_EmptySet, Zenon
<1>3. TypeOK
  <2>1. /\ 0 \in 0 .. MaxHeight /\ 0 \in 0 .. MaxCrashes /\ 1 \in 1 .. MaxHeight + 1
        /\ Cardinality(Busy) <= MaxUploads
    BY <1>2, Bounds
  <2> QED BY <2>1 DEF Init, StartUploads, TypeOK
<1>4. WaitingInv BY NothingMissing DEF Init, WaitingInv, Missing
<1>5. WritesInv BY DEF Init, WritesInv
<1>6. UploadInv BY Bounds DEF Init, StartUploads, UploadInv
<1>7. DownInv /\ PrunedIsIndexed /\ PendingAreAhead
  BY DEF Init, DownInv, PrunedIsIndexed, PendingAreAhead
<1> QED BY <1>3, <1>4, <1>5, <1>6, <1>7 DEF IInv

LEMMA ExecutedInv == ASSUME IInv, Executed PROVE IInv'
<1> USE DEF Executed, Free, durable, uploads, resolver
<1>1. acked + 1 \in 0 .. MaxHeight /\ acked + 1 # 0 /\ acked \in Nat
  BY Bounds DEF IInv, TypeOK
<1>2. TypeOK' BY <1>1 DEF IInv, TypeOK, Busy
<1>3. WritesInv' BY <1>1 DEF IInv, WritesInv
<1> QED BY <1>1, <1>2, <1>3 DEF IInv, WaitingInv, Missing, UploadInv, DownInv,
                            PrunedIsIndexed, PendingAreAhead

LEMMA PutProofsInv == ASSUME IInv, PutProofs PROVE IInv'
<1> USE DEF PutProofs, uploads, resolver
<1>1. executing # 0 /\ executing = acked + 1 /\ executing \in Heights /\ acked \in Nat
  BY Bounds DEF IInv, TypeOK, WritesInv, Heights
<1>2. TypeOK' BY <1>1 DEF IInv, TypeOK, Busy
<1>3. WritesInv' BY <1>1 DEF IInv, WritesInv
<1>4. PrunedIsIndexed' BY DEF IInv, PrunedIsIndexed
<1> QED BY <1>1, <1>2, <1>3, <1>4 DEF IInv, WaitingInv, Missing, UploadInv, DownInv,
                                  PendingAreAhead

LEMMA AppendResultInv == ASSUME IInv, AppendResult PROVE IInv'
<1> USE DEF AppendResult, uploads, resolver
<1>1. /\ executing # 0 /\ executing = acked + 1 /\ executing \in Heights /\ acked \in Nat
      /\ recorded \in {acked, acked + 1}
  BY Bounds DEF IInv, TypeOK, WritesInv, Heights
<1>2. recorded' = acked + 1 BY <1>1
<1>3. TypeOK' BY <1>1, <1>2 DEF IInv, TypeOK, Busy, Heights
<1>4. WritesInv' BY <1>1, <1>2 DEF IInv, WritesInv
<1> QED BY <1>1, <1>3, <1>4 DEF IInv, WaitingInv, Missing, UploadInv, DownInv,
                            PrunedIsIndexed, PendingAreAhead

LEMMA ExecutedDoneInv == ASSUME IInv, ExecutedDone PROVE IInv'
<1> USE DEF ExecutedDone, resolver
<1>1. /\ cursor' \in 1 .. MaxHeight + 1
      /\ uploading' \subseteq Heights /\ Cardinality(Busy') <= MaxUploads
      /\ uploading' \cap reported' = {}
      /\ \A i \in uploading' \cup reported' : i < cursor'
      /\ panicked' \in BOOLEAN
  BY FallThroughInv DEF IInv
<1>2. /\ executing = acked + 1 /\ executing \in Heights /\ acked \in Nat
      /\ executing \in cache /\ recorded = executing
  BY Bounds DEF IInv, TypeOK, WritesInv, Heights
<1>3. TypeOK'
  <2>1. executing' \in 0 .. MaxHeight /\ acked' \in 0 .. MaxHeight BY <1>2, Bounds DEF Heights
  <2>2. pending' \subseteq Requests BY DEF IInv, TypeOK
  <2> QED BY <1>1, <2>1, <2>2 DEF IInv, TypeOK
<1>4. WritesInv'
  <2>1. \A h \in cache : h \in Nat /\ h <= acked + 1 BY Bounds DEF IInv, TypeOK, WritesInv
  <2>2. \A h \in cache : h <= acked' + 1 BY <1>2, <2>1
  <2> QED BY <1>2, <2>2 DEF IInv, WritesInv
<1>5. UploadInv' BY <1>1 DEF IInv, UploadInv
<1>6. PrunedIsIndexed' BY <1>2 DEF IInv, PrunedIsIndexed
<1>7. PendingAreAhead' BY <1>2 DEF PendingAreAhead
<1>8. WaitingInv' /\ DownInv' BY DEF IInv, WaitingInv, Missing, DownInv
<1> QED BY <1>3, <1>4, <1>5, <1>6, <1>7, <1>8 DEF IInv

\* Propose, Verify, Tip and Genesis: besides the loop, at most a request is added
\* that is ahead of the journal.
LEMMA IdleHandlerInv ==
    ASSUME IInv, Free, FallThrough(certificates),
           NEW more, more \subseteq Requests, \A r \in more : r[2] > recorded,
           pending' = pending \cup more,
           UNCHANGED <<durable, up, writes, executing, boundary, reported, tracked,
                       resolver, indexed, crashes>>
    PROVE  IInv'
<1> USE DEF durable, resolver
<1>1. /\ cursor' \in 1 .. MaxHeight + 1
      /\ uploading' \subseteq Heights /\ Cardinality(Busy') <= MaxUploads
      /\ uploading' \cap reported' = {}
      /\ \A i \in uploading' \cup reported' : i < cursor'
      /\ panicked' \in BOOLEAN
  BY FallThroughInv DEF IInv
<1>2. TypeOK' BY <1>1 DEF IInv, TypeOK
<1>3. UploadInv' BY <1>1 DEF IInv, UploadInv
<1>4. PendingAreAhead' BY DEF IInv, PendingAreAhead
<1>5. DownInv' BY DEF DownInv, Free
<1> QED BY <1>2, <1>3, <1>4, <1>5 DEF IInv, WaitingInv, Missing, WritesInv, PrunedIsIndexed

LEMMA RequestInv == ASSUME IInv, NEW r \in Requests, Request(r) PROVE IInv'
<1> DEFINE more == {r}
<1>1. more \subseteq Requests /\ \A q \in more : q[2] > recorded BY DEF Request
<1>2. pending' = pending \cup more BY DEF Request
<1> HIDE DEF more
<1> QED BY <1>1, <1>2, IdleHandlerInv DEF Request

LEMMA TipInv == ASSUME IInv, Tip PROVE IInv'
<1> DEFINE more == {}
<1>1. /\ more \subseteq Requests /\ \A r \in more : r[2] > recorded
      /\ pending' = pending \cup more
  BY DEF Tip
<1> HIDE DEF more
<1> QED BY <1>1, IdleHandlerInv DEF Tip

----------------------------------------------------------------------------
\* A certificate comes in, from the engine or from a peer.
LEMMA CertificateInv ==
    ASSUME IInv, Free, NEW certs, certs \subseteq Heights,
           NEW wait, wait \subseteq Heights, wait \cap certs = {},
           NEW fetch, fetch \subseteq Heights, wait \subseteq fetch,
           certificates' = certs, Enqueue(certs, wait, fetch), FallThrough(certs),
           UNCHANGED <<cache, recorded, acked, up, writes, executing, boundary, reported,
                       tracked, pending, indexed, crashes>>
    PROVE  IInv'
<1>1. /\ cursor' \in 1 .. MaxHeight + 1
      /\ uploading' \subseteq Heights /\ Cardinality(Busy') <= MaxUploads
      /\ uploading' \cap reported' = {}
      /\ \A i \in uploading' \cup reported' : i < cursor'
      /\ panicked' \in BOOLEAN
  BY FallThroughInv DEF IInv
<1>2. /\ waiting' \subseteq Heights /\ fetching' \subseteq Heights
      /\ Missing(certs) \subseteq waiting'
      /\ waiting' \subseteq fetching'
      /\ waiting' \cap certs = {}
  BY EnqueueInv
<1>3. TypeOK' BY <1>1, <1>2 DEF IInv, TypeOK
<1>4. WaitingInv' BY <1>2 DEF WaitingInv, Missing
<1>5. UploadInv' BY <1>1 DEF IInv, UploadInv
<1>6. DownInv' BY DEF DownInv, Free
<1> QED BY <1>3, <1>4, <1>5, <1>6 DEF IInv, WritesInv, PrunedIsIndexed, PendingAreAhead

LEMMA CertifiedInv == ASSUME IInv, NEW h \in Heights, Certified(h) PROVE IInv'
<1> DEFINE certs == certificates \cup {h}
           wait == waiting \ {h}
           fetch == StillFetched(h, certs)
<1>1. /\ Free /\ certificates' = certs /\ Enqueue(certs, wait, fetch) /\ FallThrough(certs)
      /\ UNCHANGED <<cache, recorded, acked, up, writes, executing, boundary, reported,
                     tracked, pending, indexed, crashes>>
  BY DEF Certified
<1>2. /\ certs \subseteq Heights /\ wait \subseteq Heights /\ wait \cap certs = {}
      /\ wait \subseteq fetching /\ fetching \subseteq Heights
  BY <1>1 DEF IInv, TypeOK, WaitingInv, Free
<1>3. wait \subseteq fetch /\ fetch \subseteq Heights
  <2>1. wait \subseteq fetch /\ fetch \subseteq fetching
    <3> HIDE DEF certs, wait
    <3> QED BY <1>2, StillFetchedKeeps
  <2> QED BY <1>2, <2>1
<1> HIDE DEF certs, wait, fetch
<1> QED BY <1>1, <1>2, <1>3, CertificateInv

LEMMA DeliverInv == ASSUME IInv, NEW h \in Heights, Deliver(h) PROVE IInv'
<1> DEFINE certs == certificates \cup {h}
           wait == waiting \ {h}
           fetch == fetching \ {h}
<1>1. /\ Free /\ certificates' = certs /\ Enqueue(certs, wait, fetch) /\ FallThrough(certs)
      /\ UNCHANGED <<cache, recorded, acked, up, writes, executing, boundary, reported,
                     tracked, pending, indexed, crashes>>
  BY DEF Deliver
<1>2. /\ certs \subseteq Heights /\ wait \subseteq Heights /\ wait \cap certs = {}
      /\ wait \subseteq fetch /\ fetch \subseteq Heights
  BY <1>1 DEF IInv, TypeOK, WaitingInv, Free
<1> HIDE DEF certs, wait, fetch
<1> QED BY <1>1, <1>2, CertificateInv

LEMMA SubmittedInv == ASSUME IInv, NEW h \in Heights, Submitted(h) PROVE IInv'
<1> USE DEF Submitted, durable, resolver
<1>1. Busy' = Busy BY DEF Busy
<1>2. TypeOK' BY <1>1 DEF IInv, TypeOK
<1>3. UploadInv' BY DEF IInv, UploadInv
<1>4. PrunedIsIndexed' BY DEF IInv, PrunedIsIndexed
<1> QED BY <1>2, <1>3, <1>4 DEF IInv, WaitingInv, Missing, WritesInv, DownInv, PendingAreAhead

LEMMA UploadedAheadInv == ASSUME IInv, NEW h \in Heights, UploadedAhead(h) PROVE IInv'
<1> USE DEF UploadedAhead, Free, durable, resolver
<1>1. Busy' \subseteq Busy /\ Busy \subseteq Heights BY DEF IInv, TypeOK, Busy
<1>2. IsFiniteSet(Busy) BY <1>1, Bounds, FS_Subset, Zenon
<1>3. IsFiniteSet(Busy') /\ Cardinality(Busy') <= Cardinality(Busy) BY <1>1, <1>2, FS_Subset, Zenon
<1>4. Cardinality(Busy) \in Nat /\ Cardinality(Busy') \in Nat
  BY <1>2, <1>3, FS_CardinalityType, Zenon
<1>5. Cardinality(Busy') <= MaxUploads BY <1>3, <1>4, Bounds DEF IInv, TypeOK
<1>6. TypeOK' BY <1>5 DEF IInv, TypeOK
<1>7. UploadInv' BY DEF IInv, UploadInv
<1> QED BY <1>6, <1>7 DEF IInv, WaitingInv, Missing, WritesInv, DownInv, PrunedIsIndexed,
                          PendingAreAhead

\* The boundary moves to the end of the contiguous uploads, and only proofs below
\* it are pruned: all of them are with the indexer.
LEMMA UploadedInv == ASSUME IInv, NEW h \in Heights, Uploaded(h) PROVE IInv'
<1> USE DEF Uploaded, resolver
<1> DEFINE end == EndOfRun(tracked', boundary)
<1>1. tracked' \subseteq indexed /\ tracked' \subseteq Heights BY DEF IInv, TypeOK, UploadInv
<1>2. boundary \in Nat /\ boundary >= 1 BY Bounds DEF IInv, TypeOK
<1>3. end \in tracked' /\ boundary <= end /\ boundary .. end \subseteq tracked'
  <2>1. tracked' \subseteq 1 .. MaxHeight /\ boundary \in tracked' BY <1>1 DEF Heights
  <2> QED BY <2>1, Bounds, RunEnds
<1>4. /\ boundary' = IF end > boundary THEN end ELSE boundary
      /\ cache' = IF end > boundary THEN PruneTo(end) ELSE cache
  BY DEF PruneEnd
<1> HIDE DEF end
<1>5. end \in Heights /\ end \in Nat BY <1>1, <1>3, Bounds
<1>6. \A i \in Heights : i < boundary' => i \in indexed
  <2> SUFFICES ASSUME NEW i \in Heights, i < boundary' PROVE i \in indexed OBVIOUS
  <2>1. i \in Nat BY Bounds
  <2>2. CASE i < boundary BY <2>2 DEF IInv, UploadInv
  <2>3. CASE i >= boundary
    <3>1. i \in boundary .. end BY <1>2, <1>4, <1>5, <2>1, <2>3
    <3> QED BY <1>1, <1>3, <3>1
  <2> QED BY <1>2, <2>1, <2>2, <2>3
<1>7. /\ cache' \subseteq cache
      /\ \A i \in cache \ cache' : i < boundary'
  <2>1. CASE end > boundary
    <3>1. ASSUME NEW i \in Nat, ~(i \div ItemsPerBlob >= end \div ItemsPerBlob)
          PROVE  i < end
      <4>1. ItemsPerBlob \in Nat /\ ItemsPerBlob > 0 BY BoundsAssumption
      <4> QED BY <1>5, <3>1, <4>1
    <3>2. \A i \in cache : i \in Nat BY Bounds DEF IInv, TypeOK
    <3> QED BY <1>4, <2>1, <3>1, <3>2 DEF PruneTo
  <2>2. CASE ~(end > boundary) BY <1>4, <2>2
  <2> QED BY <2>1, <2>2
<1>8. /\ cursor' \in 1 .. MaxHeight + 1
      /\ uploading' \subseteq Heights /\ Cardinality(Busy') <= MaxUploads
      /\ uploading' \cap reported' = {}
      /\ \A i \in uploading' \cup reported' : i < cursor'
      /\ panicked' \in BOOLEAN
  <2> DEFINE busy == Busy \ {h}
  <2>1. /\ busy \subseteq Busy /\ reported' \subseteq reported
        /\ busy = uploading \cup reported'
    BY DEF IInv, UploadInv, Busy
  <2>2. UploadLoop(cursor, busy, cache', certificates, recorded) OBVIOUS
  <2> HIDE DEF busy
  <2> QED BY <2>1, <2>2, LoopInv DEF IInv
<1>9. TypeOK'
  <2>1. boundary' \in 1 .. MaxHeight + 1
    BY <1>2, <1>4, <1>5, Bounds DEF IInv, TypeOK
  <2>2. cache' \subseteq Heights BY <1>7 DEF IInv, TypeOK
  <2> QED BY <1>1, <1>8, <2>1, <2>2 DEF IInv, TypeOK
<1>10. UploadInv' BY <1>1, <1>6, <1>8 DEF IInv, UploadInv
<1>11. WritesInv' BY <1>7 DEF IInv, WritesInv, Free
<1>12. PrunedIsIndexed'
  <2> SUFFICES ASSUME NEW i \in 1 .. acked, i \notin cache' PROVE i \in indexed
    BY DEF PrunedIsIndexed
  <2>1. CASE i \notin cache BY <2>1 DEF IInv, PrunedIsIndexed
  <2>2. CASE i \in cache BY <1>6, <1>7, <2>2 DEF IInv, TypeOK
  <2> QED BY <2>1, <2>2
<1> QED BY <1>9, <1>10, <1>11, <1>12 DEF IInv, WaitingInv, Missing, DownInv, PendingAreAhead, Free

----------------------------------------------------------------------------
LEMMA CrashInv == ASSUME IInv, Crash PROVE IInv'
<1> USE DEF Crash, GoDown, durable
<1>1. Busy' = {} BY DEF Busy
<1>2. Cardinality(Busy') = 0 BY <1>1, FS_EmptySet, Zenon
<1>3. TypeOK'
  <2>1. crashes' \in 0 .. MaxCrashes /\ Cardinality(Busy') <= MaxUploads
    BY <1>2, Bounds DEF IInv, TypeOK
  <2>2. 0 \in 0 .. MaxHeight BY Bounds
  <2> QED BY <2>1, <2>2 DEF IInv, TypeOK
<1>4. WritesInv' BY DEF IInv, WritesInv
<1> QED BY <1>3, <1>4 DEF IInv, WaitingInv, UploadInv, DownInv, PrunedIsIndexed, PendingAreAhead

\* Below the lowest cached height everything was acknowledged, and is not cached.
LEMMA RestartInv == ASSUME IInv, Restart PROVE IInv'
<1> USE DEF Restart, durable
<1>1. Missing(certificates) \subseteq Heights /\ Missing(certificates) \cap certificates = {}
  BY Bounds, MissingAreGaps DEF IInv, TypeOK, Heights, Missing
<1>2. Resume \in 1 .. MaxHeight + 1 /\ \A h \in Heights : h < Resume => h \in indexed
  <2>1. CASE cache = {} BY <2>1, Bounds DEF Resume
  <2>2. CASE cache # {}
    <3>1. cache \subseteq Heights /\ cache \subseteq Nat BY Bounds DEF IInv, TypeOK
    <3>2. Least(cache) \in cache /\ \A y \in cache : Least(cache) <= y
      BY <2>2, <3>1, LeastIsLeast
    <3> DEFINE l == Least(cache)
    <3>3. Resume = l BY <2>2 DEF Resume
    <3> HIDE DEF l
    <3>4. l \in cache /\ (\A y \in cache : l <= y) BY <3>2 DEF l
    <3>5. l \in Nat /\ 1 <= l /\ l <= MaxHeight /\ l <= acked + 1 /\ acked \in Nat
      BY <3>1, <3>4, Bounds DEF IInv, TypeOK, WritesInv
    <3>6. ASSUME NEW h \in Heights, h < l PROVE h \in indexed
      <4>1. h \in Nat /\ 1 <= h BY Bounds
      <4>2. h \notin cache BY <3>4, <3>5, <3>6, <4>1
      <4>3. h \in 1 .. acked BY <3>5, <3>6, <4>1
      <4> QED BY <4>2, <4>3 DEF IInv, PrunedIsIndexed
    <3> QED BY <3>3, <3>5, <3>6, Bounds
  <2> QED BY <2>1, <2>2
<1>3. TypeOK' BY <1>1, <1>2 DEF IInv, TypeOK, Busy
<1>4. WaitingInv' BY <1>1 DEF WaitingInv, Missing
<1>5. UploadInv' BY <1>2 DEF IInv, UploadInv, DownInv
<1> QED BY <1>3, <1>4, <1>5 DEF IInv, WritesInv, DownInv, PrunedIsIndexed, PendingAreAhead

LEMMA NextInv == IInv /\ [Next]_vars => IInv'
<1> SUFFICES ASSUME IInv, [Next]_vars PROVE IInv' OBVIOUS
<1>1. CASE UNCHANGED vars
  BY <1>1 DEF vars, IInv, TypeOK, Busy, WaitingInv, Missing, WritesInv, UploadInv, DownInv,
              PrunedIsIndexed, PendingAreAhead
<1> QED
  BY <1>1, ExecutedInv, PutProofsInv, AppendResultInv, ExecutedDoneInv, RequestInv, TipInv,
     CertifiedInv, DeliverInv, SubmittedInv, UploadedAheadInv, UploadedInv, CrashInv,
     RestartInv DEF Next

LEMMA Invariance == Spec => []IInv
<1>1. Init => IInv BY InitInv
<1>2. IInv /\ [Next]_vars => IInv' BY NextInv
<1> QED BY <1>1, <1>2, PTL DEF Spec

----------------------------------------------------------------------------
\* The actor's state keeps its types and never has more than
\* max_uploads_outstanding uploads.
THEOREM TypeCorrect == Spec => []TypeOK
<1>1. IInv => TypeOK BY DEF IInv
<1> QED BY <1>1, Invariance, PTL

\* No proof is pruned before its summary is with the indexer.
THEOREM PrunedIsAlwaysIndexed == Spec => []PrunedIsIndexed
<1>1. IInv => PrunedIsIndexed BY DEF IInv
<1> QED BY <1>1, Invariance, PTL

\* No gap in the certificates the actor should fill is ever without a fetch.
THEOREM GapsAreAlwaysFetched == Spec => []GapsAreFetched
<1>1. IInv => GapsAreFetched BY DEF IInv, WaitingInv, GapsAreFetched
<1> QED BY <1>1, Invariance, PTL

\* A request never waits for a block whose result is already in the journal.
THEOREM PendingAreAlwaysAhead == Spec => []PendingAreAhead
<1>1. IInv => PendingAreAhead BY DEF IInv
<1> QED BY <1>1, Invariance, PTL

================================================================================
