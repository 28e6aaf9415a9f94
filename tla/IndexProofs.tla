------------------------------ MODULE IndexProofs ------------------------------
(***************************************************************************)
(* Both ends of what clients read: a node's seeder and the index.          *)
(*                                                                         *)
(* The seeder keeps fetching what it lacks, never marks as uploaded what   *)
(* the indexer does not have, and never uploads a seed twice at a time,    *)
(* for any number of views, upload slots and crashes and any batch size.   *)
(* The index answers from the newest block it was sent and announces       *)
(* nothing twice, for any validators, blocks, keys, clients, time-outs and *)
(* capacity of its channel.                                                *)
(***************************************************************************)
EXTENDS Seeder, Simulator, DataTheorems, SequenceTheorems

(***************************************************************************)
(* The seeder.                                                             *)
(***************************************************************************)
\* While the actor runs: what the application or a gap needs is waited for,
\* what is waited for is not there yet, and the resolver is at it.
WaitingInv ==
    up => /\ listeners \subseteq waiting
          /\ MissingItems(storage, Batch) \subseteq waiting
          /\ waiting \subseteq fetching
          /\ waiting \cap storage = {}

\* What an upload task has reported is with the indexer; so is everything below
\* the boundary, which is where the marker is; and tasks are behind the cursor.
UploadInv ==
    /\ boundary = Resume
    /\ reported \subseteq indexed /\ tracked \subseteq indexed
    /\ 1 .. marker \subseteq indexed
    /\ uploading \cap reported = {}
    /\ \A v \in uploading \cup reported : v < cursor

IInv == TypeOK /\ WaitingInv /\ UploadInv

----------------------------------------------------------------------------
\* Whatever is in the store, the resolver drops nothing that is waited for.
LEMMA RetainKeeps ==
    ASSUME NEW fetch, NEW stored, stored \subseteq Views, NEW v,
           NEW wait, wait \subseteq Views, wait \subseteq fetch, wait \cap stored = {}
    PROVE  wait \subseteq Retain(fetch, stored, v) /\ Retain(fetch, stored, v) \subseteq fetch
<1>1. MaxView \in Nat BY SeederAssumption
<1>2. CASE 1 \notin stored BY <1>2 DEF Retain
<1>3. CASE 1 \in stored
  <2> DEFINE e == EndOfRun(stored, 1)
  <2>1. e \in stored /\ 1 .. e \subseteq stored BY <1>1, <1>3, RunEnds DEF Views
  <2>2. \A w \in wait : w \in Nat /\ w >= 1 /\ w \notin stored BY <1>1 DEF Views
  <2> HIDE DEF e
  <2>3. e \in Nat BY <1>1, <2>1 DEF Views
  <2>4. \A w \in wait : w > e BY <2>1, <2>2, <2>3
  <2> QED BY <1>3, <2>4 DEF Retain, e
<1> QED BY <1>2, <1>3

\* Enqueueing on top of a store and a wait list that do not overlap restores the
\* invariant.
LEMMA EnqueueInv ==
    ASSUME NEW stored, stored \subseteq Views, NEW wait, wait \subseteq Views,
           NEW fetch, fetch \subseteq Views, wait \subseteq fetch, wait \cap stored = {},
           Enqueue(stored, wait, fetch)
    PROVE  /\ waiting' \subseteq Views /\ fetching' \subseteq Views
           /\ wait \subseteq waiting'
           /\ MissingItems(stored, Batch) \subseteq waiting'
           /\ waiting' \subseteq fetching'
           /\ waiting' \cap stored = {}
<1>1. MaxView \in Nat BY SeederAssumption
<1> DEFINE missing == MissingItems(stored, Batch)
<1>2. missing \subseteq Views /\ missing \cap stored = {}
  BY <1>1, MissingAreGaps DEF Views
<1>3. waiting' = wait \cup missing /\ fetching' = fetch \cup (missing \ wait)
  BY DEF Enqueue
<1> HIDE DEF missing
<1>4. waiting' \subseteq Views /\ fetching' \subseteq Views BY <1>2, <1>3
<1>5. wait \subseteq waiting' /\ missing \subseteq waiting' BY <1>3
<1>6. waiting' \subseteq fetching' BY <1>3
<1>7. waiting' \cap stored = {} BY <1>2, <1>3
<1> QED BY <1>4, <1>5, <1>6, <1>7 DEF missing

\* The upload loop starts tasks for the views at the cursor, within the slots.
LEMMA UploadLoopInv ==
    ASSUME NEW stored, stored \subseteq Views, NEW busy, IsFiniteSet(busy),
           cursor \in 1 .. MaxView + 1, Cardinality(busy) <= MaxUploads,
           UploadLoop(stored, busy)
    PROVE  \E next \in SUBSET Views :
             /\ cursor' \in 1 .. MaxView + 1 /\ cursor <= cursor'
             /\ uploading' = uploading \cup next
             /\ \A v \in next : cursor <= v /\ v < cursor'
             /\ IsFiniteSet(next)
             /\ Cardinality(busy \cup next) <= MaxUploads
<1>1. MaxView \in Nat /\ MaxUploads \in Nat BY SeederAssumption
<1> DEFINE k == Slots(busy)
           next == RunFrom(stored, cursor, k)
<1>2. Cardinality(busy) \in Nat BY FS_CardinalityType, Zenon
<1>3. k \in Int /\ k >= 0 /\ Cardinality(busy) + k = MaxUploads BY <1>1, <1>2 DEF Slots
<1>4. cursor' = cursor + Cardinality(next) /\ uploading' = uploading \cup next
  BY DEF UploadLoop, RunFrom
<1>5. /\ IsFiniteSet(next) /\ Cardinality(next) \in Nat
      /\ next = cursor .. (cursor + Cardinality(next) - 1)
      /\ Cardinality(next) <= k
  <2> HIDE DEF k
  <2>1. cursor \in Nat \ {0} BY <1>1
  <2>2. stored \subseteq 1 .. MaxView BY DEF Views
  <2> QED BY <1>1, <1>3, <2>1, <2>2, RunIsInterval, Zenon
<1>6. next \subseteq Views BY DEF RunFrom
<1> HIDE DEF next, k
<1>7. cursor' \in 1 .. MaxView + 1 /\ cursor <= cursor'
  <2> DEFINE n == Cardinality(next)
  <2> HIDE DEF n
  <2>1. n \in Nat /\ cursor' = cursor + n /\ next = cursor .. (cursor + n - 1)
    BY <1>4, <1>5 DEF n
  <2>2. CASE n = 0 BY <1>1, <2>1, <2>2
  <2>3. CASE n # 0
    <3>1. cursor + n - 1 \in next BY <1>1, <2>1, <2>3
    <3>2. cursor + n - 1 \in 1 .. MaxView BY <1>6, <3>1, Zenon DEF Views
    <3> QED BY <1>1, <2>1, <3>2
  <2> QED BY <2>2, <2>3
<1>8. \A v \in next : cursor <= v /\ v < cursor'
  <2>1. cursor \in Nat BY <1>1
  <2> QED BY <1>4, <1>5, <2>1
<1>9. Cardinality(busy \cup next) <= MaxUploads
  <2>1. Cardinality(busy \cup next)
          = Cardinality(busy) + Cardinality(next) - Cardinality(busy \cap next)
    BY <1>5, FS_Union, Zenon
  <2>2. IsFiniteSet(busy \cap next) BY FS_Intersection, Zenon
  <2>3. Cardinality(busy \cap next) \in Nat BY <2>2, FS_CardinalityType, Zenon
  <2> QED BY <1>1, <1>2, <1>3, <1>5, <2>1, <2>3
<1> QED BY <1>4, <1>5, <1>6, <1>7, <1>8, <1>9

----------------------------------------------------------------------------
LEMMA BusyIsFinite == TypeOK => IsFiniteSet(Busy) /\ IsFiniteSet(Views)
<1> SUFFICES ASSUME TypeOK PROVE IsFiniteSet(Busy) /\ IsFiniteSet(Views) OBVIOUS
<1>1. MaxView \in Int /\ 1 \in Int BY SeederAssumption
<1>2. IsFiniteSet(Views) BY <1>1, FS_Interval, Zenon DEF Views
<1>3. Busy \subseteq Views BY DEF TypeOK, Busy
<1> QED BY <1>2, <1>3, FS_Subset, Zenon

LEMMA InitInv == Init => IInv
<1> SUFFICES ASSUME Init PROVE IInv OBVIOUS
<1>1. MaxView \in Nat \ {0} /\ MaxUploads \in Nat /\ MaxCrashes \in Nat BY SeederAssumption
<1>2. Busy = {} BY DEF Init, Busy
<1>3. Cardinality(Busy) = 0 BY <1>2, FS_EmptySet, Zenon
<1>4. TypeOK BY <1>1, <1>3 DEF Init, TypeOK, Views
<1>5. WaitingInv BY NothingMissing DEF Init, WaitingInv
<1>6. UploadInv BY DEF Init, UploadInv, Resume
<1> QED BY <1>4, <1>5, <1>6 DEF IInv

\* A new seed: nothing waits for it any more, and everything else that waits
\* still does.
LEMMA StoreKeeps ==
    ASSUME IInv, up, NEW v \in Views, Store(v), NEW fetch, fetch \subseteq Views,
           waiting \ {v} \subseteq fetch
    PROVE  /\ storage' \subseteq Views /\ listeners' \subseteq Views
           /\ waiting \ {v} \subseteq Views
           /\ waiting \ {v} \subseteq Retain(fetch, storage', v)
           /\ Retain(fetch, storage', v) \subseteq Views
           /\ (waiting \ {v}) \cap storage' = {}
           /\ listeners' \subseteq waiting \ {v}
<1>1. storage' = storage \cup {v} /\ listeners' = listeners \ {v} BY DEF Store
<1>2. storage' \subseteq Views /\ listeners' \subseteq Views /\ waiting \ {v} \subseteq Views
  BY <1>1 DEF IInv, TypeOK
<1>3. (waiting \ {v}) \cap storage' = {} BY <1>1 DEF IInv, WaitingInv
<1>4. listeners' \subseteq waiting \ {v} BY <1>1 DEF IInv, WaitingInv
<1>5. /\ waiting \ {v} \subseteq Retain(fetch, storage', v)
      /\ Retain(fetch, storage', v) \subseteq fetch
  <2> DEFINE wait == waiting \ {v}
             stored == storage'
  <2>1. /\ stored \subseteq Views /\ wait \subseteq Views /\ wait \subseteq fetch
        /\ wait \cap stored = {}
    BY <1>2, <1>3
  <2>2. wait \subseteq Retain(fetch, stored, v) /\ Retain(fetch, stored, v) \subseteq fetch
    <3> HIDE DEF wait, stored
    <3> QED BY <2>1, RetainKeeps
  <2> QED BY <2>2
<1> QED BY <1>2, <1>3, <1>4, <1>5

\* ... and with the gaps enqueued, everything that is needed is waited for.
LEMMA StoreAndEnqueue ==
    ASSUME IInv, up, NEW v \in Views, Store(v), NEW fetch, fetch \subseteq Views,
           waiting \ {v} \subseteq fetch,
           Enqueue(storage', waiting \ {v}, Retain(fetch, storage', v))
    PROVE  /\ storage' \subseteq Views /\ listeners' \subseteq Views
           /\ waiting' \subseteq Views /\ fetching' \subseteq Views
           /\ WaitingInv'
<1> DEFINE wait == waiting \ {v}
           stored == storage'
           kept == Retain(fetch, stored, v)
<1>1. /\ stored \subseteq Views /\ listeners' \subseteq Views
      /\ wait \subseteq Views /\ wait \subseteq kept /\ kept \subseteq Views
      /\ wait \cap stored = {}
      /\ listeners' \subseteq wait
  BY StoreKeeps
<1>2. Enqueue(stored, wait, kept) OBVIOUS
<1>3. /\ waiting' \subseteq Views /\ fetching' \subseteq Views
      /\ wait \subseteq waiting'
      /\ MissingItems(stored, Batch) \subseteq waiting'
      /\ waiting' \subseteq fetching'
      /\ waiting' \cap stored = {}
  <2> HIDE DEF wait, stored, kept
  <2> QED BY <1>1, <1>2, EnqueueInv
<1> QED BY <1>1, <1>3 DEF WaitingInv

LEMMA PutNoGapInv == ASSUME IInv, NEW v \in Views, PutNoGap(v) PROVE IInv'
<1> USE DEF PutNoGap
<1>1. fetching \subseteq Views /\ waiting \ {v} \subseteq fetching BY DEF IInv, TypeOK, WaitingInv
<1>2. /\ storage' \subseteq Views /\ listeners' \subseteq Views
      /\ waiting' \subseteq Views
      /\ waiting' \subseteq fetching' /\ fetching' \subseteq Views
      /\ waiting' \cap storage' = {}
      /\ listeners' \subseteq waiting'
  BY <1>1, StoreKeeps
<1>3. MissingItems(storage', Batch) = {} OBVIOUS
<1>4. TypeOK' BY <1>2 DEF IInv, TypeOK, Busy
<1>5. WaitingInv' BY <1>2, <1>3 DEF WaitingInv
<1>6. UploadInv' BY DEF IInv, UploadInv, Resume
<1> QED BY <1>4, <1>5, <1>6 DEF IInv

\* What the upload loop does to the invariant, whatever the message before it.
LEMMA LoopInv ==
    ASSUME IInv, storage' \subseteq Views, NEW busy, busy \subseteq Busy,
           UploadLoop(storage', busy), reported' \subseteq reported,
           busy = uploading \cup reported'
    PROVE  /\ cursor' \in 1 .. MaxView + 1
           /\ uploading' \subseteq Views /\ Cardinality(Busy') <= MaxUploads
           /\ uploading' \cap reported' = {}
           /\ \A v \in uploading' \cup reported' : v < cursor'
<1>1. IsFiniteSet(Busy) BY BusyIsFinite DEF IInv
<1>2. IsFiniteSet(busy) /\ Cardinality(busy) <= Cardinality(Busy) BY <1>1, FS_Subset, Zenon
<1>3. Cardinality(busy) \in Nat /\ Cardinality(Busy) \in Nat /\ MaxUploads \in Nat
  BY <1>1, <1>2, FS_CardinalityType, SeederAssumption
<1>4. Cardinality(busy) <= MaxUploads BY <1>2, <1>3 DEF IInv, TypeOK
<1>5. PICK next \in SUBSET Views :
             /\ cursor' \in 1 .. MaxView + 1 /\ cursor <= cursor'
             /\ uploading' = uploading \cup next
             /\ \A v \in next : cursor <= v /\ v < cursor'
             /\ IsFiniteSet(next)
             /\ Cardinality(busy \cup next) <= MaxUploads
  BY <1>2, <1>4, UploadLoopInv DEF IInv, TypeOK
<1>6. Busy' = busy \cup next BY <1>5 DEF Busy
<1>7. uploading' \subseteq Views BY <1>5 DEF IInv, TypeOK
<1>8. MaxView \in Nat /\ cursor \in Nat /\ cursor' \in Nat
  BY <1>5, SeederAssumption DEF IInv, TypeOK
<1>9. ASSUME NEW w \in uploading' \cup reported' PROVE w < cursor'
  <2>1. CASE w \in next BY <1>5, <2>1
  <2>2. CASE w \in Busy
    <3>1. w \in Nat /\ w < cursor BY <1>8, <2>2 DEF IInv, TypeOK, UploadInv, Busy, Views
    <3> QED BY <1>5, <1>8, <3>1
  <2> QED BY <1>5, <2>1, <2>2
<1>10. Cardinality(Busy') <= MaxUploads BY <1>5, <1>6
<1>11. uploading' \cap reported' = {}
  <2>1. SUFFICES ASSUME NEW w \in next, w \in reported PROVE FALSE
    BY <1>5 DEF IInv, UploadInv
  <2>2. w \in Nat /\ w < cursor /\ cursor <= w
    BY <1>5, <1>8, <2>1 DEF IInv, TypeOK, UploadInv, Views
  <2> QED BY <1>8, <2>2
<1> QED BY <1>5, <1>7, <1>9, <1>10, <1>11

LEMMA PutWithGapInv == ASSUME IInv, NEW v \in Views, PutWithGap(v) PROVE IInv'
<1> USE DEF PutWithGap
<1>1. fetching \subseteq Views /\ waiting \ {v} \subseteq fetching
  BY DEF IInv, TypeOK, WaitingInv
<1>2. /\ storage' \subseteq Views /\ listeners' \subseteq Views
      /\ waiting' \subseteq Views /\ fetching' \subseteq Views
      /\ WaitingInv'
  BY <1>1, StoreAndEnqueue
<1>3. /\ cursor' \in 1 .. MaxView + 1
      /\ uploading' \subseteq Views /\ Cardinality(Busy') <= MaxUploads
      /\ uploading' \cap reported' = {}
      /\ \A w \in uploading' \cup reported' : w < cursor'
  BY <1>2, LoopInv DEF Busy
<1>4. TypeOK' BY <1>2, <1>3 DEF IInv, TypeOK
<1>5. UploadInv' BY <1>3 DEF IInv, UploadInv, Resume
<1> QED BY <1>2, <1>4, <1>5 DEF IInv

LEMMA DeliverInv == ASSUME IInv, NEW v \in Views, Deliver(v) PROVE IInv'
<1> USE DEF Deliver
<1>1. (fetching \ {v}) \subseteq Views /\ waiting \ {v} \subseteq (fetching \ {v})
  BY DEF IInv, TypeOK, WaitingInv
<1>2. /\ storage' \subseteq Views /\ listeners' \subseteq Views
      /\ waiting' \subseteq Views /\ fetching' \subseteq Views
      /\ WaitingInv'
  BY <1>1, StoreAndEnqueue
<1>3. /\ cursor' \in 1 .. MaxView + 1
      /\ uploading' \subseteq Views /\ Cardinality(Busy') <= MaxUploads
      /\ uploading' \cap reported' = {}
      /\ \A w \in uploading' \cup reported' : w < cursor'
  BY <1>2, LoopInv DEF Busy
<1>4. TypeOK' BY <1>2, <1>3 DEF IInv, TypeOK
<1>5. UploadInv' BY <1>3 DEF IInv, UploadInv, Resume
<1> QED BY <1>2, <1>4, <1>5 DEF IInv

LEMMA GetWaitsInv == ASSUME IInv, NEW v \in Views, GetWaits(v) PROVE IInv'
<1> USE DEF GetWaits
<1>1. TypeOK' BY DEF IInv, TypeOK, Busy
<1>2. WaitingInv' BY DEF IInv, WaitingInv
<1>3. UploadInv' BY DEF IInv, UploadInv, Resume
<1> QED BY <1>1, <1>2, <1>3 DEF IInv

LEMMA ServeInv == ASSUME IInv, NEW v \in Views, Serve(v) PROVE IInv'
<1> USE DEF Serve, resolver
<1>1. storage' = storage /\ storage' \subseteq Views BY DEF IInv, TypeOK
<1>2. /\ cursor' \in 1 .. MaxView + 1
      /\ uploading' \subseteq Views /\ Cardinality(Busy') <= MaxUploads
      /\ uploading' \cap reported' = {}
      /\ \A w \in uploading' \cup reported' : w < cursor'
  BY <1>1, LoopInv DEF Busy
<1>3. TypeOK' BY <1>2 DEF IInv, TypeOK
<1>4. WaitingInv' BY DEF IInv, WaitingInv
<1>5. UploadInv' BY <1>2 DEF IInv, UploadInv, Resume
<1> QED BY <1>3, <1>4, <1>5 DEF IInv

LEMMA SubmittedInv == ASSUME IInv, NEW v \in Views, Submitted(v) PROVE IInv'
<1> USE DEF Submitted, resolver
<1>1. Busy' = Busy BY DEF Busy
<1>2. TypeOK' BY <1>1 DEF IInv, TypeOK
<1>3. WaitingInv' BY DEF IInv, WaitingInv
<1>4. UploadInv' BY DEF IInv, UploadInv, Resume
<1> QED BY <1>2, <1>3, <1>4 DEF IInv

LEMMA UploadedAheadInv == ASSUME IInv, NEW v \in Views, UploadedAhead(v) PROVE IInv'
<1> USE DEF UploadedAhead, resolver
<1>1. Busy' \subseteq Busy BY DEF Busy
<1>2. IsFiniteSet(Busy) BY BusyIsFinite DEF IInv
<1>3. IsFiniteSet(Busy') /\ Cardinality(Busy') <= Cardinality(Busy) BY <1>1, <1>2, FS_Subset, Zenon
<1>4. Cardinality(Busy) \in Nat /\ Cardinality(Busy') \in Nat /\ MaxUploads \in Nat
  BY <1>2, <1>3, FS_CardinalityType, SeederAssumption
<1>5. Cardinality(Busy') <= MaxUploads BY <1>3, <1>4 DEF IInv, TypeOK
<1>6. TypeOK' BY <1>5 DEF IInv, TypeOK
<1>7. WaitingInv' BY DEF IInv, WaitingInv
<1>8. UploadInv' BY DEF IInv, UploadInv, Resume
<1> QED BY <1>6, <1>7, <1>8 DEF IInv

LEMMA UploadedInv == ASSUME IInv, NEW v \in Views, Uploaded(v) PROVE IInv'
<1> USE DEF Uploaded, resolver
<1> DEFINE end == EndOfRun(tracked', boundary)
<1>1. storage' = storage /\ storage' \subseteq Views BY DEF IInv, TypeOK
<1>2. tracked' \subseteq indexed /\ tracked' \subseteq Views BY DEF IInv, TypeOK, UploadInv
<1>3. MaxView \in Nat /\ boundary \in Nat /\ boundary >= 1 /\ marker \in Nat
  BY SeederAssumption DEF IInv, TypeOK, Views
<1>4. end \in tracked' /\ boundary <= end /\ boundary .. end \subseteq tracked'
  <2>1. tracked' \subseteq 1 .. MaxView /\ boundary \in tracked' BY <1>2 DEF Views
  <2> QED BY <1>3, <2>1, RunEnds
<1>5. \/ end > boundary /\ boundary' = end /\ marker' = end
      \/ ~(end > boundary) /\ boundary' = boundary /\ marker' = marker
  BY DEF EndRegion
<1> HIDE DEF end
<1>6. end \in Views /\ end \in Nat BY <1>2, <1>3, <1>4 DEF Views
<1>7. boundary' \in Views /\ marker' \in 0 .. MaxView
  BY <1>3, <1>5, <1>6 DEF IInv, TypeOK, Views
<1>8. boundary' = Resume'
  <2>1. CASE end > boundary BY <1>3, <1>5, <1>6, <2>1 DEF Resume
  <2>2. CASE ~(end > boundary) BY <1>5, <2>2 DEF IInv, UploadInv, Resume
  <2> QED BY <2>1, <2>2
<1>9. 1 .. marker' \subseteq indexed
  <2>1. CASE end > boundary
    <3>1. ASSUME NEW w \in 1 .. end PROVE w \in indexed
      <4>1. CASE w >= boundary BY <1>2, <1>3, <1>4, <1>6, <4>1
      <4>2. CASE w < boundary
        <5>1. boundary = marker BY <1>3, <4>2, <1>6 DEF IInv, UploadInv, Resume
        <5> QED BY <1>3, <1>6, <4>2, <5>1 DEF IInv, UploadInv
      <4> QED BY <1>3, <1>6, <4>1, <4>2
    <3> QED BY <1>5, <2>1, <3>1
  <2>2. CASE ~(end > boundary) BY <1>5, <2>2 DEF IInv, UploadInv
  <2> QED BY <2>1, <2>2
<1>10. /\ cursor' \in 1 .. MaxView + 1
       /\ uploading' \subseteq Views /\ Cardinality(Busy') <= MaxUploads
       /\ uploading' \cap reported' = {}
       /\ \A w \in uploading' \cup reported' : w < cursor'
  <2> DEFINE busy == Busy \ {v}
  <2>1. busy \subseteq Busy /\ reported' \subseteq reported OBVIOUS
  <2>2. busy = uploading \cup reported' BY DEF IInv, UploadInv, Busy
  <2>3. UploadLoop(storage', busy) BY <1>1
  <2> HIDE DEF busy
  <2> QED BY <1>1, <2>1, <2>2, <2>3, LoopInv, Zenon
<1>11. TypeOK' BY <1>1, <1>2, <1>7, <1>10 DEF IInv, TypeOK
<1>12. WaitingInv' BY DEF IInv, WaitingInv
<1>13. UploadInv' BY <1>2, <1>8, <1>9, <1>10 DEF IInv, UploadInv
<1> QED BY <1>11, <1>12, <1>13 DEF IInv

LEMMA CrashInv == ASSUME IInv, Crash PROVE IInv'
<1> USE DEF Crash
<1>1. Busy' = {} BY DEF Busy
<1>2. Cardinality(Busy') = 0 BY <1>1, FS_EmptySet, Zenon
<1>3. TypeOK'
  <2>1. MaxUploads \in Nat /\ MaxCrashes \in Nat BY SeederAssumption
  <2>2. crashes' \in 0 .. MaxCrashes /\ Cardinality(Busy') <= MaxUploads
    BY <1>2, <2>1 DEF IInv, TypeOK
  <2> QED BY <2>2 DEF IInv, TypeOK
<1>4. WaitingInv' BY DEF WaitingInv
<1>5. UploadInv' BY DEF IInv, UploadInv, Resume
<1> QED BY <1>3, <1>4, <1>5 DEF IInv

\* While the node is down nothing waits and no task runs.
DownInv == ~up => listeners = {} /\ uploading = {} /\ reported = {} /\ tracked = {}

LEMMA RestartInv == ASSUME IInv, DownInv, Restart PROVE IInv'
<1> USE DEF Restart
<1>1. MaxView \in Nat BY SeederAssumption
<1>2. /\ MissingItems(storage, Batch) \subseteq Views
      /\ MissingItems(storage, Batch) \cap storage = {}
  BY <1>1, MissingAreGaps DEF IInv, TypeOK, Views
<1>3. boundary' = Resume /\ boundary = Resume BY DEF IInv, UploadInv
<1>4. Resume \in 1 .. MaxView + 1 BY <1>1, <1>3 DEF IInv, TypeOK, Views
<1>5. TypeOK' BY <1>2, <1>3, <1>4 DEF IInv, TypeOK, Busy
<1>6. WaitingInv' BY <1>2 DEF WaitingInv, DownInv
<1>7. UploadInv' BY <1>3 DEF IInv, UploadInv, DownInv, Resume
<1> QED BY <1>5, <1>6, <1>7 DEF IInv

LEMMA NextInv == IInv /\ DownInv /\ [Next]_vars => IInv' /\ DownInv'
<1> SUFFICES ASSUME IInv, DownInv, [Next]_vars PROVE IInv' /\ DownInv' OBVIOUS
<1>1. CASE UNCHANGED vars
  BY <1>1 DEF vars, IInv, DownInv, TypeOK, Busy, WaitingInv, UploadInv, Resume
<1>2. ASSUME NEW v \in Views, PutNoGap(v) PROVE IInv' /\ DownInv'
  BY <1>2, PutNoGapInv DEF PutNoGap, DownInv
<1>3. ASSUME NEW v \in Views, PutWithGap(v) PROVE IInv' /\ DownInv'
  BY <1>3, PutWithGapInv DEF PutWithGap, DownInv
<1>4. ASSUME NEW v \in Views, GetWaits(v) PROVE IInv' /\ DownInv'
  BY <1>4, GetWaitsInv DEF GetWaits, DownInv
<1>5. ASSUME NEW v \in Views, Serve(v) PROVE IInv' /\ DownInv'
  BY <1>5, ServeInv DEF Serve, DownInv
<1>6. ASSUME NEW v \in Views, Deliver(v) PROVE IInv' /\ DownInv'
  BY <1>6, DeliverInv DEF Deliver, DownInv
<1>7. ASSUME NEW v \in Views, Submitted(v) PROVE IInv' /\ DownInv'
  BY <1>7, SubmittedInv DEF Submitted, DownInv
<1>8. ASSUME NEW v \in Views, UploadedAhead(v) PROVE IInv' /\ DownInv'
  BY <1>8, UploadedAheadInv DEF UploadedAhead, DownInv
<1>9. ASSUME NEW v \in Views, Uploaded(v) PROVE IInv' /\ DownInv'
  BY <1>9, UploadedInv DEF Uploaded, DownInv
<1>10. CASE Crash BY <1>10, CrashInv DEF Crash, DownInv
<1>11. CASE Restart BY <1>11, RestartInv DEF Restart, DownInv
<1> QED
  BY <1>1, <1>2, <1>3, <1>4, <1>5, <1>6, <1>7, <1>8, <1>9, <1>10, <1>11 DEF Next

LEMMA Invariance == Spec => []IInv
<1>1. Init => IInv /\ DownInv BY InitInv DEF Init, DownInv
<1>2. IInv /\ DownInv /\ [Next]_vars => IInv' /\ DownInv' BY NextInv
<1> QED BY <1>1, <1>2, PTL DEF Spec

----------------------------------------------------------------------------
\* The actor's state keeps its types and never has more than
\* max_uploads_outstanding uploads.
THEOREM TypeCorrect == Spec => []TypeOK
<1>1. IInv => TypeOK BY DEF IInv
<1> QED BY <1>1, Invariance, PTL

\* No listener and no gap the actor should fill is ever without a fetch.
THEOREM FetchesAreAlwaysKept == Spec => []FetchesAreKept
<1>1. IInv => FetchesAreKept BY DEF IInv, WaitingInv, FetchesAreKept
<1> QED BY <1>1, Invariance, PTL

\* The durable marker never runs ahead of the indexer.
THEOREM MarkerIsAlwaysSafe == Spec => []MarkerIsSafe
<1>1. IInv => MarkerIsSafe BY DEF IInv, UploadInv, MarkerIsSafe
<1> QED BY <1>1, Invariance, PTL

(***************************************************************************)
(* The index.                                                              *)
(***************************************************************************)
Requests == [at : {"claim", "index", "announce", "store"}, height : Heights]
Updates == [kind : {"events", "seed"}, of : Nat]

ServerTypes ==
    /\ ops \in [Heights -> [Keys -> Operations]]
    /\ handler \in [Validators -> {Idle} \cup Requests]
    /\ submittedState \subseteq Heights
    /\ queue \in [Clients -> Seq(Updates)] /\ received \in [Clients -> SUBSET Updates]

\* A key's history is what the submitted blocks do to it, and there is a proof
\* for each of them.
Touching(s, k) == {h \in s : ops[h][k] # "none"}
HistoryInv ==
    /\ submittedState \subseteq progress
    /\ keys = [k \in Keys |-> {[height |-> h, op |-> ops[h][k]] : h \in Touching(submittedState, k)}]

\* A handler has claimed the height and has not broadcast its block yet.
Open(hs, v) == hs[v].at \in {"index", "announce"}

\* Heights are claimed by one handler each, which is the only one to index the
\* block.
ClaimInv ==
    /\ \A v \in Validators : Open(handler, v) => handler[v].height \in submittedEvents
    /\ \A v, w \in Validators :
          Open(handler, v) /\ Open(handler, w) /\ handler[v].height = handler[w].height => v = w
    /\ \A b \in blocks : b.height \in submittedEvents
    /\ \A v \in Validators : handler[v].at = "index" => \A b \in blocks : b.height # handler[v].height

\* The explorer lists what it has indexed, once.
ListInv ==
    /\ activity \in Seq(Nat)
    /\ \A i \in DOMAIN activity : \E b \in blocks : b.height = activity[i]
    /\ IsInjective(activity)

\* What was broadcast is a block whose claim is settled, or a seed that is stored.
Settled(hs, claimed, stored, u) ==
    /\ u.kind = "events" =>
          u.of \in claimed /\ \A v \in Validators : Open(hs, v) => hs[v].height # u.of
    /\ u.kind = "seed" => u.of \in stored
SentInv ==
    \A c \in Clients :
        /\ IsInjective(queue[c]) /\ Range(queue[c]) \cap received[c] = {}
        /\ \A u \in Range(queue[c]) \cup received[c] : Settled(handler, submittedEvents, seeds, u)

ServerInv == ServerTypes /\ HistoryInv /\ ClaimInv /\ ListInv /\ SentInv

----------------------------------------------------------------------------
\* A sequence without repetitions, shorter by its head or longer by something new.
LEMMA TailOnce ==
    ASSUME NEW S, NEW q \in Seq(S), q # <<>>, IsInjective(q)
    PROVE  /\ Tail(q) \in Seq(S) /\ IsInjective(Tail(q)) /\ Range(Tail(q)) \subseteq Range(q)
           /\ Head(q) \in Range(q) /\ Head(q) \in S /\ Head(q) \notin Range(Tail(q))
<1>1. /\ Len(q) \in Nat /\ Len(q) >= 1 /\ DOMAIN q = 1 .. Len(q)
      /\ Tail(q) \in Seq(S) /\ Len(Tail(q)) = Len(q) - 1
      /\ DOMAIN Tail(q) = 1 .. Len(q) - 1
      /\ \A i \in 1 .. Len(q) - 1 : Tail(q)[i] = q[i + 1]
      /\ Head(q) = q[1]
  OBVIOUS
<1>2. \A i \in DOMAIN Tail(q) : i + 1 \in DOMAIN q /\ i + 1 # 1 /\ Tail(q)[i] = q[i + 1]
  BY <1>1
<1>3. 1 \in DOMAIN q /\ q[1] \in S BY <1>1
<1>4. IsInjective(Tail(q)) BY <1>1, <1>2 DEF IsInjective
<1>5. Range(Tail(q)) \subseteq Range(q) BY <1>2 DEF Range
<1>6. Head(q) \notin Range(Tail(q)) BY <1>1, <1>2, <1>3 DEF Range, IsInjective
<1> QED BY <1>1, <1>3, <1>4, <1>5, <1>6 DEF Range

LEMMA AppendOnce ==
    ASSUME NEW S, NEW q \in Seq(S), NEW u \in S, IsInjective(q), u \notin Range(q)
    PROVE  /\ Append(q, u) \in Seq(S) /\ IsInjective(Append(q, u))
           /\ Range(Append(q, u)) \subseteq Range(q) \cup {u} /\ Append(q, u) # <<>>
<1> DEFINE r == Append(q, u)
<1>1. /\ Len(q) \in Nat /\ DOMAIN q = 1 .. Len(q)
      /\ r \in Seq(S) /\ Len(r) = Len(q) + 1 /\ DOMAIN r = 1 .. Len(q) + 1
      /\ \A i \in 1 .. Len(q) : r[i] = q[i]
      /\ r[Len(q) + 1] = u
  OBVIOUS
<1> HIDE DEF r
<1>2. \A i \in DOMAIN r : (i \in DOMAIN q /\ r[i] = q[i]) \/ (i = Len(q) + 1 /\ r[i] = u)
  BY <1>1
<1>3. IsInjective(r) BY <1>1, <1>2 DEF IsInjective, Range
<1>4. Range(r) \subseteq Range(q) \cup {u} BY <1>2 DEF Range
<1>5. r # <<>> BY <1>1
<1> QED BY <1>1, <1>3, <1>4, <1>5 DEF r

\* The channel takes an update that is not in it, and may lose the oldest.
LEMMA PushOnce ==
    ASSUME NEW S, NEW q \in Seq(S), NEW u \in S, IsInjective(q), u \notin Range(q)
    PROVE  /\ Push(q, u) \in Seq(S) /\ IsInjective(Push(q, u))
           /\ Range(Push(q, u)) \subseteq Range(q) \cup {u}
<1> DEFINE r == Append(q, u)
<1>1. /\ r \in Seq(S) /\ IsInjective(r) /\ Range(r) \subseteq Range(q) \cup {u} /\ r # <<>>
  BY AppendOnce
<1> HIDE DEF r
<1>2. Tail(r) \in Seq(S) /\ IsInjective(Tail(r)) /\ Range(Tail(r)) \subseteq Range(r)
  BY <1>1, TailOnce
<1>3. Push(q, u) = IF Len(r) > Capacity THEN Tail(r) ELSE r BY DEF Push, r
<1> QED BY <1>1, <1>2, <1>3

\* Broadcasting what nobody was sent yet.
LEMMA BroadcastOnce ==
    ASSUME ServerTypes, SentInv, NEW u \in Updates, Broadcast(u), received' = received,
           \A c \in Clients : u \notin Range(queue[c]) \cup received[c],
           Settled(handler', submittedEvents', seeds', u),
           \A w : Settled(handler, submittedEvents, seeds, w)
                    => Settled(handler', submittedEvents', seeds', w)
    PROVE  SentInv' /\ queue' \in [Clients -> Seq(Updates)]
<1>1. ASSUME NEW c \in Clients
      PROVE  /\ queue'[c] \in Seq(Updates) /\ IsInjective(queue'[c])
             /\ Range(queue'[c]) \subseteq Range(queue[c]) \cup {u}
  <2>1. queue[c] \in Seq(Updates) /\ IsInjective(queue[c]) /\ u \notin Range(queue[c])
    BY DEF ServerTypes, SentInv
  <2>2. queue'[c] = Push(queue[c], u) BY DEF Broadcast
  <2> QED BY <2>1, <2>2, PushOnce
<1>2. queue' \in [Clients -> Seq(Updates)] BY <1>1 DEF Broadcast
<1>3. ASSUME NEW c \in Clients
      PROVE  /\ IsInjective(queue'[c]) /\ Range(queue'[c]) \cap received'[c] = {}
             /\ \A w \in Range(queue'[c]) \cup received'[c] :
                   Settled(handler', submittedEvents', seeds', w)
  <2>1. Range(queue[c]) \cap received[c] = {} BY DEF SentInv
  <2>2. \A w \in Range(queue[c]) \cup received[c] : Settled(handler, submittedEvents, seeds, w)
    BY DEF SentInv
  <2> QED BY <1>1, <2>1, <2>2
<1>4. SentInv' BY <1>3 DEF SentInv
<1> QED BY <1>2, <1>4

\* No broadcast: what was sent stays settled.
LEMMA SentKept ==
    ASSUME SentInv, queue' = queue, received' = received,
           \A w : Settled(handler, submittedEvents, seeds, w)
                    => Settled(handler', submittedEvents', seeds', w)
    PROVE  SentInv'
BY DEF SentInv

LEMMA ServerInitInv == ServerInit => ServerInv
<1> SUFFICES ASSUME ServerInit PROVE ServerInv OBVIOUS
<1>1. ServerTypes BY DEF ServerInit, ServerTypes
<1>2. HistoryInv BY DEF ServerInit, HistoryInv, Touching
<1>3. ClaimInv BY DEF ServerInit, ClaimInv, Open, Idle
<1>4. ListInv BY DEF ServerInit, ListInv, IsInjective
<1>5. SentInv BY DEF ServerInit, SentInv, IsInjective, Range
<1> QED BY <1>1, <1>2, <1>3, <1>4, <1>5 DEF ServerInv

\* A step after which no other handler has a claim keeps the claims apart, and
\* what was sent settled.
NoNewClaim ==
    /\ \A v \in Validators : Open(handler', v) =>
          /\ Open(handler, v) /\ handler'[v].height = handler[v].height
          /\ handler'[v].at = "index" => handler[v].at = "index"
    /\ submittedEvents \subseteq submittedEvents' /\ seeds \subseteq seeds'

LEMMA ClaimsKept ==
    ASSUME ClaimInv, NoNewClaim, blocks' = blocks
    PROVE  ClaimInv'
<1>1. ASSUME NEW v \in Validators, Open(handler', v)
      PROVE  /\ Open(handler, v) /\ handler'[v].height = handler[v].height
             /\ handler'[v].at = "index" => handler[v].at = "index"
  BY <1>1 DEF NoNewClaim
<1>2. \A v \in Validators : handler'[v].at = "index" => Open(handler', v) BY DEF Open
<1>3. submittedEvents \subseteq submittedEvents' BY DEF NoNewClaim
<1>4. \A v \in Validators : Open(handler', v) => handler'[v].height \in submittedEvents'
  BY <1>1, <1>3 DEF ClaimInv
<1>5. \A v, w \in Validators :
         Open(handler', v) /\ Open(handler', w) /\ handler'[v].height = handler'[w].height => v = w
  BY <1>1 DEF ClaimInv
<1>6. \A b \in blocks' : b.height \in submittedEvents' BY <1>3 DEF ClaimInv
<1>7. \A v \in Validators : handler'[v].at = "index" =>
         \A b \in blocks' : b.height # handler'[v].height
  BY <1>1, <1>2 DEF ClaimInv
<1> QED BY <1>4, <1>5, <1>6, <1>7 DEF ClaimInv, Open

LEMMA SettledKept ==
    ASSUME NoNewClaim, NEW u, Settled(handler, submittedEvents, seeds, u)
    PROVE  Settled(handler', submittedEvents', seeds', u)
BY DEF NoNewClaim, Settled

LEMMA ListKept ==
    ASSUME ListInv, activity' = activity, blocks' = blocks
    PROVE  ListInv'
BY DEF ListInv

LEMMA HistoryKept ==
    ASSUME HistoryInv, keys' = keys, progress' = progress, submittedState' = submittedState,
           ops' = ops
    PROVE  HistoryInv'
BY DEF HistoryInv, Touching

\* A handler moves on.
LEMMA HandlerMoves ==
    ASSUME ServerTypes, NEW v \in Validators, NEW r \in {Idle} \cup Requests,
           handler' = [handler EXCEPT ![v] = r]
    PROVE  /\ handler' \in [Validators -> {Idle} \cup Requests]
           /\ handler'[v] = r /\ \A w \in Validators : w # v => handler'[w] = handler[w]
BY DEF ServerTypes

\* A step that only moves a handler, without a claim.
LEMMA QuietStep ==
    ASSUME ServerInv, NEW v \in Validators, NEW r \in {Idle} \cup Requests,
           handler' = [handler EXCEPT ![v] = r], r.at \notin {"index", "announce"},
           ops' = ops, submittedState' = submittedState, queue' = queue, received' = received,
           keys' = keys, progress' = progress, blocks' = blocks, activity' = activity,
           seeds' = seeds, submittedEvents \subseteq submittedEvents'
    PROVE  ServerInv'
<1>1. /\ handler' \in [Validators -> {Idle} \cup Requests]
      /\ handler'[v] = r /\ \A w \in Validators : w # v => handler'[w] = handler[w]
  BY HandlerMoves DEF ServerInv
<1>2. ServerTypes' BY <1>1 DEF ServerInv, ServerTypes
<1>3. NoNewClaim BY <1>1 DEF NoNewClaim, Open
<1>4. SentInv' BY <1>3, SettledKept, SentKept DEF ServerInv
<1> QED BY <1>2, <1>3, <1>4, HistoryKept, ClaimsKept, ListKept DEF ServerInv

LEMMA SubmitInv == ASSUME ServerInv, NEW v \in Validators, NEW h \in Heights, Submit(v, h) PROVE ServerInv'
<1> DEFINE r == [at |-> "claim", height |-> h]
<1>1. r \in Requests /\ r.at \notin {"index", "announce"} BY DEF Requests
<1>2. /\ handler' = [handler EXCEPT ![v] = r]
      /\ ops' = ops /\ submittedState' = submittedState /\ queue' = queue /\ received' = received
      /\ keys' = keys /\ progress' = progress /\ blocks' = blocks /\ activity' = activity
      /\ seeds' = seeds /\ submittedEvents' = submittedEvents
  BY DEF Submit, content, state
<1> HIDE DEF r
<1> QED BY <1>1, <1>2, QuietStep

LEMMA TimeoutInv == ASSUME ServerInv, NEW v \in Validators, Timeout(v) PROVE ServerInv'
<1>1. Idle.at \notin {"index", "announce"} BY DEF Idle
<1>2. /\ handler' = [handler EXCEPT ![v] = Idle]
      /\ ops' = ops /\ submittedState' = submittedState /\ queue' = queue /\ received' = received
      /\ keys' = keys /\ progress' = progress /\ blocks' = blocks /\ activity' = activity
      /\ seeds' = seeds /\ submittedEvents' = submittedEvents
  BY DEF Timeout, content, state
<1> QED BY <1>1, <1>2, QuietStep

\* A handler that is at some step has a height.
LEMMA AtHeight ==
    ASSUME ServerTypes, NEW v \in Validators, NEW a \in {"claim", "index", "announce", "store"},
           handler[v].at = a
    PROVE  handler[v] \in Requests /\ handler[v].height \in Heights
<1>1. handler[v] \in {Idle} \cup Requests BY DEF ServerTypes
<1>2. handler[v] # Idle BY DEF Idle
<1>3. handler[v] \in Requests BY <1>1, <1>2
<1> QED BY <1>3 DEF Requests

LEMMA ClaimStepInv == ASSUME ServerInv, NEW v \in Validators, Claim(v) PROVE ServerInv'
<1> DEFINE h == handler[v].height
           at == IF h \in submittedEvents THEN "store" ELSE "index"
           r == [handler[v] EXCEPT !.at = at]
<1>1. handler[v] \in Requests /\ h \in Heights BY AtHeight DEF ServerInv, Claim
<1>2. r \in Requests /\ r.at = at /\ r.height = h BY <1>1 DEF Requests
<1>3. /\ handler' = [handler EXCEPT ![v] = r] /\ submittedEvents' = submittedEvents \cup {h}
      /\ ops' = ops /\ submittedState' = submittedState /\ queue' = queue /\ received' = received
      /\ keys' = keys /\ progress' = progress /\ blocks' = blocks /\ activity' = activity
      /\ seeds' = seeds
  BY DEF Claim, content, ServerInv, ServerTypes
<1>4. CASE h \in submittedEvents
  <2>1. r.at = "store" BY <1>2, <1>4
  <2> HIDE DEF r, at
  <2> QED BY <1>2, <1>3, <2>1, QuietStep
<1>5. CASE h \notin submittedEvents
  <2>1. r.at = "index" BY <1>2, <1>5
  <2> HIDE DEF r, at, h
  <2>2. /\ handler' \in [Validators -> {Idle} \cup Requests]
        /\ handler'[v] = r /\ \A w \in Validators : w # v => handler'[w] = handler[w]
    BY <1>2, <1>3, HandlerMoves DEF ServerInv
  <2>3. ServerTypes' BY <1>3, <2>2 DEF ServerInv, ServerTypes
  <2>4. Open(handler', v) /\ handler'[v].height = h BY <1>2, <2>1, <2>2 DEF Open
  <2>5. \A w \in Validators : w # v =>
           /\ Open(handler', w) <=> Open(handler, w)
           /\ Open(handler', w) => handler'[w].height \in submittedEvents
    BY <2>2 DEF Open, ServerInv, ClaimInv
  <2>6. ClaimInv'
    <3>1. ASSUME NEW w \in Validators, Open(handler', w)
          PROVE  handler'[w].height \in submittedEvents'
      <4>1. CASE w = v BY <1>3, <2>4, <4>1
      <4>2. CASE w # v
        <5>1. handler'[w].height \in submittedEvents BY <2>5, <3>1, <4>2
        <5> QED BY <1>3, <5>1
      <4> QED BY <4>1, <4>2
    <3>2. \A w, x \in Validators : Open(handler', w) /\ Open(handler', x)
             /\ handler'[w].height = handler'[x].height => w = x
      BY <1>5, <2>2, <2>4, <2>5 DEF ServerInv, ClaimInv
    <3>3. \A b \in blocks' : b.height \in submittedEvents' BY <1>3 DEF ServerInv, ClaimInv
    <3>4. \A w \in Validators : handler'[w].at = "index" =>
             \A b \in blocks' : b.height # handler'[w].height
      BY <1>3, <1>5, <2>2, <2>4 DEF ServerInv, ClaimInv
    <3> QED BY <3>1, <3>2, <3>3, <3>4 DEF ClaimInv, Open
  <2>7. \A w : Settled(handler, submittedEvents, seeds, w) =>
                  Settled(handler', submittedEvents', seeds', w)
    BY <1>3, <1>5, <2>2, <2>4, <2>5 DEF Settled
  <2>8. SentInv' BY <1>3, <2>7, SentKept DEF ServerInv
  <2> QED BY <1>3, <2>3, <2>6, <2>8, HistoryKept, ListKept DEF ServerInv
<1> QED BY <1>4, <1>5

LEMMA IndexBlockInv == ASSUME ServerInv, NEW v \in Validators, IndexBlock(v) PROVE ServerInv'
<1> DEFINE h == handler[v].height
           r == [handler[v] EXCEPT !.at = "announce"]
           parent == IF \E b \in blocks : b.height = h - 1 THEN h - 1 ELSE 0
           new == [height |-> h, parent |-> parent]
<1>1. handler[v] \in Requests /\ h \in Heights /\ handler[v].at = "index"
  BY AtHeight DEF ServerInv, IndexBlock
<1>2. r \in Requests /\ r.at = "announce" /\ r.height = h BY <1>1 DEF Requests
<1>3. \A b \in blocks : b.height # h BY <1>1 DEF ServerInv, ClaimInv
<1>4. /\ handler' = [handler EXCEPT ![v] = r]
      /\ ops' = ops /\ submittedState' = submittedState /\ queue' = queue /\ received' = received
      /\ keys' = keys /\ progress' = progress /\ submittedEvents' = submittedEvents
      /\ seeds' = seeds
      /\ blocks' = blocks \cup {new}
      /\ activity' = IF Concerns(h) THEN Append(activity, h) ELSE activity
  BY <1>3, Zenon DEF IndexBlock, content
<1>5. new.height = h OBVIOUS
<1> HIDE DEF new, parent, r, h
<1>6. /\ handler' \in [Validators -> {Idle} \cup Requests]
      /\ handler'[v] = r /\ \A w \in Validators : w # v => handler'[w] = handler[w]
  BY <1>2, <1>4, HandlerMoves DEF ServerInv
<1>7. ServerTypes' BY <1>4, <1>6 DEF ServerInv, ServerTypes
<1>8. NoNewClaim BY <1>1, <1>2, <1>4, <1>6 DEF NoNewClaim, Open, h
<1>9. SentInv' BY <1>4, <1>8, SettledKept, SentKept DEF ServerInv
<1>10. ClaimInv'
  <2>1. Open(handler, v) /\ h \in submittedEvents BY <1>1 DEF Open, ServerInv, ClaimInv, h
  <2>2. \A w \in Validators : Open(handler', w) => Open(handler, w) /\ handler'[w].height = handler[w].height
    BY <1>8 DEF NoNewClaim
  <2>3. \A w \in Validators : Open(handler', w) => handler'[w].height \in submittedEvents'
    BY <1>4, <2>2 DEF ServerInv, ClaimInv
  <2>4. \A w, x \in Validators : Open(handler', w) /\ Open(handler', x)
           /\ handler'[w].height = handler'[x].height => w = x
    BY <2>2 DEF ServerInv, ClaimInv
  <2>5. \A b \in blocks' : b.height \in submittedEvents'
    BY <1>4, <1>5, <2>1 DEF ServerInv, ClaimInv
  <2>6. ASSUME NEW w \in Validators, handler'[w].at = "index", NEW b \in blocks'
        PROVE  b.height # handler'[w].height
    <3>1. w # v BY <1>2, <1>6, <2>6
    <3>2. handler'[w] = handler[w] /\ handler[w].at = "index" /\ Open(handler, w)
      BY <1>6, <2>6, <3>1 DEF Open
    <3>3. handler[w].height # h BY <2>1, <3>1, <3>2 DEF ServerInv, ClaimInv, h
    <3> QED BY <1>4, <1>5, <3>2, <3>3 DEF ServerInv, ClaimInv
  <2> QED BY <2>3, <2>4, <2>5, <2>6 DEF ClaimInv, Open
<1>11. ListInv'
  <2>1. activity \in Seq(Nat) /\ IsInjective(activity)
        /\ \A i \in DOMAIN activity : \E b \in blocks : b.height = activity[i]
    BY DEF ServerInv, ListInv
  <2>2. h \in Nat BY <1>1, SimulatorAssumption DEF Heights, h
  <2>3. h \notin Range(activity) BY <1>3, <2>1 DEF Range
  <2>4. /\ Append(activity, h) \in Seq(Nat) /\ IsInjective(Append(activity, h))
        /\ Range(Append(activity, h)) \subseteq Range(activity) \cup {h}
    BY <2>1, <2>2, <2>3, AppendOnce
  <2>5. activity' \in Seq(Nat) /\ IsInjective(activity') BY <1>4, <2>1, <2>4
  <2>6. Range(activity') \subseteq Range(activity) \cup {h} BY <1>4, <2>4
  <2>7. \A i \in DOMAIN activity' : \E b \in blocks' : b.height = activity'[i]
    BY <1>4, <1>5, <2>1, <2>6 DEF Range
  <2> QED BY <2>5, <2>7 DEF ListInv
<1> QED BY <1>4, <1>7, <1>9, <1>10, <1>11, HistoryKept DEF ServerInv

LEMMA AnnounceInv == ASSUME ServerInv, NEW v \in Validators, Announce(v) PROVE ServerInv'
<1> DEFINE h == handler[v].height
           r == [handler[v] EXCEPT !.at = "store"]
           u == [kind |-> "events", of |-> h]
<1>1. handler[v] \in Requests /\ h \in Heights /\ handler[v].at = "announce"
  BY AtHeight DEF ServerInv, Announce
<1>2. r \in Requests /\ r.at = "store" /\ r.height = h BY <1>1 DEF Requests
<1>3. u \in Updates /\ u.kind = "events" /\ u.of = h
  BY <1>1, SimulatorAssumption DEF Updates, Heights
<1>4. /\ handler' = [handler EXCEPT ![v] = r] /\ Broadcast(u)
      /\ ops' = ops /\ submittedState' = submittedState /\ received' = received
      /\ keys' = keys /\ progress' = progress /\ submittedEvents' = submittedEvents
      /\ seeds' = seeds /\ blocks' = blocks /\ activity' = activity
  BY DEF Announce, content, state
<1> HIDE DEF r, h, u
<1>5. /\ handler' \in [Validators -> {Idle} \cup Requests]
      /\ handler'[v] = r /\ \A w \in Validators : w # v => handler'[w] = handler[w]
  BY <1>2, <1>4, HandlerMoves DEF ServerInv
<1>6. NoNewClaim BY <1>2, <1>4, <1>5 DEF NoNewClaim, Open
<1>7. Open(handler, v) /\ h \in submittedEvents BY <1>1 DEF Open, ServerInv, ClaimInv, h
<1>8. \A c \in Clients : u \notin Range(queue[c]) \cup received[c]
  BY <1>3, <1>7 DEF ServerInv, SentInv, Settled, h
<1>9. Settled(handler', submittedEvents', seeds', u)
  <2>1. ASSUME NEW w \in Validators, Open(handler', w) PROVE handler'[w].height # h
    <3>1. w # v BY <1>2, <1>5, <2>1 DEF Open
    <3>2. handler'[w] = handler[w] /\ Open(handler, w) BY <1>5, <2>1, <3>1 DEF Open
    <3> QED BY <1>7, <3>1, <3>2 DEF ServerInv, ClaimInv, h
  <2> QED BY <1>3, <1>4, <1>7, <2>1 DEF Settled
<1>10. SentInv' /\ queue' \in [Clients -> Seq(Updates)]
  BY <1>3, <1>4, <1>6, <1>8, <1>9, SettledKept, BroadcastOnce DEF ServerInv
<1>11. ServerTypes' BY <1>4, <1>5, <1>10 DEF ServerInv, ServerTypes
<1> QED BY <1>4, <1>6, <1>10, <1>11, HistoryKept, ClaimsKept, ListKept DEF ServerInv

LEMMA StoreStateInv == ASSUME ServerInv, NEW v \in Validators, StoreState(v) PROVE ServerInv'
<1> DEFINE h == handler[v].height
<1>1. h \in Heights BY AtHeight DEF ServerInv, StoreState
<1>2. /\ handler' = [handler EXCEPT ![v] = Idle]
      /\ submittedState' = submittedState \cup {h}
      /\ IF h \in submittedState
         THEN keys' = keys /\ progress' = progress
         ELSE /\ keys' = [k \in Keys |-> IF ops[h][k] = "none" THEN keys[k]
                                         ELSE Keep(keys[k], h, ops[h][k])]
              /\ progress' = progress \cup {h}
      /\ ops' = ops /\ queue' = queue /\ received' = received
      /\ blocks' = blocks /\ activity' = activity /\ submittedEvents' = submittedEvents
      /\ seeds' = seeds
  BY DEF StoreState, content
<1> HIDE DEF h
<1>3. /\ handler' \in [Validators -> {Idle} \cup Requests]
      /\ handler'[v] = Idle /\ \A w \in Validators : w # v => handler'[w] = handler[w]
  BY <1>2, HandlerMoves DEF ServerInv
<1>4. ServerTypes' BY <1>1, <1>2, <1>3 DEF ServerInv, ServerTypes
<1>5. NoNewClaim BY <1>2, <1>3 DEF NoNewClaim, Open, Idle
<1>6. SentInv' BY <1>2, <1>5, SettledKept, SentKept DEF ServerInv
<1>7. HistoryInv'
  <2>1. CASE h \in submittedState
    <3>1. submittedState' = submittedState BY <1>2, <2>1
    <3> QED BY <1>2, <2>1, <3>1, HistoryKept DEF ServerInv
  <2>2. CASE h \notin submittedState
    <3>1. submittedState' \subseteq progress' BY <1>2, <2>2 DEF ServerInv, HistoryInv
    <3>2. ASSUME NEW k \in Keys
          PROVE  keys'[k] = {[height |-> g, op |-> ops[g][k]] : g \in Touching(submittedState', k)}
      <4> DEFINE entry(g) == [height |-> g, op |-> ops[g][k]]
      <4>1. keys[k] = {entry(g) : g \in Touching(submittedState, k)} BY DEF ServerInv, HistoryInv
      <4>2. \A g : entry(g).height = g OBVIOUS
      <4>3. CASE ops[h][k] = "none"
        <5>1. keys'[k] = keys[k] BY <1>2, <2>2, <4>3
        <5>2. Touching(submittedState', k) = Touching(submittedState, k)
          BY <1>2, <4>3 DEF Touching
        <5> QED BY <4>1, <5>1, <5>2
      <4>4. CASE ops[h][k] # "none"
        <5>1. keys'[k] = Keep(keys[k], h, ops[h][k]) BY <1>2, <2>2, <4>4
        <5>2. Keep(keys[k], h, ops[h][k]) = {o \in keys[k] : o.height # h} \cup {entry(h)}
          BY DEF Keep
        <5>3. \A o \in keys[k] : o.height # h BY <2>2, <4>1 DEF Touching
        <5>4. {o \in keys[k] : o.height # h} = keys[k] BY <5>3
        <5>5. Touching(submittedState', k) = Touching(submittedState, k) \cup {h}
          BY <1>2, <4>4 DEF Touching
        <5> HIDE DEF entry
        <5>6. keys'[k] = {entry(g) : g \in Touching(submittedState', k)}
          BY <4>1, <5>1, <5>2, <5>4, <5>5
        <5> QED BY <5>6 DEF entry
      <4> QED BY <4>3, <4>4
    <3>3. keys' = [k \in Keys |-> keys'[k]] BY <1>2, <2>2
    <3>4. keys' = [k \in Keys |->
                     {[height |-> g, op |-> ops[g][k]] : g \in Touching(submittedState', k)}]
      BY <3>2, <3>3
    <3> QED BY <1>2, <3>1, <3>4 DEF HistoryInv, Touching
  <2> QED BY <2>1, <2>2
<1> QED BY <1>2, <1>4, <1>5, <1>6, <1>7, ClaimsKept, ListKept DEF ServerInv

LEMMA SubmitSeedInv == ASSUME ServerInv, NEW view \in SeedViews, SubmitSeed(view) PROVE ServerInv'
<1> DEFINE u == [kind |-> "seed", of |-> view]
<1>1. u \in Updates /\ u.kind = "seed" /\ u.of = view
  BY SimulatorAssumption DEF Updates, SeedViews
<1>2. /\ Broadcast(u) /\ view \notin seeds /\ seeds' = seeds \cup {view}
      /\ handler' = handler
      /\ ops' = ops /\ submittedState' = submittedState /\ received' = received
      /\ keys' = keys /\ progress' = progress /\ submittedEvents' = submittedEvents
      /\ blocks' = blocks /\ activity' = activity
  BY DEF SubmitSeed, content
<1> HIDE DEF u
<1>3. NoNewClaim BY <1>2 DEF NoNewClaim
<1>4. \A c \in Clients : u \notin Range(queue[c]) \cup received[c]
  BY <1>1, <1>2 DEF ServerInv, SentInv, Settled
<1>5. Settled(handler', submittedEvents', seeds', u) BY <1>1, <1>2 DEF Settled
<1>6. SentInv' /\ queue' \in [Clients -> Seq(Updates)]
  BY <1>1, <1>2, <1>3, <1>4, <1>5, SettledKept, BroadcastOnce DEF ServerInv
<1>7. ServerTypes' BY <1>2, <1>6 DEF ServerInv, ServerTypes
<1> QED BY <1>2, <1>3, <1>6, <1>7, HistoryKept, ClaimsKept, ListKept DEF ServerInv

\* A step that concerns only one client's part of the stream.
LEMMA ClientStepInv ==
    ASSUME ServerInv, NEW c \in Clients, NEW q \in Seq(Updates), NEW s \in SUBSET Updates,
           queue' = [queue EXCEPT ![c] = q], received' = [received EXCEPT ![c] = s],
           IsInjective(q), Range(q) \cap s = {},
           Range(q) \cup s \subseteq Range(queue[c]) \cup received[c],
           handler' = handler, submittedEvents' = submittedEvents, seeds' = seeds,
           ops' = ops, submittedState' = submittedState, keys' = keys, progress' = progress,
           blocks' = blocks, activity' = activity
    PROVE  ServerInv'
<1>1. ServerTypes' BY DEF ServerInv, ServerTypes
<1>2. ASSUME NEW d \in Clients
      PROVE  /\ IsInjective(queue'[d]) /\ Range(queue'[d]) \cap received'[d] = {}
             /\ \A u \in Range(queue'[d]) \cup received'[d] :
                   Settled(handler, submittedEvents, seeds, u)
  <2>1. CASE d = c
    <3>1. queue'[d] = q /\ received'[d] = s BY <2>1 DEF ServerInv, ServerTypes
    <3>2. \A u \in Range(queue[c]) \cup received[c] : Settled(handler, submittedEvents, seeds, u)
      BY DEF ServerInv, SentInv
    <3> QED BY <3>1, <3>2
  <2>2. CASE d # c
    <3>1. queue'[d] = queue[d] /\ received'[d] = received[d] BY <2>2 DEF ServerInv, ServerTypes
    <3> QED BY <3>1 DEF ServerInv, SentInv
  <2> QED BY <2>1, <2>2
<1>3. SentInv' BY <1>2 DEF SentInv
<1>4. NoNewClaim BY DEF NoNewClaim
<1> QED BY <1>1, <1>3, <1>4, HistoryKept, ClaimsKept, ListKept DEF ServerInv

LEMMA SendUpdateInv == ASSUME ServerInv, NEW c \in Clients, SendUpdate(c) PROVE ServerInv'
<1> DEFINE q == Tail(queue[c])
           s == IF Passes(c, Head(queue[c])) THEN received[c] \cup {Head(queue[c])} ELSE received[c]
<1>1. /\ queue[c] \in Seq(Updates) /\ received \in [Clients -> SUBSET Updates]
      /\ IsInjective(queue[c]) /\ Range(queue[c]) \cap received[c] = {}
  BY DEF ServerInv, ServerTypes, SentInv
<1>2. /\ queue[c] # <<>>
      /\ queue' = [queue EXCEPT ![c] = q] /\ received' = [received EXCEPT ![c] = s]
      /\ handler' = handler /\ submittedEvents' = submittedEvents /\ seeds' = seeds
      /\ ops' = ops /\ submittedState' = submittedState /\ keys' = keys /\ progress' = progress
      /\ blocks' = blocks /\ activity' = activity
  BY <1>1 DEF SendUpdate, content, state
<1>3. /\ q \in Seq(Updates) /\ IsInjective(q) /\ Range(q) \subseteq Range(queue[c])
      /\ Head(queue[c]) \in Range(queue[c]) /\ Head(queue[c]) \in Updates
      /\ Head(queue[c]) \notin Range(q)
  BY <1>1, <1>2, TailOnce
<1>4. /\ s \in SUBSET Updates /\ Range(q) \cap s = {}
      /\ Range(q) \cup s \subseteq Range(queue[c]) \cup received[c]
  <2> HIDE DEF q
  <2> QED BY <1>1, <1>3
<1> HIDE DEF q, s
<1> QED BY <1>2, <1>3, <1>4, ClientStepInv

LEMMA ReconnectInv == ASSUME ServerInv, NEW c \in Clients, Reconnect(c) PROVE ServerInv'
<1> DEFINE s == received[c]
           q == <<>>
<1>1. q \in Seq(Updates) /\ IsInjective(q) /\ Range(q) = {} BY DEF IsInjective, Range
<1>2. s \in SUBSET Updates /\ received = [received EXCEPT ![c] = s]
  BY DEF ServerInv, ServerTypes
<1>3. /\ queue' = [queue EXCEPT ![c] = q] /\ received' = received
      /\ handler' = handler /\ submittedEvents' = submittedEvents /\ seeds' = seeds
      /\ ops' = ops /\ submittedState' = submittedState /\ keys' = keys /\ progress' = progress
      /\ blocks' = blocks /\ activity' = activity
  BY DEF Reconnect, content, state
<1>4. received' = [received EXCEPT ![c] = s] BY <1>2, <1>3
<1>5. Range(q) \cap s = {} /\ Range(q) \cup s \subseteq Range(queue[c]) \cup received[c]
  BY <1>1
<1> HIDE DEF q, s
<1> QED BY <1>1, <1>2, <1>3, <1>4, <1>5, ClientStepInv

LEMMA ServerNextInv == ServerInv /\ [ServerNext]_serverVars => ServerInv'
<1> SUFFICES ASSUME ServerInv, [ServerNext]_serverVars PROVE ServerInv' OBVIOUS
<1>1. ASSUME NEW v \in Validators, NEW h \in Heights, Submit(v, h) PROVE ServerInv'
  BY <1>1, SubmitInv
<1>2. ASSUME NEW v \in Validators, Step(v) PROVE ServerInv'
  BY <1>2, ClaimStepInv, IndexBlockInv, AnnounceInv, StoreStateInv DEF Step
<1>3. ASSUME NEW v \in Validators, Timeout(v) PROVE ServerInv' BY <1>3, TimeoutInv
<1>4. ASSUME NEW view \in SeedViews, SubmitSeed(view) PROVE ServerInv' BY <1>4, SubmitSeedInv
<1>5. ASSUME NEW c \in Clients, SendUpdate(c) \/ Reconnect(c) PROVE ServerInv'
  BY <1>5, SendUpdateInv, ReconnectInv
<1>6. CASE UNCHANGED serverVars
  <2>1. /\ queue' = queue /\ received' = received
        /\ handler' = handler /\ submittedEvents' = submittedEvents /\ seeds' = seeds
        /\ ops' = ops /\ submittedState' = submittedState /\ keys' = keys /\ progress' = progress
        /\ blocks' = blocks /\ activity' = activity
    BY <1>6 DEF serverVars, content, state
  <2>2. NoNewClaim BY <2>1 DEF NoNewClaim
  <2>3. ServerTypes' BY <2>1 DEF ServerInv, ServerTypes
  <2>4. SentInv' BY <2>1, <2>2, SettledKept, SentKept DEF ServerInv
  <2> QED BY <2>1, <2>2, <2>3, <2>4, HistoryKept, ClaimsKept, ListKept DEF ServerInv
<1> QED BY <1>1, <1>2, <1>3, <1>4, <1>5, <1>6 DEF ServerNext

LEMMA ServerInvariance == ServerSpec => []ServerInv
BY ServerInitInv, ServerNextInv, PTL DEF ServerSpec

\* Whatever the order, number and fate of the uploads, a query is answered from the
\* newest block submitted that touches the key.
THEOREM AnswersAreAlwaysLatest == ServerSpec => []AnswersAreLatest
<1>1. ASSUME ServerInv, NEW k \in Keys
      PROVE  QueryState(k) = IF \E h \in Newest(k) : ops[h][k] = "update"
                             THEN CHOOSE h \in Newest(k) : TRUE ELSE None
  <2> DEFINE T == Touching(submittedState, k)
             entry(g) == [height |-> g, op |-> ops[g][k]]
  <2>1. /\ keys[k] = {entry(g) : g \in T} /\ submittedState \subseteq progress
        /\ T \subseteq submittedState
    BY <1>1 DEF ServerInv, HistoryInv, Touching
  <2>2. T \subseteq Nat /\ MaxHeight \in Nat /\ \A g \in T : g <= MaxHeight
    <3>1. MaxHeight \in Nat BY SimulatorAssumption
    <3>2. T \subseteq 1 .. MaxHeight BY <1>1, <2>1 DEF ServerInv, ServerTypes, Heights
    <3> HIDE DEF T
    <3> QED BY <3>1, <3>2
  <2>3. Newest(k) = {h \in T : \A g \in T : g <= h} BY DEF Newest, Touching
  <2>4. \A g : entry(g).height = g /\ entry(g).op = ops[g][k] OBVIOUS
  <2> HIDE DEF T, entry
  <2>5. CASE T = {}
    <3>1. keys[k] = {} /\ Newest(k) = {} BY <2>1, <2>3, <2>5
    <3> QED BY <3>1 DEF QueryState
  <2>6. CASE T # {}
    <3> DEFINE h == Greatest(T)
    <3>1. h \in T /\ \A g \in T : g <= h BY <2>2, <2>6, GreatestIsGreatest
    <3> HIDE DEF h
    <3>2. Newest(k) = {h}
      <4>1. \A g \in Newest(k) : g \in Nat /\ h \in Nat /\ g <= h /\ h <= g BY <2>2, <2>3, <3>1
      <4>2. \A g \in Newest(k) : g = h BY <4>1
      <4>3. h \in Newest(k) BY <2>3, <3>1
      <4> QED BY <4>2, <4>3
    <3>3. Latest(keys[k]) = entry(h)
      <4>1. entry(h) \in keys[k] /\ \A p \in keys[k] : p.height <= entry(h).height
        BY <2>1, <2>4, <3>1
      <4> DEFINE o == CHOOSE o \in keys[k] : \A p \in keys[k] : p.height <= o.height
      <4>2. o \in keys[k] /\ \A p \in keys[k] : p.height <= o.height BY <4>1, Zenon
      <4> HIDE DEF o
      <4>3. PICK g \in T : o = entry(g) BY <2>1, <4>2
      <4>4. g <= h /\ h <= g BY <2>4, <3>1, <4>1, <4>2, <4>3
      <4>5. g = h BY <2>2, <3>1, <4>3, <4>4
      <4> QED BY <4>3, <4>5 DEF o, Latest
    <3>4. keys[k] # {} BY <2>1, <3>1
    <3>5. h \in progress BY <2>1, <3>1
    <3>6. (CHOOSE g \in Newest(k) : TRUE) = h BY <3>2
    <3>7. QueryState(k) = IF ops[h][k] = "update" THEN h ELSE None
      BY <2>4, <3>3, <3>4, <3>5 DEF QueryState
    <3> QED BY <3>2, <3>6, <3>7
  <2> QED BY <2>5, <2>6
<1>2. ServerInv => AnswersAreLatest BY <1>1 DEF AnswersAreLatest
<1> QED BY <1>2, ServerInvariance, PTL

\* However many validators upload a block, at the same time or again, no client is
\* sent it twice and the explorer lists it once.
THEOREM AlwaysAnnouncedOnce == ServerSpec => []AnnouncedOnce
<1>1. ServerInv => AnnouncedOnce BY DEF ServerInv, SentInv, ListInv, AnnouncedOnce
<1> QED BY <1>1, ServerInvariance, PTL

================================================================================
