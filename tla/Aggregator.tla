------------------------------- MODULE Aggregator ------------------------------
(***************************************************************************)
(* The aggregator actor: node/src/aggregator/actor.rs.                     *)
(*                                                                         *)
(* It records the result and the proofs of every executed block, collects  *)
(* the certificates of the network (fetching the ones it missed), answers  *)
(* the aggregation engine, and uploads a summary of each height to the     *)
(* indexer in order, several at a time; proofs are pruned behind the       *)
(* contiguous uploads.                                                     *)
(*                                                                         *)
(* The actor handles one message at a time; a handler is one step, and the *)
(* upload loop at the end of the actor's loop is part of it, unless the    *)
(* handler left by `continue'.  Only Executed takes several steps, because *)
(* its two writes run concurrently and a crash can fall between them.      *)
(* Upload tasks run beside the actor and report back through its mailbox.  *)
(***************************************************************************)
EXTENDS Ordinal

CONSTANTS
    MaxHeight,      \* bound of the model
    MaxUploads,     \* max_uploads_outstanding
    ItemsPerBlob,   \* prunable_items_per_blob: the cache prunes whole blobs
    Batch,          \* BATCH_ENQUEUE
    MaxCrashes      \* bound of the model

ASSUME BoundsAssumption ==
    /\ MaxHeight \in Nat /\ MaxCrashes \in Nat
    /\ MaxUploads \in Nat \ {0} /\ ItemsPerBlob \in Nat \ {0} /\ Batch \in Nat \ {0}

Heights == 1 .. MaxHeight

VARIABLES
    cache,         \* heights whose proofs are stored (durable)
    recorded,      \* length of the journal of results (durable)
    certificates,  \* heights whose certificate is stored (durable)
    acked,         \* marshal: last acknowledged height (durable)
    up,            \* the node runs
    writes,        \* Executed in progress: the writes still to do
    executing,     \* ... and its height; 0 when the actor is free
    cursor,        \* next height to upload
    boundary,      \* heights below it are uploaded
    uploading,     \* heights with an upload task at work
    reported,      \* ... whose Uploaded message is in the mailbox
    tracked,       \* tracked_uploads
    waiting,       \* certificates asked for and not yet seen
    fetching,      \* what the resolver is fetching (external)
    pending,       \* proposal_requests and verify_requests, by index
    indexed,       \* summaries the indexer has (external)
    panicked,      \* the actor panicked in its upload loop
    crashes

durable == <<cache, recorded, certificates, acked>>
uploads == <<cursor, boundary, uploading, reported, tracked>>
resolver == <<waiting, fetching>>
vars == <<cache, recorded, certificates, acked, up, writes, executing, cursor,
          boundary, uploading, reported, tracked, waiting, fetching, pending,
          indexed, panicked, crashes>>

Requests == {"propose", "verify"} \X Heights

Free == up /\ executing = 0

----------------------------------------------------------------------------
\* missing_items over the stored certificates.
Missing(certs) == MissingItems(certs, Batch)

\* Enqueue what is missing and not already waited for.
Enqueue(certs, wait, fetch) ==
    /\ waiting' = wait \cup Missing(certs)
    /\ fetching' = fetch \cup (Missing(certs) \ wait)

\* cache.prune(min): drops the blobs that lie wholly below min.
PruneTo(min) == {h \in cache : h \div ItemsPerBlob >= min \div ItemsPerBlob}

(***************************************************************************)
(* The upload loop: from the cursor on, while there is a free slot and     *)
(* both the proofs and the certificate are there.  It expects the result   *)
(* to be in the journal.                                                   *)
(***************************************************************************)
Slots(busy) == MaxUploads - Cardinality(busy)

UploadLoop(from, busy, proofs, certs, journal) ==
    LET next == {h \in Heights :
                   /\ from <= h /\ h < from + Slots(busy)
                   /\ \A k \in from .. h : k \in proofs /\ k \in certs}
    IN  /\ cursor' = from + Cardinality(next)
        /\ uploading' = uploading \cup next
        /\ panicked' = (panicked \/ \E h \in next : h > journal)

Busy == uploading \cup reported

\* A handler that falls through to the upload loop without touching it.
FallThrough(certs) == UploadLoop(cursor, Busy, cache, certs, recorded)

----------------------------------------------------------------------------
StartUploads(from) ==
    /\ cursor = from /\ boundary = from
    /\ uploading = {} /\ reported = {} /\ tracked = {}

Init ==
    /\ cache = {} /\ recorded = 0 /\ certificates = {} /\ acked = 0
    /\ up = TRUE
    /\ writes = {} /\ executing = 0
    /\ StartUploads(1)
    /\ waiting = {} /\ fetching = {}
    /\ pending = {}
    /\ indexed = {}
    /\ panicked = FALSE
    /\ crashes = 0

\* Message::Executed, sent again after a restart until it is acknowledged.
Executed ==
    /\ Free /\ ~panicked
    /\ acked < MaxHeight
    /\ executing' = acked + 1
    /\ writes' = {"proofs", "result"}
    /\ UNCHANGED <<durable, up, uploads, resolver, pending, indexed, panicked, crashes>>

PutProofs ==
    /\ up /\ "proofs" \in writes
    /\ cache' = cache \cup {executing}
    /\ writes' = writes \ {"proofs"}
    /\ UNCHANGED <<recorded, certificates, acked, up, executing, uploads, resolver,
                   pending, indexed, panicked, crashes>>

AppendResult ==
    /\ up /\ "result" \in writes
    /\ recorded' = IF recorded = executing THEN recorded ELSE recorded + 1
    /\ writes' = writes \ {"result"}
    /\ UNCHANGED <<cache, certificates, acked, up, executing, uploads, resolver,
                   pending, indexed, panicked, crashes>>

\* Both writes are synced: requests up to this height are answered or
\* dropped, and the block is acknowledged.
ExecutedDone ==
    /\ up /\ executing # 0 /\ writes = {}
    /\ pending' = {r \in pending : r[2] > executing}
    /\ acked' = executing
    /\ executing' = 0
    /\ FallThrough(certificates)
    /\ UNCHANGED <<cache, recorded, certificates, up, writes, boundary, reported,
                   tracked, resolver, indexed, crashes>>

\* Mutant: a request is put aside although its result is in the journal.
RequestAlwaysWaits(r) ==
    /\ Free /\ ~panicked
    /\ pending' = pending \cup {r}
    /\ FallThrough(certificates)
    /\ UNCHANGED <<durable, up, writes, executing, boundary, reported, tracked,
                   resolver, indexed, crashes>>

\* Message::Propose and Message::Verify: answered from the journal, or put
\* aside until the block is executed.
Request(r) ==
    /\ Free /\ ~panicked
    /\ r[2] > recorded
    /\ pending' = pending \cup {r}
    /\ FallThrough(certificates)
    /\ UNCHANGED <<durable, up, writes, executing, boundary, reported, tracked,
                   resolver, indexed, crashes>>

\* Message::Tip and Message::Genesis: nothing but the upload loop.
Tip ==
    /\ Free /\ ~panicked
    /\ FallThrough(certificates)
    /\ UNCHANGED <<durable, up, writes, executing, boundary, reported, tracked,
                   resolver, pending, indexed, crashes>>

----------------------------------------------------------------------------
\* Mutant: the resolver forgets everything up to the new certificate, not up
\* to the end of the contiguous ones.
StillFetchedAbove(h, certs) == {x \in fetching : x > h}

\* resolver.retain after a new certificate: only what lies above the
\* contiguous certificates from height 1.
StillFetched(h, certs) ==
    IF 1 \in certs THEN {x \in fetching : x > EndOfRun(certs, 1)} ELSE fetching

\* Message::Certified: the engine has a certificate.
Certified(h) ==
    /\ Free /\ ~panicked
    /\ h \notin certificates
    /\ LET certs == certificates \cup {h}
       IN  /\ certificates' = certs
           /\ Enqueue(certs, waiting \ {h}, StillFetched(h, certs))
           /\ FallThrough(certs)
    /\ UNCHANGED <<cache, recorded, acked, up, writes, executing, boundary, reported,
                   tracked, pending, indexed, crashes>>

\* Message::Deliver: the resolver has a valid certificate from a peer.  (An
\* invalid one is refused, and the resolver goes on.)
Deliver(h) ==
    /\ Free /\ ~panicked
    /\ h \in fetching
    /\ LET certs == certificates \cup {h}
       IN  /\ certificates' = certs
           /\ Enqueue(certs, waiting \ {h}, fetching \ {h})
           /\ FallThrough(certs)
    /\ UNCHANGED <<cache, recorded, acked, up, writes, executing, boundary, reported,
                   tracked, pending, indexed, crashes>>

\* An upload task gets its summary accepted, after any number of retries.
Submitted(h) ==
    /\ up
    /\ h \in uploading
    /\ uploading' = uploading \ {h}
    /\ reported' = reported \cup {h}
    /\ indexed' = indexed \cup {h}
    /\ UNCHANGED <<durable, up, writes, executing, cursor, boundary, tracked, resolver,
                   pending, panicked, crashes>>

\* Mutant: proofs are pruned as far as uploads have been started.
PruneEndStarted(h, done) == cursor

\* How far uploads are contiguous with the boundary.
PruneEnd(h, done) == EndOfRun(done, boundary)

\* Message::Uploaded.  Until the boundary itself is uploaded the handler
\* leaves by `continue'.
UploadedAhead(h) ==
    /\ Free /\ ~panicked
    /\ h \in reported
    /\ boundary \notin tracked \cup {h}
    /\ reported' = reported \ {h}
    /\ tracked' = tracked \cup {h}
    /\ UNCHANGED <<durable, up, writes, executing, cursor, boundary, uploading,
                   resolver, pending, indexed, panicked, crashes>>

Uploaded(h) ==
    /\ Free /\ ~panicked
    /\ h \in reported
    /\ boundary \in tracked \cup {h}
    /\ reported' = reported \ {h}
    /\ tracked' = tracked \cup {h}
    /\ LET end == PruneEnd(h, tracked')
       IN  /\ boundary' = IF end > boundary THEN end ELSE boundary
           /\ cache' = IF end > boundary THEN PruneTo(end) ELSE cache
    /\ UploadLoop(cursor, Busy \ {h}, cache', certificates, recorded)
    /\ UNCHANGED <<recorded, certificates, acked, up, writes, executing, resolver,
                   pending, indexed, crashes>>

----------------------------------------------------------------------------
\* The node goes down: tasks, requests and everything in memory are gone.
GoDown ==
    /\ up' = FALSE
    /\ writes' = {} /\ executing' = 0
    /\ uploading' = {} /\ reported' = {} /\ tracked' = {}
    /\ waiting' = {} /\ fetching' = {}
    /\ pending' = {}
    /\ UNCHANGED <<durable, cursor, boundary, indexed, panicked>>

Crash ==
    /\ up /\ crashes < MaxCrashes
    /\ crashes' = crashes + 1
    /\ GoDown

\* Mutant: uploads resume at the first height that is not in the journal.
ResumeAtJournal == recorded + 1

\* Uploads resume at the lowest height that is still cached.
Resume == IF cache = {} THEN 1 ELSE Least(cache)

Restart ==
    /\ ~up
    /\ up' = TRUE
    /\ cursor' = Resume /\ boundary' = Resume
    /\ waiting' = Missing(certificates) /\ fetching' = Missing(certificates)
    /\ UNCHANGED <<durable, writes, executing, uploading, reported, tracked, pending,
                   indexed, panicked, crashes>>

Next ==
    \/ Executed \/ PutProofs \/ AppendResult \/ ExecutedDone
    \/ \E r \in Requests : Request(r)
    \/ Tip
    \/ \E h \in Heights : \/ Certified(h) \/ Deliver(h)
                          \/ Submitted(h) \/ UploadedAhead(h) \/ Uploaded(h)
    \/ Crash \/ Restart

\* The actor and its tasks are scheduled, the application keeps delivering
\* blocks, the engine keeps announcing its tip, peers answer the
\* resolver, the indexer accepts a summary in the end, and a node that is
\* down is restarted.  Certificates formed by the
\* engine come or do not come.
Fairness ==
    /\ WF_vars(Executed) /\ WF_vars(PutProofs) /\ WF_vars(AppendResult)
    /\ WF_vars(ExecutedDone)
    /\ WF_vars(Restart)
    /\ SF_vars(Tip)
    /\ \A h \in Heights :
         /\ SF_vars(Deliver(h))
         /\ WF_vars(Submitted(h))
         /\ SF_vars(UploadedAhead(h) \/ Uploaded(h))

Spec == Init /\ [][Next]_vars /\ Fairness

----------------------------------------------------------------------------
TypeOK ==
    /\ cache \subseteq Heights /\ certificates \subseteq Heights
    /\ recorded \in 0 .. MaxHeight /\ acked \in 0 .. MaxHeight
    /\ up \in BOOLEAN /\ panicked \in BOOLEAN
    /\ writes \subseteq {"proofs", "result"} /\ executing \in 0 .. MaxHeight
    /\ cursor \in 1 .. MaxHeight + 1 /\ boundary \in 1 .. MaxHeight + 1
    /\ uploading \subseteq Heights /\ reported \subseteq Heights
    /\ Cardinality(Busy) <= MaxUploads
    /\ tracked \subseteq Heights
    /\ waiting \subseteq Heights /\ fetching \subseteq Heights
    /\ pending \subseteq Requests
    /\ indexed \subseteq Heights
    /\ crashes \in 0 .. MaxCrashes

\* Proofs are given up only when the indexer has the summary: a recorded
\* height whose proofs are no longer cached has been uploaded, although
\* uploads finish in any order and are forgotten in a crash.
PrunedIsIndexed == \A h \in 1 .. acked : h \in cache \/ h \in indexed

\* Every gap the actor should be filling is being fetched: a request is not
\* remembered in `waiting' after the resolver was told to drop it.
GapsAreFetched == up => Missing(certificates) \subseteq fetching

\* A request that waits is for a block that is still to be executed, so that
\* Executed will answer it and never drops it unanswered.
PendingAreAhead == executing = 0 => \A r \in pending : r[2] > recorded

\* Every height that is executed and certified reaches the indexer, through
\* uploads that finish in any order and crashes at any point; unless a crash
\* fell between the two writes of Executed and left proofs without a result,
\* on which the upload loop panics (aggregator/actor.rs:542).
SummariesAreIndexed ==
    \A h \in Heights :
        (h <= acked /\ h \in certificates) ~> (h \in indexed \/ panicked)

================================================================================
