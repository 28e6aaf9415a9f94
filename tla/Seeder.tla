-------------------------------- MODULE Seeder ---------------------------------
(***************************************************************************)
(* The seeder actor: node/src/seeder/actor.rs.                             *)
(*                                                                         *)
(* It stores the seed of every consensus view (the randomness of the block *)
(* of that view), fetches the ones it missed from peers, hands them to the *)
(* application, and uploads them to the indexer in order, several at a     *)
(* time, keeping a durable marker of how far the uploads are contiguous.   *)
(*                                                                         *)
(* One action is the handling of one message with the upload loop that     *)
(* follows it; the handlers that leave by `continue' skip that loop.       *)
(***************************************************************************)
EXTENDS Ordinal

CONSTANTS
    MaxView,       \* bound of the model
    MaxUploads,    \* max_uploads_outstanding
    Batch,         \* BATCH_ENQUEUE
    MaxCrashes     \* bound of the model

ASSUME SeederAssumption ==
    /\ MaxView \in Nat \ {0} /\ MaxCrashes \in Nat
    /\ MaxUploads \in Nat \ {0} /\ Batch \in Nat \ {0}

Views == 1 .. MaxView

VARIABLES
    storage,     \* views whose seed is stored (durable)
    marker,      \* LAST_UPLOADED_KEY, 0 when it was never written (durable)
    up,          \* the node runs
    listeners,   \* views the application waits for
    waiting,     \* views asked of the resolver and not yet seen
    fetching,    \* what the resolver is fetching (external)
    cursor,      \* next view to upload
    boundary,    \* how far uploads are contiguous
    uploading,   \* views with an upload task at work
    reported,    \* ... whose Uploaded message is in the mailbox
    tracked,     \* tracked_uploads
    indexed,     \* seeds the indexer has (external)
    crashes

resolver == <<waiting, fetching>>
vars == <<storage, marker, up, listeners, waiting, fetching, cursor, boundary,
          uploading, reported, tracked, indexed, crashes>>

Busy == uploading \cup reported

----------------------------------------------------------------------------
\* Enqueue the lowest missing views that are not already waited for.
Enqueue(stored, wait, fetch) ==
    LET missing == MissingItems(stored, Batch)
    IN  /\ waiting' = wait \cup missing
        /\ fetching' = fetch \cup (missing \ wait)

\* Mutant: the resolver forgets everything up to the view just stored.
RetainAbove(fetch, stored, v) == {x \in fetch : x > v}

\* resolver.retain: only what lies above the contiguous seeds from view 1.
Retain(fetch, stored, v) ==
    IF 1 \in stored THEN {x \in fetch : x > EndOfRun(stored, 1)} ELSE fetch

\* uploads_outstanding < max_uploads_outstanding
Slots(busy) == MaxUploads - Cardinality(busy)

\* The upload loop at the end of the actor's loop.
UploadLoop(stored, busy) ==
    LET next == {v \in stored : /\ cursor <= v /\ v < cursor + Slots(busy)
                                /\ cursor .. v \subseteq stored}
    IN  /\ cursor' = cursor + Cardinality(next)
        /\ uploading' = uploading \cup next

----------------------------------------------------------------------------
Init ==
    /\ storage = {} /\ marker = 0
    /\ up = TRUE
    /\ listeners = {} /\ waiting = {} /\ fetching = {}
    /\ cursor = 1 /\ boundary = 1
    /\ uploading = {} /\ reported = {} /\ tracked = {}
    /\ indexed = {}
    /\ crashes = 0

\* What Put and Deliver share: the seed is stored and its listeners get it.
Store(v) ==
    /\ storage' = storage \cup {v}
    /\ listeners' = listeners \ {v}

\* Message::Put: consensus reports the seed of a view, once for each
\* certificate it forms.  With no gap left the handler leaves by `continue'.
PutNoGap(v) ==
    /\ up
    /\ Store(v)
    /\ MissingItems(storage', Batch) = {}
    /\ waiting' = waiting \ {v}
    /\ fetching' = Retain(fetching, storage', v)
    /\ UNCHANGED <<marker, up, cursor, boundary, uploading, reported, tracked,
                   indexed, crashes>>

PutWithGap(v) ==
    /\ up
    /\ Store(v)
    /\ MissingItems(storage', Batch) # {}
    /\ Enqueue(storage', waiting \ {v}, Retain(fetching, storage', v))
    /\ UploadLoop(storage', Busy)
    /\ UNCHANGED <<marker, up, boundary, reported, tracked, indexed, crashes>>

\* Mutant: the resolver is not asked for a view that the application wants.
GetWaitsUnfetched(v) ==
    /\ up
    /\ v \notin storage
    /\ listeners' = listeners \cup {v}
    /\ UNCHANGED <<storage, marker, up, resolver, cursor, boundary, uploading,
                   reported, tracked, indexed, crashes>>

\* Message::Get for a seed that is not there: fetched, unless it already is.
GetWaits(v) ==
    /\ up
    /\ v \notin storage
    /\ waiting' = waiting \cup {v}
    /\ fetching' = fetching \cup ({v} \ waiting)
    /\ listeners' = listeners \cup {v}
    /\ UNCHANGED <<storage, marker, up, cursor, boundary, uploading, reported,
                   tracked, indexed, crashes>>

\* Message::Get and Message::Produce for a stored seed: answered, and on to
\* the upload loop.
Serve(v) ==
    /\ up
    /\ v \in storage
    /\ UploadLoop(storage, Busy)
    /\ UNCHANGED <<storage, marker, up, listeners, resolver, boundary, reported,
                   tracked, indexed, crashes>>

\* Message::Deliver of a valid seed.  (One that does not verify is refused
\* and the resolver goes on with another peer.)
Deliver(v) ==
    /\ up
    /\ v \in fetching
    /\ Store(v)
    /\ Enqueue(storage', waiting \ {v}, Retain(fetching \ {v}, storage', v))
    /\ UploadLoop(storage', Busy)
    /\ UNCHANGED <<marker, up, boundary, reported, tracked, indexed, crashes>>

----------------------------------------------------------------------------
\* An upload task gets its seed accepted, after any number of retries.
Submitted(v) ==
    /\ up
    /\ v \in uploading
    /\ uploading' = uploading \ {v}
    /\ reported' = reported \cup {v}
    /\ indexed' = indexed \cup {v}
    /\ UNCHANGED <<storage, marker, up, listeners, resolver, cursor, boundary,
                   tracked, crashes>>

\* Message::Uploaded while the boundary itself is not uploaded: `continue'.
UploadedAhead(v) ==
    /\ up
    /\ v \in reported
    /\ reported' = reported \ {v}
    /\ tracked' = tracked \cup {v}
    /\ boundary \notin tracked'
    /\ UNCHANGED <<storage, marker, up, listeners, resolver, cursor, boundary,
                   uploading, indexed, crashes>>

\* Mutant: the marker moves to the view just uploaded.
EndRegionReported(v, done) == v

\* tracked_uploads.next_gap(boundary).0
EndRegion(v, done) == EndOfRun(done, boundary)

\* Message::Uploaded otherwise: boundary and durable marker move together.
Uploaded(v) ==
    /\ up
    /\ v \in reported
    /\ reported' = reported \ {v}
    /\ tracked' = tracked \cup {v}
    /\ boundary \in tracked'
    /\ LET end == EndRegion(v, tracked')
       IN  IF end > boundary THEN boundary' = end /\ marker' = end
                             ELSE UNCHANGED <<boundary, marker>>
    /\ UploadLoop(storage, Busy \ {v})
    /\ UNCHANGED <<storage, up, listeners, resolver, indexed, crashes>>

----------------------------------------------------------------------------
Crash ==
    /\ up /\ crashes < MaxCrashes
    /\ up' = FALSE
    /\ crashes' = crashes + 1
    /\ listeners' = {} /\ waiting' = {} /\ fetching' = {}
    /\ uploading' = {} /\ reported' = {} /\ tracked' = {}
    /\ UNCHANGED <<storage, marker, cursor, boundary, indexed>>

\* Mutant: uploads resume behind the last stored seed.
ResumeAtEnd == IF storage = {} THEN 1 ELSE Greatest(storage) + 1

\* Uploads resume at the marker: the last uploaded seed is sent again.
Resume == IF marker = 0 THEN 1 ELSE marker

Restart ==
    /\ ~up
    /\ up' = TRUE
    /\ cursor' = Resume /\ boundary' = Resume
    /\ waiting' = MissingItems(storage, Batch)
    /\ fetching' = MissingItems(storage, Batch)
    /\ UNCHANGED <<storage, marker, listeners, uploading, reported, tracked, indexed,
                   crashes>>

Next ==
    \/ \E v \in Views : \/ PutNoGap(v) \/ PutWithGap(v) \/ GetWaits(v) \/ Serve(v)
                        \/ Deliver(v)
                        \/ Submitted(v) \/ UploadedAhead(v) \/ Uploaded(v)
    \/ Crash \/ Restart

\* The actor and its tasks are scheduled, some peer answers the resolver, the
\* indexer accepts a seed in the end, a node that is down is restarted, and
\* the application, as long as the chain grows, asks for seeds that are
\* there.  Consensus reports a given seed, or does not.
Fairness ==
    /\ WF_vars(Restart)
    /\ WF_vars(\E v \in Views : Serve(v))
    /\ \A v \in Views : /\ WF_vars(Deliver(v))
                        /\ WF_vars(Submitted(v))
                        /\ WF_vars(UploadedAhead(v) \/ Uploaded(v))

Spec == Init /\ [][Next]_vars /\ Fairness

----------------------------------------------------------------------------
TypeOK ==
    /\ storage \subseteq Views /\ marker \in 0 .. MaxView
    /\ up \in BOOLEAN
    /\ listeners \subseteq Views /\ waiting \subseteq Views /\ fetching \subseteq Views
    /\ cursor \in 1 .. MaxView + 1 /\ boundary \in Views
    /\ uploading \subseteq Views /\ reported \subseteq Views
    /\ Cardinality(Busy) <= MaxUploads
    /\ tracked \subseteq Views /\ indexed \subseteq Views
    /\ crashes \in 0 .. MaxCrashes

\* A view the application waits for is not in the store and is being fetched,
\* and so is every gap the actor should be filling: neither a cancelled fetch
\* nor a view remembered in `waiting' leaves a listener or a gap behind.
FetchesAreKept ==
    up => /\ listeners \cap storage = {}
          /\ listeners \cup MissingItems(storage, Batch) \subseteq fetching

\* All seeds up to the durable marker are with the indexer, so uploads may
\* resume there after a crash, although they finish in any order.
MarkerIsSafe == \A v \in 1 .. marker : v \in indexed

\* A request of the application for a seed is answered (or lost in a crash).
GetsAreAnswered == \A v \in Views : v \in listeners ~> v \notin listeners

\* A seed reaches the indexer once it and all seeds before it are stored,
\* although storing one without a gap does not start its upload.
SeedsAreIndexed == \A v \in Views : 1 .. v \subseteq storage ~> v \in indexed

================================================================================
