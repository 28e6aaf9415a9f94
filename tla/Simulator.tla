------------------------------- MODULE Simulator -------------------------------
(***************************************************************************)
(* The index that validators upload to and clients read from:              *)
(* simulator/src/lib.rs.                                                   *)
(*                                                                         *)
(* Every validator uploads every summary, one upload per height, and       *)
(* repeats it until it is answered; uploads of different heights overtake  *)
(* each other.  Handlers run concurrently and take the lock of the state   *)
(* several times; one whose client has given up waiting is dropped at one  *)
(* of its awaits and does nothing more.  A height is claimed in            *)
(* submitted_events before its block is indexed and broadcast.             *)
(*                                                                         *)
(* What the blocks do is chosen in the initial state and stays: an         *)
(* operation on each of an account's keys, or none.                        *)
(***************************************************************************)
EXTENDS Naturals, Sequences, FiniteSets, SequencesExt

CONSTANTS
    Validators,
    MaxHeight,    \* bound of the model: blocks
    MaxSeeds,     \* bound of the model: seeds
    Keys,         \* of the account that clients may subscribe to
    Clients,      \* connected to the stream of updates
    Capacity,     \* of a broadcast channel, 1024
    MaxTimeouts,  \* bound of the model: uploads given up by their client
    None

ASSUME SimulatorAssumption ==
    /\ MaxHeight \in Nat /\ MaxSeeds \in Nat /\ MaxTimeouts \in Nat
    /\ Capacity \in Nat \ {0}

Heights == 1 .. MaxHeight
SeedViews == 1 .. MaxSeeds
Operations == {"update", "delete", "none"}

VARIABLES
    ops,              \* height -> key -> operation
    filter,           \* client -> "all", or "account" for the account's updates
    handler,          \* validator -> step and height of its upload
    uploaded,         \* validator -> heights it was answered for
    submittedEvents,  \* submitted_events
    submittedState,   \* submitted_state
    blocks,           \* explorer.indexed_blocks, with the parent they name
    activity,         \* the account's transactions in the explorer, by height
    keys,             \* keys: key -> height -> operation, as a set of records
    progress,         \* progress: heights that a proof can be made at
    seeds,            \* seeds: views
    queue,            \* client -> what the broadcast channel holds for it
    received,         \* client -> the updates sent to it
    given,            \* heights claimed by a handler that was dropped
    timeouts

content == <<ops, filter>>
state == <<submittedEvents, submittedState, blocks, activity, keys, progress, seeds>>
serverVars == <<content, handler, uploaded, state, queue, received, given, timeouts>>

\* The block has something for the account: it touches a key of the account's.
Concerns(h) == \E k \in Keys : ops[h][k] # "none"

Idle == [at |-> "idle", height |-> 0]

ServerInit ==
    /\ ops \in [Heights -> [Keys -> Operations]]
    /\ filter \in [Clients -> {"all", "account"}]
    /\ handler = [v \in Validators |-> Idle]
    /\ uploaded = [v \in Validators |-> {}]
    /\ submittedEvents = {}
    /\ submittedState = {}
    /\ blocks = {}
    /\ activity = <<>>
    /\ keys = [k \in Keys |-> {}]
    /\ progress = {}
    /\ seeds = {}
    /\ queue = [c \in Clients |-> <<>>]
    /\ received = [c \in Clients |-> {}]
    /\ given = {}
    /\ timeouts = 0

----------------------------------------------------------------------------
(* The broadcast channel: every receiver has its own place in it; one that *)
(* is more than Capacity behind loses the oldest.                          *)

Push(q, update) ==
    LET longer == Append(q, update)
    IN  IF Len(longer) > Capacity THEN Tail(longer) ELSE longer

Broadcast(update) == queue' = [c \in Clients |-> Push(queue[c], update)]

----------------------------------------------------------------------------
(* submit, for a summary: submit_events, then submit_state.                *)

Submit(v, h) ==
    /\ handler[v] = Idle
    /\ h \notin uploaded[v]
    /\ handler' = [handler EXCEPT ![v] = [at |-> "claim", height |-> h]]
    /\ UNCHANGED <<content, uploaded, state, queue, received, given, timeouts>>

\* Mutant: the height is looked up here and entered only when the block is indexed.
ClaimLater(v) ==
    /\ handler[v].at = "claim"
    /\ LET h == handler[v].height
       IN  /\ submittedEvents' = submittedEvents \cup {b.height : b \in blocks}
           /\ handler' = [handler EXCEPT ![v].at = IF h \in submittedEvents THEN "store" ELSE "index"]
    /\ UNCHANGED <<content, uploaded, submittedState, blocks, activity, keys, progress, seeds,
                   queue, received, given, timeouts>>

\* The first to come claims the height; the others go on to the state.
Claim(v) ==
    /\ handler[v].at = "claim"
    /\ LET h == handler[v].height
       IN  /\ submittedEvents' = submittedEvents \cup {h}
           /\ handler' = [handler EXCEPT ![v].at = IF h \in submittedEvents THEN "store" ELSE "index"]
    /\ UNCHANGED <<content, uploaded, submittedState, blocks, activity, keys, progress, seeds,
                   queue, received, given, timeouts>>

\* Mutant: a block whose parent is not indexed is passed over.
IndexBlockInOrder(v) ==
    /\ handler[v].at = "index"
    /\ LET h == handler[v].height
       IN  IF h > 1 /\ ~\E b \in blocks : b.height = h - 1
           THEN UNCHANGED <<blocks, activity>>
           ELSE /\ blocks' = blocks \cup {[height |-> h, parent |-> h - 1]}
                /\ activity' = IF Concerns(h) THEN Append(activity, h) ELSE activity
    /\ handler' = [handler EXCEPT ![v].at = "announce"]
    /\ UNCHANGED <<content, uploaded, submittedEvents, submittedState, keys, progress, seeds,
                   queue, received, given, timeouts>>

\* index_block_from_summary: the parent is named only if it is indexed already.
IndexBlock(v) ==
    /\ handler[v].at = "index"
    /\ LET h == handler[v].height
           parent == IF \E b \in blocks : b.height = h - 1 THEN h - 1 ELSE 0
       IN  IF \E b \in blocks : b.height = h
           THEN UNCHANGED <<blocks, activity>>
           ELSE /\ blocks' = blocks \cup {[height |-> h, parent |-> parent]}
                /\ activity' = IF Concerns(h) THEN Append(activity, h) ELSE activity
    /\ handler' = [handler EXCEPT ![v].at = "announce"]
    /\ UNCHANGED <<content, uploaded, submittedEvents, submittedState, keys, progress, seeds,
                   queue, received, given, timeouts>>

Announce(v) ==
    /\ handler[v].at = "announce"
    /\ Broadcast([kind |-> "events", of |-> handler[v].height])
    /\ handler' = [handler EXCEPT ![v].at = "store"]
    /\ UNCHANGED <<content, uploaded, state, received, given, timeouts>>

\* Mutant: a key holds the operation that came last.
KeepLast(history, h, op) == {[height |-> h, op |-> op]}

\* A key's operations by height.
Keep(history, h, op) == {o \in history : o.height # h} \cup {[height |-> h, op |-> op]}

\* submit_state, and the answer.
StoreState(v) ==
    /\ handler[v].at = "store"
    /\ LET h == handler[v].height
       IN  /\ IF h \in submittedState
              THEN UNCHANGED <<keys, progress>>
              ELSE /\ keys' = [k \in Keys |-> IF ops[h][k] = "none" THEN keys[k]
                                              ELSE Keep(keys[k], h, ops[h][k])]
                   /\ progress' = progress \cup {h}
           /\ submittedState' = submittedState \cup {h}
           /\ uploaded' = [uploaded EXCEPT ![v] = @ \cup {h}]
    /\ handler' = [handler EXCEPT ![v] = Idle]
    /\ UNCHANGED <<content, submittedEvents, blocks, activity, seeds, queue, received, given, timeouts>>

\* The validator's client times out and its request is dropped, where it waits for
\* the lock: before a claim, with a height claimed and not indexed, before the state.
Timeout(v) ==
    /\ timeouts < MaxTimeouts
    /\ handler[v].at \in {"claim", "index", "store"}
    /\ timeouts' = timeouts + 1
    /\ given' = IF handler[v].at = "index" THEN given \cup {handler[v].height} ELSE given
    /\ handler' = [handler EXCEPT ![v] = Idle]
    /\ UNCHANGED <<content, uploaded, state, queue, received>>

\* submit_seed: the first of a view is broadcast.
SubmitSeed(view) ==
    /\ view \notin seeds
    /\ seeds' = seeds \cup {view}
    /\ Broadcast([kind |-> "seed", of |-> view])
    /\ UNCHANGED <<content, handler, uploaded, submittedEvents, submittedState, blocks, activity,
                   keys, progress, received, given, timeouts>>

----------------------------------------------------------------------------
(* Reading.                                                                *)

\* try_query_state: the operation at the highest height that touches the key.
Latest(history) == CHOOSE o \in history : \A p \in history : p.height <= o.height

QueryState(k) ==
    IF keys[k] = {} THEN None
    ELSE LET o == Latest(keys[k])
         IN  IF o.op = "update" /\ o.height \in progress THEN o.height ELSE None

\* filter_updates_for_account: seeds pass, blocks without anything of the account
\* do not.
Passes(c, update) == filter[c] = "all" \/ update.kind = "seed" \/ Concerns(update.of)

\* handle_updates_ws.
SendUpdate(c) ==
    /\ queue[c] # <<>>
    /\ queue' = [queue EXCEPT ![c] = Tail(@)]
    /\ received' = IF Passes(c, Head(queue[c]))
                   THEN [received EXCEPT ![c] = @ \cup {Head(queue[c])}]
                   ELSE received
    /\ UNCHANGED <<content, handler, uploaded, state, given, timeouts>>

\* A client that loses its connection starts again at the end of the channel.
Reconnect(c) ==
    /\ queue[c] # <<>>
    /\ queue' = [queue EXCEPT ![c] = <<>>]
    /\ UNCHANGED <<content, handler, uploaded, state, received, given, timeouts>>

Step(v) == Claim(v) \/ IndexBlock(v) \/ Announce(v) \/ StoreState(v)

ServerNext ==
    \/ \E v \in Validators, h \in Heights : Submit(v, h)
    \/ \E v \in Validators : Step(v) \/ Timeout(v)
    \/ \E view \in SeedViews : SubmitSeed(view)
    \/ \E c \in Clients : SendUpdate(c) \/ Reconnect(c)

\* Validators go on uploading, and a handler that is not dropped runs to its end.
ServerFairness ==
    \A v \in Validators :
        /\ WF_serverVars(\E h \in Heights : Submit(v, h))
        /\ WF_serverVars(Step(v))

ServerSpec == ServerInit /\ [][ServerNext]_serverVars /\ ServerFairness

----------------------------------------------------------------------------
\* A query is answered from the newest block among those submitted that touches
\* the key, whatever the order and the number of the uploads, and with the proof of
\* that block; a key deleted there is not found.
Newest(k) == {h \in submittedState : ops[h][k] # "none" /\
                 \A g \in submittedState : ops[g][k] # "none" => g <= h}
AnswersAreLatest ==
    \A k \in Keys :
        QueryState(k) = IF \E h \in Newest(k) : ops[h][k] = "update"
                        THEN CHOOSE h \in Newest(k) : TRUE ELSE None

\* However many validators upload a block, at the same time or again after a
\* timeout, no client is sent it twice and the explorer lists it once.
AnnouncedOnce ==
    /\ \A c \in Clients : IsInjective(queue[c]) /\ Range(queue[c]) \cap received[c] = {}
    /\ IsInjective(activity)

\* Every block's state can be queried in the end, and its events are indexed and
\* broadcast, unless the upload that claimed the height timed out before it got
\* there: then the repeated uploads pass the events by.
HeightsAreServed ==
    \A h \in Heights :
        <>[](h \in progress /\ (h \in given \/ \E b \in blocks : b.height = h))

================================================================================
