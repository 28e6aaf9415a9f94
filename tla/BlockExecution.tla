---------------------------- MODULE BlockExecution -----------------------------
(***************************************************************************)
(* How a validator turns finalized blocks into durable results, through    *)
(* crashes: execution/src/state_transition.rs, the Finalized and Seeded    *)
(* handlers of node/src/application/actor.rs, and the part of the          *)
(* aggregator's Executed handler that records and acknowledges a block.    *)
(*                                                                         *)
(* Three stores are durable and are written one after the other: the       *)
(* events log, the state, and the journal of results.  Only then is the    *)
(* block acknowledged, and marshal (external) moves its save point; after  *)
(* a restart marshal delivers again what lies above the save point.        *)
(*                                                                         *)
(* A store's commit is atomic and durable; what is not committed is gone   *)
(* after a crash.  `expected' is what a validator that never crashes       *)
(* computes for each block: what the network certifies.                    *)
(***************************************************************************)
EXTENDS Naturals, Sequences, FiniteSets

CONSTANTS
    Accounts,
    MaxHeight,      \* bound of the model: blocks that consensus finalizes
    MaxNonce,       \* bound of the model: nonces that appear in blocks
    MaxBlockTxs,    \* MAX_BLOCK_TRANSACTIONS
    MaxCrashes      \* bound of the model

ASSUME BoundsAssumption ==
    /\ MaxHeight \in Nat /\ MaxNonce \in Nat /\ MaxBlockTxs \in Nat
    /\ MaxCrashes \in Nat

Txs == [public : Accounts, nonce : 0 .. MaxNonce]
Blocks == UNION {[1 .. n -> Txs] : n \in 0 .. MaxBlockTxs}

VARIABLES
    chain,      \* the finalized blocks
    expected,   \* the result of each of them, as the network certifies it
    savePoint,  \* marshal: height of the last acknowledged block (durable)
    state,      \* the state store (durable)
    events,     \* the events store (durable)
    results,    \* the aggregator's journal: results[h] is block h's (durable)
    pc,         \* what the node is doing with the block in hand
    layer,      \* the executed block's nonces, not yet applied to the state
    result,     \* the StateTransitionResult in hand
    panicked,   \* why the application last panicked, or "no"
    skipped,    \* the save point passed a block whose response was dropped (history)
    crashes

vars == <<chain, expected, savePoint, state, events, results, pc, layer,
          result, panicked, skipped, crashes>>

\* A store: the height and start of its last commit, its number of
\* operations, and its contents.  The state holds the nonces of accounts,
\* the events store the transactions whose outputs were appended.
Store(h, s, n, c) == [height |-> h, start |-> s, ops |-> n, contents |-> c]
NoNonces == [a \in Accounts |-> 0]
NoResult == [height |-> 0]

Init ==
    /\ chain = <<>>
    /\ expected = <<>>
    /\ savePoint = 0
    /\ state = Store(0, 0, 0, NoNonces)   \* get_metadata: unwrap_or((0, 0))
    /\ events = Store(0, 0, 0, <<>>)
    /\ results = <<>>
    /\ pc = "idle"
    /\ layer = NoNonces
    /\ result = NoResult
    /\ panicked = "no"
    /\ skipped = FALSE
    /\ crashes = 0

----------------------------------------------------------------------------
(***************************************************************************)
(* Layer::execute: a transaction whose nonce is not its account's next is  *)
(* skipped; any other moves the nonce on and leaves its outputs, here one  *)
(* event and the transaction itself.                                       *)
(***************************************************************************)
\* Mutant: a nonce that was already used is let through.
PrepareUsed(nonces, tx) == tx.nonce <= nonces[tx.public]

Prepare(nonces, tx) == tx.nonce = nonces[tx.public]

Execute(nonces, block) ==
    LET after[i \in 0 .. Len(block)] ==
          IF i = 0 THEN [nonces |-> nonces, processed |-> <<>>]
          ELSE IF Prepare(after[i - 1].nonces, block[i])
          THEN [nonces |-> [after[i - 1].nonces EXCEPT ![block[i].public] = @ + 1],
                processed |-> Append(after[i - 1].processed, block[i])]
          ELSE after[i - 1]
    IN  after[Len(block)]

OutputsPerTx == 2

\* events: append the outputs, commit.
CommitEvents(ev, height, processed) ==
    Store(height, ev.ops, ev.ops + OutputsPerTx * Len(processed) + 1,
          ev.contents \o processed)

\* state: apply the changed accounts, commit.
CommitState(st, height, nonces) ==
    LET changed == {a \in Accounts : nonces[a] # st.contents[a]}
    IN  Store(height, st.ops, st.ops + Cardinality(changed) + 1, nonces)

\* The roots (here, the contents) and the range of operations of the result:
\* the starts come from the last commits, the ends from the op counts.
ResultOf(height, st, ev) ==
    [height |-> height,
     stateRoot |-> st.contents, stateStart |-> st.start, stateEnd |-> st.ops,
     eventsRoot |-> ev.contents, eventsStart |-> ev.start, eventsEnd |-> ev.ops]

\* The result of a height that is neither the state's nor the next.
ResultOfInvalid(height, st, ev) ==
    [height |-> height,
     stateRoot |-> st.contents, stateStart |-> st.ops, stateEnd |-> st.ops,
     eventsRoot |-> ev.contents, eventsStart |-> ev.ops, eventsEnd |-> ev.ops]

----------------------------------------------------------------------------
\* The stores, at each height, of a validator that never stops.
GenesisStores == [state |-> Store(0, 0, 0, NoNonces), events |-> Store(0, 0, 0, <<>>)]
StoresAt(h) == IF h = 0 THEN GenesisStores ELSE expected[h]
StoresAfter(last, h, block) ==
    LET run == Execute(last.state.contents, block)
    IN  [state |-> CommitState(last.state, h, run.nonces),
         events |-> CommitEvents(last.events, h, run.processed)]

\* Consensus finalizes a block.
Finalize(block) ==
    /\ Len(chain) < MaxHeight
    /\ chain' = Append(chain, block)
    /\ expected' = Append(expected, StoresAfter(StoresAt(Len(chain)), Len(chain) + 1, block))
    /\ UNCHANGED <<savePoint, state, events, results, pc, layer, result, panicked, skipped, crashes>>

\* The block in hand is the one after the save point.
Height == savePoint + 1
InHand == chain[Height]

\* Mutant: a block the state already contains is not delivered again.
DeliverAboveState ==
    /\ pc = "idle"
    /\ Height <= Len(chain)
    /\ Height > state.height
    /\ pc' = "seed"
    /\ UNCHANGED <<chain, expected, savePoint, state, events, results, layer,
                   result, panicked, skipped, crashes>>

\* Marshal reports the next finalized block and waits for the response;
\* the Finalized handler asks the seeder for the block's seed.
Deliver ==
    /\ pc = "idle"
    /\ Height <= Len(chain)
    /\ pc' = "seed"
    /\ UNCHANGED <<chain, expected, savePoint, state, events, results, layer,
                   result, panicked, skipped, crashes>>

\* The seed is there: Message::Seeded.
Seeded ==
    /\ pc = "seed"
    /\ pc' = "transition"
    /\ UNCHANGED <<chain, expected, savePoint, state, events, results, layer,
                   result, panicked, skipped, crashes>>

----------------------------------------------------------------------------
\* Mutant: the heights of the two stores are not compared.
ExecuteNextUnchecked ==
    /\ pc = "transition"
    /\ Height = state.height + 1
    /\ LET run == Execute(state.contents, InHand)
       IN  /\ events' = CommitEvents(events, Height, run.processed)
           /\ layer' = run.nonces
    /\ pc' = "apply"
    /\ UNCHANGED <<chain, expected, savePoint, state, results, result, panicked, skipped, crashes>>

\* execute_state_transition.  The next block's events are committed before
\* its state.
ExecuteNext ==
    /\ pc = "transition"
    /\ Height = state.height + 1
    /\ events.height = state.height
    /\ LET run == Execute(state.contents, InHand)
       IN  /\ events' = CommitEvents(events, Height, run.processed)
           /\ layer' = run.nonces
    /\ pc' = "apply"
    /\ UNCHANGED <<chain, expected, savePoint, state, results, result, panicked, skipped, crashes>>

ApplyState ==
    /\ pc = "apply"
    /\ state' = CommitState(state, Height, layer)
    /\ result' = ResultOf(Height, state', events)
    /\ layer' = NoNonces
    /\ pc' = "prove"
    /\ UNCHANGED <<chain, expected, savePoint, events, results, panicked, skipped, crashes>>

\* Mutant: the start of the state's range is where the next block would start.
ReplayFresh ==
    /\ pc = "transition"
    /\ Height = state.height
    /\ result' = [ResultOf(Height, state, events) EXCEPT !.stateStart = state.ops]
    /\ pc' = "prove"
    /\ UNCHANGED <<chain, expected, savePoint, state, events, results, layer,
                   panicked, skipped, crashes>>

\* Mutant: a block the state already contains takes the "invalid height" way.
ReplayInvalid ==
    /\ pc = "transition"
    /\ Height = state.height
    /\ result' = ResultOfInvalid(Height, state, events)
    /\ pc' = "prove"
    /\ UNCHANGED <<chain, expected, savePoint, state, events, results, layer,
                   panicked, skipped, crashes>>

\* A block the state already contains: nothing is executed, the result is
\* read back from the stores.
Replay ==
    /\ pc = "transition"
    /\ Height = state.height
    /\ result' = ResultOf(Height, state, events)
    /\ pc' = "prove"
    /\ UNCHANGED <<chain, expected, savePoint, state, events, results, layer,
                   panicked, skipped, crashes>>

\* Any other height: the stores as they are, with empty ranges.
InvalidHeight ==
    /\ pc = "transition"
    /\ Height \notin {state.height, state.height + 1}
    /\ result' = ResultOfInvalid(Height, state, events)
    /\ pc' = "prove"
    /\ UNCHANGED <<chain, expected, savePoint, state, events, results, layer,
                   panicked, skipped, crashes>>

\* The application panics.  The response is dropped with it: marshal stops
\* waiting and, if it still runs, moves its save point.
Panic(why) ==
    /\ panicked' = why
    /\ pc' = "down"
    /\ layer' = NoNonces
    /\ result' = NoResult
    /\ savePoint' \in {savePoint, Height}
    /\ skipped' = (skipped \/ savePoint' # savePoint)
    /\ UNCHANGED <<chain, expected, state, events, results, crashes>>

\* The two stores are not at the same height: an error, and a panic.
HeightMismatch ==
    /\ pc = "transition"
    /\ Height = state.height + 1
    /\ events.height # state.height
    /\ Panic("mismatch")

\* Range proofs of the result; NZU64! panics on an empty range of events.
Prove ==
    /\ pc = "prove"
    /\ result.eventsEnd - result.eventsStart > 0
    /\ pc' = "record"
    /\ UNCHANGED <<chain, expected, savePoint, state, events, results, layer,
                   result, panicked, skipped, crashes>>

ProveNothing ==
    /\ pc = "prove"
    /\ result.eventsEnd - result.eventsStart = 0
    /\ Panic("empty proof")

\* The aggregator appends the result unless it already has it, then answers.
MustRecord(height) == Len(results) # height

Record ==
    /\ pc = "record"
    /\ results' = IF MustRecord(Height) THEN Append(results, result) ELSE results
    /\ pc' = "respond"
    /\ UNCHANGED <<chain, expected, savePoint, state, events, layer, result,
                   panicked, skipped, crashes>>

\* Mutant: the response is sent before the result is recorded.
RespondEarly ==
    /\ pc \in {"record", "respond"}
    /\ savePoint' = Height
    /\ pc' = "idle"
    /\ result' = NoResult
    /\ UNCHANGED <<chain, expected, state, events, results, layer, panicked, skipped, crashes>>

\* The response reaches marshal, which moves its save point.
Respond ==
    /\ pc = "respond"
    /\ savePoint' = Height
    /\ pc' = "idle"
    /\ result' = NoResult
    /\ UNCHANGED <<chain, expected, state, events, results, layer, panicked, skipped, crashes>>

----------------------------------------------------------------------------
\* Everything that is not durable is lost.
Crash ==
    /\ pc # "down"
    /\ crashes < MaxCrashes
    /\ crashes' = crashes + 1
    /\ pc' = "down"
    /\ layer' = NoNonces
    /\ result' = NoResult
    /\ UNCHANGED <<chain, expected, savePoint, state, events, results, panicked, skipped>>

\* The stop signal reaches the seeder's mailbox first: get returns
\* ShuttingDown, the task returns and drops the response, and report, which
\* ignores how its wait ended, lets marshal move the save point.
StopDuringSeed ==
    /\ pc = "seed"
    /\ crashes < MaxCrashes
    /\ crashes' = crashes + 1
    /\ savePoint' = Height
    /\ skipped' = TRUE
    /\ pc' = "down"
    /\ UNCHANGED <<chain, expected, state, events, results, layer, result, panicked>>

Restart ==
    /\ pc = "down"
    /\ pc' = "idle"
    /\ UNCHANGED <<chain, expected, savePoint, state, events, results, layer,
                   result, panicked, skipped, crashes>>

NodeStep ==
    \/ Deliver \/ Seeded
    \/ ExecuteNext \/ ApplyState \/ Replay \/ InvalidHeight \/ HeightMismatch
    \/ Prove \/ ProveNothing \/ Record \/ Respond
    \/ Restart

Next ==
    \/ \E block \in Blocks : Finalize(block)
    \/ NodeStep
    \/ Crash
    \/ StopDuringSeed

\* The node's tasks are scheduled, and a node that is down is restarted.
Spec == Init /\ [][Next]_vars /\ WF_vars(NodeStep)

----------------------------------------------------------------------------
TypeOK ==
    /\ chain \in Seq(Blocks) /\ Len(chain) <= MaxHeight
    /\ Len(expected) = Len(chain)
    /\ savePoint \in 0 .. Len(chain)
    /\ state.height \in 0 .. Len(chain) /\ events.height \in 0 .. Len(chain)
    /\ Len(results) <= Len(chain)
    /\ pc \in {"idle", "seed", "transition", "apply", "prove", "record",
               "respond", "down"}
    /\ panicked \in {"no", "mismatch", "empty proof"}
    /\ skipped \in BOOLEAN
    /\ crashes \in 0 .. MaxCrashes

\* The two stores are, at every moment, what a validator that never crashed
\* had after the block of their height: no block is skipped, executed twice
\* or executed on the wrong state.
StoresMatchCertified ==
    /\ state = StoresAt(state.height).state
    /\ events = StoresAt(events.height).events

\* Every result this node has recorded, and would sign, is the one the
\* network certifies for that height, whatever crashes came in between and
\* whether the block was executed or replayed, until a response is dropped.
Certified(h) == ResultOf(h, expected[h].state, expected[h].events)
RecordedAreCertified == \A h \in 1 .. Len(results) : results[h] = Certified(h)
ResultsMatchCertified == ~skipped => RecordedAreCertified

\* Nothing is lost behind the save point: a block marshal will not deliver
\* again is in the state, in the events and in the journal of results, until
\* a response is dropped.
SavePointIsRecorded ==
    ~skipped => /\ savePoint <= Len(results)
                /\ Len(results) <= state.height
                /\ state.height <= events.height

\* Redelivery never asks for a height that yields an empty range of events,
\* on which NZU64! panics: the "Invalid height" branch of
\* execute_state_transition is taken only after a response was dropped.
NoEmptyProof == panicked = "empty proof" => skipped

\* No transaction takes effect twice, although blocks are delivered again
\* after a crash and a block may repeat transactions of earlier ones.
NoTransactionTwice ==
    \A i, j \in DOMAIN events.contents :
        events.contents[i] = events.contents[j] => i = j

\* A crash between the two commits leaves the stores at different heights
\* while no block is in execution.
Wedged == events.height # state.height /\ pc # "apply"

\* Every finalized block is eventually recorded, unless the node is wedged or
\* a response was dropped.
FinalizedIsRecorded ==
    \A h \in 1 .. MaxHeight :
        Len(chain) >= h ~> (Len(results) >= h \/ Wedged \/ skipped)

\* state_transition.rs:100, "Events must be committed before state,
\* otherwise we risk wedging on restart": with this order a restart does not
\* run into the state/events height mismatch.
CommitOrderAvoidsWedge == panicked # "mismatch"

================================================================================
