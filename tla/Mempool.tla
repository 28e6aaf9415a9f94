-------------------------------- MODULE Mempool --------------------------------
(***************************************************************************)
(* The transaction pool of a validator: node/src/application/mempool.rs.   *)
(*                                                                         *)
(* A pooled transaction is kept twice, by digest in `transactions' and by  *)
(* account and nonce in `tracked'.  Accounts wait their turn in `queue';   *)
(* the set `queued' says which of the queue's entries are still good:      *)
(* `retain' takes an account out of `queued' but leaves its entry in the   *)
(* queue, so `next' walks over stale entries and, every CompactAfter of    *)
(* them, filters the queue.                                                *)
(*                                                                         *)
(* The pool belongs to the application actor, which runs one handler at a  *)
(* time: `add' and `retain' are one step each; the loop of `next' is one   *)
(* step per iteration, with `mode' keeping everything else out meanwhile.  *)
(***************************************************************************)
EXTENDS Naturals, Sequences, FiniteSets

CONSTANTS
    Accounts,         \* public keys
    Digests,          \* tells apart transactions of equal account and nonce
    MaxNonce,         \* u64::MAX in the code
    MaxBacklog,       \* max_backlog: transactions kept per account
    MaxTransactions,  \* max_transactions: transactions kept in all
    CompactAfter,     \* COMPACT_AFTER_STALE_SKIPS
    None,             \* Option::None, what `next' returns on an empty queue
    MaxQueue          \* bound of the model: `add' is not called beyond it

Nonces == 0 .. MaxNonce
Txs == [public : Accounts, nonce : Nonces, digest : Digests]

\* Limits of zero are refused when the configuration is validated
\* (node/src/lib.rs, validate_with_signer).
ASSUME LimitsAssumption ==
    /\ MaxNonce \in Nat
    /\ MaxBacklog \in Nat \ {0}
    /\ MaxTransactions \in Nat \ {0}
    /\ CompactAfter \in Nat \ {0}
    /\ MaxQueue \in Nat

ASSUME NoneAssumption == None \notin Txs

VARIABLES
    transactions,  \* the pooled transactions, by digest
    tracked,       \* account -> its pooled transactions; {} is "no entry"
    queue,         \* accounts in the order they will be served
    queued,        \* accounts whose turn in the queue is still good
    mode,          \* "idle", or "next" while the loop of `next' runs
    staleSkips,    \* stale_skips of that loop
    returned       \* what the last call of `next' returned

vars == <<transactions, tracked, queue, queued, mode, staleSkips, returned>>

Init ==
    /\ transactions = {}
    /\ tracked = [a \in Accounts |-> {}]
    /\ queue = <<>>
    /\ queued = {}
    /\ mode = "idle"
    /\ staleSkips = 0
    /\ returned = None

----------------------------------------------------------------------------
\* An entry of `tracked' is a map from nonces to digests: a set of
\* transactions in which insertion replaces the one of the same nonce.

NoncesOf(entry) == {t.nonce : t \in entry}

Insert(entry, tx) == {t \in entry : t.nonce # tx.nonce} \cup {tx}

\* Mutant: pop_last where pop_first is meant.
LowestIsFurthest(entry) == CHOOSE t \in entry : \A u \in entry : u.nonce <= t.nonce

\* first_key_value / pop_first and pop_last of the BTreeMap.
Lowest(entry) == CHOOSE t \in entry : \A u \in entry : t.nonce <= u.nonce
Furthest(entry) == CHOOSE t \in entry : \A u \in entry : u.nonce <= t.nonce

\* The entry after an insertion, and the transaction the limit pushes out.
Overflows(entry) == Cardinality(entry) > MaxBacklog
Evicted(entry) == IF Overflows(entry) THEN {Furthest(entry)} ELSE {}

(***************************************************************************)
(* add: a full pool, a known digest and a taken nonce are early returns;   *)
(* an entry that overflows loses its furthest nonce, possibly the one just *)
(* inserted; an account whose entry was empty takes a place in the queue   *)
(* unless it still holds one.                                              *)
(***************************************************************************)
CanAdd(tx) ==
    /\ Cardinality(transactions) < MaxTransactions
    /\ tx \notin transactions
    /\ tx.nonce \notin NoncesOf(tracked[tx.public])

Enqueues(tx, entry) == Cardinality(entry) = 1 /\ tx.public \notin queued

Add(tx) ==
    /\ mode = "idle"
    /\ Len(queue) < MaxQueue
    /\ CanAdd(tx)
    /\ LET entry == Insert(tracked[tx.public], tx)
       IN  /\ tracked' = [tracked EXCEPT ![tx.public] = entry \ Evicted(entry)]
           /\ transactions' = (transactions \cup {tx}) \ Evicted(entry)
           /\ queue' = IF Enqueues(tx, entry) THEN Append(queue, tx.public) ELSE queue
           /\ queued' = IF Enqueues(tx, entry) THEN queued \cup {tx.public} ELSE queued
    /\ UNCHANGED <<mode, staleSkips, returned>>

\* Mutant: the emptied account stays in `queued'.
RetainKeepsQueued(a, min) ==
    /\ mode = "idle"
    /\ tracked[a] # {}
    /\ LET old == {t \in tracked[a] : t.nonce < min}
       IN  /\ transactions' = transactions \ old
           /\ tracked' = [tracked EXCEPT ![a] = @ \ old]
    /\ UNCHANGED <<queued, queue, mode, staleSkips, returned>>

(***************************************************************************)
(* retain: drop what a finalized block has made unexecutable.  The queue   *)
(* is not pruned.                                                          *)
(***************************************************************************)
Retain(a, min) ==
    /\ mode = "idle"
    /\ tracked[a] # {}
    /\ LET old == {t \in tracked[a] : t.nonce < min}
       IN  /\ transactions' = transactions \ old
           /\ tracked' = [tracked EXCEPT ![a] = @ \ old]
           /\ queued' = IF old = tracked[a] THEN queued \ {a} ELSE queued
    /\ UNCHANGED <<queue, mode, staleSkips, returned>>

----------------------------------------------------------------------------
\* next: one step per iteration of its loop.

NextCall ==
    /\ mode = "idle"
    /\ mode' = "next"
    /\ staleSkips' = 0
    /\ returned' = None
    /\ UNCHANGED <<transactions, tracked, queue, queued>>

\* pop_front()? on an empty queue: the call returns None.
NextEmpty ==
    /\ mode = "next"
    /\ queue = <<>>
    /\ mode' = "idle"
    /\ UNCHANGED <<transactions, tracked, queue, queued, staleSkips, returned>>

\* The positions of q that hold a member of S, in order: the n-th of them is
\* the one with n of them at or before it.
Positions(q, S) == {i \in DOMAIN q : q[i] \in S}
Rank(K, i) == Cardinality({j \in K : j <= i})

\* queue.retain(|pk| queued.contains(pk)).
Compact(q, S) ==
    LET K == Positions(q, S)
    IN  [n \in 1 .. Cardinality(K) |-> q[CHOOSE i \in K : Rank(K, i) = n]]

\* The entry at the front is stale: its account is not queued, or is queued
\* and has nothing tracked.
NextSkip ==
    /\ mode = "next"
    /\ queue # <<>>
    /\ Head(queue) \notin queued \/ tracked[Head(queue)] = {}
    /\ queued' = queued \ {Head(queue)}
    /\ IF staleSkips + 1 >= CompactAfter
       THEN queue' = Compact(Tail(queue), queued') /\ staleSkips' = 0
       ELSE queue' = Tail(queue) /\ staleSkips' = staleSkips + 1
    /\ UNCHANGED <<transactions, tracked, mode, returned>>

\* Mutant: an account with more transactions keeps its place at the front.
NextServeSameFront ==
    /\ mode = "next"
    /\ queue # <<>>
    /\ Head(queue) \in queued
    /\ tracked[Head(queue)] # {}
    /\ LET a == Head(queue)
           tx == Lowest(tracked[a])
           more == tracked[a] # {tx}
       IN  /\ tracked' = [tracked EXCEPT ![a] = @ \ {tx}]
           /\ transactions' = transactions \ {tx}
           /\ queue' = IF more THEN queue ELSE Tail(queue)
           /\ queued' = IF more THEN queued ELSE queued \ {a}
           /\ returned' = tx
    /\ mode' = "idle"
    /\ UNCHANGED staleSkips

\* The account at the front is served its lowest nonce, and goes to the back
\* of the queue if it has more.
NextServe ==
    /\ mode = "next"
    /\ queue # <<>>
    /\ Head(queue) \in queued
    /\ tracked[Head(queue)] # {}
    /\ LET a == Head(queue)
           tx == Lowest(tracked[a])
           more == tracked[a] # {tx}
       IN  /\ tracked' = [tracked EXCEPT ![a] = @ \ {tx}]
           /\ transactions' = transactions \ {tx}
           /\ queue' = IF more THEN Append(Tail(queue), a) ELSE Tail(queue)
           /\ queued' = IF more THEN queued ELSE queued \ {a}
           /\ returned' = tx
    /\ mode' = "idle"
    /\ UNCHANGED staleSkips

Next ==
    \/ \E tx \in Txs : Add(tx)
    \/ \E a \in Accounts, min \in 1 .. MaxNonce + 1 : Retain(a, min)
    \/ NextCall
    \/ NextEmpty
    \/ NextSkip
    \/ NextServe

\* A proposer keeps calling `next', and a call that has begun runs to its end.
Fairness ==
    /\ WF_vars(NextCall)
    /\ WF_vars(NextEmpty \/ NextSkip \/ NextServe)

Spec == Init /\ [][Next]_vars /\ Fairness

----------------------------------------------------------------------------
TypeOK ==
    /\ transactions \subseteq Txs
    /\ tracked \in [Accounts -> SUBSET Txs]
    /\ queue \in Seq(Accounts)
    /\ queued \subseteq Accounts
    /\ mode \in {"idle", "next"}
    /\ staleSkips \in 0 .. CompactAfter - 1
    /\ returned \in Txs \cup {None}

\* The two indexes agree: what is tracked for an account is exactly what is
\* pooled of that account, one transaction per nonce.  It is what the
\* expect("tracked digest must exist in transactions map") of `next' relies on.
IndexesAgree ==
    /\ \A a \in Accounts : tracked[a] = {t \in transactions : t.public = a}
    /\ \A t, u \in transactions :
          t.public = u.public /\ t.nonce = u.nonce => t = u

\* No account is stranded: one with pooled transactions is queued, one
\* without is not, and a queued account has an entry in the queue, however
\* add, retain and next were interleaved and the queue compacted.
NoneStranded ==
    /\ \A a \in Accounts : a \in queued <=> tracked[a] # {}
    /\ \A a \in queued : \E i \in DOMAIN queue : queue[i] = a

\* Neither limit is ever exceeded, although `add' inserts before it evicts.
WithinLimits ==
    /\ Cardinality(transactions) <= MaxTransactions
    /\ \A a \in Accounts : Cardinality(tracked[a]) <= MaxBacklog

\* A call of next gives up nothing but the transaction it returns, which has
\* the lowest nonce its account had; a call that returns None leaves nothing
\* behind.
NextIsLossless ==
    [][mode = "next" =>
         /\ transactions \ transactions' \subseteq {returned'}
         /\ mode' = "idle" /\ returned' = None => transactions = {}
         /\ returned' # None =>
              \A t \in transactions :
                 t.public = returned'.public => returned'.nonce <= t.nonce]_vars

\* The pool with its two indexes, its queue of stale and live entries and its
\* compactions does what is asked of a pool of transactions: a call of next takes
\* the lowest nonce of an account, gives up nothing else, and returns None only
\* when nothing is pooled.
Pool == INSTANCE TransactionPool WITH pool <- tracked, asked <- (mode = "next"), taken <- returned
PoolIsImplemented == Pool!PoolSpec

\* Every account with pooled transactions gets its turn: it is served, or a
\* finalized block empties its entry (the comment of `next': "to ensure
\* everyone gets a chance to process their transactions").
Served(a) == returned # None /\ returned.public = a
EveryoneGetsAChance ==
    \A a \in Accounts : tracked[a] # {} ~> (tracked[a] = {} \/ Served(a))

================================================================================
