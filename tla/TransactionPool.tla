----------------------------- MODULE TransactionPool ---------------------------
(***************************************************************************)
(* What the mempool promises to the application: a bounded pool of         *)
(* transactions, one per account and nonce, from which a call takes the    *)
(* lowest nonce of some account and comes back empty-handed only when      *)
(* nothing is pooled.  The order of the accounts is left open here.        *)
(***************************************************************************)
EXTENDS Naturals, FiniteSets

CONSTANTS Accounts, Nonces, Digests, MaxBacklog, MaxTransactions, None

VARIABLES
    pool,   \* account -> its pooled transactions
    asked,  \* a call for the next transaction is under way
    taken   \* what the last call returned

PoolTxs == [public : Accounts, nonce : Nonces, digest : Digests]
Pooled == UNION {pool[a] : a \in Accounts}

PoolInit == pool = [a \in Accounts |-> {}] /\ asked = FALSE /\ taken = None

\* A full pool and a taken nonce refuse a transaction; an account with too many
\* loses the one whose turn is furthest away.
Submit(tx) ==
    /\ ~asked
    /\ Cardinality(Pooled) < MaxTransactions
    /\ \A t \in pool[tx.public] : t.nonce # tx.nonce
    /\ LET all == pool[tx.public] \cup {tx}
       IN  \/ /\ Cardinality(all) <= MaxBacklog
              /\ pool' = [pool EXCEPT ![tx.public] = all]
           \/ /\ Cardinality(all) > MaxBacklog
              /\ \E last \in all :
                   /\ \A t \in all : t.nonce <= last.nonce
                   /\ pool' = [pool EXCEPT ![tx.public] = all \ {last}]
    /\ UNCHANGED <<asked, taken>>

\* What a finalized block has used up goes.
Forget(a, min) ==
    /\ ~asked
    /\ pool' = [pool EXCEPT ![a] = {t \in @ : t.nonce >= min}]
    /\ UNCHANGED <<asked, taken>>

Ask == ~asked /\ asked' = TRUE /\ taken' = None /\ UNCHANGED pool

Take(a) ==
    /\ asked
    /\ asked' = FALSE
    /\ \E tx \in pool[a] :
         /\ \A t \in pool[a] : tx.nonce <= t.nonce
         /\ taken' = tx
         /\ pool' = [pool EXCEPT ![a] = @ \ {tx}]

ComeBackEmpty == asked /\ Pooled = {} /\ asked' = FALSE /\ UNCHANGED <<pool, taken>>

PoolNext ==
    \/ \E tx \in PoolTxs : Submit(tx)
    \/ \E a \in Accounts, min \in {n + 1 : n \in Nonces} : Forget(a, min)
    \/ Ask
    \/ \E a \in Accounts : Take(a)
    \/ ComeBackEmpty

PoolSpec == PoolInit /\ [][PoolNext]_<<pool, asked, taken>>

================================================================================
