-------------------------------- MODULE Proposer -------------------------------
(***************************************************************************)
(* How a validator turns pooled transactions into blocks:                  *)
(* node/src/application/actor.rs (the stream of transactions, Propose,     *)
(* Ancestry, Broadcast, Verify, Finalized) and the reconnecting stream of  *)
(* node/src/indexer.rs, for the transactions of one account.               *)
(*                                                                         *)
(* The mempool is the TransactionPool of one account, within its limits.   *)
(* A block is the sequence of its transactions of that account; one that   *)
(* has none of them changes nothing here and is left out.  Consensus is    *)
(* external: it notarizes a proposal on the tip, may abandon blocks it     *)
(* has not finalized, and finalizes blocks in order; a finalized block is  *)
(* executed in the same step.                                              *)
(***************************************************************************)
EXTENDS Integers, Sequences

CONSTANT MaxBlock  \* MAX_BLOCK_TRANSACTIONS

ASSUME BlockAssumption == MaxBlock \in Nat \ {0}

VARIABLES
    streaming,  \* the background task that forwards transactions is alive
    pool,       \* the mempool's transactions of the account
    parent,     \* the ancestry a proposal was asked for on, if any
    built,      \* the block built on it, if any
    chain,      \* the notarized blocks
    executed    \* how many of them are finalized and executed

proposerVars == <<streaming, pool, parent, built, chain, executed>>

ProposerInit ==
    /\ streaming = TRUE
    /\ pool = {}
    /\ parent = <<>>
    /\ built = <<>>
    /\ chain = <<>>
    /\ executed = 0

\* validate_and_increment_nonce: anything but the next nonce is refused.
Prepare(next, tx) == IF tx.nonce = next THEN next + 1 ELSE next

\* The account's nonce once the transactions of a block, and the blocks of a
\* chain, are applied in turn on top of a state.
ApplyBlock(next, block) ==
    LET after[n \in 0 .. Len(block)] ==
          IF n = 0 THEN next ELSE Prepare(after[n - 1], block[n])
    IN  after[Len(block)]

Apply(next, blocks) ==
    LET after[n \in 0 .. Len(blocks)] ==
          IF n = 0 THEN next ELSE ApplyBlock(after[n - 1], blocks[n])
    IN  after[Len(blocks)]

\* The account's nonce in the state at a height, and in the state of now.
NonceAt(height) == Apply(0, SubSeq(chain, 1, height))
StateNonce == NonceAt(executed)

----------------------------------------------------------------------------
\* A transaction from the stream: dropped below the account's nonce, and by the
\* pool when it has one of that nonce.
Receive(tx) ==
    /\ streaming
    /\ pool' = IF tx.nonce < StateNonce \/ \E t \in pool : t.nonce = tx.nonce
               THEN pool
               ELSE pool \cup {tx}
    /\ UNCHANGED <<streaming, parent, built, chain, executed>>

\* A batch with a bad signature ends the task that forwards batches.
StreamEnds ==
    /\ streaming
    /\ streaming' = FALSE
    /\ UNCHANGED <<pool, parent, built, chain, executed>>

\* Propose: the ancestry down to the state's height is collected by a task of its own.
Propose ==
    /\ parent = <<>>
    /\ built = <<>>
    /\ parent' = <<chain>>
    /\ UNCHANGED <<streaming, pool, built, chain, executed>>

\* Mutant: the ancestry's transactions are not applied.
NextNonceOfState(ancestry) == StateNonce

\* The Noncer, after the blocks of the ancestry above the state's height, which
\* may have grown since they were collected.
NextNonce(ancestry) ==
    Apply(StateNonce, SubSeq(ancestry, executed + 1, Len(ancestry)))

\* How many of the account's pooled transactions follow on from a nonce, up to
\* the room that the other accounts leave.
Run(next, room) ==
    CHOOSE n \in 0 .. room :
        /\ \A i \in 0 .. n - 1 : \E t \in pool : t.nonce = next + i
        /\ n < room => ~\E t \in pool : t.nonce = next + n

\* Ancestry: transactions are taken from the pool until the block is full or the
\* pool empty; one that the Noncer refuses is gone.
Ancestry(room) ==
    /\ parent # <<>>
    /\ built = <<>>
    /\ LET next == NextNonce(parent[1])
           n == Run(next, room)
           block == [i \in 1 .. n |-> CHOOSE t \in pool : t.nonce = next + i - 1]
       IN  /\ pool' = IF n = room THEN {t \in pool : t.nonce >= next + n} ELSE {}
           /\ IF n = 0
              THEN parent' = <<>> /\ UNCHANGED built
              ELSE built' = <<block>> /\ UNCHANGED parent
    /\ UNCHANGED <<streaming, chain, executed>>

\* Broadcast and Verify: a block is accepted on the parent it names, whatever
\* the nonces in it.
Notarize ==
    /\ built # <<>>
    /\ parent[1] = chain
    /\ chain' = Append(chain, built[1])
    /\ parent' = <<>>
    /\ built' = <<>>
    /\ UNCHANGED <<streaming, pool, executed>>

\* The proposal comes to nothing; its transactions are not put back.
Discard ==
    /\ parent # <<>>
    /\ parent' = <<>>
    /\ built' = <<>>
    /\ UNCHANGED <<streaming, pool, chain, executed>>

\* Consensus skips notarized blocks that are not final.
Abandon(height) ==
    /\ height \in executed .. Len(chain) - 1
    /\ chain' = SubSeq(chain, 1, height)
    /\ UNCHANGED <<streaming, pool, parent, built, executed>>

\* Finalized and Seeded: the next block is executed and the pool cleaned up.
Execute ==
    /\ executed < Len(chain)
    /\ executed' = executed + 1
    /\ pool' = {t \in pool : t.nonce >= NonceAt(executed + 1)}
    /\ UNCHANGED <<streaming, parent, built, chain>>

\* The validator restarts: the pool and the proposal are lost, the stream is new.
Restart ==
    /\ streaming' = TRUE
    /\ pool' = {}
    /\ parent' = <<>>
    /\ built' = <<>>
    /\ UNCHANGED <<chain, executed>>

================================================================================
