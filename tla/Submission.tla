------------------------------- MODULE Submission ------------------------------
(***************************************************************************)
(* A transaction's way from the page to the chain and back: the nonce      *)
(* manager, a validator and, between them, the index                       *)
(* (simulator/src/lib.rs), which broadcasts submitted transactions to the  *)
(* validators and executed ones to the pages, and answers for accounts     *)
(* from the states it was sent.                                            *)
(***************************************************************************)
EXTENDS NonceManager, Proposer

CONSTANT MaxFaults  \* bound of the model: reloads, restarts, ends of the stream

ASSUME FaultsAssumption == MaxFaults \in Nat

VARIABLES
    announced,  \* heights whose events were submitted to the index
    indexed,    \* heights whose state was
    faults

indexVars == <<announced, indexed>>
vars == <<clientVars, proposerVars, indexVars, faults>>

Init ==
    /\ ClientInit
    /\ ProposerInit
    /\ announced = {}
    /\ indexed = {}
    /\ faults = 0

----------------------------------------------------------------------------
\* Steps that concern only the client, or only the validator and consensus.
AtClient(A) == A /\ UNCHANGED <<proposerVars, indexVars, faults>>
AtValidator(A) == A /\ UNCHANGED <<clientVars, indexVars, faults>>

ClientStep ==
    \/ Submit
    \/ Accepted
    \/ Failed
    \/ Resubmit
    \/ \E tx \in resending : ResendAccepted(tx)
    \/ ResendFailed
    \/ \E n \in updates : Update(n) \/ UpdateLost(n)
    \/ SyncWithAccountState

ValidatorStep ==
    \/ Propose
    \/ \E room \in 1 .. MaxBlock : Ancestry(room)
    \/ Notarize
    \/ Discard
    \/ \E height \in 0 .. Len(chain) - 1 : Abandon(height)
    \/ Execute

\* Transactions pass through the index and its broadcast, which keeps nothing:
\* a validator that lags or is away does not get them.
Deliver(tx) ==
    /\ tx \in wire
    /\ Receive(tx)
    /\ wire' = wire \ {tx}
    /\ UNCHANGED <<page, account, nonce, stored, made, posting, resending, updates, indexVars, faults>>

Lose(tx) ==
    /\ tx \in wire
    /\ wire' = wire \ {tx}
    /\ UNCHANGED <<page, account, nonce, stored, made, posting, resending, updates,
                   proposerVars, indexVars, faults>>

\* Summaries come in any order.  The events of one are broadcast first; then its
\* state can be queried.
Announce(height) ==
    /\ height \in 1 .. executed
    /\ height \notin announced
    /\ announced' = announced \cup {height}
    /\ updates' = updates \cup {NonceAt(height) - 1}
    /\ UNCHANGED <<page, account, nonce, stored, made, posting, resending, wire,
                   proposerVars, indexed, faults>>

Index(height) ==
    /\ height \in announced \ indexed
    /\ indexed' = indexed \cup {height}
    /\ UNCHANGED <<clientVars, proposerVars, announced, faults>>

\* The account as of the highest state the index has.
AccountAnswer ==
    IF indexed = {} THEN Null
    ELSE NonceAt(CHOOSE h \in indexed : \A g \in indexed : g <= h)

Query == AtClient(GetAccount(AccountAnswer))

Fault ==
    /\ faults < MaxFaults
    /\ faults' = faults + 1
    /\ \/ Reload /\ UNCHANGED proposerVars
       \/ (StreamEnds \/ Restart) /\ UNCHANGED clientVars
    /\ UNCHANGED indexVars

Next ==
    \/ AtClient(ClientStep)
    \/ AtValidator(ValidatorStep)
    \/ \E tx \in wire : Deliver(tx) \/ Lose(tx)
    \/ \E height \in 1 .. executed : Announce(height) \/ Index(height)
    \/ Query
    \/ Fault

(***************************************************************************)
(* The timer goes off, a POST ends one way or another, leaders propose and *)
(* build.  The network, the index and consensus may fail any number of     *)
(* times but not always: a transaction posted again and again arrives, one *)
(* resent again and again is answered, proposals are notarized and         *)
(* notarized blocks finalized.                                             *)
(***************************************************************************)
Fairness ==
    /\ WF_vars(AtClient(Resubmit))
    /\ WF_vars(AtClient(ResendFailed \/ \E tx \in resending : ResendAccepted(tx)))
    /\ \A n \in 0 .. MaxRequests - 1 :
          SF_vars(AtClient(\E tx \in resending : tx.nonce = n /\ ResendAccepted(tx)))
    /\ SF_vars(\E tx \in wire : tx.nonce = StateNonce /\ Deliver(tx))
    /\ WF_vars(AtValidator(Propose))
    /\ WF_vars(AtValidator(Notarize \/ Discard))
    /\ SF_vars(AtValidator(\E room \in 1 .. MaxBlock : Ancestry(room)))
    /\ SF_vars(AtValidator(Notarize))
    /\ SF_vars(AtValidator(Execute))

Spec == Init /\ [][Next]_vars /\ Fairness

----------------------------------------------------------------------------
\* Notarized blocks never repeat or skip a nonce, although a transaction comes
\* back from the page while a block with it waits to be executed, the state moves
\* between Propose and Ancestry, and verification does not look at nonces: what is
\* notarized will execute.
ProposedAreValid ==
    \A h \in DOMAIN chain : \A i \in DOMAIN chain[h] :
        chain[h][i].nonce = NonceAt(h - 1) + i - 1

\* A record leaves localStorage only once the chain is past its nonce, but for two
\* cases in which the page gives up what it may have sent: a record at or above the
\* page's nonce, whose POST failed or is still awaited, which the timer takes for
\* stale or a new request replaces; and, at a reload, all records when the index
\* knows no account, is behind the page's nonce or leaves a gap before them.
RecordsAreKept ==
    [][\A tx \in stored \ stored' :
          \/ tx.nonce < StateNonce
          \/ page = "up" /\ tx.nonce >= nonce
          \/ page = "asked" /\ ~KeepsPending]_vars

\* The page holds every transaction that the chain needs to get past nonce k.
Due(k) ==
    /\ page = "up" /\ streaming
    /\ k < nonce
    /\ StateNonce .. k \subseteq NoncesIn(stored)

\* What the page holds without a gap is executed in the end, through lost
\* messages, failed proposals and abandoned blocks ("users can rebroadcast"), unless
\* the page is reloaded or the validator's stream ends for good.
DueAreExecuted ==
    \A k \in 0 .. MaxRequests - 1 :
        Due(k) ~> (StateNonce > k \/ page # "up" \/ ~streaming)

================================================================================
