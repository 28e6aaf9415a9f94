------------------------------ MODULE NonceManager -----------------------------
(***************************************************************************)
(* The nonce manager of the website (website/src/api/nonceManager.js) and  *)
(* the part of its client that feeds it (client.js), for one account.      *)
(*                                                                         *)
(* The nonce and the transactions not yet confirmed are in localStorage    *)
(* and outlive the page.  A request is signed under the current nonce and  *)
(* stored before it is posted; the nonce moves on when the answer comes.   *)
(* While a POST is awaited, updates from the chain and the timer that      *)
(* resends stored transactions are handled.                                *)
(***************************************************************************)
EXTENDS Integers, Sequences, FiniteSets

CONSTANTS
    MaxRequests,  \* bound of the model: requests the user makes
    Null          \* an account the index does not know

ASSUME RequestsAssumption == MaxRequests \in Nat \ {0}

VARIABLES
    page,       \* "up", or while it loads "asking" for the account and "asked"
    account,    \* the nonce the index answered, or Null
    nonce,      \* localStorage: casino_nonce
    stored,     \* localStorage: the transactions under casino_tx_<nonce>
    made,       \* how many requests were made
    posting,    \* the transaction whose POST is awaited, if any
    resending,  \* the rest of a round of resubmission, the lowest nonce awaited
    wire,       \* transactions on their way to a validator, through the index
    updates     \* nonces of executed transactions on their way to the page

clientVars == <<page, account, nonce, stored, made, posting, resending, wire, updates>>

ClientInit ==
    /\ page = "up"
    /\ account = Null
    /\ nonce = 0
    /\ stored = {}
    /\ made = 0
    /\ posting = <<>>
    /\ resending = {}
    /\ wire = {}
    /\ updates = {}

NoncesIn(txs) == {tx.nonce : tx \in txs}

\* localStorage.setItem under the transaction's nonce.
Store(txs, tx) == {t \in txs : t.nonce # tx.nonce} \cup {tx}

\* getPendingTransactions: by nonce, of which there is one record each.
First(txs) == CHOOSE t \in txs : \A u \in txs : t.nonce <= u.nonce

----------------------------------------------------------------------------
(* submitTransaction.  Requests wait for each other in transactionQueue.   *)

Submit ==
    /\ page = "up"
    /\ posting = <<>>
    /\ made < MaxRequests
    /\ LET tx == [nonce |-> nonce, request |-> made + 1]
       IN  /\ stored' = Store(stored, tx)
           /\ posting' = <<tx>>
           /\ wire' = wire \cup {tx}
    /\ made' = made + 1
    /\ UNCHANGED <<page, account, nonce, resending, updates>>

\* The index took the transaction: incrementNonce reads the nonce of now.
Accepted ==
    /\ posting # <<>>
    /\ posting' = <<>>
    /\ nonce' = nonce + 1
    /\ UNCHANGED <<page, account, stored, made, resending, wire, updates>>

\* The POST failed, perhaps after the index had taken the transaction; the
\* record stays, the nonce too.
Failed ==
    /\ posting # <<>>
    /\ posting' = <<>>
    /\ UNCHANGED <<page, account, nonce, stored, made, resending, wire, updates>>

----------------------------------------------------------------------------
(* resubmitPendingTransactions, on a timer.                                *)

Send(round) == IF round = {} THEN wire ELSE wire \cup {First(round)}

\* Mutant: the newest of the accepted transactions is taken for stale.
ResubmitAllButLast ==
    /\ page = "up"
    /\ resending = {}
    /\ stored' = {t \in stored : t.nonce < nonce}
    /\ resending' = {t \in stored : t.nonce + 1 < nonce}
    /\ wire' = Send(resending')
    /\ UNCHANGED <<page, account, nonce, made, posting, updates>>

\* Records at or above the current nonce are taken for an earlier session's and
\* removed; the others are posted again, one after the other.
Resubmit ==
    /\ page = "up"
    /\ resending = {}
    /\ stored' = {t \in stored : t.nonce < nonce}
    /\ resending' = stored'
    /\ wire' = Send(resending')
    /\ UNCHANGED <<page, account, nonce, made, posting, updates>>

\* The record is written back with its retry count, even one confirmed since.
ResendAccepted(tx) ==
    /\ resending # {}
    /\ tx = First(resending)
    /\ stored' = Store(stored, tx)
    /\ resending' = resending \ {tx}
    /\ wire' = Send(resending')
    /\ UNCHANGED <<page, account, nonce, made, posting, updates>>

\* The first failure ends the round.
ResendFailed ==
    /\ resending # {}
    /\ resending' = {}
    /\ UNCHANGED <<page, account, nonce, stored, made, posting, wire, updates>>

----------------------------------------------------------------------------
(* updateNonceFromTransaction, for every transaction of the account in a   *)
(* block.  Before init the manager has no key to compare with, and the     *)
(* update is passed over.                                                  *)

\* Mutant: the nonce that comes next is cleaned up as well.
UnconfirmedShort(txs, executed) == {t \in txs : t.nonce > executed + 1}

\* cleanupConfirmedTransactions.
Unconfirmed(txs, executed) == {t \in txs : t.nonce > executed}

Update(n) ==
    /\ n \in updates
    /\ updates' = updates \ {n}
    /\ IF page = "up"
       THEN /\ stored' = Unconfirmed(stored, n)
            /\ nonce' = IF n + 1 > nonce THEN n + 1 ELSE nonce
       ELSE UNCHANGED <<stored, nonce>>
    /\ UNCHANGED <<page, account, made, posting, resending, wire>>

\* A lagging or broken connection loses updates.
UpdateLost(n) ==
    /\ n \in updates
    /\ updates' = updates \ {n}
    /\ UNCHANGED <<page, account, nonce, stored, made, posting, resending, wire>>

----------------------------------------------------------------------------
(* The page is loaded again: what was awaited is forgotten, localStorage   *)
(* stays.  The account is queried, then init synchronises with the answer. *)

Reload ==
    /\ page = "up"
    /\ page' = "asking"
    /\ posting' = <<>>
    /\ resending' = {}
    /\ UNCHANGED <<account, nonce, stored, made, wire, updates>>

GetAccount(answer) ==
    /\ page = "asking"
    /\ page' = "asked"
    /\ account' = answer
    /\ UNCHANGED <<nonce, stored, made, posting, resending, wire, updates>>

\* syncWithAccountState: without an account, with a gap before the first pending
\* transaction, and with a nonce ahead of the account's, nothing pending is kept.
KeepsPending ==
    /\ account # Null
    /\ nonce <= account
    /\ \A t \in stored : (\A u \in stored : t.nonce <= u.nonce) => t.nonce <= account

SyncWithAccountState ==
    /\ page = "asked"
    /\ page' = "up"
    /\ stored' = IF KeepsPending THEN Unconfirmed(stored, account - 1) ELSE {}
    /\ nonce' = IF account = Null THEN 0 ELSE account
    /\ account' = Null
    /\ UNCHANGED <<made, posting, resending, wire, updates>>

================================================================================
