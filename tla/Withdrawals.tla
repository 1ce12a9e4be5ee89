---------------------------- MODULE Withdrawals ----------------------------
(***************************************************************************)
(* Maker-checker withdrawals (backend/src/withdrawals/                     *)
(* withdrawals.service.ts): a request holds the money in the pooled        *)
(* withdrawal_pending account, and concurrent calls of approve and reject  *)
(* settle it to the treasury or release it to the wallet, each under a     *)
(* lock of the request's row.                                              *)
(*                                                                         *)
(* One currency, as the entries of a request never leave theirs.  What a   *)
(* database transaction wrote appears at its commit; that the ledger's     *)
(* part of it takes effect in one step is what Ledger.tla establishes.     *)
(***************************************************************************)
EXTENDS Integers, FiniteSets, Functions

CONSTANTS
  User,           \* who requests withdrawals
  Request,        \* identities of withdrawal_requests rows
  Decision,       \* calls of approve and reject by admins
  Amounts,        \* amounts a request may ask for
  InitialWallet,  \* balances of the user_wallet accounts to start from
  None

ASSUME AmountAssumption ==
  /\ Amounts \subseteq Nat \ {0}
  /\ InitialWallet \in [User -> Nat]
  /\ None \notin User \cup Decision

VARIABLES
  requests,   \* withdrawal_requests: [status, user, amount] of each row
  wallet,     \* balances of the wallets
  pending,    \* balance of withdrawal_pending
  treasury,   \* what withdrawals have added to the treasury
  decisions,  \* each call: [pc, verdict, request]
  lockedBy,   \* the call whose transaction has locked a request's row
  postings,   \* settle and release entries posted for each request
  outbox      \* withdrawal.approved and .rejected events of each request

vars == <<requests, wallet, pending, treasury, decisions, lockedBy, postings, outbox>>

Verdicts == {"approved", "rejected"}
Statuses == {"none", "pending"} \cup Verdicts
Ended == {"done", "notFound", "conflict", "failed"}

TypeOK ==
  /\ requests \in [Request -> [status : Statuses, user : User \cup {None},
                               amount : Amounts \cup {0}]]
  /\ wallet \in [User -> Nat]
  /\ pending \in Int
  /\ treasury \in Nat
  /\ decisions \in [Decision -> [pc : {"idle", "locking", "deciding"} \cup Ended,
                                 verdict : Verdicts,
                                 request : Request]]
  /\ lockedBy \in [Request -> Decision \cup {None}]
  /\ postings \in [Request -> Nat]
  /\ outbox \in [Request -> [Verdicts -> Nat]]

Init ==
  /\ requests = [r \in Request |-> [status |-> "none", user |-> None, amount |-> 0]]
  /\ wallet = InitialWallet
  /\ pending = 0
  /\ treasury = 0
  /\ decisions \in [Decision -> [pc : {"idle"}, verdict : Verdicts, request : Request]]
  /\ lockedBy = [r \in Request |-> None]
  /\ postings = [r \in Request |-> 0]
  /\ outbox = [r \in Request |-> [v \in Verdicts |-> 0]]

---------------------------------------------------------------------------

HoldWithoutRequest(u, r, n) ==
  /\ requests[r].status = "none"
  /\ wallet[u] >= n
  /\ wallet' = [wallet EXCEPT ![u] = @ - n]
  /\ pending' = pending + n
  /\ requests' \in {requests,
                    [requests EXCEPT ![r] = [status |-> "pending", user |-> u, amount |-> n]]}
  /\ UNCHANGED <<treasury, decisions, lockedBy, postings, outbox>>

(* requestWithdrawal: the hold entry and the request row in one            *)
(* transaction; an amount the wallet does not cover is refused by the      *)
(* ledger and changes nothing.                                             *)
RequestWithdrawal(u, r, n) ==
  /\ requests[r].status = "none"
  /\ wallet[u] >= n
  /\ wallet' = [wallet EXCEPT ![u] = @ - n]
  /\ pending' = pending + n
  /\ requests' = [requests EXCEPT ![r] = [status |-> "pending", user |-> u, amount |-> n]]
  /\ UNCHANGED <<treasury, decisions, lockedBy, postings, outbox>>

GoTo(d, label) == decisions' = [decisions EXCEPT ![d].pc = label]

(* An admin calls approve or reject. *)
Begin(d) ==
  /\ decisions[d].pc = "idle"
  /\ GoTo(d, "locking")
  /\ UNCHANGED <<requests, wallet, pending, treasury, lockedBy, postings, outbox>>

RowFreeUnlocked(r) == TRUE

(* No transaction has locked the row of request r. *)
RowFree(r) == lockedBy[r] = None

(* lockPendingRequest: once the row is free, the call sees its newest      *)
(* committed status, and goes on with the lock only if it is pending.      *)
LockPendingRequest(d) ==
  LET r == decisions[d].request IN
  /\ decisions[d].pc = "locking"
  /\ RowFree(r)
  /\ CASE requests[r].status = "none" -> GoTo(d, "notFound") /\ UNCHANGED lockedBy
       [] requests[r].status \in Verdicts -> GoTo(d, "conflict") /\ UNCHANGED lockedBy
       [] requests[r].status = "pending" -> /\ GoTo(d, "deciding")
                                            /\ lockedBy' = [lockedBy EXCEPT ![r] = d]
  /\ UNCHANGED <<requests, wallet, pending, treasury, postings, outbox>>

(* The WITHDRAWAL_SETTLE entry of approve: pending to treasury. *)
Settle(r) ==
  /\ pending' = pending - requests[r].amount
  /\ treasury' = treasury + requests[r].amount
  /\ UNCHANGED wallet

(* The WITHDRAWAL_RELEASE entry of reject: pending to the requester. *)
Release(r) ==
  /\ pending' = pending - requests[r].amount
  /\ wallet' = [wallet EXCEPT ![requests[r].user] = @ + requests[r].amount]
  /\ UNCHANGED treasury

Unlock(r) == lockedBy' = [lockedBy EXCEPT ![r] = None]

(* The rest of approve or reject, up to the commit: the entry, the status  *)
(* and the outbox event, all in the transaction that holds the row.        *)
Decide(d) ==
  LET r == decisions[d].request
      v == decisions[d].verdict IN
  /\ decisions[d].pc = "deciding"
  /\ IF v = "approved" THEN Settle(r) ELSE Release(r)
  /\ requests' = [requests EXCEPT ![r].status = v]
  /\ postings' = [postings EXCEPT ![r] = @ + 1]
  /\ outbox' = [outbox EXCEPT ![r][v] = @ + 1]
  /\ Unlock(r)
  /\ GoTo(d, "done")

FailLeavingLock(d) ==
  /\ decisions[d].pc \in {"locking", "deciding"}
  /\ GoTo(d, "failed")
  /\ UNCHANGED <<requests, wallet, pending, treasury, lockedBy, postings, outbox>>

(* A statement of the call throws (ensureAccount, postEntry, findById,     *)
(* append), or its connection dies: all of it is rolled back.              *)
Fail(d) ==
  /\ decisions[d].pc \in {"locking", "deciding"}
  /\ GoTo(d, "failed")
  /\ IF decisions[d].pc = "deciding" THEN Unlock(decisions[d].request)
                                     ELSE UNCHANGED lockedBy
  /\ UNCHANGED <<requests, wallet, pending, treasury, postings, outbox>>

(* Every call has ended and nobody has to request anything more. *)
Finished ==
  /\ \A d \in Decision : decisions[d].pc \in Ended
  /\ UNCHANGED vars

Next ==
  \/ \E u \in User, r \in Request, n \in Amounts : RequestWithdrawal(u, r, n)
  \/ \E d \in Decision :
       Begin(d) \/ LockPendingRequest(d) \/ Decide(d) \/ Fail(d)
  \/ Finished

Spec == Init /\ [][Next]_vars

(* The server runs the statements of a call it has begun. *)
Fairness ==
  \A d \in Decision : WF_vars(LockPendingRequest(d)) /\ WF_vars(Decide(d))

FairSpec == Spec /\ Fairness

---------------------------------------------------------------------------

AmountOf(S) == SumFunctionOnSet([r \in Request |-> requests[r].amount], S)

WithStatus(s) == {r \in Request : requests[r].status = s}

(* The pooled account holds the money of the undecided requests, whichever *)
(* calls raced for them.  A wallet lacks exactly what its user's undecided *)
(* and approved requests took: rejected money is back with the one who     *)
(* asked, once; and the treasury got exactly the approved amounts.         *)
MoneyFollowsDecision ==
  /\ pending = AmountOf(WithStatus("pending"))
  /\ \A u \in User :
       wallet[u] + AmountOf({r \in WithStatus("pending") \cup WithStatus("approved") :
                               requests[r].user = u}) = InitialWallet[u]
  /\ treasury = AmountOf(WithStatus("approved"))

(* A request is decided by one entry and announced by one event, of the    *)
(* verdict its row shows; an undecided one by none (lockPendingRequest:    *)
(* the second decision "hits the pending-status guard").                   *)
DecidedExactlyOnce ==
  \A r \in Request :
    LET decided == requests[r].status \in Verdicts IN
    /\ postings[r] = IF decided THEN 1 ELSE 0
    /\ \A v \in Verdicts : outbox[r][v] = IF requests[r].status = v THEN 1 ELSE 0

(* Whoever waits for a request's row gets an answer. *)
EveryDecisionEnds ==
  \A d \in Decision : decisions[d].pc = "locking" ~> decisions[d].pc \in Ended
============================================================================
