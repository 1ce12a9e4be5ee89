---------------------------- MODULE AtomicLedger ----------------------------
(***************************************************************************)
(* What the ledger promises its callers: every request to post an entry    *)
(* has one outcome.  Either the entry is posted, changing all its accounts *)
(* at once and leaving no wallet negative, or it is refused and changes    *)
(* nothing.  Ledger.tla is the row-by-row implementation of this.          *)
(***************************************************************************)
EXTENDS Integers

CONSTANTS
  Tx,              \* requests to post an entry
  Account,         \* accounts with a balance
  Owned,           \* those that must not go negative
  Entries,         \* entries that may be requested
  Admissible(_),   \* is the entry well-formed?
  Touched(_),      \* the accounts of an entry
  Delta(_, _),     \* what an entry adds to an account
  InitialBalance

VARIABLES balance, \* the balance of each account
          outcome  \* what became of each request

vars == <<balance, outcome>>

Init == /\ balance = InitialBalance
        /\ outcome = [t \in Tx |-> "pending"]

(* Entry e takes effect for request t. *)
Post(t, e) ==
  /\ outcome[t] = "pending"
  /\ Admissible(e)
  /\ balance' = [a \in Account |->
                   IF a \in Touched(e) THEN balance[a] + Delta(e, a)
                                       ELSE balance[a]]
  /\ \A a \in Owned \cap Touched(e) : balance'[a] >= 0
  /\ outcome' = [outcome EXCEPT ![t] = "posted"]

(* Request t ends without effect. *)
Refuse(t) ==
  /\ outcome[t] = "pending"
  /\ outcome' = [outcome EXCEPT ![t] = "refused"]
  /\ UNCHANGED balance

Next == \E t \in Tx : Refuse(t) \/ \E e \in Entries : Post(t, e)

Spec == Init /\ [][Next]_vars
=============================================================================
