------------------------------- MODULE Ledger -------------------------------
(***************************************************************************)
(* LedgerService.postEntry (backend/src/ledger/ledger.service.ts) as       *)
(* PostgreSQL runs it at READ COMMITTED: concurrent transactions, each     *)
(* locking the balance rows of its entry one at a time in account order,   *)
(* computing the new balances from the rows it locked, and committing the  *)
(* entry, its lines and the balances together with whatever else the       *)
(* caller wrote in the same transaction.                                   *)
(*                                                                         *)
(* A transaction t of Tx posts one entry, as every caller's does.  What it *)
(* wrote is visible to the others only after Commit.                       *)
(***************************************************************************)
EXTENDS LedgerEntry

CONSTANT Tx          \* database transactions that post an entry

VARIABLES
  stage,    \* how far each transaction is
  entry,    \* the lines it posts
  held,     \* the balance rows it has locked FOR UPDATE
  seen,     \* the balances its SELECT ... FOR UPDATE returned for them
  balance,  \* account_balances.balance, committed
  total     \* committed journal_lines of each account: credits - debits

vars == <<stage, entry, held, seen, balance, total>>

Stages == {"start", "locking", "posted", "committed", "refused"}
Ended == {"committed", "refused"}

TypeOK ==
  /\ stage \in [Tx -> Stages]
  /\ entry \in [Tx -> Entries \cup {<<>>}]
  /\ held \in [Tx -> SUBSET Account]
  /\ seen \in [Tx -> [Account -> Int]]
  /\ balance \in [Account -> Int]
  /\ total \in [Account -> Int]

---------------------------------------------------------------------------

(* The rows the SELECT finds for the accounts of t's entry. *)
Rows(t) == Touched(entry[t]) \cap Account

AllLocked(t) == Rows(t) \subseteq held[t]

RowFreeUnlocked(t, a) == TRUE

(* No other transaction holds the lock of row a. *)
RowFree(t, a) == \A u \in Tx \ {t} : a \notin held[u]

NextRowUnordered(t, a) == a \in Rows(t) \ held[t]

(* Row a is the next that t's SELECT locks. *)
NextRow(t, a) ==
  /\ a \in Rows(t) \ held[t]
  /\ \A b \in Rows(t) \ held[t] : a <= b

NewBalance(t, a) == seen[t][a] + Delta(entry[t], a)

SufficientFundsBefore(t) == \A a \in Owned \cap Rows(t) : seen[t][a] >= 0

(* No owned account would end below zero. *)
SufficientFunds(t) == \A a \in Owned \cap Rows(t) : NewBalance(t, a) >= 0

(* What postEntryWithManager demands once it has the rows. *)
Accepted(t) ==
  /\ RowsExist(entry[t])
  /\ CurrenciesMatch(entry[t])
  /\ SufficientFunds(t)

(* t ends without effect, and PostgreSQL drops its locks. *)
RollBack(t) ==
  /\ stage' = [stage EXCEPT ![t] = "refused"]
  /\ held' = [held EXCEPT ![t] = {}]
  /\ UNCHANGED <<entry, seen, balance, total>>

---------------------------------------------------------------------------

Init ==
  /\ stage = [t \in Tx |-> "start"]
  /\ entry = [t \in Tx |-> <<>>]
  /\ held = [t \in Tx |-> {}]
  /\ seen = [t \in Tx |-> [a \in Account |-> 0]]
  /\ balance = InitialBalance
  /\ total = InitialBalance

(* postEntry is called with e: it validates e before it takes any lock. *)
Begin(t, e) ==
  /\ stage[t] = "start"
  /\ entry' = [entry EXCEPT ![t] = e]
  /\ stage' = [stage EXCEPT ![t] =
                 IF ValidEntryLines(e) THEN "locking" ELSE "refused"]
  /\ UNCHANGED <<held, seen, balance, total>>

(* The SELECT locks its next row, once it is free, and reads its newest    *)
(* committed balance.                                                      *)
LockRow(t, a) ==
  /\ stage[t] = "locking"
  /\ NextRow(t, a)
  /\ RowFree(t, a)
  /\ held' = [held EXCEPT ![t] = @ \cup {a}]
  /\ seen' = [seen EXCEPT ![t][a] = balance[a]]
  /\ UNCHANGED <<stage, entry, balance, total>>

(* All rows locked and the entry accepted: entry, lines and balances are   *)
(* written, and visible to this transaction only.                          *)
PostEntry(t) ==
  /\ stage[t] = "locking"
  /\ AllLocked(t)
  /\ Accepted(t)
  /\ stage' = [stage EXCEPT ![t] = "posted"]
  /\ UNCHANGED <<entry, held, seen, balance, total>>

(* InvalidLedgerEntryException or InsufficientFundsException. *)
RefuseEntry(t) ==
  /\ stage[t] = "locking"
  /\ AllLocked(t)
  /\ ~Accepted(t)
  /\ RollBack(t)

(* What the transaction wrote becomes the committed state. *)
Publish(t) ==
  /\ balance' = [a \in Account |->
                   IF a \in Rows(t) THEN NewBalance(t, a) ELSE balance[a]]
  /\ total' = [a \in Account |->
                   IF a \in Rows(t) THEN total[a] + Delta(entry[t], a) ELSE total[a]]

CommitKeepingLocks(t) ==
  /\ stage[t] = "posted"
  /\ Publish(t)
  /\ stage' = [stage EXCEPT ![t] = "committed"]
  /\ UNCHANGED <<entry, held, seen>>

Commit(t) ==
  /\ stage[t] = "posted"
  /\ Publish(t)
  /\ stage' = [stage EXCEPT ![t] = "committed"]
  /\ held' = [held EXCEPT ![t] = {}]
  /\ UNCHANGED <<entry, seen>>

AbortAutoCommitted(t) ==
  /\ stage[t] \in {"locking", "posted"}
  /\ IF stage[t] = "posted" THEN Publish(t) ELSE UNCHANGED <<balance, total>>
  /\ stage' = [stage EXCEPT ![t] = "refused"]
  /\ held' = [held EXCEPT ![t] = {}]
  /\ UNCHANGED <<entry, seen>>

(* A later statement of the caller's transaction throws, or the process or *)
(* its connection dies.                                                    *)
Abort(t) ==
  /\ stage[t] \in {"locking", "posted"}
  /\ RollBack(t)

(* Every transaction has ended: nothing is left to do. *)
Finished ==
  /\ \A t \in Tx : stage[t] \in Ended
  /\ UNCHANGED vars

Next ==
  \/ \E t \in Tx :
       \/ \E e \in Entries : Begin(t, e)
       \/ \E a \in Account : LockRow(t, a)
       \/ PostEntry(t)
       \/ RefuseEntry(t)
       \/ Commit(t)
       \/ Abort(t)
  \/ Finished

Spec == Init /\ [][Next]_vars

(* The server keeps running statements of a transaction it has begun; that *)
(* a client calls, or that anything fails, is never promised.              *)
Fairness ==
  \A t \in Tx :
    /\ WF_vars(\E a \in Account : LockRow(t, a))
    /\ WF_vars(PostEntry(t))
    /\ WF_vars(RefuseEntry(t))
    /\ WF_vars(Commit(t))

FairSpec == Spec /\ Fairness

---------------------------------------------------------------------------
(* Safety *)

(* The cached balance of every account is the sum of its journal lines:    *)
(* no concurrent posting overwrites another's update                       *)
(* (ledger.service.ts, SELECT ... FOR UPDATE and UPDATE).                  *)
BalanceIsJournalTotal == balance = total

(* No sequence of concurrent postings takes a user's wallet below zero     *)
(* (the ownerUserId check of postEntryWithManager).                        *)
NoOverdraft == \A a \in Owned : balance[a] >= 0

(* Money is neither made nor lost: over the accounts of a currency the     *)
(* balances add up to zero, as the double entry demands                    *)
(* (ledger-entry-validator.ts with the currency check of the service).     *)
CurrencyConserved ==
  \A c \in Currency :
    SumFunctionOnSet(balance, {a \in Account : currencyOf[a] = c}) = 0

(* Row a is what t waits for. *)
WaitsFor(t, a) == stage[t] = "locking" /\ NextRow(t, a) /\ ~RowFree(t, a)

(* There is no set of transactions each waiting for a row that another of  *)
(* them has locked: the sorted lock order rules deadlock out               *)
(* (ORDER BY ab.account_id FOR UPDATE OF ab).                              *)
NoDeadlock ==
  \A S \in SUBSET Tx :
    (\A t \in S : \E u \in S, a \in Account : WaitsFor(t, a) /\ a \in held[u])
      => S = {}

---------------------------------------------------------------------------
(* Liveness *)

(* A transaction that has begun to lock ends, whatever the others do with  *)
(* the rows it needs.                                                      *)
EveryPostingEnds == \A t \in Tx : stage[t] = "locking" ~> stage[t] \in Ended

---------------------------------------------------------------------------
(* Refinement *)

Outcome(t) == CASE stage[t] = "committed" -> "posted"
                [] stage[t] = "refused"   -> "refused"
                [] OTHER                  -> "pending"

Atomic == INSTANCE AtomicLedger WITH
            balance <- balance, outcome <- [t \in Tx |-> Outcome(t)]

(* The row-by-row posting behaves like entries posted atomically, each     *)
(* request with one outcome.                                               *)
ImplementsAtomicLedger == Atomic!Spec
---------------------------------------------------------------------------
(* The inductive invariant behind the safety properties (LedgerProofs)      *)

(* What each stage says about the transaction's entry and locks. *)
StageInv ==
  \A t \in Tx :
    /\ stage[t] # "start" => entry[t] \in Entries
    /\ stage[t] \in {"locking", "posted", "committed"} => ValidEntryLines(entry[t])
    /\ stage[t] \notin {"locking", "posted"} => held[t] = {}
    /\ stage[t] = "posted" => AllLocked(t) /\ Accepted(t)
    /\ held[t] \subseteq Rows(t)

(* A row has one holder. *)
LocksExclusive ==
  \A t, u \in Tx : t # u => held[t] \cap held[u] = {}

(* What a transaction read of a row it holds is still the committed value. *)
SeenIsCurrent ==
  \A t \in Tx : \A a \in held[t] : seen[t][a] = balance[a]

(* Rows are locked from below. *)
LockedInOrder ==
  \A t \in Tx : \A a \in held[t], b \in Rows(t) \ held[t] : a < b

IInv ==
  /\ TypeOK
  /\ StageInv
  /\ LocksExclusive
  /\ SeenIsCurrent
  /\ LockedInOrder
  /\ BalanceIsJournalTotal
  /\ NoOverdraft
=============================================================================
