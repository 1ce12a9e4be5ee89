----------------------------- MODULE Connections -----------------------------
(***************************************************************************)
(* Connections to PostgreSQL.  Every statement outside a transaction, and  *)
(* every transaction, takes one from the pool of the DataSource            *)
(* (backend/src/database/database.module.ts) and waits for it without a    *)
(* time limit.  Repositories and LedgerService.ensureAccount never use the *)
(* connection of a caller's transaction, only `manager` does: handlers     *)
(* that call them inside a transaction hold one connection and want more.  *)
(*                                                                         *)
(* A handler is the sequence of what it asks of the database.  Tasks that  *)
(* lock rows of the same table lock the same row: the one that matters.    *)
(***************************************************************************)
EXTENDS Absence, Integers, Sequences, FiniteSets, Functions

CONSTANTS
  Task,      \* requests and ticks that are handled at the same time
  Handlers,  \* the names of the handlers they may run
  PoolSize   \* connections in the pool (10, the default of node-postgres)

---------------------------------------------------------------------------
(* The handlers *)

Action(do, n, row) == [do |-> do, n |-> n, row |-> row]

(* n queries at once (Promise.all), each on a connection of its own. *)
Query(n) == Action("query", n, None)

Begin == Action("begin", 0, None)
Lock(table) == Action("lock", 0, table)
Commit == Action("commit", 0, None)

(* postEntry with the caller's manager locks the balances it updates. *)
PostEntry == Lock("account_balances")

(* A swap posts to four accounts, after ensureAccount of each. *)
SwapAccounts == Query(4)

(* Of five currencies: their accounts, then their balances. *)
getBalances == <<Query(1), Query(5), Query(5)>>

getTransactions == <<Query(1), Query(1), Query(1)>>

listHistory == <<Query(1)>>
listForUser == <<Query(1)>>
listForAdmin == <<Query(1)>>

getQuote == <<Query(2)>>

deposit == <<Query(1), Query(2), Begin, PostEntry, Commit>>

(* With the statements of IdempotencyService before and after. *)
transfer ==
  <<Query(1), Query(1), Query(2), Query(2), Begin, PostEntry, Commit, Query(1)>>

(* With TRANSFER_FEE_FLAT above zero also the account for the fees. *)
transferWithFee ==
  <<Query(1), Query(1), Query(2), Query(3), Begin, PostEntry, Commit, Query(1)>>

convert ==
  <<Query(1), Query(2), Begin, SwapAccounts, PostEntry, Query(1), Commit, Query(1)>>

requestWithdrawal == <<Query(1), Query(2), Begin, PostEntry, Commit>>

(* approve and reject. *)
decide ==
  <<Begin, Lock("withdrawal_requests"), Query(2), PostEntry, Query(1), Commit>>

executeMarketOrder == <<Query(2), Begin, SwapAccounts, PostEntry, Query(1), Commit>>

placeLimitOrder == <<Query(2), Begin, Query(2), PostEntry, Commit>>

cancelOrder == <<Begin, Lock("orders"), Query(2), Query(2), PostEntry, Commit>>

(* The entry before the order's row. *)
tryFillBackwards ==
  <<Begin, Query(2), SwapAccounts, PostEntry, Lock("orders"), Query(1), Commit>>

tryFill ==
  <<Begin, Lock("orders"), Query(2), SwapAccounts, PostEntry, Query(1), Commit>>

publishOne == <<Begin, Lock("outbox_events"), Commit>>

Program ==
  [getBalances |-> getBalances, getTransactions |-> getTransactions,
   listHistory |-> listHistory, listForUser |-> listForUser,
   listForAdmin |-> listForAdmin, getQuote |-> getQuote,
   deposit |-> deposit, transfer |-> transfer, transferWithFee |-> transferWithFee,
   convert |-> convert, requestWithdrawal |-> requestWithdrawal, decide |-> decide,
   executeMarketOrder |-> executeMarketOrder, placeLimitOrder |-> placeLimitOrder,
   cancelOrder |-> cancelOrder, tryFill |-> tryFill, publishOne |-> publishOne]

Tables == {"account_balances", "withdrawal_requests", "orders", "outbox_events"}

ASSUME ConnectionsAssumption ==
  /\ IsFiniteSet(Task)
  /\ Handlers \subseteq DOMAIN Program
  /\ PoolSize \in Nat \ {0}
  /\ None \notin Task \cup Tables

---------------------------------------------------------------------------

VARIABLES
  handler,  \* what each task runs
  step,     \* how far it is
  todo,     \* its queries that wait for a connection
  running,  \* its queries that have one
  open,     \* tasks with an open transaction, hence a connection
  holder    \* the task whose transaction has locked a table's row

poolVars == <<handler, step, todo, running, open, holder>>

Used == Cardinality(open) + SumFunctionOnSet(running, Task)
Free == PoolSize - Used

PoolTypeOK ==
  /\ handler \in [Task -> Handlers]
  /\ step \in [Task -> Nat]
  /\ \A t \in Task : step[t] <= Len(Program[handler[t]]) + 1
  /\ todo \in [Task -> 0..5]
  /\ running \in [Task -> 0..5]
  /\ open \subseteq Task
  /\ holder \in [Tables -> open \cup {None}]
  /\ Used <= PoolSize

PoolInit ==
  /\ handler \in [Task -> Handlers]
  /\ step = [t \in Task |-> 0]
  /\ todo = [t \in Task |-> 0]
  /\ running = [t \in Task |-> 0]
  /\ open = {}
  /\ holder = [r \in Tables |-> None]

End(t) == Len(Program[handler[t]]) + 1
TaskEnded(t) == step[t] = End(t)

(* t is at an action of this kind. *)
At(t, do) == step[t] \in 1..(End(t) - 1) /\ Program[handler[t]][step[t]].do = do

RowWanted(t) == Program[handler[t]][step[t]].row

(* On to the next action; its queries queue for connections. *)
Advance(t) ==
  LET next == step[t] + 1 IN
  /\ step' = [step EXCEPT ![t] = next]
  /\ todo' = [todo EXCEPT ![t] = IF next = End(t) THEN 0 ELSE Program[handler[t]][next].n]

Start(t) ==
  /\ step[t] = 0
  /\ Advance(t)
  /\ UNCHANGED <<handler, running, open, holder>>

(* The pool gives a connection to one of t's queries. *)
Connect(t) ==
  /\ todo[t] > 0
  /\ Free > 0
  /\ todo' = [todo EXCEPT ![t] = @ - 1]
  /\ running' = [running EXCEPT ![t] = @ + 1]
  /\ UNCHANGED <<handler, step, open, holder>>

(* A query is answered and its connection released; after the last one t   *)
(* goes on.  (Queries of a task that has failed are of no interest to it.) *)
QueryAnswered(t) ==
  /\ running[t] > 0
  /\ running' = [running EXCEPT ![t] = @ - 1]
  /\ IF At(t, "query") /\ todo[t] = 0 /\ running[t] = 1
       THEN Advance(t)
       ELSE UNCHANGED <<step, todo>>
  /\ UNCHANGED <<handler, open, holder>>

BeginTransaction(t) ==
  /\ At(t, "begin")
  /\ Free > 0
  /\ open' = open \cup {t}
  /\ Advance(t)
  /\ UNCHANGED <<handler, running, holder>>

RowFree(t) == holder[RowWanted(t)] = None

LockRow(t) ==
  /\ At(t, "lock")
  /\ RowFree(t)
  /\ holder' = [holder EXCEPT ![RowWanted(t)] = t]
  /\ Advance(t)
  /\ UNCHANGED <<handler, running, open>>

(* Locks that belong to the session and not to its transaction. *)
CloseKeepingRows(t) == open' = open \ {t} /\ UNCHANGED holder

(* COMMIT or ROLLBACK, and the connection goes back to the pool. *)
Close(t) ==
  /\ open' = open \ {t}
  /\ holder' = [r \in Tables |-> IF holder[r] = t THEN None ELSE holder[r]]

CommitTransaction(t) ==
  /\ At(t, "commit")
  /\ Close(t)
  /\ Advance(t)
  /\ UNCHANGED <<handler, running>>

(* A failure that gives the connection back without a ROLLBACK. *)
FailKeepingRows(t) ==
  /\ \/ At(t, "lock") /\ RowFree(t) /\ UNCHANGED running
     \/ At(t, "query") /\ running[t] > 0 /\ running' = [running EXCEPT ![t] = @ - 1]
  /\ step' = [step EXCEPT ![t] = End(t)]
  /\ CloseKeepingRows(t)
  /\ UNCHANGED <<handler, todo>>

(* What the locked row says, or a query, makes t throw.  Its other queries *)
(* stay with the pool.                                                     *)
Fail(t) ==
  /\ \/ At(t, "lock") /\ RowFree(t) /\ UNCHANGED running
     \/ At(t, "query") /\ running[t] > 0 /\ running' = [running EXCEPT ![t] = @ - 1]
  /\ step' = [step EXCEPT ![t] = End(t)]
  /\ Close(t)
  /\ UNCHANGED <<handler, todo>>

TaskStep(t) ==
  \/ Connect(t)
  \/ QueryAnswered(t)
  \/ BeginTransaction(t)
  \/ LockRow(t)
  \/ CommitTransaction(t)

PoolNext == \E t \in Task : Start(t) \/ TaskStep(t) \/ Fail(t)

PoolSpec == PoolInit /\ [][PoolNext]_poolVars

(* The pool and PostgreSQL serve who can be served. *)
FairPoolSpec == PoolSpec /\ \A t \in Task : WF_poolVars(TaskStep(t))

---------------------------------------------------------------------------

(* t's handler has queries between its BEGIN and its COMMIT. *)
Nests(t) ==
  \E b, q, c \in DOMAIN Program[handler[t]] :
    /\ b < q /\ q < c
    /\ Program[handler[t]][b].do = "begin"
    /\ Program[handler[t]][q].do = "query"
    /\ Program[handler[t]][c].do = "commit"

(* Exhausted: transactions have every connection, and one of them may want *)
(* another.                                                                *)
Exhausted == Cardinality(open) >= PoolSize /\ \E t \in open : Nests(t)

(* Everything that was started ends, whatever waits for rows of whom and   *)
(* for connections, as long as the transactions of handlers that ask for   *)
(* more leave one connection over.                                         *)
EveryTaskEndsUnlessExhausted ==
  []~Exhausted => \A t \in Task : step[t] = 1 ~> TaskEnded(t)

(* t can go on without anybody else: one of its queries runs or can have a *)
(* connection, or its next action waits for nothing.                       *)
CanMove(t) ==
  \/ running[t] > 0
  \/ Free > 0 /\ (todo[t] > 0 \/ At(t, "begin"))
  \/ At(t, "lock") /\ RowFree(t)
  \/ At(t, "commit")

(* Locking is "deadlock-safe" (README.md, line 9): tasks are never all     *)
(* waiting for each other, connections included.                           *)
NeverAllWaiting ==
  (\E t \in Task : step[t] > 0 /\ ~TaskEnded(t)) => \E t \in Task : CanMove(t)

(* What is true of it: waits for rows never close a cycle, as every        *)
(* handler locks the ledger's balances last, and waits for connections do  *)
(* so only when the pool is exhausted by transactions that nest queries.   *)
MovesUnlessExhausted == ~Exhausted => NeverAllWaiting
=============================================================================
