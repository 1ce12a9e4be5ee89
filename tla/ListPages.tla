------------------------------ MODULE ListPages ------------------------------
(***************************************************************************)
(* The console's pages with lists (frontend/src/app/features/): trade.ts,  *)
(* withdrawals.ts, admin-withdrawals.ts, transactions.ts and the history   *)
(* of transfer.ts, whose form is in KeyedPages (see Console).  Each change *)
(* of a filter or of the paginator and each success of what the user did   *)
(* loads a list anew; nothing cancels a load, and responses are shown in   *)
(* the order in which they come.  Orders and requests for withdrawals      *)
(* carry no idempotency key.                                               *)
(*                                                                         *)
(* A row is an order, a request, a line or a transfer; "closed" stands for *)
(* filled, cancelled, approved and rejected, and a filter for those that   *)
(* the server treats alike.  Which rows a page of a list has room for is   *)
(* left open.                                                              *)
(***************************************************************************)
EXTENDS Pages, Integers, Sequences, FiniteSets, FiniteSetsExt, SequencesExt

CONSTANTS
  ItemsOf,   \* rows that there are or may be in the lists of each page
  Paged,     \* lists that are longer than a page
  MaxLoads,  \* bounds the loads that are on their way
  MaxActs    \* bounds the cancellations or decisions on their way

ListPage == {"trade", "withdrawals", "adminWithdrawals", "transactions", "transfer"}

ASSUME ListAssumption ==
  /\ MaxLoads \in Nat /\ MaxActs \in Nat
  /\ DOMAIN ItemsOf = ListPage
  /\ \A p \in ListPage : None \notin ItemsOf[p]
  /\ None \notin {"done", "refused"}

VARIABLES
  view,        \* filter and pageIndex of each list
  loading,     \* whether each list's spinner is shown
  shown,       \* each list's rows as the page has them
  latest,      \* the view for which the newest load brought them, or None
               \* while it has not come or after an older one
  loads,       \* loads of each list on their way, oldest first
  status,      \* the server's rows: 1, there is none, 2, open, or 3, closed
  told,        \* what successes have told the page of each row
  filled,      \* whether the form is valid
  meaning,     \* the first row asked for with what the form says
  awaitedRow,  \* the row that the page waits to see created
  creates,     \* requests to create a row: [at, meaning]
  lost,        \* those of which the page has had no response
  dialogRow,   \* the row that a dialog is about
  deciding,    \* decidingId
  acts         \* cancellations or decisions on their way: [row, reply]

formVars == <<filled, meaning, awaitedRow, creates, lost>>
actVars == <<dialogRow, deciding, acts>>
lists == <<view, loading, shown, latest, loads>>
listVars == <<lists, status, told, formVars, actVars>>

Item == IF page \in ListPage THEN ItemsOf[page] ELSE {}

(* The lists of a page. *)
ListsOf(p) ==
  CASE p = "trade" -> {"openOrders", "history"}
    [] p \in {"withdrawals", "adminWithdrawals"} -> {"requests"}
    [] p = "transactions" -> {"lines"}
    [] p = "transfer" -> {"transfers"}
    [] OTHER -> {}

List == {"openOrders", "history", "requests", "lines", "transfers"}
Lists == ListsOf(page)

(* What a filter of the page may be set to, and is at first. *)
FilterChoices(l) ==
  CASE page = "trade" /\ l = "history" -> {"all", "closed"}
    [] page = "adminWithdrawals" -> {"open", "all"}
    [] page = "transactions" -> {"USD", "EUR"}
    [] OTHER -> {}

FirstFilter(l) ==
  CASE l = "openOrders" \/ page = "adminWithdrawals" -> "open"
    [] page = "transactions" -> None
    [] OTHER -> "all"

NoRows == [r \in Item |-> 1]

Views == [filter : {"open", "closed", "all", "USD", "EUR", None}, index : {0, 1}]

ListTypeOK ==
  /\ view \in [List -> Views]
  /\ loading \in [List -> BOOLEAN]
  /\ shown \in [List -> [Item -> 1..3]]
  /\ latest \in [List -> Views \cup {None}]
  /\ loads \in [List -> Seq([view : Views \cup {None}, answer : [Item -> 1..3] \cup {None}])]
  /\ status \in [Item -> 1..3]
  /\ told \in [Item -> 1..3]
  /\ filled \in BOOLEAN
  /\ {meaning, awaitedRow, dialogRow, deciding} \subseteq Item \cup {None}
  /\ creates \in [Item -> [at : {"none", "travelling", "created", "refused"},
                         meaning : Item \cup {None}]]
  /\ lost \subseteq Item
  /\ acts \in Seq([row : Item, reply : {"done", "refused", None}])

(* A load under view v.  The view is forgotten when a newer one is on its way. *)
LoadOf(v) == [view |-> v, answer |-> None]

FirstView == [l \in List |-> [filter |-> FirstFilter(l), index |-> 0]]

(* The constructors: transactions.ts waits for the balances first. *)
ListInit ==
  /\ view = FirstView
  /\ loading = [l \in List |-> l \in Lists]
  /\ shown = [l \in List |-> NoRows]
  /\ latest = [l \in List |-> None]
  /\ loads = [l \in List |-> IF l \in Lists /\ page # "transactions"
                            THEN <<LoadOf(FirstView[l])>> ELSE <<>>]
  /\ status = NoRows
  /\ told = NoRows
  /\ filled = FALSE
  /\ meaning = None
  /\ awaitedRow = None
  /\ creates = [r \in Item |-> [at |-> "none", meaning |-> None]]
  /\ lost = {}
  /\ dialogRow = None
  /\ deciding = None
  /\ acts = <<>>

---------------------------------------------------------------------------
(* Loading: loadRequests, loadHistory, loadOpenOrders, loadTransactions. *)

(* Lists ls are loaded under their views of the next state. *)
Load(ls) ==
  /\ loads' = [l \in List |->
                 IF l \in ls
                 THEN Append([i \in DOMAIN loads[l] |-> [loads[l][i] EXCEPT !.view = None]],
                             LoadOf(view'[l]))
                 ELSE loads[l]]
  /\ MapThenSumSet(LAMBDA l : Len(loads'[l]), List) <= MaxLoads
  /\ loading' = [l \in List |-> loading[l] \/ l \in ls]
  /\ latest' = [l \in List |-> IF l \in ls THEN None ELSE latest[l]]
  /\ UNCHANGED shown

(* The server reads its rows, now. *)
ServerAnswers(l, i) ==
  /\ loads[l][i].answer = None
  /\ loads' = [loads EXCEPT ![l][i].answer = status]
  /\ UNCHANGED <<view, loading, shown, latest, status, told, formVars, actVars>>

Ended(l, i) ==
  /\ loading' = [loading EXCEPT ![l] = FALSE]
  /\ loads' = [loads EXCEPT ![l] = RemoveAt(@, i)]

(* A response comes, be it of the newest load or not. *)
LoadArrives(l, i) ==
  /\ loads[l][i].answer # None
  /\ shown' = [shown EXCEPT ![l] = loads[l][i].answer]
  /\ latest' = [latest EXCEPT ![l] = loads[l][i].view]
  /\ Ended(l, i)
  /\ UNCHANGED <<view, status, told, formVars, actVars>>

LoadFailsSpinning(l, i) ==
  /\ loads' = [loads EXCEPT ![l] = RemoveAt(@, i)]
  /\ UNCHANGED <<view, loading, shown, latest, status, told, formVars, actVars>>

(* An error, of the server or of the network. *)
LoadFails(l, i) ==
  /\ Ended(l, i)
  /\ UNCHANGED <<view, shown, latest, status, told, formVars, actVars>>

(* transactions.ts: the currencies come, or do not. *)
BalancesArrive ==
  /\ page = "transactions"
  /\ view["lines"].filter = None /\ loading["lines"]
  /\ view' = [view EXCEPT !["lines"].filter = "USD"]
  /\ Load({"lines"})
  /\ UNCHANGED <<status, told, formVars, actVars>>

BalancesFail ==
  /\ page = "transactions"
  /\ view["lines"].filter = None /\ loading["lines"]
  /\ loading' = [loading EXCEPT !["lines"] = FALSE]
  /\ UNCHANGED <<view, shown, latest, loads, status, told, formVars, actVars>>

---------------------------------------------------------------------------
(* The user looks around; a dialog is modal. *)

(* onStatusFilterChange, onHistoryFilterChange, onCurrencyChange: the      *)
(* filter can be used while the list is loading.                           *)
SelectFilter(l, f) ==
  /\ dialogRow = None
  /\ view[l].filter \notin {None, f}
  /\ view' = [view EXCEPT ![l] = [filter |-> f, index |-> 0]]
  /\ Load({l})
  /\ UNCHANGED <<status, told, formVars, actVars>>

(* onPageChange, onOpenPageChange, onHistoryPageChange: the paginator is   *)
(* there with the table, once the list is loaded.                          *)
ChangePage(l) ==
  /\ dialogRow = None
  /\ ~loading[l]
  /\ view' = [view EXCEPT ![l].index = 1 - @]
  /\ Load({l})
  /\ UNCHANGED <<status, told, formVars, actVars>>

---------------------------------------------------------------------------
(* Creating orders and requests *)

(* The user fills in the form, or changes it. *)
Fill ==
  /\ page \in {"trade", "withdrawals"}
  /\ dialogRow = None
  /\ ~filled \/ meaning # None
  /\ filled' = TRUE
  /\ meaning' = None
  /\ UNCHANGED <<lists, status, told, awaitedRow, creates, lost, actVars>>

SendCreate(r) ==
  LET meant == IF meaning = None THEN r ELSE meaning IN
  /\ filled
  /\ dialogRow = None
  /\ creates[r].at = "none"
  /\ creates' = [creates EXCEPT ![r] = [at |-> "travelling", meaning |-> meant]]
  /\ meaning' = meant
  /\ awaitedRow' = r
  /\ UNCHANGED <<lists, status, told, filled, lost, actVars>>

CreateAgain(r) == SendCreate(r)

(* submit *)
Create(r) == awaitedRow = None /\ SendCreate(r)

(* create in the server; a market order is filled at once. *)
ServerCreates(r) ==
  /\ creates[r].at = "travelling"
  /\ \/ /\ creates' = [creates EXCEPT ![r].at = "created"]
        /\ \E s \in IF page = "trade" THEN {2, 3} ELSE {2} : status' = [status EXCEPT ![r] = s]
     \/ creates' = [creates EXCEPT ![r].at = "refused"] /\ UNCHANGED status
  /\ UNCHANGED <<lists, told, filled, meaning, awaitedRow, lost, actVars>>

(* Row r is reported as created, and the lists go back to their start. *)
Reported(r) ==
  /\ told' = [told EXCEPT ![r] = 2]
  /\ view' = [l \in List |-> IF l \in Lists THEN [view[l] EXCEPT !.index = 0] ELSE view[l]]
  /\ Load(Lists)

(* Success: the form is cleared. *)
CreateArrives(r) ==
  /\ awaitedRow = r
  /\ creates[r].at = "created"
  /\ awaitedRow' = None
  /\ filled' = FALSE
  /\ meaning' = None
  /\ Reported(r)
  /\ UNCHANGED <<status, creates, lost, actVars>>

(* An error: the form is as it was.  Without a response the request may be *)
(* anywhere, and may yet reach the server or not.                          *)
CreateFails(r) ==
  /\ awaitedRow = r
  /\ awaitedRow' = None
  /\ \/ creates[r].at = "refused" /\ UNCHANGED <<creates, lost>>
     \/ /\ lost' = lost \cup {r}
        /\ creates' \in {creates} \cup
             (IF creates[r].at = "travelling" THEN {[creates EXCEPT ![r].at = "refused"]} ELSE {})
  /\ UNCHANGED <<lists, status, told, filled, meaning, actVars>>

---------------------------------------------------------------------------
(* Cancelling orders, approving and rejecting requests *)

ActionList == IF page = "trade" THEN "openOrders" ELSE "requests"

(* cancelOrder, approve, reject: the dialog is about a row as shown. *)
Act(r) ==
  /\ page \in {"trade", "adminWithdrawals"}
  /\ dialogRow = None
  /\ ~loading[ActionList]
  /\ shown[ActionList][r] = 2
  /\ deciding # r
  /\ dialogRow' = r
  /\ UNCHANGED <<lists, status, told, formVars, deciding, acts>>

Dismiss ==
  /\ dialogRow # None
  /\ dialogRow' = None
  /\ UNCHANGED <<lists, status, told, formVars, deciding, acts>>

ConfirmAct ==
  /\ dialogRow # None
  /\ Len(acts) < MaxActs
  /\ acts' = Append(acts, [row |-> dialogRow, reply |-> None])
  /\ deciding' = IF page = "adminWithdrawals" THEN dialogRow ELSE deciding
  /\ dialogRow' = None
  /\ UNCHANGED <<lists, status, told, formVars>>

(* The server closes the row, or answers 409 for one that is closed. *)
ServerActs(i) ==
  /\ acts[i].reply = None
  /\ acts' = [acts EXCEPT ![i].reply = IF status[acts[i].row] = 2 THEN "done" ELSE "refused"]
  /\ status' = [status EXCEPT ![acts[i].row] = 3]
  /\ UNCHANGED <<lists, told, formVars, dialogRow, deciding>>

ActArrivesReloadingOne(i) ==
  /\ acts[i].reply = "done"
  /\ acts' = RemoveAt(acts, i)
  /\ deciding' = None
  /\ told' = [told EXCEPT ![acts[i].row] = 3]
  /\ UNCHANGED <<view, status, formVars, dialogRow>>
  /\ Load({ActionList})

(* Success: the lists are loaded at the pages they are at. *)
ActArrives(i) ==
  /\ acts[i].reply = "done"
  /\ acts' = RemoveAt(acts, i)
  /\ deciding' = None
  /\ told' = [told EXCEPT ![acts[i].row] = 3]
  /\ UNCHANGED <<view, status, formVars, dialogRow>>
  /\ Load(Lists)

(* An error, of the server or of the network, before or after it acted. *)
ActFails(i) ==
  /\ acts' = RemoveAt(acts, i)
  /\ deciding' = None
  /\ status' \in {status} \cup
       (IF acts[i].reply = None THEN {[status EXCEPT ![acts[i].row] = 3]} ELSE {})
  /\ UNCHANGED <<lists, told, formVars, dialogRow>>

(* Somebody else, or the worker, makes or closes a row. *)
Elsewhere(r) ==
  /\ creates[r].at # "travelling"
  /\ \/ status[r] = 1 /\ page \in {"adminWithdrawals", "transactions"}
     \/ status[r] = 2 /\ page \notin {"transactions", "transfer"}
  /\ status' = [status EXCEPT ![r] = @ + 1]
  /\ UNCHANGED <<lists, told, formVars, actVars>>

---------------------------------------------------------------------------

ListNext ==
  \/ \E l \in Lists : \E i \in DOMAIN loads[l] :
       ServerAnswers(l, i) \/ LoadArrives(l, i) \/ LoadFails(l, i)
  \/ BalancesArrive \/ BalancesFail
  \/ \E l \in Lists \cap Paged : ChangePage(l)
  \/ \E l \in Lists : \E f \in FilterChoices(l) : SelectFilter(l, f)
  \/ Fill
  \/ \E r \in Item : \/ Create(r) \/ ServerCreates(r) \/ CreateArrives(r) \/ CreateFails(r)
                    \/ Act(r) \/ Elsewhere(r)
  \/ Dismiss \/ ConfirmAct
  \/ \E i \in DOMAIN acts : ServerActs(i) \/ ActArrives(i) \/ ActFails(i)

---------------------------------------------------------------------------

(* With no load on its way, and the newest load not overtaken or failed,   *)
(* what a list shows is what its filter and paginator say, and it has      *)
(* every change that a success message has told the user of: the lists are *)
(* loaded by everything that makes them old, on pages with two of them     *)
(* too, and only overtaking or failing can leave them wrong.               *)
ShownIsLatest ==
  \A l \in Lists :
    latest[l] # None =>
      /\ latest[l] = view[l]
      /\ \A r \in Item : told[r] <= shown[l][r]

(* What the user filled in once is created once, and once more at most for *)
(* each attempt whose response was lost: there is no key, and only the     *)
(* disabled button stands between two clicks and two orders.               *)
CreatesAreCharged ==
  \A r \in Item :
    LET same == {s \in Item : creates[s].meaning = r} IN
    Cardinality({s \in same : status[s] > 1}) <= 1 + Cardinality(same \cap lost)

(* Whatever is shown as going on has a request behind it that is on its    *)
(* way, so that it ends when the request does, by an error too: no spinner *)
(* turns for ever and no button stays disabled (transactions.ts first      *)
(* waits for the balances).                                                *)
SpinnersHaveRequests ==
  /\ \A l \in Lists :
       loading[l] => loads[l] # <<>> \/ view[l].filter = None
  /\ awaitedRow # None => creates[awaitedRow].at # "none" /\ awaitedRow \notin lost
  /\ deciding # None => \E i \in DOMAIN acts : acts[i].row = deciding
=============================================================================
