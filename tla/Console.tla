------------------------------- MODULE Console -------------------------------
(***************************************************************************)
(* The console as its user sees it (frontend/src/app/app.routes.ts): one   *)
(* of its pages, with the component of that page, until the user leaves    *)
(* it, which ends the component and so the behaviour.  The transfer page   *)
(* has a form with a key and a list: its history, whose rows are the       *)
(* requests that posted.                                                   *)
(***************************************************************************)
EXTENDS KeyedPages, ListPages

ASSUME ConsoleAssumption == ItemsOf["transfer"] = Request

ConsoleTypeOK ==
  /\ page \in KeyedPage \cup ListPage
  /\ KeyedTypeOK
  /\ ListTypeOK

consoleVars == <<page, keyedVars, listVars>>

ConsoleInit ==
  /\ page \in KeyedPage \cup ListPage
  /\ KeyedInit
  /\ ListInit

(* A transfer is a row of the history from when it is posted. *)
PostEntry(i) ==
  /\ HandlerReturns(i)
  /\ status' = IF page = "transfer" THEN [status EXCEPT ![i] = 2] ELSE status
  /\ UNCHANGED <<lists, told, formVars, actVars>>

(* A reported transfer sends the history back to its first page. *)
ReportSuccess(i) ==
  /\ Succeeds(i)
  /\ IF page = "transfer"
       THEN Reported(sent[i].reply)
       ELSE UNCHANGED <<lists, told>>
  /\ UNCHANGED <<status, formVars, actVars>>

ConsoleNext ==
  /\ \/ KeyedStep /\ page \in KeyedPage /\ UNCHANGED listVars
     \/ \E i \in DOMAIN sent : PostEntry(i) \/ ReportSuccess(i)
     \/ ListNext /\ page \in ListPage /\ UNCHANGED keyedVars
  /\ UNCHANGED page

ConsoleSpec == ConsoleInit /\ [][ConsoleNext]_consoleVars
=============================================================================
