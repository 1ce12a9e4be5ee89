------------------------------ MODULE MCConsole ------------------------------
(* Every page of the console: two requests for two payloads on the pages   *)
(* whose requests have a key; on the pages with lists three loads and two  *)
(* decisions or cancellations at a time, about one row, or about two where *)
(* users request them one after the other.  Only the histories of orders   *)
(* and transfers fit on a page.                                            *)
EXTENDS Console

CONSTANTS x, y

MCItemsOf ==
  [p \in ListPage |-> IF p = "transfer" THEN Request
                      ELSE IF p = "withdrawals" THEN {x, y} ELSE {x}]
=============================================================================
