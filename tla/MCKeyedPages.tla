---------------------------- MODULE MCKeyedPages ----------------------------
(* Requests with keys alone, on the transfer page: one more of them than   *)
(* MCConsole has.                                                          *)
EXTENDS KeyedPages, TLC

TransferSpec == page = "transfer" /\ KeyedSpec

Payloads == Permutations(Payload)
=============================================================================
