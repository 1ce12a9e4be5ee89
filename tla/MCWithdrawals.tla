--------------------------- MODULE MCWithdrawals ---------------------------
(* Two users with two requests between them, three admins deciding at      *)
(* once.                                                                   *)
EXTENDS Withdrawals

CONSTANTS ann, ben

MCInitialWallet == [u \in {ann, ben} |-> IF u = ann THEN 3 ELSE 1]
============================================================================
