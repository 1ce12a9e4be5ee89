------------------------------ MODULE MCOrders ------------------------------
(* A pair whose base currency has four units to the whole and two users,   *)
(* one with base and one with quote currency.  At price 2 one unit is      *)
(* worth a tie that rounds down to nothing, three units one that rounds up *)
(* to 2; at price 4 they are worth 1 and 3.                                *)
EXTENDS Orders

CONSTANTS ann, ben

MCInitialWallet ==
  [u \in {ann, ben} |-> IF u = ann THEN [base |-> 3, quote |-> 0]
                                   ELSE [base |-> 0, quote |-> 3]]

MCOffers == {[quantity |-> 1, price |-> 2], [quantity |-> 3, price |-> 4]}
=============================================================================
