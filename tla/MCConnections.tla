---------------------------- MODULE MCConnections ----------------------------
(* Three tasks, and three connections or only two: deposits and order      *)
(* cancellations, conversions and fills, meeting in the treasury's balance *)
(* and an order's row.                                                     *)
EXTENDS Connections
=============================================================================
