------------------------------ MODULE MCEvents ------------------------------
(* Two events, the second without a recipient, two overlapping batches,    *)
(* and two failures anywhere.                                              *)
EXTENDS Events
=============================================================================
