------------------------------- MODULE MCRates -------------------------------
(* One quote and two conversions; a snapshot is fresh for two ticks and a *)
(* request takes at most one, so that what a slow fetch displaces can      *)
(* still be fresh.                                                         *)
EXTENDS Rates
=============================================================================
