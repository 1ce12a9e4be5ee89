------------------------------ MODULE Absence ------------------------------
(* What several modules speak of. *)
CONSTANT
  None  \* the absence of anything: null
=============================================================================
