-------------------------------- MODULE Pages --------------------------------
(***************************************************************************)
(* What the modules of the console's pages share.  A user is on one page,  *)
(* which has a component, with a state, of its own (app.routes.ts).        *)
(***************************************************************************)
EXTENDS Absence

VARIABLE
  page  \* the page that the user is on
=============================================================================
