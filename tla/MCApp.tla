------------------------------- MODULE MCApp -------------------------------
(***************************************************************************)
(* Model checking of the application on the abstract modem.                *)
(***************************************************************************)
EXTENDS CellularApp
=============================================================================
