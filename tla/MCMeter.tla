------------------------------ MODULE MCMeter ------------------------------
(***************************************************************************)
(* Model checking of the meter and sensor drivers.                         *)
(***************************************************************************)
EXTENDS MeterPoll
=============================================================================
