------------------------------ MODULE MCModem ------------------------------
(***************************************************************************)
(* Model checking of the modem driver: every MCModem_*.cfg instantiates a  *)
(* board (its GPIOs, scripts and UART) and the bounds on the environment.  *)
(***************************************************************************)
EXTENDS ModemRefinesPower
=============================================================================
