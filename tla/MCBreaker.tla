----------------------------- MODULE MCBreaker -----------------------------
(***************************************************************************)
(* Model checking of the breaker with 16-bit words, the two handlers that  *)
(* main registers and requests around the edges of their ranges.           *)
(***************************************************************************)
EXTENDS BreakerRegisters

AppHandlers == {RelayHandler, SystemHandler}
=============================================================================
