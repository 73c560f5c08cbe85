--------------------------- MODULE MCRegisterMap ---------------------------
(***************************************************************************)
(* Model checking of the register map over a short word: handlers for      *)
(* ranges of every position and length, those that wrap included, with     *)
(* both callbacks or none.                                                 *)
(***************************************************************************)
EXTENDS RegisterMap

AllRanges == {h \in Handlers : h.read = h.write}
=============================================================================
