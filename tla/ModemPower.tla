----------------------------- MODULE ModemPower -----------------------------
(***************************************************************************)
(* What the SIM7600 driver promises to those who power the modem up, wait  *)
(* for it and suspend it, without its twenty states, its pipes and its     *)
(* scripts: the phase of a session, the suspend token (suspended_sem), the *)
(* power manager's call and whether a RESUME event is on its way.          *)
(* ModemCellular implements it (ModemRefinesPower); the application is     *)
(* modelled on top of it (CellularApp).                                    *)
(***************************************************************************)
EXTENDS Naturals

VARIABLES
  phase,    \* how far the session of the modem is
  pm,       \* the power manager's record of the device, and its call
  token,    \* suspended_sem
  pending   \* a RESUME event waits in the event pipe

power == <<phase, pm, token, pending>>

(* Where a session may go from a phase, other than being powered off. *)
Moves ==
  [off      |-> {},
   booting  |-> {"linking"},
   linking  |-> {"attached", "stopping"},
   attached |-> {"online", "stopping"},
   online   |-> {"dormant", "linking", "stopping"},
   dormant  |-> {"linking"},
   stopping |-> {}]
Phases == DOMAIN Moves

(* A waiting suspend call takes the token at once. *)
Give ==
  IF pm = "waiting" THEN pm' = "suspended" /\ UNCHANGED token
                    ELSE token' = 1 /\ UNCHANGED pm

PowerInit ==
  /\ phase = "off" /\ pm = "suspended" /\ token = 0 /\ pending = FALSE

----------------------------------------------------------------------------
(* The driver *)

\* another RESUME may be queued behind the one that starts the session
Start ==
  /\ phase = "off" /\ pending
  /\ phase' = "booting" /\ token' = 0
  /\ pending' \in BOOLEAN
  /\ UNCHANGED pm

Advance(next) ==
  /\ next \in Moves[phase]
  /\ phase' = next
  /\ UNCHANGED <<pm, token, pending>>

\* a suspend before the multiplexer is up, a failed init script, a power-off
Stop ==
  /\ phase \in {"booting", "stopping"}
  /\ phase' = "off"
  /\ Give
  /\ UNCHANGED pending

\* the third script failure of a registered modem: off, and a RESUME for
\* itself, which a full event pipe drops
Recover ==
  /\ phase \in {"attached", "online"}
  /\ phase' = "off"
  /\ Give
  /\ pending' \in {pending, TRUE}

\* a suspend event finds the modem off
GiveAgain ==
  /\ phase = "off"
  /\ Give
  /\ UNCHANGED <<phase, pending>>

\* a RESUME event that meets a running modem has no effect
Forget ==
  /\ phase # "off" /\ pending
  /\ pending' = FALSE
  /\ UNCHANGED <<phase, pm, token>>

----------------------------------------------------------------------------
(* The power manager *)

Resume ==
  /\ pm = "suspended"
  /\ pm' = "active"
  /\ pending' \in {pending, TRUE}
  /\ UNCHANGED <<phase, token>>

Suspend ==
  /\ pm = "active"
  /\ pm' = "requesting"
  /\ UNCHANGED <<phase, token, pending>>

Take ==
  /\ pm = "requesting"
  /\ IF token = 1 THEN token' = 0 /\ pm' = "suspended"
                  ELSE pm' = "waiting" /\ UNCHANGED token
  /\ UNCHANGED <<phase, pending>>

GiveUp ==
  /\ pm = "waiting"
  /\ pm' = "active"
  /\ UNCHANGED <<phase, token, pending>>

Driver ==
  \/ Start \/ Stop \/ Recover \/ GiveAgain \/ Forget
  \/ \E next \in Phases : Advance(next)
Manager == Resume \/ Suspend \/ Take \/ GiveUp

PowerSpec == PowerInit /\ [][Driver \/ Manager]_power

----------------------------------------------------------------------------
(* The modem can be reported suspended only at a moment it is off: the      *)
(* token that answers a suspend call is given on entering IDLE and taken    *)
(* back on leaving it, so no session in progress is ever answered for.      *)
SuspendedOnlyWhenOff ==
  [][ pm' = "suspended" /\ pm # "suspended" => phase' = "off" ]_power
=============================================================================
