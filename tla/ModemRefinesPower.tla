------------------------- MODULE ModemRefinesPower -------------------------
(***************************************************************************)
(* The modem driver implements ModemPower: its twenty states are the       *)
(* phases of a session.                                                    *)
(***************************************************************************)
EXTENDS ModemProperties

BootingStates ==
  {"RESET_PULSE", "AWAIT_RESET", "POWER_ON_PULSE", "AWAIT_POWER_ON",
   "SET_BAUDRATE", "RUN_INIT_SCRIPT"}
LinkingStates ==
  {"CONNECT_CMUX", "OPEN_DLCI1", "OPEN_DLCI2", "WAIT_FOR_APN",
   "RUN_APN_SCRIPT", "RUN_DIAL_SCRIPT"}
PhaseOf(s) ==
  CASE s = "IDLE" -> "off"
    [] s \in BootingStates -> "booting"
    [] s \in LinkingStates -> "linking"
    [] s = "AWAIT_REGISTERED" -> "attached"
    [] s = "CARRIER_ON" -> "online"
    [] s = "DORMANT" -> "dormant"
    [] OTHER -> "stopping"

Power == INSTANCE ModemPower WITH
           phase <- PhaseOf(data.state), pm <- data.pm,
           token <- data.sem, pending <- Queued("RESUME")

(* Every behaviour of the driver is one of ModemPower: sessions begin only  *)
(* with a RESUME, pass through the phases in order, and the suspend token   *)
(* is handed out only by a modem that is off.                               *)
ImplementsPower == Power!PowerSpec

(* The suspend call returns success only at a moment the modem is in IDLE,  *)
(* though it queues its event and takes the token in two steps, may give up *)
(* in between and may find a token from an earlier power-off.               *)
SuspendIsTruthful == Power!SuspendedOnlyWhenOff
=============================================================================
