-------------------------- MODULE ModemProperties --------------------------
(***************************************************************************)
(* What the SIM7600 modem driver promises, stated over ModemCellular.      *)
(***************************************************************************)
EXTENDS ModemCellular

Queued(e) == \E i \in DOMAIN data.events : data.events[i] = e
PowerOffStates ==
  {"INIT_POWER_OFF", "RUN_SHUTDOWN_SCRIPT", "POWER_OFF_PULSE", "AWAIT_POWER_OFF"}
MuxStates ==
  {"OPEN_DLCI1", "OPEN_DLCI2", "WAIT_FOR_APN", "RUN_APN_SCRIPT",
   "RUN_DIAL_SCRIPT", "AWAIT_REGISTERED", "CARRIER_ON", "DORMANT"}

(* The driver's data keep their types. *)
TypeOK ==
  /\ data \in Data
  /\ draining \in BOOLEAN
  /\ query \in {"idle", "checked"}
  /\ setter \in Apns \cup {"none"}
  /\ suspends \in Nat
  /\ noise \in Nat

(* Whatever path leads to IDLE (suspend, a finished or failed power-off, a  *)
(* recovery, a failed init script), the chat, PPP and CMUX are released,    *)
(* the interface is down and the user pipes have been told.                 *)
IdleQuiescent ==
  data.state = "IDLE" =>
    /\ data.chatPipe = "none" /\ data.script = "none"
    /\ ~data.ppp /\ data.cmux = "released"
    /\ ~data.carrier /\ ~data.dormant /\ ~data.users

(* suspended_sem is available only while the modem is idle, so a suspend    *)
(* call that finds it available never reports a running modem as suspended. *)
TokenMeansIdle == data.sem = 1 => data.state = "IDLE"

(* The carrier is on exactly in CARRIER_ON and DORMANT, and the interface   *)
(* is dormant exactly in DORMANT.                                           *)
InterfaceFollowsState ==
  /\ data.carrier <=> data.state \in {"CARRIER_ON", "DORMANT"}
  /\ data.dormant <=> data.state = "DORMANT"

(* While PPP is attached it alone receives DLCI1: no later attach or        *)
(* release by the chat, which dials on the same pipe, takes it away.        *)
PppOwnsDlci1 ==
  data.ppp => data.cb["DLCI1"] = "ppp" /\ data.chatPipe # "DLCI1"

(* A timer armed by a state whose leave function stops it does not survive  *)
(* that state.                                                              *)
TimerStopsWithState ==
  data.timer \in {"RESET_PULSE", "AWAIT_RESET", "POWER_ON_PULSE",
                  "AWAIT_REGISTERED", "CARRIER_ON", "POWER_OFF_PULSE"} =>
    data.state = data.timer

(* A device the power manager holds for suspended is idle, on its way there *)
(* or about to be told, unless the driver queued a RESUME for itself or an  *)
(* event was dropped: a suspend request overtaken by the events still       *)
(* queued from before it is never forgotten by the states they lead to.     *)
SuspendSticks ==
  data.pm = "suspended" =>
    \/ data.state \in PowerOffStates \cup {"IDLE"} \/ Queued("SUSPEND")
    \/ data.recovered \/ data.lost

(* Every state that waits for the modem has the wake-up it waits for under  *)
(* way: its timer, the result of its script, its pipe request or CMUX, as   *)
(* long as no event was dropped. Two states may have none: one that PPP     *)
(* refused to attach in, and RUN_DIAL_SCRIPT while the chat is on no pipe,  *)
(* where a registration report stops the timer and starts nothing           *)
(* (modem_cellular_sim7600.c:1328-1335; DialRestarts shows it).             *)
Has(q, e) == \E i \in DOMAIN q : q[i] = e
Timed(d) == d.timer # "off" \/ Has(d.events, "TIMEOUT")
Scripted(d) ==
  \/ d.script # "none"
  \/ Has(d.events, "SCRIPT_SUCCESS") \/ Has(d.events, "SCRIPT_FAILED")
Asked(d, p) == d.cb[p] = "driver" /\ d.ops[p] # <<>>
Opening(d) ==
  \/ Has(d.events, "BUS_OPENED")
  \/ d.cb["UART"] = "driver" /\ Has(d.ops["UART"], "open")
Muxing(d) == d.cmux = "connecting" \/ Has(d.events, "CMUX_CONNECTED")
TimedStates ==
  {"RESET_PULSE", "AWAIT_RESET", "POWER_ON_PULSE", "AWAIT_POWER_ON",
   "INIT_POWER_OFF", "POWER_OFF_PULSE", "AWAIT_POWER_OFF"}
Waits(d) ==
  /\ d.state \in TimedStates => Timed(d)
  /\ d.state = "SET_BAUDRATE" => Timed(d) \/ Scripted(d) \/ Opening(d)
  /\ d.state = "RUN_INIT_SCRIPT" =>
       \/ Scripted(d) \/ Asked(d, "UART")
       \/ Has(d.events, "BUS_OPENED") \/ Has(d.events, "BUS_CLOSED")
  /\ d.state = "CONNECT_CMUX" => Timed(d) \/ Opening(d) \/ Muxing(d)
  /\ d.state = "OPEN_DLCI1" => Asked(d, "DLCI1") \/ Has(d.events, "DLCI1_OPENED")
  /\ d.state = "OPEN_DLCI2" => Asked(d, "DLCI2") \/ Has(d.events, "DLCI2_OPENED")
  /\ d.state = "RUN_APN_SCRIPT" =>
       Timed(d) \/ Scripted(d) \/ Has(d.events, "SUSPEND")
  /\ d.state = "RUN_DIAL_SCRIPT" =>
       \/ Timed(d) \/ Scripted(d) \/ Has(d.events, "SUSPEND")
       \/ d.chatPipe = "none"
  /\ d.state \in {"AWAIT_REGISTERED", "CARRIER_ON"} =>
       Timed(d) \/ Scripted(d) \/ FALSE \in PppAttachResults
  /\ d.state = "RUN_SHUTDOWN_SCRIPT" => Scripted(d)
NeverStalls == data.lost \/ Waits(data)

(* A dormant modem will be redialled: PPP still has to report that it died, *)
(* or has reported it, unless the interface was taken down meanwhile.       *)
DormantIsRedialled ==
  data.state = "DORMANT" =>
    data.pppLive \/ Queued("PPP_DEAD") \/ data.lost \/ FALSE \in PppAdminStates

(* A modem parked in WAIT_FOR_APN whose APN is known has the wake-up queued.*)
ParkedApnIsWoken ==
  data.state = "WAIT_FOR_APN" /\ data.apn # "none" =>
    Queued("APN_SET") \/ data.lost

(* The APN sent to the modem is the APN the driver reports, unless it was   *)
(* written by a caller that passed the state check before the script was    *)
(* built and wrote after it.                                                *)
ApnScriptIsCurrent ==
  data.state = "RUN_APN_SCRIPT" /\ ~UseDefaultApn =>
    data.apnScript = data.apn \/ data.lateApn

(* While DLCIs are in use the multiplexer is connected and owns the UART,   *)
(* and user pipes are told "connected" only while it is.                    *)
MuxOwnsBus ==
  /\ data.state \in MuxStates =>
       data.cmux = "connected" /\ data.cb["UART"] = "cmux" /\ data.users
  /\ data.users => data.state \in MuxStates \cup {"INIT_POWER_OFF"}

(* Dialling after APN configuration follows a script that succeeded in the  *)
(* APN state, never a result left over from an earlier state or session.    *)
ApnBeforeDial ==
  [][ data.state = "RUN_APN_SCRIPT" /\ data'.state = "RUN_DIAL_SCRIPT"
        => data.done # {} ]_vars

(* CMUX is connected only after the init script succeeded, which "must      *)
(* configure the modem to use CMUX" (modem_cellular_sim7600.c:2419-2422):   *)
(* on a UART that completes requests in the call, no closing of an earlier  *)
(* session is taken for the one after the script. The event pipe is the     *)
(* limit: it may have dropped the event that told the driver otherwise.     *)
InitBeforeMux ==
  [][ data.state = "RUN_INIT_SCRIPT" /\ data'.state = "CONNECT_CMUX"
        => "init" \in data.done \/ data.lost ]_vars

(* The reset line is asserted during a reset pulse and, where the reset is  *)
(* held, while idle; the wake line is released in both.                     *)
PinsFollowState ==
  /\ data.reset <=> \/ data.state = "RESET_PULSE"
                    \/ data.state = "IDLE" /\ HasResetGpio /\ HoldResetOnSuspend
  /\ data.wake <=> data.state \notin {"IDLE", "RESET_PULSE"}

(* The driver never wakes a modem whose shutdown it has begun by itself:    *)
(* the power-off states are left for IDLE only.                             *)
PowerOffIsFinal ==
  [][ data.state \in PowerOffStates =>
        data'.state \in PowerOffStates \cup {"IDLE"} ]_vars

(* A modem the power manager holds for active goes off only on a SUSPEND    *)
(* event, at the end of a power-off or after a failed init script, which    *)
(* nothing retries; every other way to IDLE queues a RESUME.                *)
RecoveryRestarts ==
  [][ data.state # "IDLE" /\ data'.state = "IDLE" =>
        \/ \E i \in DOMAIN data'.events : data'.events[i] = "RESUME"
        \/ data'.lost
        \/ data.state \in PowerOffStates
        \/ Event = "SUSPEND"
        \/ data.state = "RUN_INIT_SCRIPT" /\ Event = "SCRIPT_FAILED" ]_vars

(* A power-off that has begun ends in IDLE, where a waiting suspend call is *)
(* answered, though CMUX may never disconnect and scripts may fail.         *)
PowerOffCompletes ==
  data.state \in PowerOffStates ~> data.state = "IDLE" \/ data.lost

(* A suspend event leads to a power-off or to IDLE, unless it is lost or    *)
(* meets a dormant modem, whose handler has no case for it.                 *)
SuspendHonoured ==
  Queued("SUSPEND") ~>
    data.state \in PowerOffStates \cup {"IDLE", "DORMANT"} \/ data.lost

(* The init script never leaves the modem waiting.                          *)
InitEnds ==
  data.state = "RUN_INIT_SCRIPT" ~> data.state # "RUN_INIT_SCRIPT" \/ data.lost

----------------------------------------------------------------------------
(* Statements of the driver's comments that the code does not keep *)

(* modem_cellular_sim7600.c:833 "Revert to original baudrate if we have     *)
(* changed it": a reset pulse leaves the UART at the original baudrate.     *)
ResetRevertsBaudrate == data.state = "RESET_PULSE" => data.baud = "initial"

(* modem_cellular_sim7600.c:1328 "Restart immediately, if we are waiting to *)
(* retry the dial-script": a registration report leaves a dial script       *)
(* running or scheduled.                                                    *)
DialRestarts ==
  data.state = "RUN_DIAL_SCRIPT" =>
    data.timer # "off" \/ data.script # "none" \/ data.events # <<>> \/ data.lost

(* modem_cellular_sim7600.c:2424-2427: the dial script "must request the    *)
(* modem dial out and put the DLCI channel into data mode"; PPP is attached *)
(* to the channel only after a dial script succeeded.                       *)
DialBeforePpp ==
  [][ data.state = "RUN_DIAL_SCRIPT" /\ data'.state = "AWAIT_REGISTERED"
        => "dial" \in data.done ]_vars

(* modem_cellular_sim7600.c:554-558 "Only notify the event if the           *)
(* registration status does not match what our state machine expects. For   *)
(* example, we might stay registered while losing the PDN connection": a    *)
(* +CGEV message that contradicts the registration status is an event.      *)
PdnChangeIsNoticed ==
  [][ \A connected \in BOOLEAN :
        OnCgev(connected) /\ connected # IsRegistered(data)
          => data'.events # data.events \/ data'.lost ]_vars
=============================================================================
