--------------------------- MODULE ModemCellular ---------------------------
(***************************************************************************)
(* The SIM7600 cellular modem driver of P3                                 *)
(* (drivers/sim7600/modem_cellular_sim7600.c): one event-driven state      *)
(* machine, run by the system work queue, fed through a bounded event pipe *)
(* by the timer, the UART and DLCI pipes, the chat-script engine, the CMUX *)
(* link, PPP, the ring GPIO, the power-management call and the cellular    *)
(* API.                                                                    *)
(*                                                                         *)
(* `data' is struct modem_cellular_data with the objects embedded in it;   *)
(* the operators take such a record and return the record the C function   *)
(* leaves behind, so that a handler which changes state in the middle is   *)
(* written as the composition it is.  A handler runs to completion on the  *)
(* cooperative work queue, hence it is one step; the API calls that read   *)
(* the state and act on it later are two.                                  *)
(*                                                                         *)
(* Definitions named Mut... are not part of the specification: each is the *)
(* definition below it with a plausible bug, kept to show that a property  *)
(* depends on the code being right.                                        *)
(***************************************************************************)
EXTENDS Naturals, Sequences

CONSTANTS
  Autostarts,          \* config: the modem boots when powered
  HasPowerGpio, HasResetGpio,
  ResetOnResume, ResetOnRecovery, HoldResetOnSuspend,
  HasBaudScript, HasShutdownScript,
  UseDefaultPdp, UseDefaultApn,
  HasRing,             \* a ring GPIO is wired
  UartConfigurable,    \* uart_config_get and uart_configure succeed
  PppAttachResults,    \* outcomes of modem_ppp_attach: a subset of BOOLEAN
  PppAdminStates,      \* net_if_is_admin_up of the PPP interface
  EventPipeSize,       \* events that fit in event_buf
  Domains,             \* network domains reporting registration
  Apns, InitialApn,    \* APN names; the APN compiled in, or "none"
  MaxBacklog,          \* bus requests that may be unfinished while anyone
                       \* else runs: 0 for the interrupt-driven UART, which
                       \* completes a request inside the call
  PreemptsDispatch,    \* application threads may run between two events of
                       \* the dispatch loop: not with a cooperative queue
  MaxSuspends,         \* bound: suspend requests by the power manager
  MaxNoise             \* bound: unsolicited events and API calls

ASSUME ConfigAssumption ==
  /\ {Autostarts, HasPowerGpio, HasResetGpio, ResetOnResume, ResetOnRecovery,
      HoldResetOnSuspend, HasBaudScript, HasShutdownScript, UseDefaultPdp,
      UseDefaultApn, HasRing, UartConfigurable, PreemptsDispatch}
       \subseteq BOOLEAN
  /\ PppAttachResults \subseteq BOOLEAN
  /\ PppAdminStates \subseteq BOOLEAN

ASSUME SizeAssumption ==
  /\ EventPipeSize \in Nat \ {0}
  /\ MaxBacklog \in Nat
  /\ MaxSuspends \in Nat
  /\ MaxNoise \in Nat

ASSUME ApnAssumption == InitialApn \in Apns \cup {"none"}

States ==
  {"IDLE", "RESET_PULSE", "AWAIT_RESET", "POWER_ON_PULSE", "AWAIT_POWER_ON",
   "SET_BAUDRATE", "RUN_INIT_SCRIPT", "CONNECT_CMUX", "OPEN_DLCI1",
   "OPEN_DLCI2", "WAIT_FOR_APN", "RUN_APN_SCRIPT", "RUN_DIAL_SCRIPT",
   "AWAIT_REGISTERED", "CARRIER_ON", "DORMANT", "INIT_POWER_OFF",
   "RUN_SHUTDOWN_SCRIPT", "POWER_OFF_PULSE", "AWAIT_POWER_OFF"}

Events ==
  {"RESUME", "SUSPEND", "MODEM_READY", "SCRIPT_SUCCESS", "SCRIPT_FAILED",
   "CMUX_CONNECTED", "CMUX_DISCONNECTED", "DLCI1_OPENED", "DLCI2_OPENED",
   "TIMEOUT", "REGISTERED", "DEREGISTERED", "BUS_OPENED", "BUS_CLOSED",
   "PPP_DEAD", "APN_SET", "RING"}

Pipes   == {"UART", "DLCI1", "DLCI2"}
Dlcis   == {"DLCI1", "DLCI2"}
Owners  == {"none", "driver", "chat", "cmux", "ppp"}
Scripts == {"baud", "init", "apn", "dial", "periodic", "shutdown", "query"}
Links   == {"released", "disconnected", "connecting", "connected",
            "disconnecting"}
PmStates == {"suspended", "active", "requesting", "waiting"}
MaxScriptFailures == 3     \* MODEM_CELLULAR_MAX_SCRIPT_FAILURES
FailureCounts == 0 .. (MaxScriptFailures - 1)
Tokens == 0 .. 1

VARIABLES
  data,      \* struct modem_cellular_data and what it drives
  draining,  \* the dispatch work item is inside its reading loop
  query,     \* the caller of get_signal: "idle", or "checked" the state
  setter,    \* the caller of set_apn: "none", or the APN about to be written
  suspends,  \* suspend requests made so far
  noise      \* unsolicited events and API calls so far

callers == <<query, setter, suspends, noise>>
vars == <<data, draining, query, setter, suspends, noise>>

(* The fields of data.  The last four only record history. *)
Data ==
  [state: States,
   events: Seq(Events),             \* event_pipe, oldest first
   timer: States \cup {"off"},      \* timeout_work: the state that armed it
   cb: [Pipes -> Owners],           \* whose callback is attached to a pipe
   ops: [Pipes -> Seq({"open", "close"})],   \* unfinished pipe requests
   open: SUBSET Pipes,
   chatPipe: Pipes \cup {"none"},
   script: Scripts \cup {"none"},   \* the chat script that is running
   cmux: Links,
   ppp: BOOLEAN,                    \* PPP is attached to DLCI1
   pppLive: BOOLEAN,                \* PPP has left its DEAD phase
   carrier: BOOLEAN, dormant: BOOLEAN,
   users: BOOLEAN,                  \* user pipes were told "connected"
   cmdPipe: Pipes \cup {"none"},
   failures: FailureCounts,
   sem: Tokens,                     \* suspended_sem
   pm: PmStates,                    \* the power manager's view and its call
   reset: BOOLEAN, wake: BOOLEAN,   \* the output lines, where they are wired
   baud: {"initial", "new"},
   originalBaud: {"none", "initial", "new"},
   apn: Apns \cup {"none"}, apnScript: Apns \cup {"none"},
   registered: SUBSET Domains,
   lost: BOOLEAN,                   \* an event met a full pipe
   recovered: BOOLEAN,              \* the driver itself queued a RESUME
   lateApn: BOOLEAN,                \* an APN was written after its window
   done: SUBSET Scripts]            \* scripts that succeeded in this state

----------------------------------------------------------------------------
(* Event pipe, timer and semaphore *)

\* k_pipe_write does not wait and its result is not looked at
Delegate(d, e) ==
  IF Len(d.events) < EventPipeSize
  THEN [d EXCEPT !.events = Append(@, e)]
  ELSE [d EXCEPT !.lost = TRUE]

\* k_work_schedule leaves a timer that is already pending alone
StartTimer(d) == IF d.timer = "off" THEN [d EXCEPT !.timer = d.state] ELSE d
StopTimer(d)  == [d EXCEPT !.timer = "off"]

\* a waiting suspend call gets the token, otherwise it is kept
SemGive(d) ==
  IF d.pm = "waiting" THEN [d EXCEPT !.pm = "suspended"]
                      ELSE [d EXCEPT !.sem = 1]

----------------------------------------------------------------------------
(* Pipes, chat, CMUX and PPP as the driver uses them *)

Attach(d, p, owner) == [d EXCEPT !.cb = [@ EXCEPT ![p] = owner]]
Release(d, p)       == Attach(d, p, "none")
Request(d, p, op)   == [d EXCEPT !.ops = [@ EXCEPT ![p] = Append(d.ops[p], op)]]
OpenAsync(d, p)     == Request(d, p, "open")
CloseAsync(d, p)    == Request(d, p, "close")
MutOpenBus(d)       == Attach(d, "UART", "driver")
OpenBus(d)          == OpenAsync(Attach(d, "UART", "driver"), "UART")
CloseBus(d)         == CloseAsync(Attach(d, "UART", "driver"), "UART")

ChatAttach(d, p) == [Attach(d, p, "chat") EXCEPT !.chatPipe = p]
ChatRelease(d) ==
  IF d.chatPipe = "none"
  THEN [d EXCEPT !.script = "none"]
  ELSE [Release(d, d.chatPipe) EXCEPT !.chatPipe = "none", !.script = "none"]

\* -EPERM without a pipe, -EBUSY while a script runs
RunScript(d, s) ==
  IF d.chatPipe = "none" \/ d.script # "none"
  THEN d
  ELSE [d EXCEPT !.script = s]

CloseDlcis(d) ==
  [d EXCEPT !.open = @ \ Dlcis,
            !.ops = [p \in Pipes |-> IF p \in Dlcis THEN <<>> ELSE @[p]]]
CmuxAttach(d) ==
  [Attach(d, "UART", "cmux") EXCEPT
     !.cmux = IF @ = "released" THEN "disconnected" ELSE @]
CmuxConnect(d) ==
  [d EXCEPT !.cmux = IF @ = "disconnected" THEN "connecting" ELSE @]
CmuxDisconnect(d) ==
  [d EXCEPT !.cmux = IF @ \in {"connecting", "connected"}
                     THEN "disconnecting" ELSE @]
CmuxRelease(d) ==
  IF d.cmux = "released"
  THEN d
  ELSE [CloseDlcis(Release(d, "UART")) EXCEPT !.cmux = "released"]

PppAttach(d) ==
  IF d.ppp THEN d ELSE [Attach(d, "DLCI1", "ppp") EXCEPT !.ppp = TRUE]
PppRelease(d) ==
  IF d.ppp THEN [Release(d, "DLCI1") EXCEPT !.ppp = FALSE] ELSE d
CarrierOff(d) == [d EXCEPT !.carrier = FALSE]

\* what arrives on a pipe reaches the chat
Reaches(d, p) ==
  /\ p \in d.open
  /\ d.cb[p] = "chat"
  /\ p \in Dlcis => d.cmux = "connected" /\ d.cb["UART"] = "cmux"
ChatUp(d) == d.chatPipe # "none" /\ Reaches(d, d.chatPipe)

----------------------------------------------------------------------------
(* Configuration-dependent helpers *)

IsRegistered(d) == d.registered # {}
MutNeedsApn(d)  == ~UseDefaultApn
NeedsApn(d)     == ~UseDefaultApn /\ d.apn = "none"
MutApnChangeAllowed(s) ==
  s \notin {"RUN_DIAL_SCRIPT", "AWAIT_REGISTERED", "CARRIER_ON", "DORMANT"}
ApnChangeAllowed(s) ==
  s \in {"IDLE", "RESET_PULSE", "AWAIT_RESET", "POWER_ON_PULSE",
         "AWAIT_POWER_ON", "SET_BAUDRATE", "RUN_INIT_SCRIPT", "CONNECT_CMUX",
         "OPEN_DLCI1", "OPEN_DLCI2", "WAIT_FOR_APN"}
BuildApnScript(d) ==
  [d EXCEPT !.apnScript = IF UseDefaultApn THEN "none" ELSE d.apn]
BaudrateUpdate(d, b) == IF UartConfigurable THEN [d EXCEPT !.baud = b] ELSE d

ScriptFailed(d)  == [d EXCEPT !.failures = @ + 1]
ScriptSuccess(d) == [d EXCEPT !.failures = 0]
MutRetryExceeded(d) == d.failures + 1 > MaxScriptFailures
RetryExceeded(d) == d.failures + 1 >= MaxScriptFailures

BootState == IF HasBaudScript THEN "SET_BAUDRATE" ELSE "RUN_INIT_SCRIPT"
ResumeState ==
  IF Autostarts THEN "AWAIT_POWER_ON"
  ELSE IF HasResetGpio /\ ResetOnResume THEN "RESET_PULSE" ELSE BootState

----------------------------------------------------------------------------
(* modem_cellular_on_..._state_enter and _leave *)

MutIdleEnter(d) ==      \* PPP is not released
  LET r == CloseAsync(CmuxRelease(ChatRelease(d)), "UART")
  IN  SemGive([r EXCEPT !.wake = FALSE, !.users = FALSE,
                        !.reset = (HasResetGpio /\ HoldResetOnSuspend) \/ @])
IdleEnter(d) ==
  LET r == CloseAsync(CmuxRelease(PppRelease(ChatRelease(d))), "UART")
  IN  SemGive([r EXCEPT !.wake = FALSE, !.users = FALSE,
                        !.reset = (HasResetGpio /\ HoldResetOnSuspend) \/ @])
MutIdleLeaveSem(d) ==   \* the semaphore is not taken back
  [d EXCEPT !.wake = TRUE,
            !.reset = @ /\ ~(HasResetGpio /\ HoldResetOnSuspend)]
IdleLeave(d) ==
  [d EXCEPT !.sem = 0, !.wake = TRUE,
            !.reset = @ /\ ~(HasResetGpio /\ HoldResetOnSuspend)]

ResetPulseEnter(d) ==
  LET r == IF d.originalBaud # "none" THEN BaudrateUpdate(d, d.originalBaud)
                                      ELSE d
  IN  StartTimer([r EXCEPT !.wake = FALSE, !.reset = TRUE])
MutResetPulseLeaveHeld(d) == StopTimer([d EXCEPT !.wake = TRUE])
MutResetPulseLeave(d) == [d EXCEPT !.reset = FALSE, !.wake = TRUE]
ResetPulseLeave(d) == StopTimer([d EXCEPT !.reset = FALSE, !.wake = TRUE])

AwaitPowerOnEnter(d) == OpenBus(StartTimer(d))

MutAwaitRegisteredEnter(d) ==    \* the chat is attached to the data pipe
  ChatAttach(StartTimer(PppAttach(d)), "DLCI1")
AwaitRegisteredEnter(d) ==
  LET attached == PppAttach(d)
      noted == IF IsRegistered(d) THEN Delegate(attached, "REGISTERED")
                                  ELSE attached
  IN  ChatAttach(StartTimer(noted), "DLCI2")

MutCarrierOnEnter(d) == [d EXCEPT !.carrier = TRUE, !.pppLive = TRUE]
CarrierOnEnter(d) ==
  StartTimer([d EXCEPT !.carrier = TRUE, !.pppLive = TRUE])

MutDormantLeave(d) ==   \* the carrier stays on
  [PppRelease(ChatRelease(d)) EXCEPT !.dormant = FALSE]
DormantLeave(d) ==
  [PppRelease(ChatRelease(CarrierOff(d))) EXCEPT !.dormant = FALSE]

MutInitPowerOffEnter(d) == CmuxDisconnect(d)
MutInitPowerOffEnterGive(d) == SemGive(StartTimer(CmuxDisconnect(d)))
InitPowerOffEnter(d) == StartTimer(CmuxDisconnect(d))
MutInitPowerOffLeave(d) == PppRelease(ChatRelease(d))
InitPowerOffLeave(d) ==
  PppRelease(ChatRelease([d EXCEPT !.users = FALSE]))

OnStateLeave(d) ==
  CASE d.state = "IDLE" -> IdleLeave(d)
    [] d.state = "RESET_PULSE" -> ResetPulseLeave(d)
    [] d.state \in {"AWAIT_RESET", "POWER_ON_PULSE", "AWAIT_REGISTERED",
                    "CARRIER_ON", "POWER_OFF_PULSE"} -> StopTimer(d)
    [] d.state = "OPEN_DLCI1" -> Release(d, "DLCI1")
    [] d.state = "OPEN_DLCI2" -> Release(d, "DLCI2")
    [] d.state \in {"RUN_DIAL_SCRIPT", "RUN_SHUTDOWN_SCRIPT"} -> ChatRelease(d)
    [] d.state = "DORMANT" -> DormantLeave(d)
    [] d.state = "INIT_POWER_OFF" -> InitPowerOffLeave(d)
    [] OTHER -> d

OnStateEnter(d) ==
  CASE d.state = "IDLE" -> IdleEnter(d)
    [] d.state = "RESET_PULSE" -> ResetPulseEnter(d)
    [] d.state \in {"AWAIT_RESET", "POWER_ON_PULSE", "CONNECT_CMUX",
                    "RUN_DIAL_SCRIPT", "AWAIT_POWER_OFF"} -> StartTimer(d)
    [] d.state = "AWAIT_POWER_ON" -> AwaitPowerOnEnter(d)
    [] d.state \in {"SET_BAUDRATE", "RUN_INIT_SCRIPT"} -> OpenBus(d)
    [] d.state = "OPEN_DLCI1" ->
         OpenAsync(Attach(d, "DLCI1", "driver"), "DLCI1")
    [] d.state = "OPEN_DLCI2" ->
         OpenAsync(Attach(d, "DLCI2", "driver"), "DLCI2")
    [] d.state = "RUN_APN_SCRIPT" -> BuildApnScript(StartTimer(d))
    [] d.state = "AWAIT_REGISTERED" -> AwaitRegisteredEnter(d)
    [] d.state = "CARRIER_ON" -> CarrierOnEnter(d)
    [] d.state = "DORMANT" -> [d EXCEPT !.dormant = TRUE]
    [] d.state = "INIT_POWER_OFF" -> InitPowerOffEnter(d)
    [] d.state = "RUN_SHUTDOWN_SCRIPT" ->
         RunScript(ChatAttach(d, d.cmdPipe), "shutdown")
    [] d.state = "POWER_OFF_PULSE" ->
         StartTimer([d EXCEPT !.cmdPipe = "none"])
    [] OTHER -> d      \* WAIT_FOR_APN

Become(d, s) == [OnStateLeave(d) EXCEPT !.state = s, !.done = {}]
EnterState(d, s) == OnStateEnter(Become(d, s))

MutBeginPowerOffPulse(d) == EnterState(CloseAsync(d, "UART"), "POWER_ON_PULSE")
BeginPowerOffPulse(d) ==
  EnterState(CloseAsync(d, "UART"),
             IF HasPowerGpio THEN "POWER_OFF_PULSE" ELSE "IDLE")

----------------------------------------------------------------------------
(* Reading the event pipe *)

BusKeepsUp == Len(data.ops["UART"]) <= MaxBacklog

Event == Head(data.events)
Taken == [data EXCEPT !.events = Tail(@)]      \* after k_pipe_read
In(s) ==
  /\ BusKeepsUp
  /\ data.state = s
  /\ data.events # <<>>
  /\ draining' = TRUE
  /\ UNCHANGED callers
On(e) == Event = e
Ignores(handled) == Event \notin handled /\ data' = Taken

(* A script failed: try again later or, after the third failure in a row, *)
(* leave the driver data as `exhausted'.                                 *)
CountReset == ScriptSuccess(Taken)
RetryOr(exhausted) ==
  data' = IF RetryExceeded(Taken) THEN exhausted
                                  ELSE StartTimer(ScriptFailed(Taken))
MutRequestSuspend == EnterState(CountReset, "RUN_DIAL_SCRIPT")
RequestSuspend == Delegate(CountReset, "SUSPEND")
MutRestart(d) == [EnterState(d, "IDLE") EXCEPT !.recovered = TRUE]
Restart(d) ==
  [Delegate(EnterState(d, "IDLE"), "RESUME") EXCEPT !.recovered = TRUE]
MutRedial(d) == EnterState(d, "DORMANT")
Redial(d) == EnterState(EnterState(d, "DORMANT"), "RUN_DIAL_SCRIPT")

----------------------------------------------------------------------------
(* The event handlers, one per state: powering on *)

MutIdleHandler ==       \* a modem that announces itself is booted
  /\ In("IDLE")
  /\ \/ Event \in {"RESUME", "MODEM_READY"}
        /\ data' = EnterState(Taken, ResumeState)
     \/ On("SUSPEND") /\ data' = SemGive(Taken)
     \/ Ignores({"RESUME", "MODEM_READY", "SUSPEND"})
IdleHandler ==
  /\ In("IDLE")
  /\ \/ On("RESUME") /\ data' = EnterState(Taken, ResumeState)
     \/ On("SUSPEND") /\ data' = SemGive(Taken)
     \/ Ignores({"RESUME", "SUSPEND"})

ResetPulseHandler ==
  /\ In("RESET_PULSE")
  /\ \/ On("TIMEOUT")
        /\ data' = EnterState(Taken, IF HasPowerGpio THEN "AWAIT_RESET"
                                                     ELSE "AWAIT_POWER_ON")
     \/ On("SUSPEND") /\ data' = EnterState(Taken, "IDLE")
     \/ Ignores({"TIMEOUT", "SUSPEND"})

AwaitResetHandler ==
  /\ In("AWAIT_RESET")
  /\ \/ On("TIMEOUT")
        /\ data' = EnterState(Taken, IF HasPowerGpio THEN "POWER_ON_PULSE"
                                                     ELSE "AWAIT_POWER_ON")
     \/ On("SUSPEND") /\ data' = EnterState(Taken, "IDLE")
     \/ Ignores({"TIMEOUT", "SUSPEND"})

PowerOnPulseHandler ==
  /\ In("POWER_ON_PULSE")
  /\ \/ On("TIMEOUT") /\ data' = EnterState(Taken, "AWAIT_POWER_ON")
     \/ On("SUSPEND") /\ data' = EnterState(Taken, "IDLE")
     \/ Ignores({"TIMEOUT", "SUSPEND"})

AwaitPowerOnHandler ==
  /\ In("AWAIT_POWER_ON")
  /\ \/ On("BUS_OPENED") /\ data' = ChatAttach(Taken, "UART")
     \/ On("MODEM_READY") /\ data' = EnterState(StopTimer(Taken), BootState)
     \/ On("TIMEOUT") /\ data' = EnterState(Taken, BootState)
     \/ On("SUSPEND") /\ data' = EnterState(Taken, "IDLE")
     \/ Ignores({"BUS_OPENED", "MODEM_READY", "TIMEOUT", "SUSPEND"})

SetBaudrateHandler ==
  /\ In("SET_BAUDRATE")
  /\ \/ On("BUS_OPENED") /\ data' = RunScript(ChatAttach(Taken, "UART"), "baud")
     \/ Event \in {"SCRIPT_FAILED", "SCRIPT_SUCCESS"}
        /\ data' = CloseBus(ChatRelease(StartTimer(Taken)))
     \/ On("BUS_CLOSED")
        /\ data' = [BaudrateUpdate(Taken, "new") EXCEPT
                      !.originalBaud = IF UartConfigurable THEN data.baud
                                                           ELSE "none"]
     \/ On("TIMEOUT") /\ data' = EnterState(Taken, "RUN_INIT_SCRIPT")
     \/ On("SUSPEND") /\ data' = EnterState(Taken, "IDLE")
     \/ Ignores({"BUS_OPENED", "SCRIPT_FAILED", "SCRIPT_SUCCESS",
                 "BUS_CLOSED", "TIMEOUT", "SUSPEND"})

RunInitScriptHandler ==
  /\ In("RUN_INIT_SCRIPT")
  /\ \/ On("BUS_OPENED") /\ data' = RunScript(ChatAttach(Taken, "UART"), "init")
     \/ On("SCRIPT_SUCCESS") /\ data' = CloseBus(ChatRelease(Taken))
     \/ On("BUS_CLOSED") /\ data' = EnterState(Taken, "CONNECT_CMUX")
     \/ On("SUSPEND") /\ data' = EnterState(Taken, "IDLE")
     \/ On("SCRIPT_FAILED")
        /\ data' = EnterState(Taken, IF HasResetGpio /\ ResetOnRecovery
                                     THEN "RESET_PULSE" ELSE "IDLE")
     \/ Ignores({"BUS_OPENED", "SCRIPT_SUCCESS", "BUS_CLOSED", "SUSPEND",
                 "SCRIPT_FAILED"})

----------------------------------------------------------------------------
(* The event handlers: multiplexer, dialling and being online *)

ConnectCmuxHandler ==
  /\ In("CONNECT_CMUX")
  /\ \/ On("TIMEOUT") /\ data' = OpenBus(Taken)
     \/ On("BUS_OPENED") /\ data' = CmuxConnect(CmuxAttach(Taken))
     \/ On("CMUX_CONNECTED")
        /\ data' = EnterState([Taken EXCEPT !.users = TRUE], "OPEN_DLCI1")
     \/ On("SUSPEND") /\ data' = EnterState(Taken, "INIT_POWER_OFF")
     \/ Ignores({"TIMEOUT", "BUS_OPENED", "CMUX_CONNECTED", "SUSPEND"})

MutOpenDlci1Handler ==
  /\ In("OPEN_DLCI1")
  /\ \/ On("DLCI1_OPENED") /\ data' = EnterState(Taken, "OPEN_DLCI2")
     \/ Ignores({"DLCI1_OPENED"})
OpenDlci1Handler ==
  /\ In("OPEN_DLCI1")
  /\ \/ On("DLCI1_OPENED") /\ data' = EnterState(Taken, "OPEN_DLCI2")
     \/ On("SUSPEND") /\ data' = EnterState(Taken, "INIT_POWER_OFF")
     \/ Ignores({"DLCI1_OPENED", "SUSPEND"})

OpenDlci2Handler ==
  /\ In("OPEN_DLCI2")
  /\ \/ On("DLCI2_OPENED")
        /\ data' = EnterState([Taken EXCEPT !.cmdPipe = "DLCI2"],
                              IF UseDefaultPdp THEN "RUN_DIAL_SCRIPT"
                              ELSE IF NeedsApn(data) THEN "WAIT_FOR_APN"
                              ELSE "RUN_APN_SCRIPT")
     \/ On("SUSPEND") /\ data' = EnterState(Taken, "INIT_POWER_OFF")
     \/ Ignores({"DLCI2_OPENED", "SUSPEND"})

WaitForApnHandler ==
  /\ In("WAIT_FOR_APN")
  /\ \/ On("APN_SET") /\ data' = EnterState(Taken, "RUN_APN_SCRIPT")
     \/ On("SUSPEND") /\ data' = EnterState(Taken, "INIT_POWER_OFF")
     \/ Ignores({"APN_SET", "SUSPEND"})

RunApnScriptHandler ==
  /\ In("RUN_APN_SCRIPT")
  /\ \/ On("TIMEOUT") /\ data' = RunScript(ChatAttach(Taken, "DLCI1"), "apn")
     \/ On("SCRIPT_SUCCESS") /\ data' = EnterState(CountReset, "RUN_DIAL_SCRIPT")
     \/ On("SCRIPT_FAILED") /\ RetryOr(RequestSuspend)
     \/ On("SUSPEND") /\ data' = EnterState(Taken, "INIT_POWER_OFF")
     \/ Ignores({"TIMEOUT", "SCRIPT_SUCCESS", "SCRIPT_FAILED", "SUSPEND"})

RunDialScriptHandler ==
  /\ In("RUN_DIAL_SCRIPT")
  /\ \/ On("TIMEOUT") /\ data' = RunScript(ChatAttach(Taken, "DLCI1"), "dial")
     \/ On("SCRIPT_FAILED") /\ RetryOr(RequestSuspend)
     \/ On("SCRIPT_SUCCESS") /\ TRUE \in PppAttachResults
        /\ data' = EnterState(CountReset, "AWAIT_REGISTERED")
     \/ On("SCRIPT_SUCCESS") /\ FALSE \in PppAttachResults
        /\ data' = Become(CountReset, "AWAIT_REGISTERED")     \* -EAGAIN
     \/ On("SUSPEND") /\ data' = EnterState(Taken, "INIT_POWER_OFF")
     \/ On("RING") /\ data' = OpenAsync(Taken, "UART")
     \/ On("REGISTERED")
        /\ data' = IF data.script # "none" THEN Taken
                   ELSE RunScript(StopTimer(Taken), "dial")
     \/ Ignores({"TIMEOUT", "SCRIPT_FAILED", "SCRIPT_SUCCESS", "SUSPEND",
                 "RING", "REGISTERED"})

AwaitRegisteredHandler ==
  /\ In("AWAIT_REGISTERED")
  /\ \/ On("SCRIPT_SUCCESS") /\ data' = StartTimer(CountReset)
     \/ On("SCRIPT_FAILED") /\ RetryOr(Restart(CountReset))
     \/ On("TIMEOUT") /\ data' = RunScript(Taken, "periodic")
     \/ On("REGISTERED") /\ data' = EnterState(Taken, "CARRIER_ON")
     \/ On("SUSPEND") /\ data' = EnterState(Taken, "INIT_POWER_OFF")
     \/ On("RING") /\ data' = OpenAsync(Taken, "UART")
     \/ Ignores({"SCRIPT_SUCCESS", "SCRIPT_FAILED", "TIMEOUT", "REGISTERED",
                 "SUSPEND", "RING"})

CarrierOnHandler ==
  /\ In("CARRIER_ON")
  /\ \/ On("SCRIPT_SUCCESS") /\ data' = StartTimer(CountReset)
     \/ On("SCRIPT_FAILED") /\ RetryOr(Restart(CarrierOff(CountReset)))
     \/ On("TIMEOUT") /\ data' = RunScript(Taken, "periodic")
     \/ On("DEREGISTERED") /\ data' = EnterState(Taken, "DORMANT")
     \/ On("PPP_DEAD") /\ TRUE \in PppAdminStates
        /\ data' = Redial(Taken)
     \/ On("PPP_DEAD") /\ FALSE \in PppAdminStates /\ data' = Taken
     \/ On("SUSPEND")
        /\ data' = EnterState(PppRelease(ChatRelease(CarrierOff(Taken))),
                              "INIT_POWER_OFF")
     \/ On("RING") /\ data' = OpenAsync(Taken, "UART")
     \/ Ignores({"SCRIPT_SUCCESS", "SCRIPT_FAILED", "TIMEOUT", "DEREGISTERED",
                 "PPP_DEAD", "SUSPEND", "RING"})

DormantHandler ==
  /\ In("DORMANT")
  /\ \/ On("RING")
        /\ data' = EnterState(OpenAsync(Taken, "UART"), "RUN_DIAL_SCRIPT")
     \/ On("PPP_DEAD") /\ data' = EnterState(Taken, "RUN_DIAL_SCRIPT")
     \/ Ignores({"RING", "PPP_DEAD"})

----------------------------------------------------------------------------
(* The event handlers: powering off *)

InitPowerOffHandler ==
  /\ In("INIT_POWER_OFF")
  /\ \/ On("CMUX_DISCONNECTED")
        /\ data' = StartTimer([StopTimer(Taken) EXCEPT !.cmdPipe = "UART"])
     \/ On("TIMEOUT")
        /\ data' = IF HasShutdownScript /\ data.cmdPipe # "none"
                   THEN EnterState(Taken, "RUN_SHUTDOWN_SCRIPT")
                   ELSE BeginPowerOffPulse(Taken)
     \/ Ignores({"CMUX_DISCONNECTED", "TIMEOUT"})

NoCmdPipe(d) == [d EXCEPT !.cmdPipe = "none"]
RunShutdownScriptHandler ==
  /\ In("RUN_SHUTDOWN_SCRIPT")
  /\ \/ On("SCRIPT_FAILED") /\ data' = BeginPowerOffPulse(NoCmdPipe(Taken))
     \/ On("SCRIPT_SUCCESS")
        /\ data' = EnterState(NoCmdPipe(CloseAsync(Taken, "UART")), "IDLE")
     \/ Ignores({"SCRIPT_FAILED", "SCRIPT_SUCCESS"})

PowerOffPulseHandler ==
  /\ In("POWER_OFF_PULSE")
  /\ \/ On("TIMEOUT") /\ data' = EnterState(Taken, "AWAIT_POWER_OFF")
     \/ Ignores({"TIMEOUT"})

AwaitPowerOffHandler ==
  /\ In("AWAIT_POWER_OFF")
  /\ \/ On("TIMEOUT") /\ data' = EnterState(Taken, "IDLE")
     \/ Ignores({"TIMEOUT"})

\* the loop of modem_cellular_event_dispatch_handler finds the pipe empty
DispatchEnd ==
  /\ BusKeepsUp
  /\ draining /\ data.events = <<>>
  /\ draining' = FALSE
  /\ UNCHANGED <<data, callers>>

Dispatch ==
  \/ IdleHandler \/ ResetPulseHandler \/ AwaitResetHandler
  \/ PowerOnPulseHandler \/ AwaitPowerOnHandler \/ SetBaudrateHandler
  \/ RunInitScriptHandler \/ ConnectCmuxHandler \/ OpenDlci1Handler
  \/ OpenDlci2Handler \/ WaitForApnHandler \/ RunApnScriptHandler
  \/ RunDialScriptHandler \/ AwaitRegisteredHandler \/ CarrierOnHandler
  \/ DormantHandler \/ InitPowerOffHandler \/ RunShutdownScriptHandler
  \/ PowerOffPulseHandler \/ AwaitPowerOffHandler
  \/ DispatchEnd

----------------------------------------------------------------------------
(* What delegates events: timer, pipes, chat, CMUX, PPP, ring line *)

\* it shares the system work queue with the dispatch loop: never inside it
TimeoutWork ==
  /\ BusKeepsUp
  /\ ~draining /\ data.timer # "off"
  /\ data' = Delegate(StopTimer(data), "TIMEOUT")
  /\ UNCHANGED <<draining, callers>>

Completed(p) == [data EXCEPT !.ops = [@ EXCEPT ![p] = Tail(data.ops[p])],
                             !.open = IF Head(data.ops[p]) = "open"
                                      THEN @ \cup {p} ELSE @ \ {p}]
MutPipeNotice(p) ==   \* every notification is taken for a closing
  CASE p = "DLCI1" -> "DLCI1_OPENED"
    [] p = "DLCI2" -> "DLCI2_OPENED"
    [] OTHER -> "BUS_CLOSED"
PipeNotice(p) ==      \* the event a driver callback makes of a completion
  CASE p = "DLCI1" -> "DLCI1_OPENED"
    [] p = "DLCI2" -> "DLCI2_OPENED"
    [] OTHER -> IF Head(data.ops[p]) = "open" THEN "BUS_OPENED" ELSE "BUS_CLOSED"
PipeEvent(p) ==
  /\ data.ops[p] # <<>>
  /\ p \in Dlcis => data.cmux = "connected" /\ BusKeepsUp
  /\ data' = IF data.cb[p] = "driver" THEN Delegate(Completed(p), PipeNotice(p))
                                      ELSE Completed(p)
  /\ UNCHANGED <<draining, callers>>

\* sim7600_cellular_chat_callback_handler; a script that gets no answer fails
ChatCallback(success) ==
  /\ BusKeepsUp
  /\ data.script # "none"
  /\ success => ChatUp(data)
  /\ LET d == [data EXCEPT !.script = "none",
                          !.done = IF success THEN @ \cup {data.script} ELSE @]
     IN  data' = Delegate(d, IF success THEN "SCRIPT_SUCCESS" ELSE "SCRIPT_FAILED")
  /\ UNCHANGED <<draining, callers>>

CmuxConnected ==
  /\ BusKeepsUp
  /\ data.cmux = "connecting" /\ "UART" \in data.open /\ data.cb["UART"] = "cmux"
  /\ data' = Delegate([data EXCEPT !.cmux = "connected"], "CMUX_CONNECTED")
  /\ UNCHANGED <<draining, callers>>
CmuxDisconnected ==
  /\ BusKeepsUp
  /\ data.cmux = "disconnecting"
  /\ data' = Delegate([CloseDlcis(data) EXCEPT !.cmux = "disconnected"],
                      "CMUX_DISCONNECTED")
  /\ UNCHANGED <<draining, callers>>

PppPhaseDead ==
  /\ BusKeepsUp
  /\ data.pppLive
  /\ data' = Delegate([data EXCEPT !.pppLive = FALSE], "PPP_DEAD")
  /\ UNCHANGED <<draining, callers>>

Noise == noise < MaxNoise /\ noise' = noise + 1
Unsolicited ==
  /\ BusKeepsUp /\ ChatUp(data) /\ Noise
  /\ UNCHANGED <<draining, query, setter, suspends>>

OnModemReady == Unsolicited /\ data' = Delegate(data, "MODEM_READY")

OnCxreg(domain, registered) ==
  /\ Unsolicited
  /\ LET d == [data EXCEPT !.registered = IF registered THEN @ \cup {domain}
                                                        ELSE @ \ {domain}]
     IN  data' = Delegate(d, IF IsRegistered(d) THEN "REGISTERED"
                                                ELSE "DEREGISTERED")

\* argv[0] is the prefix "+CGEV: " itself or the handler returns; the words
\* it then looks for in argv[0] are never there, so nothing is delegated
OnCgev(connected) == Unsolicited /\ UNCHANGED data

RingGpio ==
  /\ BusKeepsUp
  /\ HasRing /\ Noise /\ data' = Delegate(data, "RING")
  /\ UNCHANGED <<draining, query, setter, suspends>>

----------------------------------------------------------------------------
(* Calls from application threads *)

ThreadRuns ==
  /\ BusKeepsUp
  /\ PreemptsDispatch \/ (~draining /\ data.events = <<>>)

PmResume ==
  /\ ThreadRuns
  /\ data.pm = "suspended"
  /\ data' = Delegate([data EXCEPT !.pm = "active"], "RESUME")
  /\ UNCHANGED <<draining, callers>>
PmSuspend ==
  /\ ThreadRuns
  /\ data.pm = "active" /\ suspends < MaxSuspends
  /\ suspends' = suspends + 1
  /\ data' = Delegate([data EXCEPT !.pm = "requesting"], "SUSPEND")
  /\ UNCHANGED <<draining, query, setter, noise>>
PmTakeSem ==
  /\ ThreadRuns
  /\ data.pm = "requesting"
  /\ data' = IF data.sem = 1 THEN [data EXCEPT !.sem = 0, !.pm = "suspended"]
                             ELSE [data EXCEPT !.pm = "waiting"]
  /\ UNCHANGED <<draining, callers>>
PmTimeout ==      \* thirty seconds without the token: the device stays active
  /\ ThreadRuns
  /\ data.pm = "waiting"
  /\ data' = [data EXCEPT !.pm = "active"]
  /\ UNCHANGED <<draining, callers>>

GetSignalCheck ==
  /\ ThreadRuns
  /\ query = "idle" /\ data.state \in {"AWAIT_REGISTERED", "CARRIER_ON"} /\ Noise
  /\ query' = "checked"
  /\ UNCHANGED <<data, draining, setter, suspends>>
GetSignalRun ==
  /\ ThreadRuns
  /\ query = "checked"
  /\ query' = "idle"
  /\ data' = RunScript(data, "query")
  /\ UNCHANGED <<draining, setter, suspends, noise>>

SetApnCheck(apn) ==
  /\ ThreadRuns
  /\ setter = "none" /\ apn # data.apn /\ ApnChangeAllowed(data.state) /\ Noise
  /\ setter' = apn
  /\ UNCHANGED <<data, draining, query, suspends>>
SetApnWrite ==
  /\ ThreadRuns
  /\ setter # "none"
  /\ setter' = "none"
  /\ data' = Delegate([data EXCEPT !.apn = setter,
                                  !.lateApn = @ \/ ~ApnChangeAllowed(data.state)],
                      "APN_SET")
  /\ UNCHANGED <<draining, query, suspends, noise>>

----------------------------------------------------------------------------
Init ==
  /\ data =
       [state |-> "IDLE", events |-> <<>>, timer |-> "off",
        cb |-> [p \in Pipes |-> "none"], ops |-> [p \in Pipes |-> <<>>],
        open |-> {}, chatPipe |-> "none", script |-> "none",
        cmux |-> "released", ppp |-> FALSE, pppLive |-> FALSE,
        carrier |-> FALSE, dormant |-> FALSE, users |-> FALSE,
        cmdPipe |-> "none", failures |-> 0, sem |-> 0, pm |-> "suspended",
        reset |-> HasResetGpio /\ HoldResetOnSuspend, wake |-> FALSE,
        baud |-> "initial", originalBaud |-> "none",
        apn |-> InitialApn, apnScript |-> "none", registered |-> {},
        lost |-> FALSE, recovered |-> FALSE, lateApn |-> FALSE,
        done |-> {}]
  /\ draining = FALSE
  /\ query = "idle" /\ setter = "none" /\ suspends = 0 /\ noise = 0

Environment ==
  \/ TimeoutWork \/ CmuxConnected \/ CmuxDisconnected \/ PppPhaseDead
  \/ \E p \in Pipes : PipeEvent(p)
  \/ \E success \in BOOLEAN : ChatCallback(success)
  \/ OnModemReady \/ RingGpio
  \/ \E domain \in Domains, registered \in BOOLEAN : OnCxreg(domain, registered)
  \/ \E connected \in BOOLEAN : OnCgev(connected)

Callers ==
  \/ PmResume \/ PmSuspend \/ PmTakeSem \/ PmTimeout
  \/ GetSignalCheck \/ GetSignalRun
  \/ (\E apn \in Apns : SetApnCheck(apn)) \/ SetApnWrite

Next == Dispatch \/ Environment \/ Callers

Spec == Init /\ [][Next]_vars

(* The work queue serves what is queued and armed, every script ends, and   *)
(* the UART completes its requests.                                         *)
Fairness ==
  /\ WF_vars(Dispatch)
  /\ WF_vars(TimeoutWork)
  /\ WF_vars(\E success \in BOOLEAN : ChatCallback(success))
  /\ WF_vars(PipeEvent("UART"))

FairSpec == Spec /\ Fairness
=============================================================================
