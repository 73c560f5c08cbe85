----------------------------- MODULE CellularApp -----------------------------
(***************************************************************************)
(* The application of P3 (src/main.c) on top of the modem driver: it       *)
(* registers for events, powers the modem and resumes it, then shows a     *)
(* snapshot (signal, registration, six identity fields) whenever an event  *)
(* flag is posted or ten seconds have passed.  The driver is ModemPower,   *)
(* which ModemCellular implements, together with the data it keeps for     *)
(* display: the identity fields the init script fetches line by line and   *)
(* the LTE registration status.                                            *)
(*                                                                         *)
(* The work queue runs the answer handlers, main is a thread below it:     *)
(* anything may arrive between two lines of a snapshot.                    *)
(***************************************************************************)
EXTENDS ModemPower, Sequences

CONSTANTS
  Statuses,      \* registration status values, "not registered" being the first
  MaxReports     \* bound: registration reports the modem sends

ASSUME ReportAssumption == "not registered" \in Statuses /\ MaxReports \in Nat

(* What log_modem_snapshot reads, in its order. *)
InfoFields ==
  <<"imei", "model_id", "manufacturer", "imsi", "iccid", "fw_version">>
Fields == {InfoFields[i] : i \in DOMAIN InfoFields}

(* What each line of the SIM7600 init script waits for: OK, an identity     *)
(* field, OK to a request for registration reports, or nothing.             *)
MutInitScript ==
  <<"OK", "OK", "OK", "OK", "OK", "OK", "imei", "OK", "model_id", "OK",
    "manufacturer", "OK", "fw_version", "OK", "reports", "reports", "reports",
    "imsi", "OK", "iccid", "OK", "CMUX">>
MutInitScriptShort ==
  <<"OK", "OK", "OK", "OK", "OK", "OK", "imei", "OK", "model_id", "OK",
    "manufacturer", "OK", "fw_version", "OK", "imsi", "OK", "reports",
    "reports", "reports", "CMUX">>
InitScript ==
  <<"OK", "OK", "OK", "OK", "OK", "OK", "imei", "OK", "model_id", "OK",
    "manufacturer", "OK", "fw_version", "OK", "imsi", "OK", "iccid", "OK",
    "reports", "reports", "reports", "CMUX">>
AnyLine == {"imei", "model_id", "manufacturer", "imsi"}   \* an empty match

(* The steps of main up to the first snapshot. *)
MutStartup == <<"check", "assert power", "resume", "set callback", "settle">>
Startup == <<"check", "set callback", "assert power", "resume", "settle">>
Snapshot == <<"signal", "await signal", "status">> \o InfoFields

VARIABLES
  app,          \* what main does next
  listening,    \* modem_event_cb is installed in the driver
  powered,      \* the power GPIO is asserted
  flags,        \* app_events
  line,         \* the line of the init script that is being answered
  reports,      \* the modem has been asked for registration reports
  identity,     \* what the driver keeps of each field
  status,       \* registration_status_lte
  shown,        \* what the last snapshots showed
  sent,         \* registration reports so far
  again         \* history: an init script began with reports already on

appVars ==
  <<power, app, listening, powered, flags, line, reports, identity, status,
    shown, sent, again>>

Kept == <<listening, powered, reports, again>>
Stored == [identity |-> identity, status |-> status]

AppInit ==
  /\ PowerInit
  /\ app = "check" /\ listening = FALSE /\ powered = FALSE /\ flags = {}
  /\ line = 1 /\ reports = FALSE /\ sent = 0 /\ again = FALSE
  /\ identity = [f \in Fields |-> "none"] /\ status = "not registered"
  /\ shown = [identity |-> [f \in Fields |-> "none"], status |-> "none"]

----------------------------------------------------------------------------
(* The driver: init script, answers, events *)

\* modem_cellular_emit_event, modem_event_cb: a flag, if a callback is there
MutEmit(flag) ==   \* a flag nobody waits for
  flags' = IF listening THEN flags \cup {flag, "comms"} ELSE flags
Emit(flag) == flags' = IF listening THEN flags \cup {flag} ELSE flags

ScriptDone == line > Len(InitScript)

StoreInfo(field, value) ==
  /\ identity' = [identity EXCEPT ![field] = value]
  /\ Emit("info")

\* the modem answers the line that was sent
ScriptLine ==
  /\ phase = "booting" /\ ~ScriptDone
  /\ line' = line + 1
  /\ reports' = (reports \/ InitScript[line] = "reports")
  /\ IF InitScript[line] \in Fields
     THEN StoreInfo(InitScript[line], "own")
     ELSE UNCHANGED <<identity, flags>>
  /\ UNCHANGED <<power, app, listening, powered, status, shown, sent, again>>

\* a script in progress is asked before the unsolicited matches: a line it
\* takes whatever it says is the answer
TakenForAnswer ==
  phase = "booting" /\ ~ScriptDone /\ InitScript[line] \in AnyLine

\* +CREG, +CGREG or +CEREG; status is what the last of these said
Report(domain, s) ==
  /\ phase # "off" /\ reports /\ sent < MaxReports
  /\ sent' = sent + 1
  /\ IF TakenForAnswer
     THEN /\ StoreInfo(InitScript[line], "report")
          /\ line' = line + 1
          /\ UNCHANGED status
     ELSE /\ status' = IF domain = "lte" THEN s ELSE status
          /\ Emit("reg")
          /\ UNCHANGED <<identity, line>>
  /\ UNCHANGED <<power, app, shown, Kept>>

\* a session starts, moves on or ends; the script starts anew with it
DriverStep ==
  /\ \/ Start /\ line' = 1 /\ again' = (again \/ reports)
     \/ /\ \E next \in Phases :
             /\ Advance(next)
             /\ phase = "booting" => ScriptDone
        /\ UNCHANGED <<line, again>>
     \/ /\ Stop \/ Recover \/ GiveAgain \/ Forget
        /\ UNCHANGED <<line, again>>
  /\ UNCHANGED <<app, listening, powered, flags, reports, identity, status,
                 shown, sent>>

----------------------------------------------------------------------------
(* main: bring-up *)

Steps == Startup \o Snapshot \o <<"wait">>
After(step) == Steps[1 + CHOOSE i \in DOMAIN Steps : Steps[i] = step]
At(step) == app = step /\ app' = After(step)
Untouched == UNCHANGED <<flags, line, reports, identity, status, sent, again>>

\* modem and GPIO must be ready, configuring the GPIO must succeed
GiveUpStart ==
  /\ app \in {"check", "assert power"}
  /\ app' = "stopped"
  /\ UNCHANGED <<power, listening, powered, shown>> /\ Untouched

CheckDevices ==
  /\ At("check")
  /\ UNCHANGED <<power, listening, powered, shown>> /\ Untouched

SetCallback ==
  /\ At("set callback")
  /\ listening' = TRUE
  /\ UNCHANGED <<power, powered, shown>> /\ Untouched

AssertPower ==
  /\ At("assert power")
  /\ powered' = TRUE
  /\ UNCHANGED <<power, listening, shown>> /\ Untouched

\* after thirty seconds; -EALREADY is no failure
RunResume ==
  /\ At("resume")
  /\ \/ Resume
     \/ pm # "suspended" /\ UNCHANGED power
  /\ UNCHANGED <<listening, powered, shown>> /\ Untouched

\* wait_for_console_ready, then eight seconds
Settle ==
  /\ At("settle")
  /\ UNCHANGED <<power, listening, powered, shown>> /\ Untouched

----------------------------------------------------------------------------
(* main: the snapshot and the wait *)

\* get_signal looks at the state, then waits for its chat script
GetSignal ==
  /\ app = "signal"
  /\ app' \in IF phase \in {"attached", "online"}
              THEN {"await signal", "status"}    \* or the chat is busy
              ELSE {"status"}
  /\ UNCHANGED <<power, listening, powered, shown>> /\ Untouched

\* an answer, an error or no answer: the script ends
SignalScriptEnds ==
  /\ At("await signal")
  /\ UNCHANGED <<power, listening, powered, shown>> /\ Untouched

\* get_registration_status asks for the LTE one, in any state of the modem
ShowStatus ==
  /\ At("status")
  /\ shown' = [shown EXCEPT !.status = status]
  /\ UNCHANGED <<power, listening, powered>> /\ Untouched

ShowInfo(field) ==
  /\ At(field)
  /\ shown' = [shown EXCEPT !.identity = [@ EXCEPT ![field] = identity[field]]]
  /\ UNCHANGED <<power, listening, powered>> /\ Untouched

\* k_event_wait with reset clears what was posted before it waits
EnterWait ==
  /\ app = "wait"
  /\ app' = "waiting"
  /\ flags' = {}
  /\ UNCHANGED <<power, line, identity, status, shown, sent, Kept>>

MutWaitEnds ==    \* no poll interval
  /\ app = "waiting" /\ flags # {}
  /\ app' = "signal"
  /\ UNCHANGED <<power, listening, powered, shown>> /\ Untouched
WaitEnds ==       \* by a flag, or after the poll interval without one
  /\ app = "waiting"
  /\ app' = "signal"
  /\ UNCHANGED <<power, listening, powered, shown>> /\ Untouched

Main ==
  \/ CheckDevices \/ SetCallback \/ AssertPower \/ RunResume \/ Settle
  \/ GetSignal \/ SignalScriptEnds \/ ShowStatus
  \/ \E field \in Fields : ShowInfo(field)
  \/ EnterWait \/ WaitEnds

AppNext ==
  \/ Main \/ GiveUpStart \/ DriverStep \/ ScriptLine
  \/ \E domain \in {"gsm", "gprs", "lte"}, s \in Statuses : Report(domain, s)

(* main is a thread that is never blocked for good: scripts end and waits   *)
(* have timeouts.                                                           *)
AppSpec == AppInit /\ [][AppNext]_appVars /\ WF_appVars(Main)

----------------------------------------------------------------------------
(* The variables keep their types. *)
AppTypeOK ==
  /\ phase \in Phases /\ token \in 0 .. 1 /\ pending \in BOOLEAN
  /\ pm \in {"suspended", "active", "requesting", "waiting"}
  /\ app \in {Steps[i] : i \in DOMAIN Steps} \cup {"waiting", "stopped"}
  /\ {listening, powered, reports, again} \subseteq BOOLEAN
  /\ flags \subseteq {"info", "reg"}
  /\ line \in 1 .. (Len(InitScript) + 1)
  /\ identity \in [Fields -> {"none", "own", "report"}]
  /\ status \in Statuses /\ sent \in 0 .. MaxReports
  /\ shown.identity \in [Fields -> {"none", "own", "report"}]
  /\ shown.status \in Statuses \cup {"none"}

(* No modem session runs before the callback is installed and the power is  *)
(* asserted: no event of the first init script is missed.                   *)
BroughtUpInOrder == phase # "off" => listening /\ powered

(* A modem past its init script has given all six identity fields: whatever *)
(* session it was, dialling never starts with one of them unknown.          *)
IdentityBeforeDial ==
  phase \notin {"off", "booting"} =>
    \A f \in Fields : identity[f] # "none"

(* The init script asks for identity before it asks for registration        *)
(* reports, so that no report is taken for an identity; this holds as long  *)
(* as no session starts with a modem that already sends them.               *)
IdentityIsTheModems ==
  ~again => \A f \in Fields : identity[f] # "report"

(* What is stored is shown in the end, though a flag posted while a         *)
(* snapshot is being shown is cleared before it is waited for.              *)
ChangesAreShown == <>[](app = "stopped" \/ shown = Stored)
=============================================================================
