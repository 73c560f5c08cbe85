# Formal models of the Zephyr RTOS experiments

TLA+ models of the three Zephyr applications in this repository, the TLC
configurations that check them on small instances, and proofs that TLAPS checks
for every value of the constants. Paths below are relative to `src/`; `sim7600.c`
stands for `P3_Zephyr_SIM7600_PPP/drivers/sim7600/modem_cellular_sim7600.c`.

Run a configuration with `tlc -config MCModem_board.cfg MCModem`, the proofs of a
module with, say, `tlapm ModemProofs.tla`. `PROJECT.json` lists the components, runs,
mutants, findings, hazards and theorems, and gives for each definition the source
lines it stands for.

## 1. Inventory

| Component | State | Operations | Interacts through |
|---|---|---|---|
| SIM7600 driver (`sim7600.c`) | state, event pipe, timer, chat, CMUX, PPP, pipes, interface flags, suspend semaphore, APN, registration, output lines | 20 state handlers with enter and leave functions; delegate/dispatch; callbacks | event pipe; callbacks of chat, CMUX, pipes, PPP and GPIO; API calls from application threads |
| Identity, registration status and user callback (`sim7600.c` 205-231, 369-560, 1946-2121) | six identity fields, registration, user callback and mask | answer and report handlers, emit_event, get_modem_info, get_registration_status, set_callback | chat matches; the application's calls and its callback |
| Chat scripts and instances of other modems (`sim7600.c` 2431-3333) | constants | none | selected by device tree |
| P3 main (`P3.../src/main.c`) | one event-flag group, progress of the bring-up | install callback, power on, resume, snapshot loop | cellular API, power manager, event callback |
| Register map (`P2.../modbus/src/modbus_server.c`) | up to eight handlers | register; find; read and write callbacks | called by main at boot, by the Modbus server per register |
| Relay controller (`P2.../relay_controller.c`) | relay and LED pins, remembered state | init, set, register callbacks | register map, GPIO |
| System registers (`P2.../src/system_registers.c`) | alarm, requested unit ID | register callbacks, set alarm | register map, main |
| P2 main (`P2.../src/main.c`) | progress of the bring-up, the meter's struct kept from cycle to cycle | five steps with early exit, polling and printing | all of P2 |
| Modbus client (`P2.../modbus_client.c`) | interface number | init, two read requests | Modbus subsystem, drivers |
| Meter and sensors (`P2.../devices/meters`, `devices/sensors`) | none of their own: they fill the caller's struct | read the registers one after the other, validate, write JSON | Modbus client, main |
| P1 (`P1_Getting Started/src/main.c`) | none | print and sleep | none |

What is hard, and which properties answer it:

- **Driver.** Every event handler composes enter and leave functions that attach,
  release, open and close four shared objects (UART pipe, chat, CMUX, PPP), on
  paths that start in any state: suspend, script failure, recovery, deregistration,
  redial. Events arrive through a bounded pipe that drops silently, from a timer
  whose `k_work_schedule` does nothing while pending, and from scripts whose
  results carry no identity. Correct means: nothing stays attached in IDLE, the
  interface flags and output lines follow the state, the timer belongs to the
  state, no waiting state is without a wake-up, a suspended device stays
  suspended, an APN that was set wakes who waits for it and is the one in use, a
  power-off ends; where the code falls short of these, "Exceptions" in section 3 says how.
- **Abstract power contract.** A suspend call is answered by a token that may be
  left over from an earlier power-off, after a call that gave up. Correct means: it
  is answered only at a moment the modem is off.
- **P3 main and identity.** Flags are cleared before they are waited for; identity
  answers are taken by a pattern that any line fits; main runs below the work queue.
  Correct means: nothing is missed at the start, nothing stored stays unshown, no
  report is stored as an identity.
- **Register map.** 16-bit ends, wrap-around, adjacency, order of registration.
- **Relay.** Three assignments, each after a call that can fail.
- **P2 main.** No request may meet a map that is not complete.
- **Meter and sensors.** Several requests per reading, each of which may fail, into a
  struct that outlives the call; refusals that no driver notices; answers that name no
  request. Correct means: what is printed or reported valid was stored by one call and
  is in range.

The full hazard list, at its lines, is in `PROJECT.json`.

## 2. Modules

| Module | What it is |
|---|---|
| `ModemCellular` | the driver: one action per event handler, per callback and per step of an API call |
| `ModemProperties` | what the driver promises, and four statements of its comments that it does not keep |
| `ModemPower` | abstract specification: phases of a session, the power manager's call, the suspend token |
| `ModemRefinesPower` | the refinement mapping, `ModemCellular` implements `ModemPower` |
| `MCModem` | instance for TLC; `MCModem_*.cfg` choose the board and the bounds |
| `ModemProofs`, `ModemQueueProofs`, `ModemOrderProofs` | the proofs about the driver: its helpers and what the state says; the wake-ups in the event pipe; the order of events. Each EXTENDS the one before |
| `ModemRefinementProofs` | the proof of the refinement; EXTENDS `ModemProofs` and `ModemRefinesPower` |
| `CellularApp` | EXTENDS `ModemPower`: P3's main, with the driver's display data and init script |
| `RegisterMap` | the map, parameterised by word size, slots and handlers, with its properties |
| `BreakerRegisters` | EXTENDS `RegisterMap`: P2 main's bring-up, relay controller, system registers and Modbus requests |
| `MeterPoll` | Modbus client, PD195Z, SHT20 and level sensor, and main's polling of the meter |
| `MCRegisterMap`, `MCBreaker`, `MCMeter`, `MCApp` | instances for TLC |
| `RegisterMapProofs`, `BreakerProofs`, `MeterProofs`, `AppProofs` | the proofs about P2 and P3's application |

### How `ModemCellular` corresponds to the code

`data` is `struct modem_cellular_data` together with what it drives. An operator
`F(d)` is a C function that takes `data` and leaves `F(d)` behind, so a handler
that switches state in the middle is written as the composition it is:
`EnterState(d, s)` is `OnStateEnter` after the state change after `OnStateLeave`,
as in `modem_cellular_enter_state`.

- `Delegate` appends to the event pipe, or drops the event when it is full; the
  history field `lost` then becomes true.
- A handler `XHandler` is enabled when the state is X, the event queue is not empty
  and the bus keeps up (below); one disjunct per case label, `Ignores` for the default.
  Handlers run on the cooperative system work queue, hence as one step.
- `draining` says that the dispatch work item is in its reading loop. The timer's
  work item shares the queue, so `TimeoutWork` is never enabled inside the loop.
- `timer` holds the state that armed the timer; `StartTimer` leaves a pending one
  alone, as `k_work_schedule` does.
- The Zephyr objects are external and modelled as the driver uses them: `cb` is
  whose callback is attached to a pipe, `ops` the unfinished requests of a pipe,
  `cmux` the link, `chatPipe` and `script` the chat. `RunScript` returns
  unchanged without a pipe (-EPERM) or while a script runs (-EBUSY).
- `ChatCallback(TRUE)` needs a pipe that reaches the modem, `ChatCallback(FALSE)`
  does not: a script without an answer times out and fails.
- `PmResume`, `PmSuspend`, `PmTakeSem` and `PmTimeout` are the power manager and
  its thread in `sim7600_cellular_pm_action`: queueing SUSPEND and taking the
  semaphore are two steps, the 30 second limit a third.
- `get_signal` and `set_apn` are a check and an act (`GetSignalCheck`,
  `GetSignalRun`, `SetApnCheck`, `SetApnWrite`), with the state machine free to
  move in between when threads preempt the dispatch loop.
- `OnCxreg` and `OnCgev` are the unsolicited matches. What the second one compares
  is `argv[0]`, the matched prefix, so that it never queues an event.
- Four fields record history for the properties only: `lost` (the pipe dropped an
  event), `recovered` (the driver queued a RESUME for itself), `lateApn` (an APN was
  written after the state check it had passed became stale) and `done` (the scripts
  that succeeded in this state).

Data are abstracted to what the code decides on: registration is the set of
domains reporting it, an APN is a name, a baudrate is initial or new, a script an
object that succeeds or fails. Strings, AT syntax, logging and delays are left out.

### How `ModemPower` corresponds to the driver

`ModemPower` is what someone who powers the modem sees of it: `phase` is off,
booting, linking, attached, online, dormant or stopping; `PhaseOf` in
`ModemRefinesPower` maps each of the driver's states to one of them. `pm` and `token`
are the driver's own; `pending` is whether a RESUME event is in the pipe. `Start`,
`Advance`, `Stop`, `Recover`, `GiveAgain` and `Forget` are what a driver may do,
`Resume`, `Suspend`, `Take` and `GiveUp` the steps of the power manager's call.
All the rest of the driver's work is a stutter.

### How `CellularApp` corresponds to P3

main is a thread below the work queue, and each of its calls is one step (`app` is
the next one), so that reports and answers arrive between any two of them. The
driver beneath is `ModemPower`, extended by the data it keeps for display. `line`
runs through the SIM7600 init script, of which the model keeps what each line waits
for. `Report` is a registration report: while the script waits for a line with an
empty match, the report is taken for the answer (`TakenForAnswer`), as the Zephyr
chat looks at the script before the unsolicited matches. `EnterWait` and `WaitEnds`
are `k_event_wait` with reset: posted flags are cleared, then awaited for at most ten
seconds. A modem may keep sending reports from one session to the next (`reports` is
never reset: after a recovery without a power cut it does); `again` records that a
script began so, as a premise of one property.

### How `RegisterMap` and `BreakerRegisters` correspond to the code

`handlers` is the array with its count; `End(h)` is the `uint16_t` sum, reduced
modulo `Word`; `Find` is the first match; `RegisterHandler` has the three refusals
in the code's order. `BreakerRegisters` adds main's progress (`step`), the pins
and the module variables, and one action per callback. main.c has two calls
commented out: the start of the server (47-51) and the sensor poll that sets the
alarm (58-72). The model has the behaviours with and without them, so that the
modules behind the calls are checked; a main that never starts the server is among
its behaviours. Multi-register requests are sequences of single-register steps,
as the Zephyr server calls the callbacks once per register.

### How `MeterPoll` corresponds to the code

`call` is the driver call that is running, `got` what it has stored. There are four ways
for a request to end. It is `Answered`. It is `Failed`: every driver passes a negative
result up at once. It is `Refused`: the Modbus subsystem returns the device's exception
code, which is positive, the drivers test for `ret < 0` only, and so the local variable
that nothing was read into is stored and the call goes on (`pd195z_e31.c`:29, `sht20.c`:26
and 36, `level_sensor.c`:20). What that variable holds is undefined; the model stores any
kind of value the driver can hold there, marked "unread". Or, once an earlier request
timed out, that request's late answer or refusal is taken for this one's (`TakeLate`, if
the function code and length fit, which they do between registers of one device).
`Store` keeps the difference between `pd195z_e31_read_data`, which fills the caller's
struct register by register, and `sht20_read_data`, which fills it at the end. A
reading is its register, the call that asked for it, the call that stored it and the kind
of its value (plain, negative, large, not finite), which is all that validation looks at.
The kind is what the device measured; `Held` is what an unsigned variable makes of a
temperature below zero. main calls only the PD195Z's read; the other calls of the
drivers' interfaces are in the model because they are the modules' operations. `mixed`
holds the calls that took a late answer. A buffer too short for the text gets what
`snprintf` can write, and the call does not tell (`Texts`).

`OfCall` is what the three properties say of a value: this call stored it, and, unless
the call is in `mixed`, it was asked for in this call for this register or is unread.
That is as much as the code gives. That every value printed was read would be false of
it, and nothing in the repository claims so.

## 3. Runs

Sizes are distinct states; each run takes from seconds to about two minutes.

| Run | Instance | Question |
|---|---|---|
| `MCModem_board` (299 k) | the overlay's board, one suspend, two unsolicited events, four-event pipe, with fairness | every path leaves chat, CMUX, PPP, interface and user pipes consistent; no waiting state without wake-up, but for an overtaken dial script; a dormant modem is redialled; CMUX follows a successful init script; a recovery restarts; a power-off is final; power-off, init script and suspend come to an end |
| `MCModem_reset` (102 k) | reset held and pulsed, ring line, baud script, PPP attach may fail, interface may be down | lines, token and timer follow the state; an APN script precedes dialling |
| `MCModem_threads` (5.4 M) | API threads preempt the loop, bus requests finish late, two suspends, two-event pipe, no APN compiled in and two to set | a device reported suspended stays so; the parked modem is woken; the script carries the current APN, unless it was set while the script was built; the driver implements `ModemPower`; a suspend is answered only when the modem is off |
| `MCRegisterMap` (15 k) | word of five values, all ranges, three slots | one owner per address, full service below the last address, no refusal without overlap |
| `MCBreaker_serve` (755) | 16-bit words, both handlers, requests at and past the edges | read-back, report and LED, complete map |
| `MCMeter` (710 k) | two driver calls of any kind, requests failed, refused or answered late, at most one value per call out of the ordinary | what is printed is of one call, pairs are of one call, valid means usable |
| `MCApp` (2.8 M) | two reports, two statuses, any number of sessions, main always proceeds | order of the bring-up, identity known and own, changes shown |

Runs that find what a comment or README says and the code does not do (each has an
entry under `findings`):

| Run | Statement | What happens |
|---|---|---|
| `MCModem_baud` | `sim7600.c`:833 "Revert to original baudrate if we have changed it" | the second power-up overwrites the remembered rate |
| `MCModem_redial` | 1328 "Restart immediately, if we are waiting to retry the dial-script" | on a redial the chat is not attached: nothing runs and the timer is gone |
| `MCModem_dial` | 2424-2427, the dial script puts the DLCI into data mode | a left-over result of another script counts as the dial script's |
| `MCModem_cgev` | 554-558, a +CGEV message that does not match the registration is notified | the handler looks for its names in `argv[0]` (545), where the prefix is: it never notifies |
| `MCBreaker_relay` | P2 `README.md`:46, HR0 reads the current relay state | LED failure after the relay switched |

More disagreements, seen while modelling and too plain for a run of their own:
P2's `README.md`:11 lists a Modbus server that main no longer starts (`main.c`:47-51);
its line 39 gives the unit ID as 1 where `modbus_server.c`:63 has 50; and its line 47
has the requested unit ID at HR1, where the code has the read-only alarm, the ID being
HR2. Two more in the driver need an unusual situation: a recovery restart keeps
`cmd_pipe` (1375, 1434), against the comment at 1536-1538; and on a UART that
finishes its requests late, a bus-closed event of the last session makes
RUN_INIT_SCRIPT (1080) skip the init script (`InitBeforeMux` with `MaxBacklog = 1`). And a
meter or sensor that refuses a request counts as having answered it, as said in section 2;
no document speaks of refusals.

**Bounds.** `MaxSuspends` bounds the suspend calls and `MaxNoise` the unsolicited
events and API calls: counters in the guards. One suspend with two unsolicited
events reaches every state and every transition, including recovery (three script
failures need no noise), redial and a suspend in any state. The pipe is four
events on the board and two where dropping is the point; the size of `event_buf` is
declared in a header of Zephyr, outside this repository, so that it is a parameter
(`EventPipeSize`) and the proofs are for every size. The register map's word is short so that every range,
wrapped or not, is offered; two handlers already exhibit each pairwise condition,
three allow a gap between two. `MaxCalls` bounds the driver calls of `MeterPoll`: two are
what a left-over of one call needs to reach the next. `MaxUnusual` bounds the values of a
call that are not plain or not read at all: one per call exercises each validation and
each refusal on its own, and already with two the run is too long (37 million states, no
violation); the proofs are for every number. `MaxReports` bounds the registration
reports: one may be taken for an answer or be cleared with the flags, a second one
changes a status back or comes in a later session; sessions and snapshots are not
bounded. All runs have deadlock checking off: a system that
rests in IDLE with its counters used up, or a main that has given up, is in order.

**Why the bus does not lag on the board.** `prj.conf` selects the interrupt-driven
UART backend; its open and close finish inside the call and the notification comes
before anything else runs. `MaxBacklog = 0` says so; `MCModem_threads` lets requests finish late, as an
asynchronous backend would.

**Exceptions stated in the properties.** `lost`: the pipe dropped an event, after
which the code promises nothing. `recovered`: the driver queued a RESUME for itself,
after which `SuspendSticks` allows a modem reported suspended to run. With a refused
PPP attach AWAIT_REGISTERED, and CARRIER_ON after it, have neither timer nor script. In
RUN_DIAL_SCRIPT with the chat on no pipe, as after a redial, a registration report stops the
timer and starts nothing (`MCModem_redial`): `NeverStalls` excepts that state as long as the
chat has no pipe, and no other. `lateApn`: an APN was written after the state
check of its `set_apn` became stale, and the script has the one before. `again`: a session began with a modem that already
sent reports. `mixed` and "unread": what the meter drivers cannot tell from a reading.
Each is a hazard listed at its line, not a convenience of the model.

**Fairness** (`FairSpec`). Weak fairness of `Dispatch` and `TimeoutWork`: the work
queue runs what is submitted and what has timed out. Of `ChatCallback`: every chat
script has a timeout, so it ends one way or the other. Of `PipeEvent("UART")`:
the UART driver finishes an open or a close. Nothing is assumed of the modem, of
CMUX, of PPP or of callers, and the three liveness properties do not need it.
`AppSpec` has weak fairness of `Main`: P3's main is never blocked for good, because
the chat script it waits for in `get_signal` ends and `k_event_wait` has a timeout.
Nothing is assumed of the modem or the driver there; `ChangesAreShown` holds by the
poll interval, and the mutant that waits for a flag only breaks it.

## 4. Proofs

For every configuration, pipe size, set of domains and APNs and every bound
(`ConfigAssumption`, `SizeAssumption`, `ApnAssumption`), `ModemProofs` shows of
`Spec`: type correctness (`TypeCorrect`), `IdleIsQuiescent`, `TokenOnlyWhenIdle`,
`InterfaceFollows`, `PinsFollow`, `PppOwns`, `TimerStops` and, as an action
property, `PowerOffFinal`.

None of these invariants is inductive alone. `PppOwnsDlci1`, for one, needs that
PPP is attached only from AWAIT_REGISTERED to DORMANT, that the chat has left DLCI1
by then, and that no OPEN_DLCI1 state can be entered with PPP attached; the
interface property needs that a restart out of CARRIER_ON clears the carrier
before it enters IDLE. The inductive invariant is `IInv == GoodData(data) /\
Clients`: `GoodData` types the record and says per state what may be attached, on
and armed. Between the leave and the enter function of one transition the record
satisfies a weaker predicate, and the argument is split there:

1. Which fields each helper can change, and that it keeps types.
2. `OnStateLeave` turns a good record of state s into one that
   is `Left`; `MayEnter` says which states such a record may enter; `OnStateEnter` makes it good again.
   `EnterStateFacts` combines the two for any pair of states.
3. One lemma per handler and per environment action, by cases of the
   event, citing `EnterStateFacts` at each transition; then `Invariance` and the theorems.

`ModemQueueProofs` relates the state to what is queued, armed and asked for. Its
invariant is `WInv == IInv /\ Wakes`, and `Wakes` says that CMUX is released until it
is used and brought down only by a power-off, and that the chat polling an attached
modem has a pipe (`Linked`); that each waiting state has its wake-up under way (in RUN_DIAL_SCRIPT a timer, a script or
its result, or a SUSPEND, unless the chat has no pipe), where a
CMUX that is up has queued CMUX_CONNECTED (`Ready`); that a session PPP keeps alive is
told when PPP dies (`Redials`, which `DormantIsRedialled` needs in CARRIER_ON already);
and the two APN invariants as they stand. The argument goes by what a step may do to
the wake-ups. A handler that takes an event either stays in its state without the
wake-up being used up by that event, or enters a state whose enter function provides
one (`Entry`); `Turn` collects this, with the rank of the next state, what was pushed
and which events recover, and each handler has one lemma that its step is a `Turn`. For
callbacks and callers `Arrives` says that a wake-up that is consumed (a timer, a
script, a request) leaves its event in the pipe, or `lost`. From these follow
`StallsNever`, `DormantRedialled`, `ParkedWoken`, `ApnCurrent` and, as an action
property, `Recovered`.

`SuspendNotOvertaken` proves `SuspendSticks` from a second invariant, `Sticks`: every
RESUME in the pipe is followed by a SUSPEND while the power manager does not hold the
device for active; and a device reported suspended that runs has that SUSPEND at a
position i with `i + Rank(state) < EventPipeSize`, `Rank` counting the events a session
has taken on its way to DORMANT, the one state without a SUSPEND case. Taking an event
lowers i by one and raises `Rank` by at most one, so the SUSPEND is met in time. This
needs `EventPipeSize <= 8`: a RESUME, the seven events that lead to DORMANT and the
SUSPEND are nine. Whether a longer pipe can be filled with exactly these is not settled
here, and the theorem does not claim it.

`ModemOrderProofs` is about events that name no session: BUS_OPENED and BUS_CLOSED,
CMUX_CONNECTED, SCRIPT_SUCCESS and SCRIPT_FAILED (`Fresh`). It assumes `Direct`, the
overlay's board: a cooperative queue, a UART that finishes in the call, and no state
before RUN_INIT_SCRIPT (no autostart, reset pulse or baud script). The invariant is
`OInv == WInv /\ Order`, TLC having checked `Order` first, for pipes of one to six events:

- `Batch`: a bus event or request exists only while the loop that asked runs, and no
  TIMEOUT is queued behind a bus event.
- `Resumes`: one RESUME at most. Outside IDLE it is the head of a pipe nobody has begun to
  read; in IDLE nothing in `Fresh` comes after it. This is what cuts sessions apart: the
  driver's own RESUME (recovery) and a caller's are both covered.
- `Staged`: for each state that waits for an answer, where the request and its answer are.
  `Booting` has six stages of RUN_INIT_SCRIPT (bus opening, open, script running, script
  ended, bus closing, closed) and `Linking` five of CONNECT_CMUX; in each the pipe holds
  at most the one event of `Fresh` that answers (`Sole`). `Muxed` is the first half of
  `MuxOwnsBus`.

Each handler has a lemma that it `Settles`: the state it leaves is staged with what it
left in the pipe, whatever the handler found. `OrderArrives` does the same for what callbacks
and callers post. From `OrderInvariance` follow `MuxKeepsBus`, `InitPrecedesMux` and
`ApnPrecedesDial`. `InitBeforeMux` needs its `lost`: with a pipe of two
events TLC finds the failure of the init script dropped, the state left waiting, and the
success of a later `get_signal` script taken for it.

`ModemRefinementProofs` shows that `Spec` implements `Power!PowerSpec` (`Refinement`,
the property `ImplementsPower` of the run) and hence that a suspend call is answered
only by a modem in IDLE (`SuspendTruthful`). Each helper is shown to leave the four
variables of the contract alone (`Still`), to change at most state and token
(`Keeps`) or to end a session (`Halts`: the token goes to a waiting call or becomes
available). Each handler is then a `Step`: an action of the contract or a stutter.
The invariant `IInv` is needed at one point: leaving IDLE takes the token back, so
that a token in any other phase would not be one of the contract's.

`RegisterMapProofs` shows for every word size, number of slots and set of handlers
that no address has two owners, that an accepted handler is found for exactly its
claim, that the overlap test on wrapped ends never refuses without a shared
register, and that the map stays within its slots (`MapTypeCorrect`). The key facts
are `EndValue` (a sum wraps at most once), `OverlapIsFound` and `OverlapIsReal`;
`OneOwner` is inductive with the types. `BreakerProofs` builds on it
(`BreakerAssumption`: words hold a unit ID, and main's handlers are among the
offered): `OwnerOfRegister` says which module a request reaches, and the invariant
that each module remembers what was last accepted for its register gives
`ClientsReadBack` and `ReportIsTheLed`. `RegistersAreServed` needs two facts more
(`ServedIInv`): after a step of main the handler of that step is `Registered`, and
main's own ranges never refuse each other, so that a request always meets both.

`MeterProofs` has one invariant, `PollIInv`: while a call runs, what it has stored is, for
its registers in order, of this call (`Reported`, by `OfCall`) and of a kind its register
can have, and main's struct agrees with it so far (`Copied`). `ReportsStay` is what every
other step needs: a value of a call stays one when more calls take late answers. It gives
`PrintedTogether`, `ReadTogether` and `ValidIsUsable`, for any number of calls, of
refusals and of unusual values (`MaxCalls`, `MaxUnusual`).

`AppProofs` has `AppIInv`: no session and no RESUME before callback and power
(`Ordered`); the answered lines of the script have their fields known (`Answers`); and
reports are not on before line 19 of the first script (`ReportsLate`), which no line
with an empty match follows. It gives `InOrder`, `IdentityIsKnown` and
`IdentityIsOwn` for every set of statuses and number of reports.

**Only model-checked.** The liveness properties, since the provers installed here
have no support for ENABLED and so for fairness; this includes `ChangesAreShown`.
`MuxOwnsBus`, `InitBeforeMux` and `ApnBeforeDial` on boards other than `Direct` ones:
`MCModem_reset` checks `ApnBeforeDial` on one with a reset line and a baud script, and no
theorem covers it. The assumption is not only the proof's: TLC finds a stale event that
breaks `MuxOwnsBus` with `PreemptsDispatch = TRUE`, a pipe of four and two suspends; one
that breaks `InitBeforeMux` with `MaxBacklog = 1`; and with `Autostarts = TRUE` a
`get_signal` call in AWAIT_POWER_ON whose script ends in RUN_INIT_SCRIPT and is taken
for the init script. A longer pipe than eight for `SuspendSticks`, as said above.

## 5. Not modelled

- The conversions of CSQ and CESQ values to dBm (`sim7600.c` 369-470, 1946-2040), the
  lengths of the identity strings and their text: copied for display, nothing
  decides on them. Which answer is stored in which field is in `CellularApp`.
- The AT scripts of the other vendors and their device-tree instances: constant
  tables. The order of the SIM7600 init script is `InitScript`; the other scripts are
  objects that succeed or fail.
- The power line: the driver leaves it to the application (`sim7600.c` 2277-2279).
- Delays: a timer may fire at any time after it is armed.
- JSON and log texts of P2 and P3: by whether they are written, cut short or not at all.
- Which contents an unread variable of the meter drivers has: any the driver can hold.
- The Modbus client's two write functions: no caller, no state. Interface numbers:
  the overlay has one interface.
- P1 has no state.

What is left outside the modules is text, constant tables and arithmetic for display.

## 6. Plan

1. *(done)* `ModemCellular`, its properties, runs and first theorems; `RegisterMap`
   and `BreakerRegisters` with theirs.
2. *(done)* `ModemPower` and the refinement, checked and proved.
3. *(done)* `MeterPoll` with `MeterProofs`; `CellularApp` with `AppProofs`.
4. *(done)* The invariants that relate the state to the event pipe and the wake-ups,
   in `ModemQueueProofs`: `NeverStalls`, `DormantIsRedialled`, `ParkedApnIsWoken`,
   `ApnScriptIsCurrent`, `RecoveryRestarts`, `SuspendSticks`.
5. *(done)* `MuxOwnsBus`, `InitBeforeMux` and `ApnBeforeDial` on the overlay's board, in
   `ModemOrderProofs`.
6. The same three on boards with steps before the init script, where they hold
   (`ApnBeforeDial` with a baud script and a reset line); `SuspendSticks` for longer pipes.
