-------------------------- MODULE BreakerRegisters --------------------------
(***************************************************************************)
(* The controllable breaker of P2: main brings the parts up in order and   *)
(* gives up at the first failure; then the Modbus server answers requests  *)
(* for the relay and system registers through the register map.            *)
(*                                                                         *)
(* main.c has the calls that start the server and poll the SHT20 sensor    *)
(* commented out; the model has the behaviours with and without them.  The *)
(* server's multi-register requests are sequences of the single-register   *)
(* steps below.                                                            *)
(***************************************************************************)
EXTENDS RegisterMap

CONSTANTS
  Requested,      \* register addresses that clients ask for
  Values,         \* values that they write
  GpioMayFail     \* whether a GPIO call may return an error

RelayHandler  == [start |-> 0, count |-> 1, read |-> TRUE, write |-> TRUE]
SystemHandler == [start |-> 1, count |-> 2, read |-> TRUE, write |-> TRUE]

ASSUME BreakerAssumption ==
  /\ Word > 247                \* a unit ID fits in a register
  /\ {RelayHandler, SystemHandler} \subseteq Offered
  /\ Requested \subseteq Addresses /\ Values \subseteq Addresses
  /\ GpioMayFail \in BOOLEAN

VARIABLES
  step,           \* what main does next
  server,         \* modbus_init_server has been called
  relay, led,     \* the two output pins: is the coil, the lamp, on?
  relayState,     \* relay_state
  alarm,          \* threshold_alarm_active
  unitId,         \* requested_unit_id
  reply,          \* the last request and how it was answered
  accepted        \* history: the value last accepted for a register

devices == <<relay, led, relayState, alarm, unitId>>
requests == <<reply, accepted>>
breakerVars == <<handlers, result, step, server, devices, requests>>

UnitIds == 1 .. 247
Steps == {"init relay", "register relay", "register system", "start client",
          "start server", "poll", "stopped"}
Flag(b) == IF b THEN 1 ELSE 0
Request(op, addr, value, status) ==
  [op |-> op, addr |-> addr, value |-> value, status |-> status]
NoReply == Request("none", 0, 0, "OK")

----------------------------------------------------------------------------
(* main *)

RelayInit ==
  /\ step = "init relay"
  /\ \/ /\ relay' = FALSE /\ led' = FALSE /\ relayState' = FALSE
        /\ step' = "register relay"
     \/ GpioMayFail /\ step' = "stopped" /\ UNCHANGED <<relay, led, relayState>>
  /\ UNCHANGED <<handlers, result, server, alarm, unitId, requests>>

RegisterAt(here, h, next) ==
  /\ step = here
  /\ RegisterHandler(h)
  /\ step' = IF result' = "OK" THEN next ELSE "stopped"
  /\ UNCHANGED <<server, devices, requests>>
RegisterRelay  == RegisterAt("register relay", RelayHandler, "register system")
RegisterSystem == RegisterAt("register system", SystemHandler, "start client")

ClientInit ==
  /\ step = "start client"
  /\ step' \in {"start server", "poll", "stopped"}
  /\ UNCHANGED <<handlers, result, server, devices, requests>>

ServerInit ==
  /\ step = "start server"
  /\ \/ server' = TRUE /\ step' = "poll"
     \/ UNCHANGED server /\ step' = "stopped"
  /\ UNCHANGED <<handlers, result, devices, requests>>

SetThresholdAlarm(active) ==
  /\ step = "poll"
  /\ alarm' = active
  /\ UNCHANGED <<handlers, result, step, server, relay, led, relayState,
                 unitId, requests>>

----------------------------------------------------------------------------
(* relay_controller_set: relay, then LED, then the remembered state *)

MutRelaySet(on) ==   \* the state is remembered before the LED is set
  \/ /\ relay' = on /\ led' = on /\ relayState' = on
     /\ reply' = Request("write", 0, Flag(on), "OK")
  \/ /\ GpioMayFail
     /\ relay' = on /\ relayState' = on /\ UNCHANGED led
     /\ reply' = Request("write", 0, Flag(on), "EIO")
RelaySet(on) ==
  \/ /\ relay' = on /\ led' = on /\ relayState' = on
     /\ reply' = Request("write", 0, Flag(on), "OK")
  \/ /\ GpioMayFail
     /\ relay' \in {relay, on} /\ UNCHANGED <<led, relayState>>
     /\ reply' = Request("write", 0, Flag(on), "EIO")

Owner(addr) == IF Find(addr) = 0 THEN NoReply ELSE handlers[Find(addr)]

\* holding_reg_wr: the callback of the handler found, or -ENOTSUP
RelayWrite(addr, value) ==
  /\ CanWrite(addr) /\ Owner(addr) = RelayHandler /\ Offset(addr) = 0
  /\ \/ value <= 1 /\ RelaySet(value = 1)
     \/ /\ value > 1
        /\ reply' = Request("write", addr, value, "EINVAL")
        /\ UNCHANGED <<relay, led, relayState>>
  /\ UNCHANGED <<alarm, unitId>>
MutSystemWrite(addr, value) ==   \* the range is not looked at
  /\ CanWrite(addr) /\ Owner(addr) = SystemHandler /\ Offset(addr) = 1
  /\ unitId' = value
  /\ reply' = Request("write", addr, value, "OK")
  /\ UNCHANGED <<relay, led, relayState, alarm>>
SystemWrite(addr, value) ==
  /\ CanWrite(addr) /\ Owner(addr) = SystemHandler /\ Offset(addr) = 1
  /\ unitId' = IF value \in UnitIds THEN value ELSE unitId
  /\ reply' = Request("write", addr, value,
                      IF value \in UnitIds THEN "OK" ELSE "EINVAL")
  /\ UNCHANGED <<relay, led, relayState, alarm>>
Writable(addr) ==
  /\ CanWrite(addr)
  /\ \/ Owner(addr) = RelayHandler /\ Offset(addr) = 0
     \/ Owner(addr) = SystemHandler /\ Offset(addr) = 1
RefuseWrite(addr, value) ==
  /\ ~Writable(addr)
  /\ reply' = Request("write", addr, value, "ENOTSUP")
  /\ UNCHANGED devices
HoldingRegWr(addr, value) ==
  /\ server
  /\ RelayWrite(addr, value) \/ SystemWrite(addr, value) \/ RefuseWrite(addr, value)
  /\ accepted' = IF reply'.status = "OK"
                 THEN [accepted EXCEPT ![addr] = value] ELSE accepted
  /\ UNCHANGED <<handlers, result, step, server>>

\* holding_reg_rd, relay_read_holding_reg and system_read_holding_reg
MutSystemValue(offset) == IF offset = 1 THEN Flag(alarm) ELSE unitId
SystemValue(offset) == IF offset = 0 THEN Flag(alarm) ELSE unitId
HoldingRegRd(addr) ==
  /\ server
  /\ reply' =
       IF ~CanRead(addr) THEN Request("read", addr, 0, "ENOTSUP")
       ELSE Request("read", addr,
                    IF Owner(addr) = RelayHandler THEN Flag(relayState)
                    ELSE SystemValue(Offset(addr)), "OK")
  /\ UNCHANGED <<handlers, result, step, server, devices, accepted>>

----------------------------------------------------------------------------
BreakerInit ==
  /\ MapInit
  /\ step = "init relay" /\ server = FALSE
  /\ relay = FALSE /\ led = FALSE /\ relayState = FALSE
  /\ alarm = FALSE /\ unitId = 50
  /\ reply = NoReply
  /\ accepted = [addr \in Requested |-> IF addr = 2 THEN 50 ELSE 0]

BreakerNext ==
  \/ RelayInit \/ RegisterRelay \/ RegisterSystem \/ ClientInit \/ ServerInit
  \/ \E active \in BOOLEAN : SetThresholdAlarm(active)
  \/ \E addr \in Requested, value \in Values : HoldingRegWr(addr, value)
  \/ \E addr \in Requested : HoldingRegRd(addr)

BreakerSpec == BreakerInit /\ [][BreakerNext]_breakerVars

----------------------------------------------------------------------------
Served(op) == reply.op = op /\ reply.status = "OK"

(* The parts of the breaker keep their types; the unit ID stays one that    *)
(* Modbus allows.                                                           *)
BreakerTypeOK ==
  /\ handlers \in Seq({RelayHandler, SystemHandler}) /\ result \in Results
  /\ step \in Steps
  /\ {server, relay, led, relayState, alarm} \subseteq BOOLEAN
  /\ unitId \in UnitIds
  /\ reply.op \in {"none", "read", "write"}

(* The state that register 0 reports is the one the LED shows, however far  *)
(* relay_controller_set gets before a pin refuses.                          *)
ReportFollowsLed == relayState = led

(* A client reads back the value it last got accepted for the register, and *)
(* a refused write leaves that value in place.                              *)
ReadBack ==
  Served("read") /\ reply.addr \in {0, 2} => reply.value = accepted[reply.addr]

(* A request served while main polls finds all three registers: the server  *)
(* is started only once both modules have their range of the map.           *)
AllRegistersServed ==
  reply.op = "read" /\ reply.addr \in 0 .. 2 => reply.status = "OK"

(* P2 README.md:46 "read: returns current relay state".                     *)
ReportFollowsRelay ==
  Served("read") /\ reply.addr = 0 => reply.value = Flag(relay)
=============================================================================
