------------------------------ MODULE MeterPoll ------------------------------
(***************************************************************************)
(* Reading the meter and the sensors of P2 over RS485: the drivers         *)
(* (pd195z_e31.c, sht20.c, level_sensor.c) read their registers one        *)
(* request after the other through modbus_client.c, and main's loop prints *)
(* the PD195Z's readings.  Requests may fail; a device may refuse one; and  *)
(* the answer to a request that timed out may still arrive and be taken    *)
(* for the next one's: RTU frames name no request.                         *)
(*                                                                         *)
(* A reading is recorded by the register and the call that asked for it,   *)
(* by the kind of its value and by the call that stored it; JSON text by   *)
(* how much of it is written.                                              *)
(***************************************************************************)
EXTENDS Naturals, Sequences, FiniteSets

CONSTANTS
  MaxCalls,     \* bound: driver calls
  MaxUnusual    \* bound: readings of a call that are not plain

ASSUME CallsAssumption == MaxCalls \in Nat
ASSUME UnusualAssumption == MaxUnusual \in Nat

(* The registers of each device in the order they are read. *)
Pd195z == <<"dc_voltage", "dc_current", "dc_power", "dc_energy_out",
            "dc_energy_in">>
Sht20  == <<"temperature", "humidity">>
Level  == <<"level">>

(* main's loop, and the calls of the drivers' interfaces *)
Registers ==
  [poll |-> Pd195z, pd195z_e31_get_data |-> Pd195z,
   sht20_read_data |-> Sht20, sht20_get_data |-> Sht20,
   level_sensor_get_data |-> Level, level_sensor_get_level |-> Level]
Calls == DOMAIN Registers

FieldsOf(registers) == {registers[i] : i \in DOMAIN registers}
Fields == UNION {FieldsOf(Registers[c]) : c \in Calls}

\* what a device may have measured, as far as validation tells it apart
Kinds(field) ==
  {"plain"}
    \cup (IF field \in FieldsOf(Pd195z) THEN {"negative", "not finite"} ELSE {})
    \cup (IF field = "temperature" THEN {"negative"} ELSE {})
    \cup (IF field \in {"dc_voltage"} \cup FieldsOf(Sht20) THEN {"large"} ELSE {})

\* the sensor drivers hold a temperature below zero, in two's complement, as
\* a large unsigned number
Held(field, kind) ==
  IF field \in FieldsOf(Sht20) /\ kind = "negative" THEN "large" ELSE kind
HeldKinds(field) == {Held(field, k) : k \in Kinds(field)}

Readings == [field : Fields \cup {"unread"}, call : 1 .. MaxCalls,
             kind : {"plain", "negative", "large", "not finite"},
             by : 1 .. MaxCalls]
Nothing == [field |-> "nothing", call |-> 0, kind |-> "plain", by |-> 0]

Requests == [field : Fields, call : 1 .. MaxCalls]
NoRequest == [field |-> "nothing", call |-> 0]

VARIABLES
  client,    \* client_iface is not negative
  call,      \* the call that is running, or "none"
  count,     \* calls begun so far
  got,       \* what this call has read
  meter,     \* main's struct pd195z_e31_param
  ambient,   \* a caller's struct sht20_param, kept from call to call
  report,    \* what main printed last
  answer,    \* how the last driver call ended, until the next begins
  late,      \* a request whose answer is still under way
  mixed      \* history: the calls that took a late answer for their own

pollVars ==
  <<client, call, count, got, meter, ambient, report, answer, late, mixed>>

Empty(registers) == [f \in FieldsOf(registers) |-> Nothing]
NoAnswer == [ret |-> "none", text |-> "none", data |-> <<>>]

PollInit ==
  /\ client = FALSE /\ call = "none" /\ count = 0 /\ got = <<>>
  /\ meter = Empty(Pd195z) /\ ambient = Empty(Sht20)
  /\ report = Empty(Pd195z) /\ answer = NoAnswer
  /\ late = NoRequest /\ mixed = {}

----------------------------------------------------------------------------
(* Validation *)

MutPdValid(data) ==    \* the energy counters are not looked at
  /\ \A i \in DOMAIN data : data[i].kind # "not finite"
  /\ data[1].kind \notin {"negative", "large"}
PdValid(data) ==
  /\ \A i \in DOMAIN data : data[i].kind # "not finite"
  /\ data[1].kind \notin {"negative", "large"}
  /\ \A i \in {4, 5} : data[i].kind # "negative"

\* the values are unsigned, so the tests for values below zero never fail
ShtValid(data) == \A i \in DOMAIN data : Held(Sht20[i], data[i].kind) # "large"

----------------------------------------------------------------------------
(* Calls and requests *)

ClientInit ==
  /\ ~client /\ call = "none"
  /\ client' = TRUE
  /\ UNCHANGED <<call, count, got, meter, ambient, report, answer, late, mixed>>

\* main enters its loop only with a client; the drivers may be called before
MutBegin(c) ==       \* the readings of the last call are still there
  /\ call = "none" /\ count < MaxCalls
  /\ c = "poll" => client
  /\ call' = c /\ count' = count + 1 /\ answer' = NoAnswer
  /\ UNCHANGED <<client, got, meter, ambient, report, late, mixed>>
Begin(c) ==
  /\ call = "none" /\ count < MaxCalls
  /\ c = "poll" => client
  /\ call' = c /\ count' = count + 1 /\ got' = <<>> /\ answer' = NoAnswer
  /\ UNCHANGED <<client, meter, ambient, report, late, mixed>>

Reads == call # "none" /\ Len(got) < Len(Registers[call])
Wanted == Registers[call][Len(got) + 1]

MutStore(reading) ==  \* sht20_read_data stores each value at once
  /\ got' = Append(got, reading)
  /\ meter' = IF call = "poll" THEN [meter EXCEPT ![Wanted] = reading] ELSE meter
  /\ ambient' = IF call = "sht20_read_data"
                THEN [ambient EXCEPT ![Wanted] = reading] ELSE ambient

\* pd195z_e31_read_data writes into the caller's struct as it goes,
\* sht20_read_data reads into locals first
Store(reading) ==
  /\ got' = Append(got, reading)
  /\ meter' = IF call = "poll" THEN [meter EXCEPT ![Wanted] = reading] ELSE meter
  /\ UNCHANGED ambient

Reading(field, from, kind) ==
  [field |-> field, call |-> from, kind |-> kind, by |-> count]
Unusual == {i \in DOMAIN got : got[i].field = "unread" \/ got[i].kind # "plain"}
MayBe(reading) ==
  \/ reading.field # "unread" /\ reading.kind = "plain"
  \/ Cardinality(Unusual) < MaxUnusual

Answered ==
  /\ Reads /\ client
  /\ \E k \in Kinds(Wanted) :
       MayBe(Reading(Wanted, count, k)) /\ Store(Reading(Wanted, count, k))
  /\ UNCHANGED <<client, call, count, report, answer, late, mixed>>

\* the device answers with an exception code, which is positive: ret < 0 does
\* not see it, and the local variable that nothing was read into is stored,
\* whatever it holds
Refused ==
  /\ Reads /\ client
  /\ \E k \in HeldKinds(Wanted) :
       MayBe(Reading("unread", count, k)) /\ Store(Reading("unread", count, k))
  /\ UNCHANGED <<client, call, count, report, answer, late, mixed>>

\* function code and length fit, so the answer is taken, or the exception
\* code; the right answer may be late in turn
TakeLate ==
  /\ Reads /\ client
  /\ late # NoRequest /\ \E c \in Calls : {late.field, Wanted} \subseteq
                                            FieldsOf(Registers[c])
  /\ \E field \in {late.field, "unread"}, k \in HeldKinds(Wanted) :
       LET reading == Reading(field, late.call, k)
       IN  MayBe(reading) /\ Store(reading)
  /\ late' \in {NoRequest, [field |-> Wanted, call |-> count]}
  /\ mixed' = mixed \cup {count}
  /\ UNCHANGED <<client, call, count, report, answer>>

\* ret < 0 is passed up at once; -ENODEV without a client
Ends(ret) ==
  /\ call' = "none"
  /\ answer' = IF call = "poll" THEN answer
               ELSE [ret |-> ret, text |-> "none", data |-> <<>>]
MutFailed ==         \* the error of one register is not looked at
  /\ Reads /\ client
  /\ got' = Append(got, Reading(Wanted, count, "plain"))
  /\ UNCHANGED <<client, call, count, meter, ambient, report, answer, late,
                 mixed>>
Failed ==
  /\ Reads
  /\ Ends("error")
  /\ late' \in {late} \cup (IF client THEN {[field |-> Wanted, call |-> count]}
                           ELSE {})
  /\ UNCHANGED <<client, count, got, meter, ambient, report, mixed>>

----------------------------------------------------------------------------
(* What a call does with its readings.  A buffer that is empty gets no text *)
(* and an error; one that is too short gets what snprintf can write, and    *)
(* the length the text should have had.                                     *)

Texts == {"none", "cut", "whole"}

ReadsDone(c) == call = c /\ Len(got) = Len(Registers[c])
Returns(ret, text) ==
  /\ call' = "none"
  /\ answer' = [ret |-> ret, text |-> text, data |-> got]
  /\ UNCHANGED <<client, count, got, meter, report, late, mixed>>

\* main prints the struct without validating it
PrintMeter ==
  /\ ReadsDone("poll")
  /\ call' = "none" /\ report' = meter
  /\ UNCHANGED <<client, count, got, meter, ambient, answer, late, mixed>>

\* formats, then returns what validation says
PdGetData(text) ==
  /\ ReadsDone("pd195z_e31_get_data")
  /\ Returns(CASE text = "none" -> "error"
               [] text # "none" /\ PdValid(got) -> "valid"
               [] OTHER -> "invalid", text)
  /\ UNCHANGED ambient

ShtReadData ==
  /\ ReadsDone("sht20_read_data")
  /\ ambient' = [f \in FieldsOf(Sht20) |->
                   IF f = "temperature" THEN got[1] ELSE got[2]]
  /\ Returns("ok", "none")

\* does not look at what formatting returns
ShtGetData(text) ==
  /\ ReadsDone("sht20_get_data")
  /\ Returns(IF ShtValid(got) THEN "valid" ELSE "invalid", text)
  /\ UNCHANGED ambient

\* every level is valid; the length of the text is returned
LevelGetData(text) ==
  /\ ReadsDone("level_sensor_get_data")
  /\ Returns(IF text = "none" THEN "error" ELSE "length", text)
  /\ UNCHANGED ambient

LevelGetLevel ==
  /\ ReadsDone("level_sensor_get_level")
  /\ Returns("ok", "none")
  /\ UNCHANGED ambient

PollNext ==
  \/ ClientInit
  \/ \E c \in Calls : Begin(c)
  \/ Answered \/ Refused \/ TakeLate \/ Failed
  \/ PrintMeter \/ ShtReadData \/ LevelGetLevel
  \/ \E text \in Texts : PdGetData(text) \/ ShtGetData(text) \/ LevelGetData(text)

PollSpec == PollInit /\ [][PollNext]_pollVars

----------------------------------------------------------------------------
(* The variables keep their types. *)
PollTypeOK ==
  /\ client \in BOOLEAN /\ mixed \in SUBSET (1 .. MaxCalls)
  /\ call \in Calls \cup {"none"} /\ count \in 0 .. MaxCalls
  /\ got \in Seq(Readings)
  /\ call # "none" => Len(got) <= Len(Registers[call])
  /\ meter \in [FieldsOf(Pd195z) -> Readings \cup {Nothing}]
  /\ report \in [FieldsOf(Pd195z) -> Readings \cup {Nothing}]
  /\ ambient \in [FieldsOf(Sht20) -> Readings \cup {Nothing}]
  /\ late \in Requests \cup {NoRequest}

(* A value that call n stored for a register: the register's, as it was     *)
(* asked for in this call, or whatever the driver's local variable held if  *)
(* the device refused.  In a call that took a late answer, any value that   *)
(* this call stored.                                                        *)
OfCall(value, field, n) ==
  /\ value.by = n
  /\ \/ n \in mixed
     \/ value.call = n /\ value.field \in {field, "unread"}

(* What main prints was stored by one call, register by register, though    *)
(* main keeps the struct from call to call and a failed call leaves it half *)
(* overwritten.  Two exceptions, which the drivers cannot see: the value    *)
(* for a request that the device refused is not a reading, and a call that  *)
(* takes a late answer for its own has values of other requests.            *)
ReportIsOneCall ==
  \/ report = Empty(Pd195z)
  \/ \E n \in 1 .. MaxCalls : \A f \in FieldsOf(Pd195z) : OfCall(report[f], f, n)

(* Temperature and humidity in a caller's struct were stored by one call,   *)
(* though the call may fail between the two requests; with the same two     *)
(* exceptions, of a refused request and of a late answer.                   *)
PairIsOneCall ==
  \/ ambient = Empty(Sht20)
  \/ \E n \in 1 .. MaxCalls : \A f \in FieldsOf(Sht20) : OfCall(ambient[f], f, n)

(* A get_data call that returns 1 has values of this call for every         *)
(* register, as above, and none of them is outside what its register may    *)
(* have measured, a temperature below zero included; the meter's text is    *)
(* written, though it may be cut short.                                     *)
OutOfRange(field, kind) ==
  \/ kind = "not finite"
  \/ field \in {"dc_voltage", "temperature", "humidity"}
       /\ kind \in {"negative", "large"}
  \/ field \in {"dc_energy_out", "dc_energy_in"} /\ kind = "negative"
ValidMeansUsable ==
  answer.ret = "valid" =>
    \E registers \in {Pd195z, Sht20} :
      /\ Len(answer.data) = Len(registers)
      /\ \A i \in DOMAIN registers :
           /\ OfCall(answer.data[i], registers[i], count)
           /\ ~OutOfRange(registers[i], answer.data[i].kind)
      /\ registers = Pd195z => answer.text # "none"
=============================================================================
