--------------------------- MODULE BreakerProofs ---------------------------
(***************************************************************************)
(* Proofs about the breaker: what a client reads back, whatever clients    *)
(* request, in whatever order, and whichever GPIO call fails.              *)
(***************************************************************************)
EXTENDS BreakerRegisters, RegisterMapProofs

(* The inductive invariant: the map holds main's handlers only, requests    *)
(* come after boot, and what was accepted for a register is what its        *)
(* module remembers.                                                        *)
AppMap ==
  /\ MapIInv
  /\ \A i \in DOMAIN handlers : handlers[i] \in {RelayHandler, SystemHandler}
Booting ==
  /\ server => step = "poll"
  /\ step = "init relay" => relayState = FALSE /\ led = FALSE
Remembered ==
  /\ accepted \in [Requested -> Addresses]
  /\ 0 \in Requested => accepted[0] = Flag(relayState)
  /\ 2 \in Requested => accepted[2] = unitId
BreakerIInv == AppMap /\ Booting /\ Remembered /\ ReportFollowsLed /\ ReadBack

(* The two ranges of main cover the first three registers. *)
LEMMA RangesOfMain ==
  ASSUME NEW addr \in Addresses
  PROVE  /\ Answers(RelayHandler, addr) <=> addr = 0
         /\ Answers(SystemHandler, addr) <=> addr \in {1, 2}
<1>1. RelayHandler \in Handlers /\ SystemHandler \in Handlers
  BY BreakerAssumption, MapAssumption DEF RelayHandler, SystemHandler, Handlers, Addresses
<1>2. End(RelayHandler) = 1 /\ End(SystemHandler) = 3
  BY <1>1, EndValue, BreakerAssumption, MapAssumption DEF RelayHandler, SystemHandler
<1> QED BY <1>2, MapAssumption DEF Answers, RelayHandler, SystemHandler, Addresses

(* A register that has an owner belongs to the module whose range it is in. *)
LEMMA OwnerOfRegister ==
  ASSUME AppMap, NEW addr \in Requested, Find(addr) # 0
  PROVE  \/ Owner(addr) = RelayHandler /\ addr = 0 /\ Offset(addr) = 0
         \/ Owner(addr) = SystemHandler /\ addr \in {1, 2} /\ Offset(addr) = addr - 1
<1>1. addr \in Addresses
  BY BreakerAssumption
<1>2. PICK i \in DOMAIN handlers : Answers(handlers[i], addr)
  BY DEF Find
<1>3. Find(addr) = i
  BY <1>1, <1>2, FindAnswers DEF AppMap
<1>4. Owner(addr) = handlers[i] /\ Offset(addr) = addr - handlers[i].start
  BY <1>3 DEF Owner, Offset
<1>5. CASE handlers[i] = RelayHandler
  BY <1>1, <1>2, <1>4, <1>5, RangesOfMain DEF RelayHandler
<1>6. CASE handlers[i] = SystemHandler
  BY <1>1, <1>2, <1>4, <1>6, RangesOfMain DEF SystemHandler
<1> QED BY <1>5, <1>6 DEF AppMap

(* A write that is accepted is remembered, one that is not changes nothing. *)
LEMMA WriteKeepsInv ==
  ASSUME BreakerIInv, NEW addr \in Requested, NEW value \in Values,
         HoldingRegWr(addr, value)
  PROVE  BreakerIInv'
<1> DEFINE answered(status) == reply' = Request("write", addr, value, status)
<1>1. /\ UNCHANGED <<handlers, result, step, server>>
      /\ accepted' = IF reply'.status = "OK"
                     THEN [accepted EXCEPT ![addr] = value] ELSE accepted
  BY DEF HoldingRegWr
<1>2. value \in Addresses /\ value \in Nat
  BY BreakerAssumption, MapAssumption DEF Addresses
<1>3. /\ AppMap' /\ server
      /\ server' => step' = "poll"
      /\ step' # "init relay"
      /\ accepted' \in [Requested -> Addresses]
  <2>1. AppMap'
    BY <1>1 DEF BreakerIInv, AppMap, MapIInv, MapTypeOK, AllUsable, OneOwner, Answers, End
  <2>2. server
    BY DEF HoldingRegWr
  <2>3. accepted' \in [Requested -> Addresses]
    BY <1>1, <1>2 DEF BreakerIInv, Remembered
  <2> QED BY <1>1, <2>1, <2>2, <2>3 DEF BreakerIInv, Booting
<1>4. CASE RelayWrite(addr, value)
  <2>1. addr = 0 /\ UNCHANGED <<alarm, unitId>>
    <3>1. Owner(addr) = RelayHandler /\ Find(addr) # 0
      BY <1>4 DEF RelayWrite, CanWrite
    <3>2. RelayHandler # SystemHandler
      BY DEF RelayHandler, SystemHandler
    <3> QED BY <1>4, <3>1, <3>2, OwnerOfRegister DEF BreakerIInv, RelayWrite
  <2>2. CASE value <= 1 /\ RelaySet(value = 1)
    <3>1. Flag(value = 1) = value
      BY <1>2, <2>2 DEF Flag
    <3>2. CASE /\ led' = (value = 1) /\ relayState' = (value = 1)
               /\ answered("OK")
      <4>1. accepted' = [accepted EXCEPT ![0] = value]
        BY <1>1, <2>1, <3>2 DEF Request
      <4>2. Remembered'
        <5>1. accepted'[0] = Flag(relayState')
          BY <2>1, <3>1, <3>2, <4>1 DEF BreakerIInv, Remembered
        <5>2. 2 \in Requested => accepted'[2] = accepted[2]
          BY <4>1 DEF BreakerIInv, Remembered
        <5>3. 2 \in Requested => accepted'[2] = unitId'
          BY <2>1, <5>2 DEF BreakerIInv, Remembered
        <5> QED BY <1>3, <5>1, <5>3 DEF Remembered
      <4>3. ReadBack'
        BY <3>2 DEF ReadBack, Served, Request
      <4>4. ReportFollowsLed'
        BY <3>2 DEF ReportFollowsLed
      <4> QED BY <1>3, <4>2, <4>3, <4>4 DEF BreakerIInv, Booting
    <3>3. CASE UNCHANGED <<led, relayState>> /\ answered("EIO")
      BY <1>1, <1>3, <2>1, <3>3
         DEF BreakerIInv, Remembered, ReadBack, Served, ReportFollowsLed, Request, Flag, Booting
    <3> QED BY <2>1, <2>2, <3>1, <3>2, <3>3 DEF RelaySet
  <2>3. CASE answered("EINVAL") /\ UNCHANGED <<relay, led, relayState>>
    BY <1>1, <1>3, <2>1, <2>3
       DEF BreakerIInv, Remembered, ReadBack, Served, ReportFollowsLed, Request, Flag, Booting
  <2> QED BY <1>4, <2>2, <2>3 DEF RelayWrite
<1>5. CASE SystemWrite(addr, value)
  <2>1. addr = 2 /\ UNCHANGED <<relay, led, relayState, alarm>>
    <3>1. Owner(addr) = SystemHandler /\ Find(addr) # 0 /\ Offset(addr) = 1
      BY <1>5 DEF SystemWrite, CanWrite
    <3>2. RelayHandler # SystemHandler
      BY DEF RelayHandler, SystemHandler
    <3> QED BY <1>5, <3>1, <3>2, OwnerOfRegister DEF BreakerIInv, SystemWrite
  <2>2. CASE unitId' = value /\ answered("OK")
    <3>1. accepted' = [accepted EXCEPT ![2] = value]
      BY <1>1, <2>1, <2>2 DEF Request
    <3>2. Remembered'
      <4>1. accepted'[2] = unitId'
        BY <2>1, <2>2, <3>1 DEF BreakerIInv, Remembered
      <4>2. 0 \in Requested => accepted'[0] = accepted[0]
        BY <3>1 DEF BreakerIInv, Remembered
      <4>3. Flag(relayState') = Flag(relayState)
        BY <2>1 DEF Flag
      <4> QED BY <1>3, <4>1, <4>2, <4>3 DEF BreakerIInv, Remembered
    <3>3. ReadBack'
      BY <2>2 DEF ReadBack, Served, Request
    <3>4. ReportFollowsLed'
      BY <2>1 DEF BreakerIInv, ReportFollowsLed
    <3> QED BY <1>3, <3>2, <3>3, <3>4 DEF BreakerIInv, Booting
  <2>3. CASE unitId' = unitId /\ answered("EINVAL")
    BY <1>1, <1>3, <2>1, <2>3
       DEF BreakerIInv, Remembered, ReadBack, Served, ReportFollowsLed, Request, Flag, Booting
  <2> QED BY <1>5, <2>2, <2>3 DEF SystemWrite
<1>6. CASE RefuseWrite(addr, value)
  BY <1>1, <1>3, <1>6
     DEF BreakerIInv, Remembered, ReadBack, Served, ReportFollowsLed, Request, Flag, Booting,
         RefuseWrite, devices
<1> QED BY <1>4, <1>5, <1>6 DEF HoldingRegWr

(* A read answers what the owner of the register remembers. *)
LEMMA ReadKeepsInv ==
  ASSUME BreakerIInv, NEW addr \in Requested, HoldingRegRd(addr)
  PROVE  BreakerIInv'
<1>1. UNCHANGED <<handlers, result, step, server, relay, led, relayState, alarm,
                  unitId, accepted>>
  BY DEF HoldingRegRd, devices
<1>2. AppMap' /\ Booting' /\ Remembered' /\ ReportFollowsLed'
  BY <1>1 DEF BreakerIInv, AppMap, MapIInv, MapTypeOK, AllUsable, OneOwner, Answers, End,
              Booting, Remembered, ReportFollowsLed, Flag
<1>3. reply'.addr = addr
  BY DEF HoldingRegRd, Request
<1>4. ASSUME reply'.status = "OK", addr \in {0, 2}
      PROVE  reply'.value = accepted[addr]
  <2>1. CanRead(addr)
    BY <1>4 DEF HoldingRegRd, Request
  <2>2. reply'.value = IF Owner(addr) = RelayHandler THEN Flag(relayState)
                       ELSE SystemValue(Offset(addr))
    BY <2>1 DEF HoldingRegRd, Request
  <2>3. RelayHandler # SystemHandler
    BY DEF RelayHandler, SystemHandler
  <2>4. Find(addr) # 0
    BY <2>1 DEF CanRead
  <2>5. CASE addr = 0
    BY <2>2, <2>4, <2>5, OwnerOfRegister DEF BreakerIInv, Remembered
  <2>6. CASE addr = 2
    BY <2>2, <2>3, <2>4, <2>6, OwnerOfRegister DEF BreakerIInv, Remembered, SystemValue
  <2> QED BY <1>4, <2>5, <2>6
<1>5. ReadBack'
  BY <1>1, <1>3, <1>4 DEF ReadBack, Served
<1> QED BY <1>2, <1>5 DEF BreakerIInv

(* What appending does to a sequence, for the provers. *)
AppendAt(s, e, t) ==
  /\ \A i \in DOMAIN t : i \in DOMAIN s \/ i = Len(s) + 1
  /\ \A i \in DOMAIN s : t[i] = s[i]
  /\ t[Len(s) + 1] = e
LEMMA AppendFacts ==
  ASSUME NEW S, NEW s \in Seq(S), NEW e \in S
  PROVE  AppendAt(s, e, Append(s, e))
<1>1. Len(s) \in Nat /\ DOMAIN s = 1 .. Len(s)
  OBVIOUS
<1>2. DOMAIN Append(s, e) = 1 .. (Len(s) + 1)
  BY <1>1
<1>3. \A i \in 1 .. Len(s) : Append(s, e)[i] = s[i]
  BY <1>1
<1>4. Append(s, e)[Len(s) + 1] = e
  BY <1>1
<1> QED BY <1>1, <1>2, <1>3, <1>4 DEF AppendAt

(* Bringing a module's handler into the map leaves the devices alone. *)
LEMMA RegisterKeepsBreakerInv ==
  ASSUME BreakerIInv, NEW h \in {RelayHandler, SystemHandler}, NEW here, NEW next,
         here # "init relay", here # "poll", next # "init relay",
         RegisterAt(here, h, next)
  PROVE  BreakerIInv'
<1>1. /\ UNCHANGED <<server, relay, led, relayState, alarm, unitId, reply, accepted>>
      /\ RegisterHandler(h) /\ step = here /\ step' \in {next, "stopped"}
  BY DEF RegisterAt, devices, requests
<1>2. MapIInv'
  BY <1>1, BreakerAssumption, RegisterKeepsInv DEF BreakerIInv, AppMap
<1>3. \A i \in DOMAIN handlers' : handlers'[i] \in {RelayHandler, SystemHandler}
  <2>1. CASE UNCHANGED handlers
    BY <2>1 DEF BreakerIInv, AppMap
  <2>2. CASE handlers' = Append(handlers, h)
    <3>1. handlers \in Seq(Offered) /\ h \in Offered
      BY BreakerAssumption DEF BreakerIInv, AppMap, MapIInv, MapTypeOK
    <3>2. AppendAt(handlers, h, handlers')
      BY <2>2, <3>1, AppendFacts
    <3> QED BY <3>2 DEF BreakerIInv, AppMap, AppendAt
  <2> QED BY <1>1, <2>1, <2>2 DEF RegisterHandler, Refuse
<1>4. Booting'
  BY <1>1 DEF BreakerIInv, Booting
<1>5. Remembered' /\ ReportFollowsLed' /\ ReadBack'
  BY <1>1 DEF BreakerIInv, Remembered, ReportFollowsLed, ReadBack, Served, Flag
<1> QED BY <1>2, <1>3, <1>4, <1>5 DEF BreakerIInv, AppMap

----------------------------------------------------------------------------
LEMMA BreakerStep ==
  ASSUME BreakerIInv, [BreakerNext]_breakerVars
  PROVE  BreakerIInv'
<1> DEFINE SameMap == UNCHANGED <<handlers, result>>
<1>1. ASSUME SameMap
      PROVE  AppMap'
  BY <1>1 DEF BreakerIInv, AppMap, MapIInv, MapTypeOK, AllUsable, OneOwner, Answers, End
<1>2. CASE RelayInit
  <2>1. UNCHANGED <<handlers, result, server, alarm, unitId, reply, accepted>>
    BY <1>2 DEF RelayInit, requests
  <2>2. relayState' = FALSE /\ led' = FALSE /\ relayState = FALSE /\ step' # "init relay"
    BY <1>2 DEF RelayInit, BreakerIInv, Booting
  <2>3. ~server
    BY <1>2 DEF RelayInit, BreakerIInv, Booting
  <2> QED BY <1>1, <2>1, <2>2, <2>3
          DEF BreakerIInv, Booting, Remembered, ReportFollowsLed, ReadBack, Served, Flag
<1>3. CASE RegisterRelay
  BY <1>3, RegisterKeepsBreakerInv DEF RegisterRelay
<1>4. CASE RegisterSystem
  BY <1>4, RegisterKeepsBreakerInv DEF RegisterSystem
<1>5. CASE ClientInit \/ ServerInit
  <2>1. UNCHANGED <<handlers, result, relay, led, relayState, alarm, unitId, reply, accepted>>
    BY <1>5 DEF ClientInit, ServerInit, devices, requests
  <2>2. (server' => step' = "poll") /\ step' # "init relay"
    <3>1. ~server
      BY <1>5 DEF ClientInit, ServerInit, BreakerIInv, Booting
    <3>2. CASE ClientInit
      BY <3>1, <3>2 DEF ClientInit
    <3>3. CASE ServerInit
      <4>1. step' \in {"poll", "stopped"}
        BY <3>3 DEF ServerInit
      <4>2. step' = "poll" \/ ~server'
        BY <3>1, <3>3 DEF ServerInit
      <4> QED BY <4>1, <4>2
    <3> QED BY <1>5, <3>2, <3>3
  <2> QED BY <1>1, <2>1, <2>2
          DEF BreakerIInv, Booting, Remembered, ReportFollowsLed, ReadBack, Served, Flag
<1>6. ASSUME NEW active \in BOOLEAN, SetThresholdAlarm(active)
      PROVE  BreakerIInv'
  <2>1. UNCHANGED <<handlers, result, step, server, led, relayState, unitId, reply, accepted>>
    BY <1>6 DEF SetThresholdAlarm, requests
  <2> QED BY <1>1, <2>1
          DEF BreakerIInv, Booting, Remembered, ReportFollowsLed, ReadBack, Served, Flag
<1>7. ASSUME NEW addr \in Requested, NEW value \in Values,
             HoldingRegWr(addr, value)
      PROVE  BreakerIInv'
  BY <1>7, WriteKeepsInv
<1>8. ASSUME NEW addr \in Requested, HoldingRegRd(addr)
      PROVE  BreakerIInv'
  BY <1>8, ReadKeepsInv
<1>9. CASE UNCHANGED breakerVars
  BY <1>1, <1>9
     DEF breakerVars, devices, requests, BreakerIInv, Booting, Remembered, ReportFollowsLed,
         ReadBack, Served, Flag
<1> QED BY <1>2, <1>3, <1>4, <1>5, <1>6, <1>7, <1>8, <1>9 DEF BreakerNext

LEMMA BreakerInvariance == BreakerSpec => []BreakerIInv
<1>1. BreakerInit => BreakerIInv
  <2> SUFFICES ASSUME BreakerInit
               PROVE  BreakerIInv
    OBVIOUS
  <2>1. AppMap
    <3>1. MapIInv /\ handlers = <<>>
      BY MapInitInv DEF BreakerInit, MapInit
    <3>2. \A i \in DOMAIN handlers : handlers[i] \in {RelayHandler, SystemHandler}
      BY <3>1
    <3> QED BY <3>1, <3>2 DEF AppMap
  <2>2. ReadBack
    BY DEF BreakerInit, ReadBack, Served, NoReply, Request
  <2>3. Remembered
    <3>1. 0 \in Addresses /\ 50 \in Addresses
      BY BreakerAssumption, MapAssumption DEF Addresses
    <3>2. /\ accepted = [addr \in Requested |-> IF addr = 2 THEN 50 ELSE 0]
          /\ unitId = 50
      BY DEF BreakerInit
    <3>3. Flag(relayState) = 0
      BY DEF BreakerInit, Flag
    <3> QED BY <3>1, <3>2, <3>3 DEF Remembered
  <2>4. Booting /\ ReportFollowsLed
    BY DEF BreakerInit, Booting, ReportFollowsLed
  <2> QED BY <2>1, <2>2, <2>3, <2>4 DEF BreakerIInv
<1> QED BY <1>1, BreakerStep, PTL DEF BreakerSpec

(* A client that reads the relay or the requested unit ID gets the value    *)
(* last accepted for it: the map never sends a request to the wrong module  *)
(* and a write that was refused half-way leaves no trace in a register.     *)
THEOREM ClientsReadBack == BreakerSpec => []ReadBack
<1>1. BreakerIInv => ReadBack
  BY DEF BreakerIInv
<1> QED BY <1>1, BreakerInvariance, PTL

(* The state that register 0 reports is the one the LED shows, in every     *)
(* state that relay_controller_set can leave.                               *)
THEOREM ReportIsTheLed == BreakerSpec => []ReportFollowsLed
<1>1. BreakerIInv => ReportFollowsLed
  BY DEF BreakerIInv
<1> QED BY <1>1, BreakerInvariance, PTL

----------------------------------------------------------------------------
(* Types, and the two ranges that main has brought into the map. *)
LateSteps == {"start client", "start server", "poll"}
Registered ==
  /\ step \in LateSteps \cup {"register system"} =>
       \E i \in DOMAIN handlers : handlers[i] = RelayHandler
  /\ step \in LateSteps =>
       \E i \in DOMAIN handlers : handlers[i] = SystemHandler
ServedIInv == BreakerTypeOK /\ Registered /\ AllRegistersServed

(* A read of one of main's registers, while both ranges are in the map, is  *)
(* given to one of them.                                                    *)
LEMMA RegisterIsRead ==
  ASSUME BreakerIInv, Registered, step = "poll",
         NEW addr \in Requested, addr \in 0 .. 2
  PROVE  CanRead(addr)
<1>1. addr \in Addresses /\ AppMap
  BY BreakerAssumption DEF BreakerIInv
<1>2. \E i \in DOMAIN handlers :
        Answers(handlers[i], addr) /\ handlers[i].read
  <2>1. /\ \E i \in DOMAIN handlers : handlers[i] = RelayHandler
        /\ \E i \in DOMAIN handlers : handlers[i] = SystemHandler
    BY DEF Registered, LateSteps
  <2>2. RelayHandler.read /\ SystemHandler.read
    BY DEF RelayHandler, SystemHandler
  <2>3. addr = 0 \/ addr \in {1, 2}
    OBVIOUS
  <2>4. Answers(RelayHandler, addr) \/ Answers(SystemHandler, addr)
    BY <1>1, <2>3, RangesOfMain
  <2> QED BY <2>1, <2>2, <2>4
<1>3. PICK i \in DOMAIN handlers : Answers(handlers[i], addr) /\ handlers[i].read
  BY <1>2
<1>4. Find(addr) = i
  BY <1>1, <1>3, FindAnswers DEF AppMap
<1>5. i # 0
  BY DEF BreakerIInv, AppMap, MapIInv, MapTypeOK
<1> QED BY <1>3, <1>4, <1>5 DEF CanRead

(* A registration puts the range into the map or stops main. *)
LEMMA RegistersOrStops ==
  ASSUME BreakerIInv, ServedIInv, NEW h \in {RelayHandler, SystemHandler},
         NEW here, NEW next \in Steps, RegisterAt(here, h, next)
  PROVE  /\ handlers' \in Seq({RelayHandler, SystemHandler})
         /\ result' \in Results /\ step' \in {next, "stopped"}
         /\ step' # "stopped" => \E i \in DOMAIN handlers' : handlers'[i] = h
         /\ \A i \in DOMAIN handlers :
              i \in DOMAIN handlers' /\ handlers'[i] = handlers[i]
<1>1. handlers \in Seq({RelayHandler, SystemHandler})
  BY DEF ServedIInv, BreakerTypeOK
<1>2. RegisterHandler(h) /\ step' = IF result' = "OK" THEN next ELSE "stopped"
  BY DEF RegisterAt
<1>3. CASE UNCHANGED handlers /\ result' \in Results \ {"OK", "none"}
  BY <1>1, <1>2, <1>3
<1>4. CASE handlers' = Append(handlers, h) /\ result' = "OK"
  <2>1. handlers' \in Seq({RelayHandler, SystemHandler})
    BY <1>1, <1>4
  <2>2. Len(handlers) \in Nat /\ DOMAIN handlers = 1 .. Len(handlers)
    BY <1>1
  <2>3. DOMAIN handlers' = 1 .. (Len(handlers) + 1)
    BY <1>1, <1>4
  <2>4. handlers'[Len(handlers) + 1] = h /\ Len(handlers) + 1 \in DOMAIN handlers'
    BY <1>1, <1>4, <2>2, <2>3
  <2>5. \A i \in DOMAIN handlers : handlers'[i] = handlers[i] /\ i \in DOMAIN handlers'
    BY <1>1, <1>4, <2>2, <2>3
  <2>6. result' \in Results
    BY <1>4 DEF Results
  <2> QED BY <1>2, <2>1, <2>4, <2>5, <2>6
<1> QED BY <1>2, <1>3, <1>4 DEF RegisterHandler, Refuse, Results

LEMMA ServedStep ==
  ASSUME BreakerIInv, ServedIInv, [BreakerNext]_breakerVars
  PROVE  ServedIInv'
<1> DEFINE SameBoot == UNCHANGED <<handlers, result>>
<1>1. /\ handlers \in Seq({RelayHandler, SystemHandler}) /\ result \in Results
      /\ step \in Steps /\ unitId \in UnitIds
      /\ reply.op \in {"none", "read", "write"}
      /\ {server, relay, led, relayState, alarm} \subseteq BOOLEAN
  BY DEF ServedIInv, BreakerTypeOK
<1>2. CASE RelayInit
  <2>1. /\ UNCHANGED <<handlers, result, server, alarm, unitId, reply>>
        /\ step' \in {"register relay", "stopped"}
        /\ {relay', led', relayState'} \subseteq BOOLEAN
    BY <1>1, <1>2 DEF RelayInit, requests
  <2>2. BreakerTypeOK'
    BY <1>1, <2>1 DEF BreakerTypeOK, Steps
  <2> QED BY <2>1, <2>2 DEF ServedIInv, Registered, LateSteps, AllRegistersServed
<1>3. CASE RegisterRelay
  <2>1. /\ handlers' \in Seq({RelayHandler, SystemHandler}) /\ result' \in Results
        /\ step' \in {"register system", "stopped"}
        /\ step' # "stopped" => \E i \in DOMAIN handlers' : handlers'[i] = RelayHandler
    BY <1>3, RegistersOrStops DEF RegisterRelay, Steps
  <2>2. UNCHANGED <<server, relay, led, relayState, alarm, unitId, reply>>
    BY <1>3 DEF RegisterRelay, RegisterAt, devices, requests
  <2>3. BreakerTypeOK'
    BY <1>1, <2>1, <2>2 DEF BreakerTypeOK, Steps
  <2> QED BY <2>1, <2>2, <2>3 DEF ServedIInv, Registered, LateSteps, AllRegistersServed
<1>4. CASE RegisterSystem
  <2>1. /\ handlers' \in Seq({RelayHandler, SystemHandler}) /\ result' \in Results
        /\ step' \in {"start client", "stopped"}
        /\ step' # "stopped" => \E i \in DOMAIN handlers' : handlers'[i] = SystemHandler
        /\ \A i \in DOMAIN handlers :
             i \in DOMAIN handlers' /\ handlers'[i] = handlers[i]
    BY <1>4, RegistersOrStops DEF RegisterSystem, Steps
  <2>2. UNCHANGED <<server, relay, led, relayState, alarm, unitId, reply>>
    BY <1>4 DEF RegisterSystem, RegisterAt, devices, requests
  <2>3. \E i \in DOMAIN handlers : handlers[i] = RelayHandler
    BY <1>4 DEF RegisterSystem, RegisterAt, ServedIInv, Registered
  <2>4. BreakerTypeOK'
    BY <1>1, <2>1, <2>2 DEF BreakerTypeOK, Steps
  <2>5. Registered'
    BY <2>1, <2>3 DEF Registered, LateSteps
  <2> QED BY <2>2, <2>4, <2>5 DEF ServedIInv, AllRegistersServed
<1>5. CASE ClientInit \/ ServerInit
  <2>1. /\ UNCHANGED <<handlers, result, relay, led, relayState, alarm, unitId, reply>>
        /\ step \in LateSteps /\ step' \in LateSteps \cup {"stopped"}
        /\ server' \in BOOLEAN
    BY <1>1, <1>5 DEF ClientInit, ServerInit, devices, requests, LateSteps
  <2>2. BreakerTypeOK'
    BY <1>1, <2>1 DEF BreakerTypeOK, Steps, LateSteps
  <2> QED BY <2>1, <2>2 DEF ServedIInv, Registered, LateSteps, AllRegistersServed
<1>6. ASSUME NEW active \in BOOLEAN, SetThresholdAlarm(active)
      PROVE  ServedIInv'
  <2>1. /\ UNCHANGED <<handlers, result, step, server, relay, led, relayState,
                       unitId, reply>>
        /\ alarm' \in BOOLEAN
    BY <1>6 DEF SetThresholdAlarm, requests
  <2>2. BreakerTypeOK'
    BY <1>1, <2>1 DEF BreakerTypeOK
  <2> QED BY <2>1, <2>2 DEF ServedIInv, Registered, AllRegistersServed
<1>7. ASSUME NEW addr \in Requested, NEW value \in Values,
             HoldingRegWr(addr, value)
      PROVE  ServedIInv'
  <2>1. UNCHANGED <<handlers, result, step, server>>
    BY <1>7 DEF HoldingRegWr
  <2>2. /\ {relay', led', relayState', alarm'} \subseteq BOOLEAN
        /\ unitId' \in UnitIds /\ reply'.op = "write"
    <3>1. CASE RelayWrite(addr, value)
      <4>1. UNCHANGED <<alarm, unitId>>
        BY <3>1 DEF RelayWrite
      <4>2. CASE RelaySet(value = 1)
        <5>1. (value = 1) \in BOOLEAN
          OBVIOUS
        <5>2. /\ relay' \in {relay, value = 1}
              /\ led' \in {led, value = 1} /\ relayState' \in {relayState, value = 1}
          BY <4>2 DEF RelaySet
        <5>3. reply'.op = "write"
          BY <4>2 DEF RelaySet, Request
        <5>4. /\ relay \in BOOLEAN /\ led \in BOOLEAN /\ relayState \in BOOLEAN
              /\ alarm \in BOOLEAN
          BY <1>1
        <5>5. {relay', led', relayState', alarm'} \subseteq BOOLEAN
          BY <4>1, <5>1, <5>2, <5>4
        <5> QED BY <1>1, <4>1, <5>3, <5>5
      <4>3. CASE reply' = Request("write", addr, value, "EINVAL")
                 /\ UNCHANGED <<relay, led, relayState>>
        BY <1>1, <4>1, <4>3 DEF Request
      <4> QED BY <3>1, <4>2, <4>3 DEF RelayWrite
    <3>2. CASE SystemWrite(addr, value)
      BY <1>1, <3>2 DEF SystemWrite, Request
    <3>3. CASE RefuseWrite(addr, value)
      BY <1>1, <3>3 DEF RefuseWrite, Request, devices
    <3> QED BY <1>7, <3>1, <3>2, <3>3 DEF HoldingRegWr
  <2>3. BreakerTypeOK'
    BY <1>1, <2>1, <2>2 DEF BreakerTypeOK
  <2> QED BY <2>1, <2>2, <2>3 DEF ServedIInv, Registered, AllRegistersServed
<1>8. ASSUME NEW addr \in Requested, HoldingRegRd(addr)
      PROVE  ServedIInv'
  <2>1. UNCHANGED <<handlers, result, step, server, relay, led, relayState, alarm,
                    unitId>>
    BY <1>8 DEF HoldingRegRd, devices
  <2>2. reply'.op = "read" /\ reply'.addr = addr
    BY <1>8 DEF HoldingRegRd, Request
  <2>3. step = "poll"
    BY <1>8 DEF HoldingRegRd, BreakerIInv, Booting
  <2>4. addr \in 0 .. 2 => reply'.status = "OK"
    <3>1. addr \in 0 .. 2 => CanRead(addr)
      BY <2>3, RegisterIsRead DEF ServedIInv
    <3> QED BY <1>8, <3>1 DEF HoldingRegRd, Request
  <2>5. BreakerTypeOK'
    BY <1>1, <2>1, <2>2 DEF BreakerTypeOK
  <2> QED BY <2>1, <2>2, <2>4, <2>5 DEF ServedIInv, Registered, AllRegistersServed
<1>9. CASE UNCHANGED breakerVars
  BY <1>9 DEF breakerVars, devices, requests, ServedIInv, BreakerTypeOK, Registered,
              AllRegistersServed
<1> QED BY <1>2, <1>3, <1>4, <1>5, <1>6, <1>7, <1>8, <1>9 DEF BreakerNext

LEMMA ServedInvariance == BreakerSpec => []ServedIInv
<1>1. BreakerInit => ServedIInv
  <2> SUFFICES ASSUME BreakerInit
               PROVE  ServedIInv
    OBVIOUS
  <2>1. handlers = <<>> /\ result = "none"
    BY DEF BreakerInit, MapInit
  <2>2. handlers \in Seq({RelayHandler, SystemHandler}) /\ result \in Results
    BY <2>1 DEF Results
  <2>3. /\ step \in Steps /\ unitId \in UnitIds
        /\ reply.op \in {"none", "read", "write"}
        /\ {server, relay, led, relayState, alarm} \subseteq BOOLEAN
    <3>1. step \in Steps
      BY DEF BreakerInit, Steps
    <3>2. unitId \in UnitIds
      <4>1. unitId = 50
        BY DEF BreakerInit
      <4> QED BY <4>1 DEF UnitIds
    <3>3. reply.op = "none"
      BY DEF BreakerInit, NoReply, Request
    <3>4. {server, relay, led, relayState, alarm} \subseteq BOOLEAN
      <4>1. /\ server = FALSE /\ relay = FALSE /\ led = FALSE
            /\ relayState = FALSE /\ alarm = FALSE
        BY DEF BreakerInit
      <4> QED BY <4>1
    <3> QED BY <3>1, <3>2, <3>3, <3>4
  <2>4. Registered
    BY DEF BreakerInit, Registered, LateSteps
  <2>5. AllRegistersServed
    BY DEF BreakerInit, AllRegistersServed, NoReply, Request
  <2> QED BY <2>2, <2>3, <2>4, <2>5 DEF ServedIInv, BreakerTypeOK
<1> QED BY <1>1, ServedStep, BreakerInvariance, PTL DEF BreakerSpec

(* The parts of the breaker keep their types, and the unit ID its range. *)
THEOREM BreakerTypeCorrect == BreakerSpec => []BreakerTypeOK
<1>1. ServedIInv => BreakerTypeOK
  BY DEF ServedIInv
<1> QED BY <1>1, ServedInvariance, PTL

(* No request ever meets a map that lacks one of main's registers. *)
THEOREM RegistersAreServed == BreakerSpec => []AllRegistersServed
<1>1. ServedIInv => AllRegistersServed
  BY DEF ServedIInv
<1> QED BY <1>1, ServedInvariance, PTL
=============================================================================
