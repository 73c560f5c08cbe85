----------------------- MODULE ModemRefinementProofs -----------------------
(**************************************************************************)
(* The modem driver implements the power contract ModemPower: every event *)
(* handler, environment step and call is a step of the contract or leaves *)
(* its variables alone.  The invariant of ModemProofs tells what the      *)
(* token is; what remains is to follow the power manager's record, the    *)
(* state and the RESUME events through the helpers of the driver.         *)
(**************************************************************************)
EXTENDS ModemProofs, ModemRefinesPower

(* The fields of the driver's data the contract is about. *)
Shape(d) ==
  /\ {"state", "events", "pm", "sem"} \subseteq DOMAIN d
  /\ d.events \in Seq(Events)
Pend(q) == \E i \in DOMAIN q : q[i] = "RESUME"

(* What a helper leaves alone: everything; all but state and token; all but *)
(* the token, which it gives to a waiting suspend call, and the state.      *)
Keeps(d, r) ==
  /\ Shape(r) /\ r.pm = d.pm
  /\ Pend(r.events) <=> Pend(d.events)
Still(d, r) == Keeps(d, r) /\ r.state = d.state /\ r.sem = d.sem
Halts(d, r) ==
  /\ Shape(r) /\ r.state = "IDLE"
  /\ Pend(r.events) <=> Pend(d.events)
  /\ IF d.pm = "waiting" THEN r.pm = "suspended" /\ r.sem = d.sem
                         ELSE r.pm = d.pm /\ r.sem = 1

Step == Power!Driver \/ Power!Manager \/ UNCHANGED Power!power

-----------------------------------------------------------------------------
(* The event pipe *)

(* Appending to the pipe queues a RESUME only if that is what is appended. *)
LEMMA PendAppend ==
  ASSUME NEW q \in Seq(Events), NEW e \in Events
  PROVE  /\ Append(q, e) \in Seq(Events)
         /\ Pend(Append(q, e)) <=> Pend(q) \/ e = "RESUME"
<1> DEFINE r == Append(q, e)
<1>1. /\ r \in Seq(Events) /\ Len(q) \in Nat
      /\ DOMAIN q = 1 .. Len(q) /\ DOMAIN r = 1 .. (Len(q) + 1)
      /\ \A i \in 1 .. Len(q) : r[i] = q[i]
      /\ r[Len(q) + 1] = e
  OBVIOUS
<1> HIDE DEF r
<1>2. ASSUME Pend(q) PROVE Pend(r)
  BY <1>1, <1>2 DEF Pend
<1>3. ASSUME e = "RESUME" PROVE Pend(r)
  <2>1. Len(q) + 1 \in DOMAIN r
    BY <1>1
  <2> QED
    BY <1>1, <1>3, <2>1 DEF Pend
<1>4. ASSUME Pend(r), e # "RESUME" PROVE Pend(q)
  <2>1. PICK i \in DOMAIN r : r[i] = "RESUME"
    BY <1>4 DEF Pend
  <2>2. i \in 1 .. Len(q)
    BY <1>1, <1>4, <2>1
  <2> QED
    BY <1>1, <2>1, <2>2 DEF Pend
<1> QED
  BY <1>1, <1>2, <1>3, <1>4 DEF r

(* Reading the pipe takes away its head and nothing else. *)
LEMMA PendTail ==
  ASSUME NEW q \in Seq(Events), q # <<>>
  PROVE  /\ Tail(q) \in Seq(Events)
         /\ Pend(q) <=> Head(q) = "RESUME" \/ Pend(Tail(q))
<1> DEFINE r == Tail(q)
<1>1. /\ r \in Seq(Events) /\ Len(q) \in Nat /\ Len(q) >= 1
      /\ DOMAIN q = 1 .. Len(q) /\ DOMAIN r = 1 .. (Len(q) - 1)
      /\ Head(q) = q[1]
      /\ \A i \in 1 .. (Len(q) - 1) : r[i] = q[i + 1]
  OBVIOUS
<1> HIDE DEF r
<1>2. ASSUME Pend(q), Head(q) # "RESUME" PROVE Pend(r)
  <2>1. PICK i \in DOMAIN q : q[i] = "RESUME"
    BY <1>2 DEF Pend
  <2>2. i - 1 \in 1 .. (Len(q) - 1) /\ (i - 1) + 1 = i
    BY <1>1, <1>2, <2>1
  <2>3. r[i - 1] = "RESUME"
    BY <1>1, <2>1, <2>2
  <2> QED
    BY <1>1, <2>2, <2>3 DEF Pend
<1>3. ASSUME Head(q) = "RESUME" PROVE Pend(q)
  <2>1. 1 \in DOMAIN q
    BY <1>1
  <2> QED
    BY <1>1, <1>3, <2>1 DEF Pend
<1>4. ASSUME Pend(r) PROVE Pend(q)
  <2>1. PICK i \in DOMAIN r : r[i] = "RESUME"
    BY <1>4 DEF Pend
  <2>2. i + 1 \in DOMAIN q
    BY <1>1, <2>1
  <2>3. q[i + 1] = "RESUME"
    BY <1>1, <2>1
  <2> QED
    BY <2>2, <2>3 DEF Pend
<1> QED
  BY <1>1, <1>2, <1>3, <1>4 DEF r

-----------------------------------------------------------------------------
(* The helpers *)

(* The parts of the contract are kept by steps one after the other. *)
LEMMA StillTransitive ==
  ASSUME NEW d, NEW e, NEW r, Still(d, e), Still(e, r)
  PROVE  Still(d, r)
BY DEF Still, Keeps
LEMMA StillShape ==
  ASSUME NEW d, NEW r, Still(d, r)
  PROVE  Shape(r)
BY DEF Still, Keeps

(* Timer, counters, pins and the like. *)
LEMMA TimerStill ==
  ASSUME NEW d, Shape(d)
  PROVE  Still(d, StartTimer(d)) /\ Still(d, StopTimer(d))
<1>1. Still(d, StopTimer(d))
  BY DEF Still, Keeps, Shape, StopTimer
<1>2. Still(d, [d EXCEPT !.timer = d.state])
  BY DEF Still, Keeps, Shape
<1>3. Still(d, d)
  BY DEF Still, Keeps
<1> QED
  BY <1>1, <1>2, <1>3 DEF StartTimer

LEMMA AttachStill ==
  ASSUME NEW d, Shape(d), NEW p, NEW owner
  PROVE  Still(d, Attach(d, p, owner)) /\ Still(d, Release(d, p))
<1>1. \A o : Still(d, Attach(d, p, o))
  BY DEF Still, Keeps, Shape, Attach
<1> QED
  BY <1>1 DEF Release

LEMMA RequestStill ==
  ASSUME NEW d, Shape(d), NEW p
  PROVE  /\ Still(d, OpenAsync(d, p)) /\ Still(d, CloseAsync(d, p))
         /\ Still(d, OpenBus(d)) /\ Still(d, CloseBus(d))
<1>1. ASSUME NEW e, Shape(e), NEW n, NEW op
      PROVE  Still(e, Request(e, n, op))
  BY <1>1 DEF Still, Keeps, Shape, Request
<1>2. Still(d, Attach(d, "UART", "driver")) /\ Shape(Attach(d, "UART", "driver"))
  BY AttachStill DEF Still, Keeps
<1> QED
  BY <1>1, <1>2, StillTransitive
  DEF OpenAsync, CloseAsync, OpenBus, CloseBus

LEMMA ChatStill ==
  ASSUME NEW d, Shape(d), NEW p, NEW s
  PROVE  /\ Still(d, ChatAttach(d, p)) /\ Still(d, ChatRelease(d))
         /\ Still(d, RunScript(d, s))
<1>1. Still(d, d)
  BY DEF Still, Keeps
<1>2. ASSUME NEW e, Shape(e), NEW x, NEW y
      PROVE  /\ Still(e, [e EXCEPT !.chatPipe = x])
             /\ Still(e, [e EXCEPT !.script = y])
             /\ Still(e, [e EXCEPT !.chatPipe = x, !.script = y])
  BY <1>2 DEF Still, Keeps, Shape
<1>3. ASSUME NEW q, NEW o
      PROVE  Still(d, Attach(d, q, o)) /\ Shape(Attach(d, q, o))
  BY AttachStill DEF Still, Keeps
<1>4. Still(d, ChatAttach(d, p))
  BY <1>2, <1>3, StillTransitive DEF ChatAttach
<1>5. Still(d, ChatRelease(d))
  BY <1>2, <1>3, StillTransitive DEF ChatRelease, Release
<1>6. Still(d, RunScript(d, s))
  BY <1>1, <1>2 DEF RunScript
<1> QED
  BY <1>4, <1>5, <1>6

LEMMA CmuxStill ==
  ASSUME NEW d, Shape(d)
  PROVE  /\ Still(d, CloseDlcis(d)) /\ Still(d, CmuxAttach(d))
         /\ Still(d, CmuxConnect(d)) /\ Still(d, CmuxDisconnect(d))
         /\ Still(d, CmuxRelease(d))
<1>1. Still(d, d)
  BY DEF Still, Keeps
<1>2. ASSUME NEW e, Shape(e), NEW x PROVE Still(e, [e EXCEPT !.cmux = x])
  BY <1>2 DEF Still, Keeps, Shape
<1>3. ASSUME NEW e, Shape(e) PROVE Still(e, CloseDlcis(e)) /\ Shape(CloseDlcis(e))
  BY <1>3 DEF Still, Keeps, Shape, CloseDlcis
<1>4. ASSUME NEW o
      PROVE  Still(d, Attach(d, "UART", o)) /\ Shape(Attach(d, "UART", o))
  BY AttachStill DEF Still, Keeps
<1>5. Still(d, CmuxAttach(d))
  BY <1>2, <1>4, StillTransitive DEF CmuxAttach
<1>6. Still(d, CmuxConnect(d)) /\ Still(d, CmuxDisconnect(d))
  BY <1>2 DEF CmuxConnect, CmuxDisconnect
<1>7. Still(d, CmuxRelease(d))
  BY <1>1, <1>2, <1>3, <1>4, StillTransitive DEF CmuxRelease, Release
<1> QED
  BY <1>3, <1>5, <1>6, <1>7

LEMMA PppStill ==
  ASSUME NEW d, Shape(d)
  PROVE  /\ Still(d, PppAttach(d)) /\ Still(d, PppRelease(d))
         /\ Still(d, CarrierOff(d))
<1>1. Still(d, d)
  BY DEF Still, Keeps
<1>2. ASSUME NEW e, Shape(e), NEW x PROVE Still(e, [e EXCEPT !.ppp = x])
  BY <1>2 DEF Still, Keeps, Shape
<1>3. ASSUME NEW o
      PROVE  Still(d, Attach(d, "DLCI1", o)) /\ Shape(Attach(d, "DLCI1", o))
  BY AttachStill DEF Still, Keeps
<1>4. Still(d, PppAttach(d)) /\ Still(d, PppRelease(d))
  BY <1>1, <1>2, <1>3, StillTransitive DEF PppAttach, PppRelease, Release
<1>5. Still(d, CarrierOff(d))
  BY DEF Still, Keeps, Shape, CarrierOff
<1> QED
  BY <1>4, <1>5

(* Assignments to the other fields. *)
LEMMA FieldStill ==
  ASSUME NEW d, Shape(d), NEW x, NEW y, NEW z
  PROVE  /\ Still(d, [d EXCEPT !.users = x]) /\ Still(d, [d EXCEPT !.cmdPipe = x])
         /\ Still(d, [d EXCEPT !.failures = x]) /\ Still(d, [d EXCEPT !.dormant = x])
         /\ Still(d, [d EXCEPT !.cmux = x]) /\ Still(d, [d EXCEPT !.pppLive = x])
         /\ Still(d, [d EXCEPT !.registered = x])
         /\ Still(d, [d EXCEPT !.recovered = x])
         /\ Still(d, [d EXCEPT !.apnScript = x])
         /\ Still(d, [d EXCEPT !.originalBaud = x])
         /\ Still(d, [d EXCEPT !.baud = x]) /\ Still(d, BaudrateUpdate(d, x))
         /\ Still(d, [d EXCEPT !.apn = x, !.lateApn = y])
         /\ Still(d, [d EXCEPT !.script = x, !.done = y])
         /\ Still(d, [d EXCEPT !.ops = x, !.open = y])
         /\ Still(d, [d EXCEPT !.carrier = x, !.pppLive = y])
         /\ Still(d, [d EXCEPT !.wake = x, !.reset = y])
         /\ Still(d, [d EXCEPT !.reset = x, !.wake = y])
         /\ Still(d, [d EXCEPT !.wake = x, !.users = y, !.reset = z])
         /\ Still(d, d)
BY DEF Still, Keeps, Shape, BaudrateUpdate

(* Queueing an event. *)
LEMMA DelegateKeeps ==
  ASSUME NEW d, Shape(d), NEW e \in Events
  PROVE  LET r == Delegate(d, e)
         IN  /\ Shape(r) /\ r.pm = d.pm /\ r.state = d.state /\ r.sem = d.sem
             /\ e # "RESUME" => Still(d, r)
             /\ e = "RESUME" => Pend(r.events) \/ Pend(r.events) = Pend(d.events)
<1>1. /\ Append(d.events, e) \in Seq(Events)
      /\ Pend(Append(d.events, e)) <=> Pend(d.events) \/ e = "RESUME"
  BY PendAppend DEF Shape
<1>2. CASE Len(d.events) < EventPipeSize
  BY <1>1, <1>2 DEF Delegate, Still, Keeps, Shape
<1>3. CASE ~(Len(d.events) < EventPipeSize)
  BY <1>3 DEF Delegate, Still, Keeps, Shape
<1> QED
  BY <1>2, <1>3

-----------------------------------------------------------------------------
(* Leaving and entering states *)

(* Only the leave function of IDLE touches the token. *)
LEMMA LeaveKeeps ==
  ASSUME NEW d, Shape(d)
  PROVE  LET r == OnStateLeave(d)
         IN  /\ Keeps(d, r) /\ r.state = d.state
             /\ d.state # "IDLE" => Still(d, r)
<1>1. CASE d.state = "IDLE"
  <2>1. OnStateLeave(d) = IdleLeave(d)
    BY <1>1 DEF OnStateLeave
  <2>2. Keeps(d, IdleLeave(d)) /\ IdleLeave(d).state = d.state
    BY DEF IdleLeave, Keeps, Shape
  <2> QED
    BY <1>1, <2>1, <2>2
<1>2. CASE d.state = "RESET_PULSE"
  <2>1. OnStateLeave(d) = StopTimer([d EXCEPT !.reset = FALSE, !.wake = TRUE])
    BY <1>2 DEF OnStateLeave, ResetPulseLeave
  <2>2. Still(d, [d EXCEPT !.reset = FALSE, !.wake = TRUE])
    BY FieldStill
  <2>3. Still(d, OnStateLeave(d))
    BY <2>1, <2>2, TimerStill, StillTransitive, StillShape
  <2> QED
    BY <1>2, <2>3 DEF Still
<1>3. CASE d.state \in {"AWAIT_RESET", "POWER_ON_PULSE", "AWAIT_REGISTERED",
                        "CARRIER_ON", "POWER_OFF_PULSE"}
  <2>1. OnStateLeave(d) = StopTimer(d)
    BY <1>3 DEF OnStateLeave
  <2> QED
    BY <1>3, <2>1, TimerStill DEF Still
<1>4. CASE d.state \in {"OPEN_DLCI1", "OPEN_DLCI2", "RUN_DIAL_SCRIPT",
                        "RUN_SHUTDOWN_SCRIPT"}
  <2>1. OnStateLeave(d) \in {Release(d, "DLCI1"), Release(d, "DLCI2"),
                             ChatRelease(d)}
    BY <1>4 DEF OnStateLeave
  <2>2. Still(d, OnStateLeave(d))
    BY <2>1, AttachStill, ChatStill
  <2> QED
    BY <1>4, <2>2 DEF Still
<1>5. CASE d.state = "DORMANT"
  <2> DEFINE a == CarrierOff(d)
             b == ChatRelease(a)
             c == PppRelease(b)
  <2>1. OnStateLeave(d) = [c EXCEPT !.dormant = FALSE]
    BY <1>5 DEF OnStateLeave, DormantLeave
  <2>2. Still(d, a)
    BY PppStill
  <2>3. Still(d, b)
    BY <2>2, ChatStill, StillTransitive, StillShape
  <2>4. Still(d, c)
    BY <2>3, PppStill, StillTransitive, StillShape
  <2> HIDE DEF c
  <2>5. Still(d, OnStateLeave(d))
    BY <2>1, <2>4, FieldStill, StillTransitive, StillShape
  <2> QED
    BY <2>5 DEF Still
<1>6. CASE d.state = "INIT_POWER_OFF"
  <2> DEFINE a == [d EXCEPT !.users = FALSE]
             b == ChatRelease(a)
  <2>1. OnStateLeave(d) = PppRelease(b)
    BY <1>6 DEF OnStateLeave, InitPowerOffLeave
  <2>2. Still(d, a)
    BY FieldStill
  <2> HIDE DEF a
  <2>3. Still(d, b)
    BY <2>2, ChatStill, StillTransitive, StillShape
  <2> HIDE DEF b
  <2>4. Still(d, OnStateLeave(d))
    BY <2>1, <2>3, PppStill, StillTransitive, StillShape
  <2> QED
    BY <2>4 DEF Still
<1>7. CASE d.state \notin {"IDLE", "RESET_PULSE", "AWAIT_RESET",
            "POWER_ON_PULSE", "AWAIT_REGISTERED", "CARRIER_ON",
            "POWER_OFF_PULSE", "OPEN_DLCI1", "OPEN_DLCI2", "RUN_DIAL_SCRIPT",
            "RUN_SHUTDOWN_SCRIPT", "DORMANT", "INIT_POWER_OFF"}
  <2>1. OnStateLeave(d) = d
    BY <1>7 DEF OnStateLeave
  <2> QED
    BY <2>1, FieldStill DEF Still
<1> QED
  BY <1>1, <1>2, <1>3, <1>4, <1>5, <1>6, <1>7

(* Storing the next state keeps the rest. *)
LEMMA BecomeKeeps ==
  ASSUME NEW d, Shape(d), NEW s
  PROVE  LET r == Become(d, s)
         IN  /\ Keeps(d, r) /\ r.state = s
             /\ d.state # "IDLE" => r.sem = d.sem
<1> DEFINE a == OnStateLeave(d)
<1>1. Keeps(d, a) /\ (d.state # "IDLE" => Still(d, a))
  BY LeaveKeeps
<1>2. Become(d, s) = [a EXCEPT !.state = s, !.done = {}]
  BY DEF Become
<1> HIDE DEF a
<1> QED
  BY <1>1, <1>2 DEF Keeps, Still, Shape

(* Entering IDLE gives the token, to a waiting suspend call if there is one. *)
LEMMA IdleEnterHalts ==
  ASSUME NEW d, Shape(d), d.state = "IDLE"
  PROVE  Halts(d, IdleEnter(d))
<1> DEFINE a == CloseAsync(CmuxRelease(PppRelease(ChatRelease(d))), "UART")
           b == [a EXCEPT !.wake = FALSE, !.users = FALSE,
                          !.reset = (HasResetGpio /\ HoldResetOnSuspend) \/ @]
<1>1. IdleEnter(d) = SemGive(b)
  BY DEF IdleEnter
<1>2. Still(d, ChatRelease(d))
  BY ChatStill
<1>3. Still(d, PppRelease(ChatRelease(d)))
  BY <1>2, PppStill, StillTransitive, StillShape
<1>4. Still(d, CmuxRelease(PppRelease(ChatRelease(d))))
  BY <1>3, CmuxStill, StillTransitive, StillShape
<1>5. Still(d, a)
  BY <1>4, RequestStill, StillTransitive, StillShape
<1> HIDE DEF a
<1>6. Still(d, b)
  BY <1>5, FieldStill, StillTransitive, StillShape
<1> HIDE DEF b
<1>7. CASE b.pm = "waiting"
  BY <1>1, <1>6, <1>7 DEF SemGive, Still, Keeps, Halts, Shape
<1>8. CASE b.pm # "waiting"
  BY <1>1, <1>6, <1>8 DEF SemGive, Still, Keeps, Halts, Shape
<1> QED
  BY <1>7, <1>8

(* Entering another state gives nothing; a registered modem queues its own *)
(* REGISTERED event.                                                       *)
LEMMA EnterKeeps ==
  ASSUME NEW d, Shape(d), d.state # "IDLE"
  PROVE  Still(d, OnStateEnter(d))
<1>1. CASE d.state = "RESET_PULSE"
  <2> DEFINE a == IF d.originalBaud # "none"
                  THEN BaudrateUpdate(d, d.originalBaud) ELSE d
             b == [a EXCEPT !.wake = FALSE, !.reset = TRUE]
  <2>1. OnStateEnter(d) = StartTimer(b)
    BY <1>1 DEF OnStateEnter, ResetPulseEnter
  <2>2. Still(d, a)
    BY FieldStill
  <2> HIDE DEF a
  <2>3. Still(d, b)
    BY <2>2, FieldStill, StillTransitive, StillShape
  <2> HIDE DEF b
  <2> QED
    BY <2>1, <2>3, TimerStill, StillTransitive, StillShape
<1>2. CASE d.state \in {"AWAIT_RESET", "POWER_ON_PULSE", "CONNECT_CMUX",
                        "RUN_DIAL_SCRIPT", "AWAIT_POWER_OFF"}
  <2>1. OnStateEnter(d) = StartTimer(d)
    BY <1>2 DEF OnStateEnter
  <2> QED
    BY <2>1, TimerStill
<1>3. CASE d.state = "AWAIT_POWER_ON"
  <2>1. OnStateEnter(d) = OpenBus(StartTimer(d))
    BY <1>3 DEF OnStateEnter, AwaitPowerOnEnter
  <2> QED
    BY <2>1, TimerStill, RequestStill, StillTransitive, StillShape
<1>4. CASE d.state \in {"SET_BAUDRATE", "RUN_INIT_SCRIPT"}
  <2>1. OnStateEnter(d) = OpenBus(d)
    BY <1>4 DEF OnStateEnter
  <2> QED
    BY <2>1, RequestStill
<1>5. CASE d.state \in {"OPEN_DLCI1", "OPEN_DLCI2"}
  <2>1. \E p : OnStateEnter(d) = OpenAsync(Attach(d, p, "driver"), p)
    BY <1>5 DEF OnStateEnter
  <2> QED
    BY <2>1, AttachStill, RequestStill, StillTransitive, StillShape
<1>6. CASE d.state = "RUN_APN_SCRIPT"
  <2> DEFINE a == StartTimer(d)
  <2>1. OnStateEnter(d) =
          [a EXCEPT !.apnScript = IF UseDefaultApn THEN "none" ELSE a.apn]
    BY <1>6 DEF OnStateEnter, BuildApnScript
  <2>2. Still(d, a)
    BY TimerStill
  <2> HIDE DEF a
  <2> QED
    BY <2>1, <2>2, FieldStill, StillTransitive, StillShape
<1>7. CASE d.state = "AWAIT_REGISTERED"
  <2> DEFINE a == PppAttach(d)
             b == IF IsRegistered(d) THEN Delegate(a, "REGISTERED") ELSE a
             c == StartTimer(b)
  <2>1. OnStateEnter(d) = ChatAttach(c, "DLCI2")
    BY <1>7 DEF OnStateEnter, AwaitRegisteredEnter
  <2>2. Still(d, a)
    BY PppStill
  <2> HIDE DEF a
  <2>3. Shape(a) /\ "REGISTERED" \in Events /\ "REGISTERED" # "RESUME"
    BY <2>2 DEF Still, Keeps, Events
  <2>4. Still(a, Delegate(a, "REGISTERED"))
    BY <2>3, DelegateKeeps
  <2>5. Still(d, b)
    BY <2>2, <2>4, StillTransitive
  <2> HIDE DEF b
  <2>6. Still(d, c)
    BY <2>5, TimerStill, StillTransitive, StillShape
  <2> HIDE DEF c
  <2> QED
    BY <2>1, <2>6, ChatStill, StillTransitive, StillShape
<1>8. CASE d.state = "CARRIER_ON"
  <2> DEFINE a == [d EXCEPT !.carrier = TRUE, !.pppLive = TRUE]
  <2>1. OnStateEnter(d) = StartTimer(a)
    BY <1>8 DEF OnStateEnter, CarrierOnEnter
  <2>2. Still(d, a)
    BY FieldStill
  <2> HIDE DEF a
  <2> QED
    BY <2>1, <2>2, TimerStill, StillTransitive, StillShape
<1>9. CASE d.state = "DORMANT"
  <2>1. OnStateEnter(d) = [d EXCEPT !.dormant = TRUE]
    BY <1>9 DEF OnStateEnter
  <2>2. Still(d, [d EXCEPT !.dormant = TRUE])
    BY FieldStill
  <2> QED
    BY <2>1, <2>2
<1>10. CASE d.state = "INIT_POWER_OFF"
  <2>1. OnStateEnter(d) = StartTimer(CmuxDisconnect(d))
    BY <1>10 DEF OnStateEnter, InitPowerOffEnter
  <2> QED
    BY <2>1, CmuxStill, TimerStill, StillTransitive, StillShape
<1>11. CASE d.state = "RUN_SHUTDOWN_SCRIPT"
  <2>1. OnStateEnter(d) = RunScript(ChatAttach(d, d.cmdPipe), "shutdown")
    BY <1>11 DEF OnStateEnter
  <2> QED
    BY <2>1, ChatStill, StillTransitive, StillShape
<1>12. CASE d.state = "POWER_OFF_PULSE"
  <2> DEFINE a == [d EXCEPT !.cmdPipe = "none"]
  <2>1. OnStateEnter(d) = StartTimer(a)
    BY <1>12 DEF OnStateEnter
  <2>2. Still(d, a)
    BY FieldStill
  <2> HIDE DEF a
  <2> QED
    BY <2>1, <2>2, TimerStill, StillTransitive, StillShape
<1>13. CASE d.state \notin States \ {"WAIT_FOR_APN"}
  <2>1. OnStateEnter(d) = d
    BY <1>13 DEF OnStateEnter, States
  <2> QED
    BY <2>1, FieldStill
<1> QED
  BY <1>1, <1>2, <1>3, <1>4, <1>5, <1>6, <1>7, <1>8, <1>9, <1>10, <1>11,
     <1>12, <1>13 DEF States

(* enter_state, to IDLE and to any other state. *)
LEMMA EnterStateKeeps ==
  ASSUME NEW d, Shape(d), NEW s
  PROVE  LET r == EnterState(d, s)
         IN  /\ s # "IDLE" => Keeps(d, r) /\ r.state = s
             /\ s = "IDLE" /\ d.state # "IDLE" => Halts(d, r)
<1> DEFINE a == Become(d, s)
<1>1. /\ Keeps(d, a) /\ a.state = s
      /\ d.state # "IDLE" => a.sem = d.sem
  BY BecomeKeeps
<1>2. EnterState(d, s) = OnStateEnter(a)
  BY DEF EnterState
<1> HIDE DEF a
<1>3. CASE s # "IDLE"
  <2>1. Still(a, OnStateEnter(a))
    BY <1>1, <1>3, EnterKeeps DEF Keeps
  <2> QED
    BY <1>1, <1>2, <1>3, <2>1 DEF Still, Keeps
<1>4. CASE s = "IDLE"
  <2>1. OnStateEnter(a) = IdleEnter(a)
    BY <1>1, <1>4 DEF OnStateEnter
  <2>2. Halts(a, IdleEnter(a))
    BY <1>1, <1>4, IdleEnterHalts DEF Keeps
  <2> QED
    BY <1>1, <1>2, <1>4, <2>1, <2>2 DEF Halts, Keeps
<1> QED
  BY <1>3, <1>4

-----------------------------------------------------------------------------
(* Steps of the contract *)

(* What reading the pipe does to the contract. *)
LEMMA TakenKeeps ==
  ASSUME GoodData(data), data.events # <<>>
  PROVE  /\ Shape(data) /\ Shape(Taken)
         /\ Taken.pm = data.pm /\ Taken.sem = data.sem
         /\ Taken.state = data.state
         /\ Event # "RESUME" => Still(data, Taken)
         /\ Event = "RESUME" => Pend(data.events)
<1>1. data \in Data /\ data.events \in Seq(Events)
  BY FieldTypes DEF GoodData
<1>2. /\ Tail(data.events) \in Seq(Events)
      /\ Pend(data.events) <=> Event = "RESUME" \/ Pend(Tail(data.events))
  BY <1>1, PendTail DEF Event
<1>3. Shape(data)
  BY <1>1 DEF Shape, Data
<1>4. /\ Taken.events = Tail(data.events)
      /\ Taken.pm = data.pm /\ Taken.sem = data.sem
      /\ Taken.state = data.state /\ Shape(Taken)
  BY <1>2, <1>3 DEF Taken, Shape
<1> QED
  BY <1>2, <1>3, <1>4 DEF Still, Keeps

(* The token of a good record is 0 outside IDLE. *)
LEMMA NoToken ==
  ASSUME NEW d, GoodData(d)
  PROVE  /\ Shape(d) /\ d.sem \in {0, 1} /\ d.state \in States
         /\ d.state # "IDLE" => d.sem = 0
<1>1. d.sem \in {0, 1} /\ d.state \in States /\ d.events \in Seq(Events)
  BY FieldTypes DEF GoodData, Tokens
<1>2. Shape(d)
  BY <1>1 DEF GoodData, Data, Shape
<1> QED
  BY <1>1, <1>2 DEF GoodData, Good, Sound

(* Only IDLE is the phase off. *)
LEMMA OffIsIdle ==
  ASSUME NEW s \in States
  PROVE  /\ PhaseOf(s) = "off" <=> s = "IDLE"
         /\ PhaseOf(s) \in Power!Phases
BY DEF PhaseOf, States, BootingStates, LinkingStates, Power!Phases, Power!Moves

(* Nothing of the contract changes. *)
LEMMA Stutters ==
  ASSUME data'.state = data.state \/ PhaseOf(data'.state) = PhaseOf(data.state),
         data'.pm = data.pm, data'.sem = data.sem,
         Pend(data'.events) <=> Pend(data.events)
  PROVE  Step
BY DEF Step, Power!power, Queued, Pend

(* An event that the state has no case for is forgotten. *)
LEMMA Ignored ==
  ASSUME GoodData(data), data.events # <<>>, data' = Taken,
         data.state # "IDLE" \/ Event # "RESUME"
  PROVE  Step
<1>1. CASE Event # "RESUME"
  BY <1>1, TakenKeeps, Stutters DEF Still, Keeps
<1>2. CASE Event = "RESUME" /\ Pend(Taken.events)
  BY <1>2, TakenKeeps, Stutters
<1>3. CASE Event = "RESUME" /\ ~Pend(Taken.events)
  <2>1. PhaseOf(data.state) # "off"
    BY <1>3, NoToken, OffIsIdle
  <2>2. /\ Pend(data.events) /\ ~Pend(data'.events)
        /\ data'.pm = data.pm /\ data'.sem = data.sem
        /\ data'.state = data.state
    BY <1>3, TakenKeeps
  <2>3. Power!Forget
    BY <2>1, <2>2 DEF Power!Forget, Queued, Pend
  <2> QED
    BY <2>3 DEF Step, Power!Driver
<1> QED
  BY <1>1, <1>2, <1>3

(* An event other than RESUME is handled, and the session stays in its *)
(* phase or moves to one that may follow.                              *)
LEMMA Moved ==
  ASSUME GoodData(data), GoodData(data'), data.events # <<>>, Event # "RESUME",
         Keeps(Taken, data'), data.state # "IDLE", data'.state # "IDLE",
         \/ PhaseOf(data'.state) = PhaseOf(data.state)
         \/ PhaseOf(data'.state) \in Power!Moves[PhaseOf(data.state)]
  PROVE  Step
<1>1. /\ data'.pm = data.pm /\ data'.sem = data.sem
      /\ Pend(data'.events) <=> Pend(data.events)
  BY TakenKeeps, NoToken DEF Keeps, Still
<1>2. CASE PhaseOf(data'.state) = PhaseOf(data.state)
  BY <1>1, <1>2, Stutters
<1>3. CASE PhaseOf(data'.state) \in Power!Moves[PhaseOf(data.state)]
  <2>1. PhaseOf(data'.state) \in Power!Phases
    BY NoToken, OffIsIdle
  <2>2. Power!Advance(PhaseOf(data'.state))
    BY <1>1, <1>3 DEF Power!Advance, Queued, Pend
  <2> QED
    BY <2>1, <2>2 DEF Step, Power!Driver
<1> QED
  BY <1>2, <1>3

(* An event other than RESUME ends the session. *)
LEMMA Stopped ==
  ASSUME GoodData(data), data.events # <<>>, Event # "RESUME",
         Halts(Taken, data'), PhaseOf(data.state) \in {"booting", "stopping"}
  PROVE  Step
<1>1. PhaseOf(data'.state) = "off"
  BY OffIsIdle DEF Halts, States
<1>2. /\ Pend(data'.events) <=> Pend(data.events)
      /\ IF data.pm = "waiting"
         THEN data'.pm = "suspended" /\ data'.sem = data.sem
         ELSE data'.pm = data.pm /\ data'.sem = 1
  BY TakenKeeps DEF Halts, Still, Keeps
<1>3. Power!Stop
  BY <1>1, <1>2 DEF Power!Stop, Power!Give, Queued, Pend
<1> QED
  BY <1>3 DEF Step, Power!Driver

(* The three ways a handler ends: it stays in its state, ... *)
LEMMA Stays ==
  ASSUME GoodData(data), GoodData(data'), data.events # <<>>, Event # "RESUME",
         data.state # "IDLE", Still(Taken, data')
  PROVE  Step
<1>1. data'.state = data.state /\ Keeps(Taken, data')
  BY TakenKeeps DEF Still
<1> QED
  BY <1>1, Moved

(* ... enters a state other than IDLE, ... *)
LEMMA Enters ==
  ASSUME GoodData(data), GoodData(data'), data.events # <<>>, Event # "RESUME",
         data.state # "IDLE", NEW d, Still(Taken, d), NEW s, s # "IDLE",
         data' = EnterState(d, s),
         \/ PhaseOf(s) = PhaseOf(data.state)
         \/ PhaseOf(s) \in Power!Moves[PhaseOf(data.state)]
  PROVE  Step
<1>1. Keeps(d, data') /\ data'.state = s
  BY StillShape, EnterStateKeeps
<1>2. Keeps(Taken, data')
  BY <1>1 DEF Keeps, Still
<1> QED
  BY <1>1, <1>2, Moved

(* ... or enters IDLE. *)
LEMMA Idles ==
  ASSUME GoodData(data), data.events # <<>>, Event # "RESUME",
         NEW d, Still(Taken, d), data' = EnterState(d, "IDLE"),
         data.state # "IDLE", PhaseOf(data.state) \in {"booting", "stopping"}
  PROVE  Step
<1>1. d.state # "IDLE"
  BY TakenKeeps DEF Still
<1>2. Halts(d, data')
  BY <1>1, StillShape, EnterStateKeeps
<1>3. Halts(Taken, data')
  BY <1>2 DEF Halts, Still, Keeps
<1> QED
  BY <1>3, Stopped

-----------------------------------------------------------------------------
(* The event handlers *)

LEMMA StatePhases ==
  /\ \A s \in BootingStates : PhaseOf(s) = "booting" /\ s # "IDLE"
  /\ \A s \in LinkingStates : PhaseOf(s) = "linking" /\ s # "IDLE"
  /\ PhaseOf("AWAIT_REGISTERED") = "attached"
  /\ PhaseOf("CARRIER_ON") = "online" /\ PhaseOf("DORMANT") = "dormant"
  /\ \A s \in PowerOffStates : PhaseOf(s) = "stopping" /\ s # "IDLE"
BY DEF PhaseOf, BootingStates, LinkingStates, PowerOffStates

LEMMA PhaseMoves ==
  /\ Power!Moves["booting"] = {"linking"}
  /\ Power!Moves["linking"] = {"attached", "stopping"}
  /\ Power!Moves["attached"] = {"online", "stopping"}
  /\ Power!Moves["online"] = {"dormant", "linking", "stopping"}
  /\ Power!Moves["dormant"] = {"linking"}
BY DEF Power!Moves

(* What a handler may assume. *)
LEMMA TakenStill ==
  ASSUME GoodData(data), data.events # <<>>
  PROVE  Shape(Taken) /\ Still(Taken, Taken)
BY TakenKeeps, FieldStill

(* In IDLE a RESUME starts a session and a SUSPEND gives the token again. *)
LEMMA IdleStep ==
  ASSUME GoodData(data), GoodData(data'), IdleHandler
  PROVE  Step
<1>1. data.state = "IDLE" /\ data.events # <<>> /\ PhaseOf("IDLE") = "off"
  BY OffIsIdle DEF IdleHandler, In, States
<1>2. CASE Event = "RESUME"
  <2>1. data' = EnterState(Taken, ResumeState)
    BY <1>2 DEF IdleHandler, On, Ignores
  <2>2. ResumeState \in BootingStates
    BY DEF ResumeState, BootState, BootingStates
  <2>3. Keeps(Taken, data') /\ data'.state = ResumeState
    BY <1>1, <2>1, <2>2, StatePhases, TakenStill, EnterStateKeeps
  <2>4. PhaseOf(data'.state) = "booting" /\ data'.sem = 0
    BY <2>2, <2>3, StatePhases, NoToken
  <2>5. Pend(data.events) /\ data'.pm = data.pm
    BY <1>1, <1>2, <2>3, TakenKeeps DEF Keeps
  <2>6. Power!Start
    BY <1>1, <2>4, <2>5 DEF Power!Start, Queued, Pend
  <2> QED
    BY <2>6 DEF Step, Power!Driver
<1>3. CASE Event = "SUSPEND"
  <2>1. data' = SemGive(Taken)
    BY <1>3 DEF IdleHandler, On, Ignores
  <2>2. Still(data, Taken) /\ Shape(Taken)
    BY <1>1, <1>3, TakenKeeps
  <2>3. /\ data'.state = data.state /\ data'.events = Taken.events
        /\ IF data.pm = "waiting"
           THEN data'.pm = "suspended" /\ data'.sem = data.sem
           ELSE data'.pm = data.pm /\ data'.sem = 1
    BY <2>1, <2>2 DEF SemGive, Still, Keeps, Shape
  <2>4. Pend(data'.events) <=> Pend(data.events)
    BY <2>2, <2>3 DEF Still, Keeps
  <2>5. Power!GiveAgain
    BY <1>1, <2>3, <2>4 DEF Power!GiveAgain, Power!Give, Queued, Pend
  <2> QED
    BY <2>5 DEF Step, Power!Driver
<1>4. CASE Event \notin {"RESUME", "SUSPEND"}
  <2>1. data' = Taken
    BY <1>4 DEF IdleHandler, On, Ignores
  <2> QED
    BY <1>1, <1>4, <2>1, Ignored
<1> QED
  BY <1>2, <1>3, <1>4

(* Powering on: the reset and power pulses. *)
LEMMA PulseStep ==
  ASSUME GoodData(data), GoodData(data'),
         ResetPulseHandler \/ AwaitResetHandler \/ PowerOnPulseHandler
  PROVE  Step
<1>1. data.events # <<>> /\ data.state \in BootingStates
  BY DEF ResetPulseHandler, AwaitResetHandler, PowerOnPulseHandler, In,
         BootingStates
<1>2. PhaseOf(data.state) = "booting" /\ data.state # "IDLE"
  BY <1>1, StatePhases
<1>3. CASE Event = "TIMEOUT"
  <2>1. \E s \in BootingStates : data' = EnterState(Taken, s)
    BY <1>3 DEF ResetPulseHandler, AwaitResetHandler, PowerOnPulseHandler, On,
                Ignores, BootingStates
  <2> QED
    BY <1>1, <1>2, <1>3, <2>1, StatePhases, TakenStill, Enters
<1>4. CASE Event = "SUSPEND"
  <2>1. data' = EnterState(Taken, "IDLE")
    BY <1>4 DEF ResetPulseHandler, AwaitResetHandler, PowerOnPulseHandler, On,
                Ignores
  <2> QED
    BY <1>1, <1>2, <1>4, <2>1, TakenStill, Idles
<1>5. CASE Event \notin {"TIMEOUT", "SUSPEND"}
  <2>1. data' = Taken
    BY <1>5 DEF ResetPulseHandler, AwaitResetHandler, PowerOnPulseHandler, On,
                Ignores
  <2> QED
    BY <1>1, <1>2, <2>1, Ignored
<1> QED
  BY <1>3, <1>4, <1>5

LEMMA AwaitPowerOnStep ==
  ASSUME GoodData(data), GoodData(data'), AwaitPowerOnHandler
  PROVE  Step
<1>1. data.events # <<>> /\ data.state = "AWAIT_POWER_ON"
  BY DEF AwaitPowerOnHandler, In
<1>2. PhaseOf(data.state) = "booting" /\ data.state # "IDLE"
  BY <1>1, StatePhases DEF BootingStates
<1>3. CASE Event = "BUS_OPENED"
  <2>1. data' = ChatAttach(Taken, "UART")
    BY <1>3 DEF AwaitPowerOnHandler, On, Ignores
  <2> QED
    BY <1>1, <1>2, <1>3, <2>1, TakenStill, ChatStill, Stays
<1>4. CASE Event \in {"MODEM_READY", "TIMEOUT"}
  <2>1. \E d \in {Taken, StopTimer(Taken)} : data' = EnterState(d, BootState)
    BY <1>4 DEF AwaitPowerOnHandler, On, Ignores
  <2>2. \A d \in {Taken, StopTimer(Taken)} : Still(Taken, d)
    BY <1>1, TakenStill, TimerStill
  <2>3. BootState \in BootingStates
    BY DEF BootState, BootingStates
  <2> QED
    BY <1>1, <1>2, <1>4, <2>1, <2>2, <2>3, StatePhases, Enters
<1>5. CASE Event = "SUSPEND"
  <2>1. data' = EnterState(Taken, "IDLE")
    BY <1>5 DEF AwaitPowerOnHandler, On, Ignores
  <2> QED
    BY <1>1, <1>2, <1>5, <2>1, TakenStill, Idles
<1>6. CASE Event \notin {"BUS_OPENED", "MODEM_READY", "TIMEOUT", "SUSPEND"}
  <2>1. data' = Taken
    BY <1>6 DEF AwaitPowerOnHandler, On, Ignores
  <2> QED
    BY <1>1, <1>2, <2>1, Ignored
<1> QED
  BY <1>3, <1>4, <1>5, <1>6

LEMMA SetBaudrateStep ==
  ASSUME GoodData(data), GoodData(data'), SetBaudrateHandler
  PROVE  Step
<1>1. data.events # <<>> /\ data.state = "SET_BAUDRATE"
  BY DEF SetBaudrateHandler, In
<1>2. PhaseOf(data.state) = "booting" /\ data.state # "IDLE"
  BY <1>1, StatePhases DEF BootingStates
<1>3. CASE Event = "BUS_OPENED"
  <2>1. data' = RunScript(ChatAttach(Taken, "UART"), "baud")
    BY <1>3 DEF SetBaudrateHandler, On, Ignores
  <2>2. Still(Taken, data')
    BY <1>1, <2>1, TakenStill, ChatStill, StillTransitive, StillShape
  <2> QED
    BY <1>1, <1>2, <1>3, <2>2, Stays
<1>4. CASE Event \in {"SCRIPT_FAILED", "SCRIPT_SUCCESS"}
  <2> DEFINE a == ChatRelease(StartTimer(Taken))
  <2>1. data' = CloseBus(a)
    BY <1>4 DEF SetBaudrateHandler, On, Ignores
  <2>2. Still(Taken, a)
    BY <1>1, TakenStill, TimerStill, ChatStill, StillTransitive, StillShape
  <2> HIDE DEF a
  <2>3. Still(Taken, data')
    BY <2>1, <2>2, RequestStill, StillTransitive, StillShape
  <2> QED
    BY <1>1, <1>2, <1>4, <2>3, Stays
<1>5. CASE Event = "BUS_CLOSED"
  <2> DEFINE a == BaudrateUpdate(Taken, "new")
  <2>1. data' = [a EXCEPT !.originalBaud = IF UartConfigurable THEN data.baud
                                                               ELSE "none"]
    BY <1>5 DEF SetBaudrateHandler, On, Ignores
  <2>2. Still(Taken, a)
    BY <1>1, TakenStill, FieldStill
  <2> HIDE DEF a
  <2>3. Still(Taken, data')
    BY <2>1, <2>2, FieldStill, StillTransitive, StillShape
  <2> QED
    BY <1>1, <1>2, <1>5, <2>3, Stays
<1>6. CASE Event = "TIMEOUT"
  <2>1. data' = EnterState(Taken, "RUN_INIT_SCRIPT")
    BY <1>6 DEF SetBaudrateHandler, On, Ignores
  <2>2. "RUN_INIT_SCRIPT" \in BootingStates
    BY DEF BootingStates
  <2> QED
    BY <1>1, <1>2, <1>6, <2>1, <2>2, StatePhases, TakenStill, Enters
<1>7. CASE Event = "SUSPEND"
  <2>1. data' = EnterState(Taken, "IDLE")
    BY <1>7 DEF SetBaudrateHandler, On, Ignores
  <2> QED
    BY <1>1, <1>2, <1>7, <2>1, TakenStill, Idles
<1>8. CASE Event \notin {"BUS_OPENED", "SCRIPT_FAILED", "SCRIPT_SUCCESS",
                         "BUS_CLOSED", "TIMEOUT", "SUSPEND"}
  <2>1. data' = Taken
    BY <1>8 DEF SetBaudrateHandler, On, Ignores
  <2> QED
    BY <1>1, <1>2, <2>1, Ignored
<1> QED
  BY <1>3, <1>4, <1>5, <1>6, <1>7, <1>8

LEMMA RunInitScriptStep ==
  ASSUME GoodData(data), GoodData(data'), RunInitScriptHandler
  PROVE  Step
<1>1. data.events # <<>> /\ data.state = "RUN_INIT_SCRIPT"
  BY DEF RunInitScriptHandler, In
<1>2. PhaseOf(data.state) = "booting" /\ data.state # "IDLE"
  BY <1>1, StatePhases DEF BootingStates
<1>3. CASE Event = "BUS_OPENED"
  <2>1. data' = RunScript(ChatAttach(Taken, "UART"), "init")
    BY <1>3 DEF RunInitScriptHandler, On, Ignores
  <2>2. Still(Taken, data')
    BY <1>1, <2>1, TakenStill, ChatStill, StillTransitive, StillShape
  <2> QED
    BY <1>1, <1>2, <1>3, <2>2, Stays
<1>4. CASE Event = "SCRIPT_SUCCESS"
  <2>1. data' = CloseBus(ChatRelease(Taken))
    BY <1>4 DEF RunInitScriptHandler, On, Ignores
  <2>2. Still(Taken, data')
    BY <1>1, <2>1, TakenStill, ChatStill, RequestStill, StillTransitive,
       StillShape
  <2> QED
    BY <1>1, <1>2, <1>4, <2>2, Stays
<1>5. CASE Event = "BUS_CLOSED"
  <2>1. data' = EnterState(Taken, "CONNECT_CMUX")
    BY <1>5 DEF RunInitScriptHandler, On, Ignores
  <2>2. "CONNECT_CMUX" \in LinkingStates
    BY DEF LinkingStates
  <2> QED
    BY <1>1, <1>2, <1>5, <2>1, <2>2, StatePhases, PhaseMoves, TakenStill, Enters
<1>6. CASE Event \in {"SUSPEND", "SCRIPT_FAILED"}
  <2>1. data' \in {EnterState(Taken, "IDLE"), EnterState(Taken, "RESET_PULSE")}
    BY <1>6 DEF RunInitScriptHandler, On, Ignores
  <2>2. "RESET_PULSE" \in BootingStates
    BY DEF BootingStates
  <2> QED
    BY <1>1, <1>2, <1>6, <2>1, <2>2, StatePhases, TakenStill, Idles, Enters
<1>7. CASE Event \notin {"BUS_OPENED", "SCRIPT_SUCCESS", "BUS_CLOSED",
                         "SUSPEND", "SCRIPT_FAILED"}
  <2>1. data' = Taken
    BY <1>7 DEF RunInitScriptHandler, On, Ignores
  <2> QED
    BY <1>1, <1>2, <2>1, Ignored
<1> QED
  BY <1>3, <1>4, <1>5, <1>6, <1>7

(* From the multiplexer on a SUSPEND begins the power-off. *)
LEMMA PoweringOff ==
  ASSUME GoodData(data), GoodData(data'), data.events # <<>>, Event = "SUSPEND",
         NEW d, Still(Taken, d), data' = EnterState(d, "INIT_POWER_OFF"),
         PhaseOf(data.state) \in {"linking", "attached", "online"},
         data.state # "IDLE"
  PROVE  Step
<1>1. PhaseOf("INIT_POWER_OFF") = "stopping"
  BY StatePhases DEF PowerOffStates
<1>2. "stopping" \in Power!Moves[PhaseOf(data.state)]
  BY PhaseMoves
<1> QED
  BY <1>1, <1>2, Enters

LEMMA ConnectCmuxStep ==
  ASSUME GoodData(data), GoodData(data'), ConnectCmuxHandler
  PROVE  Step
<1>1. data.events # <<>> /\ data.state = "CONNECT_CMUX"
  BY DEF ConnectCmuxHandler, In
<1>2. PhaseOf(data.state) = "linking" /\ data.state # "IDLE"
  BY <1>1, StatePhases DEF LinkingStates
<1>3. CASE Event = "TIMEOUT"
  <2>1. data' = OpenBus(Taken)
    BY <1>3 DEF ConnectCmuxHandler, On, Ignores
  <2> QED
    BY <1>1, <1>2, <1>3, <2>1, TakenStill, RequestStill, Stays
<1>4. CASE Event = "BUS_OPENED"
  <2>1. data' = CmuxConnect(CmuxAttach(Taken))
    BY <1>4 DEF ConnectCmuxHandler, On, Ignores
  <2>2. Still(Taken, data')
    BY <1>1, <2>1, TakenStill, CmuxStill, StillTransitive, StillShape
  <2> QED
    BY <1>1, <1>2, <1>4, <2>2, Stays
<1>5. CASE Event = "CMUX_CONNECTED"
  <2> DEFINE a == [Taken EXCEPT !.users = TRUE]
  <2>1. data' = EnterState(a, "OPEN_DLCI1")
    BY <1>5 DEF ConnectCmuxHandler, On, Ignores
  <2>2. "OPEN_DLCI1" \in LinkingStates
    BY DEF LinkingStates
  <2>3. Still(Taken, a)
    BY <1>1, TakenStill, FieldStill
  <2> HIDE DEF a
  <2> QED
    BY <1>1, <1>2, <1>5, <2>1, <2>2, <2>3, StatePhases, Enters
<1>6. CASE Event = "SUSPEND"
  <2>1. data' = EnterState(Taken, "INIT_POWER_OFF")
    BY <1>6 DEF ConnectCmuxHandler, On, Ignores
  <2> QED
    BY <1>1, <1>2, <1>6, <2>1, TakenStill, PoweringOff
<1>7. CASE Event \notin {"TIMEOUT", "BUS_OPENED", "CMUX_CONNECTED", "SUSPEND"}
  <2>1. data' = Taken
    BY <1>7 DEF ConnectCmuxHandler, On, Ignores
  <2> QED
    BY <1>1, <1>2, <2>1, Ignored
<1> QED
  BY <1>3, <1>4, <1>5, <1>6, <1>7

(* Opening the DLCIs and waiting for an APN. *)
LEMMA OpenDlcisStep ==
  ASSUME GoodData(data), GoodData(data'),
         OpenDlci1Handler \/ OpenDlci2Handler \/ WaitForApnHandler
  PROVE  Step
<1>1. data.events # <<>> /\ data.state \in LinkingStates
  BY DEF OpenDlci1Handler, OpenDlci2Handler, WaitForApnHandler, In, LinkingStates
<1>2. PhaseOf(data.state) = "linking" /\ data.state # "IDLE"
  BY <1>1, StatePhases
<1>3. ASSUME NEW s \in LinkingStates, NEW d, Still(Taken, d),
             Event # "RESUME", data' = EnterState(d, s)
      PROVE  Step
  BY <1>1, <1>2, <1>3, StatePhases, Enters
<1>4. ASSUME Event = "SUSPEND", data' = EnterState(Taken, "INIT_POWER_OFF")
      PROVE  Step
  BY <1>1, <1>2, <1>4, TakenStill, PoweringOff
<1>5. ASSUME data' = Taken PROVE Step
  BY <1>1, <1>2, <1>5, Ignored
<1>6. Still(Taken, Taken) /\ Still(Taken, [Taken EXCEPT !.cmdPipe = "DLCI2"])
  BY <1>1, TakenStill, FieldStill
<1>7. CASE OpenDlci1Handler
  BY <1>3, <1>4, <1>5, <1>6, <1>7 DEF OpenDlci1Handler, On, Ignores, LinkingStates
<1>8. CASE OpenDlci2Handler
  <2> DEFINE a == [Taken EXCEPT !.cmdPipe = "DLCI2"]
             s == IF UseDefaultPdp THEN "RUN_DIAL_SCRIPT"
                  ELSE IF NeedsApn(data) THEN "WAIT_FOR_APN"
                  ELSE "RUN_APN_SCRIPT"
  <2>1. \/ Event = "DLCI2_OPENED" /\ data' = EnterState(a, s)
        \/ Event = "SUSPEND" /\ data' = EnterState(Taken, "INIT_POWER_OFF")
        \/ data' = Taken
    BY <1>8 DEF OpenDlci2Handler, On, Ignores
  <2>2. s \in LinkingStates
    BY DEF LinkingStates
  <2> HIDE DEF a, s
  <2>3. Still(Taken, a)
    BY <1>6 DEF a
  <2> QED
    BY <1>3, <1>4, <1>5, <2>1, <2>2, <2>3
<1>9. CASE WaitForApnHandler
  BY <1>3, <1>4, <1>5, <1>6, <1>9 DEF WaitForApnHandler, On, Ignores, LinkingStates
<1> QED
  BY <1>7, <1>8, <1>9

(* Counting script results. *)
LEMMA CountersStill ==
  ASSUME GoodData(data), data.events # <<>>
  PROVE  /\ Still(Taken, CountReset)
         /\ Still(Taken, StartTimer(CountReset))
         /\ Still(Taken, StartTimer(ScriptFailed(Taken)))
         /\ Still(Taken, RequestSuspend)
<1>1. Still(Taken, CountReset)
  BY TakenStill, FieldStill DEF CountReset, ScriptSuccess
<1>2. Still(Taken, ScriptFailed(Taken))
  BY TakenStill, FieldStill DEF ScriptFailed
<1>3. Still(CountReset, Delegate(CountReset, "SUSPEND"))
  BY <1>1, StillShape, DelegateKeeps DEF Events
<1>4. Still(Taken, RequestSuspend)
  BY <1>1, <1>3, StillTransitive DEF RequestSuspend
<1> QED
  BY <1>1, <1>2, <1>4, TimerStill, StillTransitive, StillShape

LEMMA RunApnScriptStep ==
  ASSUME GoodData(data), GoodData(data'), RunApnScriptHandler
  PROVE  Step
<1>1. data.events # <<>> /\ data.state = "RUN_APN_SCRIPT"
  BY DEF RunApnScriptHandler, In
<1>2. PhaseOf(data.state) = "linking" /\ data.state # "IDLE"
  BY <1>1, StatePhases DEF LinkingStates
<1>3. CASE Event = "TIMEOUT"
  <2>1. data' = RunScript(ChatAttach(Taken, "DLCI1"), "apn")
    BY <1>3 DEF RunApnScriptHandler, On, Ignores
  <2>2. Still(Taken, data')
    BY <1>1, <2>1, TakenStill, ChatStill, StillTransitive, StillShape
  <2> QED
    BY <1>1, <1>2, <1>3, <2>2, Stays
<1>4. CASE Event = "SCRIPT_SUCCESS"
  <2>1. data' = EnterState(CountReset, "RUN_DIAL_SCRIPT")
    BY <1>4 DEF RunApnScriptHandler, On, Ignores
  <2>2. "RUN_DIAL_SCRIPT" \in LinkingStates
    BY DEF LinkingStates
  <2> QED
    BY <1>1, <1>2, <1>4, <2>1, <2>2, StatePhases, CountersStill, Enters
<1>5. CASE Event = "SCRIPT_FAILED"
  <2>1. data' \in {RequestSuspend, StartTimer(ScriptFailed(Taken))}
    BY <1>5 DEF RunApnScriptHandler, On, Ignores, RetryOr
  <2> QED
    BY <1>1, <1>2, <1>5, <2>1, CountersStill, Stays
<1>6. CASE Event = "SUSPEND"
  <2>1. data' = EnterState(Taken, "INIT_POWER_OFF")
    BY <1>6 DEF RunApnScriptHandler, On, Ignores
  <2> QED
    BY <1>1, <1>2, <1>6, <2>1, TakenStill, PoweringOff
<1>7. CASE Event \notin {"TIMEOUT", "SCRIPT_SUCCESS", "SCRIPT_FAILED", "SUSPEND"}
  <2>1. data' = Taken
    BY <1>7 DEF RunApnScriptHandler, On, Ignores
  <2> QED
    BY <1>1, <1>2, <2>1, Ignored
<1> QED
  BY <1>3, <1>4, <1>5, <1>6, <1>7

LEMMA RunDialScriptStep ==
  ASSUME GoodData(data), GoodData(data'), RunDialScriptHandler
  PROVE  Step
<1>1. data.events # <<>> /\ data.state = "RUN_DIAL_SCRIPT"
  BY DEF RunDialScriptHandler, In
<1>2. PhaseOf(data.state) = "linking" /\ data.state # "IDLE"
  BY <1>1, StatePhases DEF LinkingStates
<1>3. CASE Event = "TIMEOUT"
  <2>1. data' = RunScript(ChatAttach(Taken, "DLCI1"), "dial")
    BY <1>3 DEF RunDialScriptHandler, On, Ignores
  <2>2. Still(Taken, data')
    BY <1>1, <2>1, TakenStill, ChatStill, StillTransitive, StillShape
  <2> QED
    BY <1>1, <1>2, <1>3, <2>2, Stays
<1>4. CASE Event = "SCRIPT_FAILED"
  <2>1. data' \in {RequestSuspend, StartTimer(ScriptFailed(Taken))}
    BY <1>4 DEF RunDialScriptHandler, On, Ignores, RetryOr
  <2> QED
    BY <1>1, <1>2, <1>4, <2>1, CountersStill, Stays
<1>5. CASE Event = "SCRIPT_SUCCESS"
  <2>1. \/ data' = EnterState(CountReset, "AWAIT_REGISTERED")
        \/ data' = Become(CountReset, "AWAIT_REGISTERED")
    BY <1>5 DEF RunDialScriptHandler, On, Ignores
  <2>2. Still(Taken, CountReset)
    BY <1>1, CountersStill
  <2> DEFINE d == CountReset
  <2>3. Shape(d)
    BY <2>2, StillShape
  <2> HIDE DEF d
  <2>4. Keeps(d, EnterState(d, "AWAIT_REGISTERED"))
        /\ EnterState(d, "AWAIT_REGISTERED").state = "AWAIT_REGISTERED"
    BY <2>3, EnterStateKeeps
  <2>5. Keeps(d, Become(d, "AWAIT_REGISTERED"))
        /\ Become(d, "AWAIT_REGISTERED").state = "AWAIT_REGISTERED"
    BY <2>3, BecomeKeeps
  <2>6. Keeps(d, data') /\ data'.state = "AWAIT_REGISTERED"
    BY <2>1, <2>4, <2>5 DEF d
  <2>7. Keeps(Taken, data')
    BY <2>2, <2>6 DEF d, Still, Keeps
  <2>8. PhaseOf(data'.state) \in Power!Moves[PhaseOf(data.state)]
    BY <1>2, <2>6, StatePhases, PhaseMoves
  <2>9. data'.state # "IDLE" /\ Event # "RESUME"
    BY <1>5, <2>6
  <2> QED
    BY <1>1, <1>2, <2>7, <2>8, <2>9, Moved
<1>6. CASE Event = "SUSPEND"
  <2>1. data' = EnterState(Taken, "INIT_POWER_OFF")
    BY <1>6 DEF RunDialScriptHandler, On, Ignores
  <2> QED
    BY <1>1, <1>2, <1>6, <2>1, TakenStill, PoweringOff
<1>7. CASE Event = "RING"
  <2>1. data' = OpenAsync(Taken, "UART")
    BY <1>7 DEF RunDialScriptHandler, On, Ignores
  <2> QED
    BY <1>1, <1>2, <1>7, <2>1, TakenStill, RequestStill, Stays
<1>8. CASE Event = "REGISTERED"
  <2>1. data' \in {Taken, RunScript(StopTimer(Taken), "dial")}
    BY <1>8 DEF RunDialScriptHandler, On, Ignores
  <2>2. Still(Taken, Taken) /\ Still(Taken, StopTimer(Taken))
    BY <1>1, TakenStill, TimerStill
  <2>3. Still(StopTimer(Taken), RunScript(StopTimer(Taken), "dial"))
    BY <2>2, StillShape, ChatStill
  <2>4. Still(Taken, data')
    BY <2>1, <2>2, <2>3, StillTransitive
  <2> QED
    BY <1>1, <1>2, <1>8, <2>4, Stays
<1>9. CASE Event \notin {"TIMEOUT", "SCRIPT_FAILED", "SCRIPT_SUCCESS", "SUSPEND",
                         "RING", "REGISTERED"}
  <2>1. data' = Taken
    BY <1>9 DEF RunDialScriptHandler, On, Ignores
  <2> QED
    BY <1>1, <1>2, <2>1, Ignored
<1> QED
  BY <1>3, <1>4, <1>5, <1>6, <1>7, <1>8, <1>9

(* The third failure in a row of a registered modem: off, and a RESUME for *)
(* itself.                                                                 *)
LEMMA Recovered ==
  ASSUME GoodData(data), data.events # <<>>, Event # "RESUME",
         PhaseOf(data.state) \in {"attached", "online"}, data.state # "IDLE",
         NEW d, Still(Taken, d), data' = Restart(d)
  PROVE  Step
<1> DEFINE a == EnterState(d, "IDLE")
           b == Delegate(a, "RESUME")
<1>1. d.state # "IDLE"
  BY TakenKeeps DEF Still
<1>2. Halts(d, a)
  BY <1>1, StillShape, EnterStateKeeps
<1>3. data' = [b EXCEPT !.recovered = TRUE]
  BY DEF Restart
<1> HIDE DEF a
<1>4. Shape(a) /\ "RESUME" \in Events
  BY <1>2 DEF Halts, Events
<1>5. /\ Shape(b) /\ b.pm = a.pm /\ b.state = a.state /\ b.sem = a.sem
      /\ Pend(b.events) \/ (Pend(b.events) <=> Pend(a.events))
  BY <1>4, DelegateKeeps
<1> HIDE DEF b
<1>6. Still(b, data')
  <2>1. Still(b, [b EXCEPT !.recovered = TRUE])
    BY <1>5, FieldStill
  <2> QED
    BY <1>3, <2>1
<1>7. /\ data'.state = "IDLE"
      /\ Pend(data'.events) \/ (Pend(data'.events) <=> Pend(data.events))
      /\ IF data.pm = "waiting"
         THEN data'.pm = "suspended" /\ data'.sem = data.sem
         ELSE data'.pm = data.pm /\ data'.sem = 1
  BY <1>2, <1>5, <1>6, TakenKeeps DEF Still, Keeps, Halts
<1>8. PhaseOf(data'.state) = "off"
  BY <1>7, OffIsIdle DEF States
<1>9. Pend(data'.events) \in {Pend(data.events), TRUE}
  BY <1>7 DEF Pend
<1>10. Power!Recover
  BY <1>7, <1>8, <1>9 DEF Power!Recover, Power!Give, Queued, Pend
<1> QED
  BY <1>10 DEF Step, Power!Driver

LEMMA AwaitRegisteredStep ==
  ASSUME GoodData(data), GoodData(data'), AwaitRegisteredHandler
  PROVE  Step
<1>1. data.events # <<>> /\ data.state = "AWAIT_REGISTERED"
  BY DEF AwaitRegisteredHandler, In
<1>2. PhaseOf(data.state) = "attached" /\ data.state # "IDLE"
  BY <1>1, StatePhases
<1>3. CASE Event = "SCRIPT_SUCCESS"
  <2>1. data' = StartTimer(CountReset)
    BY <1>3 DEF AwaitRegisteredHandler, On, Ignores
  <2> QED
    BY <1>1, <1>2, <1>3, <2>1, CountersStill, Stays
<1>4. CASE Event = "SCRIPT_FAILED"
  <2>1. data' \in {Restart(CountReset), StartTimer(ScriptFailed(Taken))}
    BY <1>4 DEF AwaitRegisteredHandler, On, Ignores, RetryOr
  <2> QED
    BY <1>1, <1>2, <1>4, <2>1, CountersStill, Stays, Recovered
<1>5. CASE Event \in {"TIMEOUT", "RING"}
  <2>1. data' \in {RunScript(Taken, "periodic"), OpenAsync(Taken, "UART")}
    BY <1>5 DEF AwaitRegisteredHandler, On, Ignores
  <2> QED
    BY <1>1, <1>2, <1>5, <2>1, TakenStill, ChatStill, RequestStill, Stays
<1>6. CASE Event = "REGISTERED"
  <2>1. data' = EnterState(Taken, "CARRIER_ON")
    BY <1>6 DEF AwaitRegisteredHandler, On, Ignores
  <2>2. PhaseOf("CARRIER_ON") \in Power!Moves[PhaseOf(data.state)]
    BY <1>2, StatePhases, PhaseMoves
  <2> QED
    BY <1>1, <1>2, <1>6, <2>1, <2>2, TakenStill, Enters
<1>7. CASE Event = "SUSPEND"
  <2>1. data' = EnterState(Taken, "INIT_POWER_OFF")
    BY <1>7 DEF AwaitRegisteredHandler, On, Ignores
  <2> QED
    BY <1>1, <1>2, <1>7, <2>1, TakenStill, PoweringOff
<1>8. CASE Event \notin {"SCRIPT_SUCCESS", "SCRIPT_FAILED", "TIMEOUT",
                         "REGISTERED", "SUSPEND", "RING"}
  <2>1. data' = Taken
    BY <1>8 DEF AwaitRegisteredHandler, On, Ignores
  <2> QED
    BY <1>1, <1>2, <2>1, Ignored
<1> QED
  BY <1>3, <1>4, <1>5, <1>6, <1>7, <1>8

LEMMA CarrierOnStep ==
  ASSUME GoodData(data), GoodData(data'), CarrierOnHandler
  PROVE  Step
<1>1. data.events # <<>> /\ data.state = "CARRIER_ON"
  BY DEF CarrierOnHandler, In
<1>2. PhaseOf(data.state) = "online" /\ data.state # "IDLE"
  BY <1>1, StatePhases
<1>3. CASE Event = "SCRIPT_SUCCESS"
  <2>1. data' = StartTimer(CountReset)
    BY <1>3 DEF CarrierOnHandler, On, Ignores
  <2> QED
    BY <1>1, <1>2, <1>3, <2>1, CountersStill, Stays
<1>4. CASE Event = "SCRIPT_FAILED"
  <2>1. data' \in {Restart(CarrierOff(CountReset)), StartTimer(ScriptFailed(Taken))}
    BY <1>4 DEF CarrierOnHandler, On, Ignores, RetryOr
  <2>2. Still(Taken, CountReset)
    BY <1>1, CountersStill
  <2>3. Still(CountReset, CarrierOff(CountReset))
    BY <2>2, StillShape, PppStill
  <2>4. Still(Taken, CarrierOff(CountReset))
    BY <2>2, <2>3, StillTransitive
  <2> QED
    BY <1>1, <1>2, <1>4, <2>1, <2>4, CountersStill, Stays, Recovered
<1>5. CASE Event \in {"TIMEOUT", "RING"}
  <2>1. data' \in {RunScript(Taken, "periodic"), OpenAsync(Taken, "UART")}
    BY <1>5 DEF CarrierOnHandler, On, Ignores
  <2> QED
    BY <1>1, <1>2, <1>5, <2>1, TakenStill, ChatStill, RequestStill, Stays
<1>6. CASE Event = "DEREGISTERED"
  <2>1. data' = EnterState(Taken, "DORMANT")
    BY <1>6 DEF CarrierOnHandler, On, Ignores
  <2>2. PhaseOf("DORMANT") \in Power!Moves[PhaseOf(data.state)]
    BY <1>2, StatePhases, PhaseMoves
  <2> QED
    BY <1>1, <1>2, <1>6, <2>1, <2>2, TakenStill, Enters
<1>7. CASE Event = "PPP_DEAD"
  <2> DEFINE d == EnterState(Taken, "DORMANT")
  <2>1. data' \in {Taken, EnterState(d, "RUN_DIAL_SCRIPT")}
    BY <1>7 DEF CarrierOnHandler, On, Ignores, Redial
  <2>2. Keeps(Taken, d) /\ d.state = "DORMANT"
    BY <1>1, TakenStill, EnterStateKeeps
  <2> HIDE DEF d
  <2>3. /\ Keeps(d, EnterState(d, "RUN_DIAL_SCRIPT"))
        /\ EnterState(d, "RUN_DIAL_SCRIPT").state = "RUN_DIAL_SCRIPT"
    BY <2>2, EnterStateKeeps DEF Keeps
  <2>4. CASE data' = Taken
    BY <1>1, <1>2, <1>7, <2>4, Ignored
  <2>5. CASE data' = EnterState(d, "RUN_DIAL_SCRIPT")
    <3>1. Keeps(Taken, data') /\ data'.state = "RUN_DIAL_SCRIPT"
      BY <2>2, <2>3, <2>5 DEF Keeps
    <3>2. PhaseOf(data'.state) \in Power!Moves[PhaseOf(data.state)]
      BY <1>2, <3>1, StatePhases, PhaseMoves DEF LinkingStates
    <3>3. data'.state # "IDLE" /\ Event # "RESUME"
      BY <1>7, <3>1
    <3> QED
      BY <1>1, <1>2, <3>1, <3>2, <3>3, Moved
  <2> QED
    BY <2>1, <2>4, <2>5
<1>8. CASE Event = "SUSPEND"
  <2> DEFINE d == PppRelease(ChatRelease(CarrierOff(Taken)))
  <2>1. data' = EnterState(d, "INIT_POWER_OFF")
    BY <1>8 DEF CarrierOnHandler, On, Ignores
  <2>2. Still(Taken, CarrierOff(Taken))
    BY <1>1, TakenStill, PppStill
  <2>3. Still(Taken, ChatRelease(CarrierOff(Taken)))
    BY <2>2, ChatStill, StillTransitive, StillShape
  <2>4. Still(Taken, d)
    BY <2>3, PppStill, StillTransitive, StillShape
  <2> QED
    BY <1>1, <1>2, <1>8, <2>1, <2>4, PoweringOff
<1>9. CASE Event \notin {"SCRIPT_SUCCESS", "SCRIPT_FAILED", "TIMEOUT",
                         "DEREGISTERED", "PPP_DEAD", "SUSPEND", "RING"}
  <2>1. data' = Taken
    BY <1>9 DEF CarrierOnHandler, On, Ignores
  <2> QED
    BY <1>1, <1>2, <2>1, Ignored
<1> QED
  BY <1>3, <1>4, <1>5, <1>6, <1>7, <1>8, <1>9

LEMMA DormantStep ==
  ASSUME GoodData(data), GoodData(data'), DormantHandler
  PROVE  Step
<1>1. data.events # <<>> /\ data.state = "DORMANT"
  BY DEF DormantHandler, In
<1>2. PhaseOf(data.state) = "dormant" /\ data.state # "IDLE"
  BY <1>1, StatePhases
<1>3. PhaseOf("RUN_DIAL_SCRIPT") \in Power!Moves[PhaseOf(data.state)]
  BY <1>2, StatePhases, PhaseMoves DEF LinkingStates
<1>4. Still(Taken, Taken) /\ Still(Taken, OpenAsync(Taken, "UART"))
  BY <1>1, TakenStill, RequestStill
<1>5. CASE Event \in {"RING", "PPP_DEAD"}
  <2>1. \E d \in {Taken, OpenAsync(Taken, "UART")} :
          data' = EnterState(d, "RUN_DIAL_SCRIPT")
    BY <1>5 DEF DormantHandler, On, Ignores
  <2> QED
    BY <1>1, <1>2, <1>3, <1>4, <1>5, <2>1, Enters
<1>6. CASE Event \notin {"RING", "PPP_DEAD"}
  <2>1. data' = Taken
    BY <1>6 DEF DormantHandler, On, Ignores
  <2> QED
    BY <1>1, <1>2, <2>1, Ignored
<1> QED
  BY <1>5, <1>6

(* begin_power_off_pulse, from a power-off state: the pulse or IDLE. *)
LEMMA PowerOffPulses ==
  ASSUME GoodData(data), GoodData(data'), data.events # <<>>, Event # "RESUME",
         data.state \in PowerOffStates, NEW d, Still(Taken, d),
         data' = BeginPowerOffPulse(d)
  PROVE  Step
<1> DEFINE e == CloseAsync(d, "UART")
<1>1. PhaseOf(data.state) = "stopping" /\ data.state # "IDLE"
  BY StatePhases
<1>2. data' \in {EnterState(e, "POWER_OFF_PULSE"), EnterState(e, "IDLE")}
  BY DEF BeginPowerOffPulse
<1>3. Still(Taken, e)
  BY StillShape, RequestStill, StillTransitive
<1>4. PhaseOf("POWER_OFF_PULSE") = "stopping"
  BY StatePhases DEF PowerOffStates
<1> HIDE DEF e
<1>5. CASE data' = EnterState(e, "POWER_OFF_PULSE")
  BY <1>1, <1>3, <1>4, <1>5, Enters
<1>6. CASE data' = EnterState(e, "IDLE")
  BY <1>1, <1>3, <1>6, Idles
<1> QED
  BY <1>2, <1>5, <1>6

LEMMA InitPowerOffStep ==
  ASSUME GoodData(data), GoodData(data'), InitPowerOffHandler
  PROVE  Step
<1>1. /\ data.events # <<>> /\ data.state = "INIT_POWER_OFF"
      /\ data.state \in PowerOffStates
  BY DEF InitPowerOffHandler, In, PowerOffStates
<1>2. PhaseOf(data.state) = "stopping" /\ data.state # "IDLE"
  BY <1>1, StatePhases
<1>3. CASE Event = "CMUX_DISCONNECTED"
  <2> DEFINE a == [StopTimer(Taken) EXCEPT !.cmdPipe = "UART"]
  <2>1. data' = StartTimer(a)
    BY <1>3 DEF InitPowerOffHandler, On, Ignores
  <2>2. Still(Taken, StopTimer(Taken))
    BY <1>1, TakenStill, TimerStill
  <2>3. Still(StopTimer(Taken), a)
    BY <2>2, StillShape, FieldStill
  <2>4. Still(Taken, a)
    BY <2>2, <2>3, StillTransitive
  <2> HIDE DEF a
  <2>5. Still(Taken, data')
    BY <2>1, <2>4, TimerStill, StillTransitive, StillShape
  <2> QED
    BY <1>1, <1>2, <1>3, <2>5, Stays
<1>4. CASE Event = "TIMEOUT"
  <2>1. data' \in {EnterState(Taken, "RUN_SHUTDOWN_SCRIPT"),
                   BeginPowerOffPulse(Taken)}
    BY <1>4 DEF InitPowerOffHandler, On, Ignores
  <2>2. PhaseOf("RUN_SHUTDOWN_SCRIPT") = "stopping"
    BY StatePhases DEF PowerOffStates
  <2>3. CASE data' = EnterState(Taken, "RUN_SHUTDOWN_SCRIPT")
    BY <1>1, <1>2, <1>4, <2>2, <2>3, TakenStill, Enters
  <2>4. CASE data' = BeginPowerOffPulse(Taken)
    BY <1>1, <1>4, <2>4, TakenStill, PowerOffPulses
  <2> QED
    BY <2>1, <2>3, <2>4
<1>5. CASE Event \notin {"CMUX_DISCONNECTED", "TIMEOUT"}
  <2>1. data' = Taken
    BY <1>5 DEF InitPowerOffHandler, On, Ignores
  <2> QED
    BY <1>1, <1>2, <2>1, Ignored
<1> QED
  BY <1>3, <1>4, <1>5

LEMMA RunShutdownScriptStep ==
  ASSUME GoodData(data), GoodData(data'), RunShutdownScriptHandler
  PROVE  Step
<1>1. /\ data.events # <<>> /\ data.state = "RUN_SHUTDOWN_SCRIPT"
      /\ data.state \in PowerOffStates
  BY DEF RunShutdownScriptHandler, In, PowerOffStates
<1>2. PhaseOf(data.state) = "stopping" /\ data.state # "IDLE"
  BY <1>1, StatePhases
<1>3. ASSUME NEW d, Still(Taken, d) PROVE Still(Taken, NoCmdPipe(d))
  <2>1. Still(d, [d EXCEPT !.cmdPipe = "none"])
    BY <1>3, StillShape, FieldStill
  <2> QED
    BY <1>3, <2>1, StillTransitive DEF NoCmdPipe
<1>4. CASE Event = "SCRIPT_FAILED"
  <2>1. data' = BeginPowerOffPulse(NoCmdPipe(Taken))
    BY <1>4 DEF RunShutdownScriptHandler, On, Ignores
  <2> QED
    BY <1>1, <1>3, <1>4, <2>1, TakenStill, PowerOffPulses
<1>5. CASE Event = "SCRIPT_SUCCESS"
  <2>1. data' = EnterState(NoCmdPipe(CloseAsync(Taken, "UART")), "IDLE")
    BY <1>5 DEF RunShutdownScriptHandler, On, Ignores
  <2>2. Still(Taken, NoCmdPipe(CloseAsync(Taken, "UART")))
    BY <1>1, <1>3, TakenStill, RequestStill
  <2> QED
    BY <1>1, <1>2, <1>5, <2>1, <2>2, Idles
<1>6. CASE Event \notin {"SCRIPT_FAILED", "SCRIPT_SUCCESS"}
  <2>1. data' = Taken
    BY <1>6 DEF RunShutdownScriptHandler, On, Ignores
  <2> QED
    BY <1>1, <1>2, <2>1, Ignored
<1> QED
  BY <1>4, <1>5, <1>6

LEMMA PowerOffPulseStep ==
  ASSUME GoodData(data), GoodData(data'),
         PowerOffPulseHandler \/ AwaitPowerOffHandler
  PROVE  Step
<1>1. data.events # <<>> /\ data.state \in PowerOffStates
  BY DEF PowerOffPulseHandler, AwaitPowerOffHandler, In, PowerOffStates
<1>2. PhaseOf(data.state) = "stopping" /\ data.state # "IDLE"
  BY <1>1, StatePhases
<1>3. PhaseOf("AWAIT_POWER_OFF") = "stopping"
  BY StatePhases DEF PowerOffStates
<1>4. CASE Event = "TIMEOUT"
  <2>1. data' \in {EnterState(Taken, "AWAIT_POWER_OFF"), EnterState(Taken, "IDLE")}
    BY <1>4 DEF PowerOffPulseHandler, AwaitPowerOffHandler, On, Ignores
  <2>2. CASE data' = EnterState(Taken, "AWAIT_POWER_OFF")
    BY <1>1, <1>2, <1>3, <1>4, <2>2, TakenStill, Enters
  <2>3. CASE data' = EnterState(Taken, "IDLE")
    BY <1>1, <1>2, <1>4, <2>3, TakenStill, Idles
  <2> QED
    BY <2>1, <2>2, <2>3
<1>5. CASE Event # "TIMEOUT"
  <2>1. data' = Taken
    BY <1>5 DEF PowerOffPulseHandler, AwaitPowerOffHandler, On, Ignores
  <2> QED
    BY <1>1, <1>2, <2>1, Ignored
<1> QED
  BY <1>4, <1>5

-----------------------------------------------------------------------------
(* Every step of the driver *)

LEMMA DispatchStep ==
  ASSUME GoodData(data), Dispatch
  PROVE  Step
<1>1. GoodData(data')
  BY DispatchGood
<1>2. CASE DispatchEnd
  BY <1>2, Stutters DEF DispatchEnd
<1> QED
  BY <1>1, <1>2, IdleStep, PulseStep, AwaitPowerOnStep, SetBaudrateStep,
     RunInitScriptStep, ConnectCmuxStep, OpenDlcisStep, RunApnScriptStep,
     RunDialScriptStep, AwaitRegisteredStep, CarrierOnStep, DormantStep,
     InitPowerOffStep, RunShutdownScriptStep, PowerOffPulseStep
  DEF Dispatch

(* The timer, the pipes, the chat, CMUX, PPP and the modem's own messages *)
(* change nothing of the contract: they only queue other events.          *)
LEMMA DelegatesStill ==
  ASSUME NEW d, Still(data, d), NEW e \in Events \ {"RESUME"},
         data' \in {d, Delegate(d, e)}
  PROVE  Step
<1>1. Still(d, Delegate(d, e))
  BY StillShape, DelegateKeeps
<1>2. Still(data, data')
  BY <1>1, StillTransitive
<1> QED
  BY <1>2, Stutters DEF Still, Keeps

LEMMA EnvironmentStep ==
  ASSUME GoodData(data), Environment
  PROVE  Step
<1>1. Shape(data) /\ Still(data, data)
  BY NoToken, FieldStill
<1>2. CASE TimeoutWork
  <2>1. Still(data, StopTimer(data)) /\ "TIMEOUT" \in Events \ {"RESUME"}
    BY <1>1, TimerStill DEF Events
  <2> QED
    BY <1>2, <2>1, DelegatesStill DEF TimeoutWork
<1>3. ASSUME NEW p \in Pipes, PipeEvent(p) PROVE Step
  <2>1. Still(data, Completed(p))
    BY <1>1, FieldStill DEF Completed
  <2>2. PipeNotice(p) \in Events \ {"RESUME"}
    BY DEF PipeNotice, Events
  <2>3. data' \in {Completed(p), Delegate(Completed(p), PipeNotice(p))}
    BY <1>3 DEF PipeEvent
  <2> QED
    BY <2>1, <2>2, <2>3, DelegatesStill
<1>4. ASSUME NEW success \in BOOLEAN, ChatCallback(success) PROVE Step
  <2> DEFINE done == IF success THEN data.done \cup {data.script} ELSE data.done
             d == [data EXCEPT !.script = "none", !.done = done]
             e == IF success THEN "SCRIPT_SUCCESS" ELSE "SCRIPT_FAILED"
  <2>1. Still(data, d)
    BY <1>1, FieldStill
  <2>2. e \in Events \ {"RESUME"}
    BY DEF Events
  <2>3. data' = Delegate(d, e)
    BY <1>4 DEF ChatCallback
  <2> HIDE DEF d, e
  <2> QED
    BY <2>1, <2>2, <2>3, DelegatesStill
<1>5. CASE CmuxConnected
  <2> DEFINE d == [data EXCEPT !.cmux = "connected"]
  <2>1. Still(data, d) /\ "CMUX_CONNECTED" \in Events \ {"RESUME"}
    BY <1>1, FieldStill DEF Events
  <2>2. data' = Delegate(d, "CMUX_CONNECTED")
    BY <1>5 DEF CmuxConnected
  <2> HIDE DEF d
  <2> QED
    BY <2>1, <2>2, DelegatesStill
<1>6. CASE CmuxDisconnected
  <2> DEFINE c == CloseDlcis(data)
             d == [c EXCEPT !.cmux = "disconnected"]
  <2>1. Still(data, c) /\ "CMUX_DISCONNECTED" \in Events \ {"RESUME"}
    BY <1>1, CmuxStill DEF Events
  <2>2. data' = Delegate(d, "CMUX_DISCONNECTED")
    BY <1>6 DEF CmuxDisconnected
  <2> HIDE DEF c
  <2>3. Still(c, d)
    BY <2>1, StillShape, FieldStill
  <2>4. Still(data, d)
    BY <2>1, <2>3, StillTransitive
  <2> HIDE DEF d
  <2> QED
    BY <2>1, <2>2, <2>4, DelegatesStill
<1>7. CASE PppPhaseDead
  <2> DEFINE d == [data EXCEPT !.pppLive = FALSE]
  <2>1. Still(data, d) /\ "PPP_DEAD" \in Events \ {"RESUME"}
    BY <1>1, FieldStill DEF Events
  <2>2. data' = Delegate(d, "PPP_DEAD")
    BY <1>7 DEF PppPhaseDead
  <2> HIDE DEF d
  <2> QED
    BY <2>1, <2>2, DelegatesStill
<1>8. ASSUME NEW domain \in Domains, NEW registered \in BOOLEAN,
             OnCxreg(domain, registered)
      PROVE  Step
  <2> DEFINE r == IF registered THEN data.registered \cup {domain}
                                ELSE data.registered \ {domain}
             d == [data EXCEPT !.registered = r]
             e == IF IsRegistered(d) THEN "REGISTERED" ELSE "DEREGISTERED"
  <2>1. Still(data, d)
    BY <1>1, FieldStill
  <2>2. e \in Events \ {"RESUME"}
    BY DEF Events
  <2>3. data' = Delegate(d, e)
    BY <1>8 DEF OnCxreg
  <2> HIDE DEF d, e
  <2> QED
    BY <2>1, <2>2, <2>3, DelegatesStill
<1>9. CASE OnModemReady \/ RingGpio
  <2>1. {"MODEM_READY", "RING"} \subseteq Events \ {"RESUME"}
    BY DEF Events
  <2> QED
    BY <1>1, <1>9, <2>1, DelegatesStill DEF OnModemReady, RingGpio
<1>10. ASSUME NEW connected \in BOOLEAN, OnCgev(connected) PROVE Step
  BY <1>10, Stutters DEF OnCgev
<1> QED
  BY <1>2, <1>3, <1>4, <1>5, <1>6, <1>7, <1>8, <1>9, <1>10 DEF Environment

(* The power manager's calls are those of the contract. *)
LEMMA PmStep ==
  ASSUME GoodData(data), PmResume \/ PmSuspend \/ PmTakeSem \/ PmTimeout
  PROVE  Step
<1>1. Shape(data) /\ data.sem \in {0, 1}
  BY NoToken
<1>2. ASSUME NEW m
      PROVE  LET d == [data EXCEPT !.pm = m]
             IN  /\ Shape(d) /\ d.pm = m /\ d.state = data.state
                 /\ d.sem = data.sem /\ d.events = data.events
  BY <1>1 DEF Shape
<1>3. CASE PmResume
  <2> DEFINE d == [data EXCEPT !.pm = "active"]
  <2>1. data.pm = "suspended" /\ data' = Delegate(d, "RESUME")
    BY <1>3 DEF PmResume
  <2>2. /\ Shape(d) /\ d.pm = "active" /\ d.state = data.state
        /\ d.sem = data.sem /\ d.events = data.events
    BY <1>2
  <2> HIDE DEF d
  <2>3. /\ data'.pm = "active" /\ data'.state = data.state
        /\ data'.sem = data.sem
        /\ Pend(data'.events) \/ Pend(data'.events) = Pend(data.events)
    BY <2>1, <2>2, DelegateKeeps DEF Events
  <2>4. Pend(data'.events) \in {Pend(data.events), TRUE}
    BY <2>3 DEF Pend
  <2>5. Power!Resume
    BY <2>1, <2>3, <2>4 DEF Power!Resume, Queued, Pend
  <2> QED
    BY <2>5 DEF Step, Power!Manager
<1>4. CASE PmSuspend
  <2> DEFINE d == [data EXCEPT !.pm = "requesting"]
  <2>1. data.pm = "active" /\ data' = Delegate(d, "SUSPEND")
    BY <1>4 DEF PmSuspend
  <2>2. /\ Shape(d) /\ d.pm = "requesting" /\ d.state = data.state
        /\ d.sem = data.sem /\ d.events = data.events
    BY <1>2
  <2> HIDE DEF d
  <2>3. Still(d, data')
    BY <2>1, <2>2, DelegateKeeps DEF Events
  <2>4. /\ data'.pm = "requesting" /\ data'.state = data.state
        /\ data'.sem = data.sem
        /\ Pend(data'.events) <=> Pend(data.events)
    BY <2>2, <2>3 DEF Still, Keeps
  <2>5. Power!Suspend
    BY <2>1, <2>4 DEF Power!Suspend, Queued, Pend
  <2> QED
    BY <2>5 DEF Step, Power!Manager
<1>5. CASE PmTakeSem
  <2>1. data.pm = "requesting"
    BY <1>5 DEF PmTakeSem
  <2>2. CASE data.sem = 1
    <3>1. data' = [data EXCEPT !.sem = 0, !.pm = "suspended"]
      BY <1>5, <2>2 DEF PmTakeSem
    <3>2. /\ data'.pm = "suspended" /\ data'.sem = 0
          /\ data'.state = data.state /\ data'.events = data.events
      BY <1>1, <3>1 DEF Shape
    <3>3. Power!Take
      BY <2>1, <2>2, <3>2 DEF Power!Take, Queued
    <3> QED
      BY <3>3 DEF Step, Power!Manager
  <2>3. CASE data.sem # 1
    <3>1. data' = [data EXCEPT !.pm = "waiting"]
      BY <1>5, <2>3 DEF PmTakeSem
    <3>2. /\ data'.pm = "waiting" /\ data'.sem = data.sem
          /\ data'.state = data.state /\ data'.events = data.events
      BY <1>2, <3>1
    <3>3. Power!Take
      BY <2>1, <2>3, <3>2 DEF Power!Take, Queued
    <3> QED
      BY <3>3 DEF Step, Power!Manager
  <2> QED
    BY <2>2, <2>3
<1>6. CASE PmTimeout
  <2>1. data.pm = "waiting" /\ data' = [data EXCEPT !.pm = "active"]
    BY <1>6 DEF PmTimeout
  <2>2. /\ data'.pm = "active" /\ data'.sem = data.sem
        /\ data'.state = data.state /\ data'.events = data.events
    BY <1>2, <2>1
  <2>3. Power!GiveUp
    BY <2>1, <2>2 DEF Power!GiveUp, Queued
  <2> QED
    BY <2>3 DEF Step, Power!Manager
<1> QED
  BY <1>3, <1>4, <1>5, <1>6

(* Signal queries and APN changes do not touch it. *)
LEMMA CallersStep ==
  ASSUME GoodData(data), Callers
  PROVE  Step
<1>1. Shape(data)
  BY NoToken
<1>2. CASE GetSignalCheck \/ \E apn \in Apns : SetApnCheck(apn)
  BY <1>2, Stutters DEF GetSignalCheck, SetApnCheck
<1>3. CASE GetSignalRun
  <2>1. Still(data, RunScript(data, "query"))
    BY <1>1, ChatStill
  <2> QED
    BY <1>3, <2>1, Stutters DEF GetSignalRun, Still, Keeps
<1>4. CASE SetApnWrite
  <2> DEFINE late == data.lateApn \/ ~ApnChangeAllowed(data.state)
             d == [data EXCEPT !.apn = setter, !.lateApn = late]
  <2>1. Still(data, d) /\ "APN_SET" \in Events \ {"RESUME"}
    BY <1>1, FieldStill DEF Events
  <2>2. data' = Delegate(d, "APN_SET")
    BY <1>4 DEF SetApnWrite
  <2> HIDE DEF d
  <2> QED
    BY <2>1, <2>2, DelegatesStill
<1> QED
  BY <1>2, <1>3, <1>4, PmStep DEF Callers

LEMMA NextStep ==
  ASSUME IInv, [Next]_vars
  PROVE  Step
<1>1. CASE Next
  BY <1>1, DispatchStep, EnvironmentStep, CallersStep DEF Next, IInv
<1>2. CASE UNCHANGED vars
  BY <1>2, Stutters DEF vars
<1> QED
  BY <1>1, <1>2

(* Every behaviour of the driver is one of the power contract: a session     *)
(* begins only with a RESUME, its phases follow one another as the contract  *)
(* says, and the token of the suspend call is given and taken as it says,    *)
(* for every configuration, pipe size and interleaving.                      *)
THEOREM Refinement == Spec => ImplementsPower
<1>1. Init => Power!PowerInit
  <2> SUFFICES ASSUME Init PROVE Power!PowerInit
    OBVIOUS
  <2>1. /\ data.state = "IDLE" /\ data.events = <<>>
        /\ data.pm = "suspended" /\ data.sem = 0
    BY DEF Init
  <2>2. ~Queued("RESUME")
    BY <2>1 DEF Queued
  <2>3. PhaseOf(data.state) = "off"
    BY <2>1, OffIsIdle DEF States
  <2> QED
    BY <2>1, <2>2, <2>3 DEF Power!PowerInit
<1>2. IInv /\ [Next]_vars => [Power!Driver \/ Power!Manager]_(Power!power)
  BY NextStep DEF Step
<1> QED
  BY <1>1, <1>2, Invariance, PTL DEF Spec, ImplementsPower, Power!PowerSpec

(* The suspend call returns success only at a moment the modem is idle: the  *)
(* token it takes was given in IDLE and is taken back by the leave function. *)
THEOREM SuspendTruthful == Spec => SuspendIsTruthful
<1>1. IInv /\ [Next]_vars =>
        [data.pm' = "suspended" /\ data.pm # "suspended"
           => PhaseOf(data.state)' = "off"]_(Power!power)
  <2> SUFFICES ASSUME IInv, [Next]_vars, data'.pm = "suspended",
                      data.pm # "suspended"
               PROVE  PhaseOf(data'.state) = "off"
    BY DEF Power!power
  <2>1. Step /\ data.state \in States /\ (data.sem = 1 => data.state = "IDLE")
    BY NextStep, NoToken DEF IInv
  <2>2. CASE Power!Take
    <3>1. data.sem = 1 /\ PhaseOf(data'.state) = PhaseOf(data.state)
      BY <2>2 DEF Power!Take
    <3> QED
      BY <2>1, <3>1, OffIsIdle
  <2>3. CASE ~Power!Take
    BY <2>1, <2>3
    DEF Step, Power!Driver, Power!Manager, Power!power, Power!Start,
        Power!Advance, Power!Stop, Power!Recover, Power!GiveAgain,
        Power!Forget, Power!Resume, Power!Suspend, Power!GiveUp
  <2> QED
    BY <2>2, <2>3
<1> QED
  BY <1>1, Invariance, PTL DEF Spec, SuspendIsTruthful, Power!SuspendedOnlyWhenOff
=============================================================================
