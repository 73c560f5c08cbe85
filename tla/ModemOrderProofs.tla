-------------------------- MODULE ModemOrderProofs --------------------------
(**************************************************************************)
(* The order of events.  The notifications of the bus, of CMUX and of the *)
(* scripts name no session; these proofs show that on a board that boots  *)
(* straight into its init script none is left over when a state waits for *)
(* its own.                                                               *)
(**************************************************************************)
EXTENDS ModemQueueProofs

(* The overlay's board: a cooperative work queue, a UART that finishes its *)
(* requests inside the call, and no steps before the init script.          *)
Direct ==
  /\ ~PreemptsDispatch /\ MaxBacklog = 0
  /\ ResumeState = "RUN_INIT_SCRIPT" /\ ~(HasResetGpio /\ ResetOnRecovery)

(* Events that would be taken for an answer to a later request. *)
Bus == {"BUS_OPENED", "BUS_CLOSED"}
Results == {"SCRIPT_SUCCESS", "SCRIPT_FAILED"}
Fresh == Bus \cup Results \cup {"CMUX_CONNECTED"}

(* One of them at most is queued, and it is in S. *)
Sole(q, S) ==
  \A i, j \in DOMAIN q : q[i] \in Fresh /\ q[j] \in Fresh => i = j /\ q[i] \in S
Orderly(q) ==
  \A i, j \in DOMAIN q : q[i] \in Bus /\ q[j] = "TIMEOUT" => j < i
Once(q, e) == \A i, j \in DOMAIN q : q[i] = e /\ q[j] = e => i = j

(* The bus answers within the loop that asked, and the timer's work item is *)
(* not in the loop: no TIMEOUT comes behind a bus event.                    *)
Batch(d, busy) ==
  /\ (\E e \in Bus : Has(d.events, e)) \/ d.ops["UART"] # <<>> => busy
  /\ Orderly(d.events)
(* What follows a RESUME in the pipe starts no session. *)
Clear(q) ==
  \A j, k \in DOMAIN q : q[j] = "RESUME" /\ k > j => q[k] \notin Fresh
(* A RESUME comes alone, first in its batch unless the driver queued it. *)
Resumes(d, busy) ==
  /\ Once(d.events, "RESUME")
  /\ Has(d.events, "RESUME") =>
       IF d.state = "IDLE"
       THEN Clear(d.events) /\ (d.ops["UART"] = <<>> \/ d.cb["UART"] # "driver")
       ELSE Head(d.events) = "RESUME" /\ ~busy

(* Where a request and its answer are. *)
At(d, ops, pipe, S) ==
  /\ d.ops["UART"] = ops /\ d.chatPipe = pipe /\ Sole(d.events, S)
  /\ pipe = "none" => d.script = "none"
Inited(d) == "init" \in d.done \/ d.lost
Booting(d) ==
  \/ At(d, <<"open">>, "none", {}) /\ d.cb["UART"] = "driver"
  \/ At(d, <<>>, "none", {"BUS_OPENED"})
  \/ At(d, <<>>, "UART", {}) /\ (d.script = "init" \/ d.lost)
  \/ /\ At(d, <<>>, "UART", Results) /\ d.script = "none"
     /\ \/ Has(d.events, "SCRIPT_FAILED") \/ d.lost
        \/ Has(d.events, "SCRIPT_SUCCESS") /\ Inited(d)
  \/ At(d, <<"close">>, "none", {}) /\ d.cb["UART"] = "driver" /\ Inited(d)
  \/ At(d, <<>>, "none", {"BUS_CLOSED"}) /\ Inited(d)
Untimed(d) == d.timer = "off" /\ ~Has(d.events, "TIMEOUT")
Linking(d) ==
  \/ /\ At(d, <<>>, "none", {}) /\ d.cmux = "released"
     /\ d.timer = "off" \/ ~Has(d.events, "TIMEOUT")
     /\ Once(d.events, "TIMEOUT")
  \/ /\ Untimed(d) /\ At(d, <<"open">>, "none", {})
     /\ d.cb["UART"] = "driver" /\ d.cmux = "released"
  \/ Untimed(d) /\ At(d, <<>>, "none", {"BUS_OPENED"}) /\ d.cmux = "released"
  \/ /\ Untimed(d) /\ At(d, <<>>, "none", {})
     /\ d.cb["UART"] = "cmux" /\ d.cmux = "connecting"
  \/ /\ Untimed(d) /\ At(d, <<>>, "none", {"CMUX_CONNECTED"})
     /\ d.cb["UART"] = "cmux" /\ d.cmux = "connected"
Muxed(d) ==
  /\ d.cmux = "connected" /\ d.cb["UART"] = "cmux" /\ d.users
  /\ d.chatPipe # "UART"
Unvisited ==
  {"RESET_PULSE", "AWAIT_RESET", "POWER_ON_PULSE", "AWAIT_POWER_ON", "SET_BAUDRATE"}
Staged(d) ==
  /\ d.state \notin Unvisited
  /\ d.state = "RUN_INIT_SCRIPT" => Booting(d)
  /\ d.state = "CONNECT_CMUX" => Linking(d)
  /\ d.state \in MuxStates => Muxed(d)
  /\ d.state \in {"OPEN_DLCI1", "OPEN_DLCI2", "WAIT_FOR_APN"} =>
       At(d, <<>>, "none", {})
  /\ d.state = "RUN_APN_SCRIPT" /\ Has(d.events, "SCRIPT_SUCCESS") => d.done # {}
  /\ d.users => d.state \in MuxStates \cup {"INIT_POWER_OFF"}

Order == Batch(data, draining) /\ Resumes(data, draining) /\ Staged(data)
OInv == WInv /\ Order

-----------------------------------------------------------------------------
(* Queues *)

LEMMA SoleTail ==
  ASSUME NEW q \in Seq(Events), q # <<>>, NEW S, Sole(q, S)
  PROVE  /\ Sole(Tail(q), S)
         /\ Head(q) \in Fresh => Head(q) \in S /\ Sole(Tail(q), {})
<1> DEFINE r == Tail(q)
<1>0. Head(q) \in Events
  OBVIOUS
<1>1. /\ Len(q) \in Nat /\ DOMAIN q = 1 .. Len(q)
      /\ DOMAIN r = 1 .. (Len(q) - 1)
      /\ \A i \in DOMAIN r : r[i] = q[i + 1]
      /\ 1 \in DOMAIN q /\ Head(q) = q[1]
  BY <1>0, Positions
<1> HIDE DEF r
<1>2. ASSUME NEW i \in DOMAIN r
      PROVE  i + 1 \in DOMAIN q /\ i \in Nat /\ i + 1 # 1 /\ r[i] = q[i + 1]
  BY <1>1
<1>3. ASSUME NEW i \in DOMAIN r, NEW j \in DOMAIN r, r[i] \in Fresh, r[j] \in Fresh
      PROVE  i = j /\ r[i] \in S
  <2>1. i + 1 = j + 1 /\ q[i + 1] \in S
    BY <1>2, <1>3 DEF Sole
  <2> QED
    BY <1>2, <2>1
<1>4. ASSUME Head(q) \in Fresh
      PROVE  Head(q) \in S /\ \A i \in DOMAIN r : r[i] \notin Fresh
  BY <1>1, <1>2, <1>4 DEF Sole
<1> QED
  BY <1>3, <1>4 DEF Sole, r

LEMMA SoleAppend ==
  ASSUME NEW q \in Seq(Events), NEW e \in Events, NEW S, Sole(q, S)
  PROVE  /\ e \notin Fresh => Sole(Append(q, e), S)
         /\ \A T : S = {} /\ e \in T => Sole(Append(q, e), T)
<1> DEFINE r == Append(q, e)
<1>1. /\ Len(q) \in Nat /\ DOMAIN q = 1 .. Len(q)
      /\ DOMAIN r = 1 .. (Len(q) + 1)
      /\ \A i \in DOMAIN q : r[i] = q[i]
      /\ r[Len(q) + 1] = e
  BY Positions
<1> HIDE DEF r
<1>2. ASSUME NEW i \in DOMAIN r
      PROVE  (i \in DOMAIN q /\ r[i] = q[i]) \/ (i = Len(q) + 1 /\ r[i] = e)
  BY <1>1
<1>3. ASSUME e \notin Fresh PROVE Sole(r, S)
  BY <1>2, <1>3 DEF Sole
<1>4. ASSUME NEW T, S = {}, e \in T PROVE Sole(r, T)
  BY <1>2, <1>4 DEF Sole
<1> QED
  BY <1>3, <1>4 DEF r

LEMMA SoleHas ==
  ASSUME NEW q, NEW S, Sole(q, S)
  PROVE  /\ \A e \in Fresh : Has(q, e) => e \in S
         /\ \A e, f \in Fresh : Has(q, e) /\ Has(q, f) => e = f
         /\ \A T : S \subseteq T => Sole(q, T)
         /\ S = {} => \A T : Sole(q, T)
BY DEF Sole, Has

LEMMA OrderlyTail ==
  ASSUME NEW q \in Seq(Events), q # <<>>, Orderly(q)
  PROVE  /\ Orderly(Tail(q))
         /\ Head(q) \in Bus => ~Has(Tail(q), "TIMEOUT")
<1> DEFINE r == Tail(q)
<1>0. Head(q) \in Events
  OBVIOUS
<1>1. /\ Len(q) \in Nat /\ DOMAIN q = 1 .. Len(q)
      /\ DOMAIN r = 1 .. (Len(q) - 1)
      /\ \A i \in DOMAIN r : r[i] = q[i + 1]
      /\ 1 \in DOMAIN q /\ Head(q) = q[1]
  BY <1>0, Positions
<1> HIDE DEF r
<1>2. ASSUME NEW i \in DOMAIN r
      PROVE  i + 1 \in DOMAIN q /\ i \in Nat /\ i >= 1 /\ r[i] = q[i + 1]
  BY <1>1
<1>3. ASSUME NEW i \in DOMAIN r, NEW j \in DOMAIN r, r[i] \in Bus, r[j] = "TIMEOUT"
      PROVE  j < i
  <2>1. j + 1 < i + 1
    BY <1>2, <1>3 DEF Orderly
  <2> QED
    BY <1>2, <2>1
<1>4. ASSUME Head(q) \in Bus, NEW j \in DOMAIN r, r[j] = "TIMEOUT"
      PROVE  FALSE
  <2>1. j + 1 < 1
    BY <1>1, <1>2, <1>4 DEF Orderly
  <2> QED
    BY <1>2, <2>1
<1> QED
  BY <1>3, <1>4 DEF Orderly, Has, r

LEMMA OrderlyAppend ==
  ASSUME NEW q \in Seq(Events), NEW e \in Events, Orderly(q),
         e = "TIMEOUT" => \A b \in Bus : ~Has(q, b)
  PROVE  Orderly(Append(q, e))
<1> DEFINE r == Append(q, e)
<1>1. /\ Len(q) \in Nat /\ DOMAIN q = 1 .. Len(q)
      /\ DOMAIN r = 1 .. (Len(q) + 1)
      /\ \A i \in DOMAIN q : r[i] = q[i]
      /\ r[Len(q) + 1] = e
  BY Positions
<1> HIDE DEF r
<1>2. ASSUME NEW i \in DOMAIN r
      PROVE  \/ i \in DOMAIN q /\ r[i] = q[i] /\ i < Len(q) + 1
             \/ i = Len(q) + 1 /\ r[i] = e
  BY <1>1
<1>3. ASSUME NEW i \in DOMAIN r, NEW j \in DOMAIN r, r[i] \in Bus, r[j] = "TIMEOUT"
      PROVE  j < i
  <2>1. CASE i \in DOMAIN q /\ r[i] = q[i]
    <3>1. e # "TIMEOUT"
      BY <1>3, <2>1 DEF Has
    <3> QED
      BY <1>2, <1>3, <2>1, <3>1 DEF Orderly
  <2>2. CASE i = Len(q) + 1 /\ r[i] = e
    <3>1. e # "TIMEOUT"
      BY <1>3, <2>2 DEF Bus
    <3> QED
      BY <1>2, <1>3, <2>2, <3>1
  <2> QED
    BY <1>2, <2>1, <2>2
<1> QED
  BY <1>3 DEF Orderly, r

LEMMA OnceQueue ==
  ASSUME NEW q \in Seq(Events), NEW e \in Events, NEW x, Once(q, x)
  PROVE  /\ e # x \/ ~Has(q, x) => Once(Append(q, e), x)
         /\ q # <<>> => Once(Tail(q), x) /\ (Head(q) = x => ~Has(Tail(q), x))
<1>1. ASSUME e # x \/ ~Has(q, x) PROVE Once(Append(q, e), x)
  <2> DEFINE r == Append(q, e)
  <2>1. /\ Len(q) \in Nat /\ DOMAIN q = 1 .. Len(q)
        /\ DOMAIN r = 1 .. (Len(q) + 1)
        /\ \A i \in DOMAIN q : r[i] = q[i]
        /\ r[Len(q) + 1] = e
    BY Positions
  <2> HIDE DEF r
  <2>2. ASSUME NEW i \in DOMAIN r
        PROVE  (i \in DOMAIN q /\ r[i] = q[i]) \/ (i = Len(q) + 1 /\ r[i] = e)
    BY <2>1
  <2> QED
    BY <1>1, <2>2 DEF Once, Has, r
<1>2. ASSUME q # <<>>
      PROVE  Once(Tail(q), x) /\ (Head(q) = x => ~Has(Tail(q), x))
  <2> DEFINE r == Tail(q)
  <2>1. /\ Len(q) \in Nat /\ DOMAIN q = 1 .. Len(q)
        /\ DOMAIN r = 1 .. (Len(q) - 1)
        /\ \A i \in DOMAIN r : r[i] = q[i + 1]
        /\ 1 \in DOMAIN q /\ Head(q) = q[1]
    BY <1>2, Positions
  <2> HIDE DEF r
  <2>2. ASSUME NEW i \in DOMAIN r
        PROVE  i + 1 \in DOMAIN q /\ i \in Nat /\ i + 1 # 1 /\ r[i] = q[i + 1]
    BY <2>1
  <2>3. ASSUME NEW i \in DOMAIN r, NEW j \in DOMAIN r, r[i] = x, r[j] = x
        PROVE  i = j
    <3>1. i + 1 = j + 1
      BY <2>2, <2>3 DEF Once
    <3> QED
      BY <2>2, <3>1
  <2>4. Head(q) = x => \A i \in DOMAIN r : r[i] # x
    BY <2>1, <2>2 DEF Once
  <2> QED
    BY <2>3, <2>4 DEF Once, Has, r
<1> QED
  BY <1>1, <1>2

LEMMA ClearQueue ==
  ASSUME NEW q \in Seq(Events), NEW e \in Events
  PROVE  /\ ~Has(q, "RESUME") => Clear(q) /\ Clear(Append(q, e))
         /\ Clear(q) /\ e \notin Fresh => Clear(Append(q, e))
         /\ q # <<>> /\ Clear(q) =>
              Clear(Tail(q)) /\ (Head(q) = "RESUME" => Sole(Tail(q), {}))
<1>1. ASSUME \/ ~Has(q, "RESUME")
             \/ Clear(q) /\ e \notin Fresh
      PROVE  Clear(Append(q, e))
  <2> DEFINE r == Append(q, e)
  <2>1. /\ Len(q) \in Nat /\ DOMAIN q = 1 .. Len(q)
        /\ DOMAIN r = 1 .. (Len(q) + 1)
        /\ \A i \in DOMAIN q : r[i] = q[i]
        /\ r[Len(q) + 1] = e
    BY Positions
  <2> HIDE DEF r
  <2>2. ASSUME NEW i \in DOMAIN r
        PROVE  \/ i \in DOMAIN q /\ r[i] = q[i] /\ ~(i > Len(q) + 1)
               \/ i = Len(q) + 1 /\ r[i] = e
    BY <2>1
  <2>3. ASSUME NEW j \in DOMAIN r, NEW k \in DOMAIN r, r[j] = "RESUME", k > j
        PROVE  r[k] \notin Fresh
    <3>1. j \in DOMAIN q /\ q[j] = "RESUME"
      BY <2>1, <2>2, <2>3
    <3>2. Clear(q) /\ e \notin Fresh
      BY <1>1, <3>1 DEF Has
    <3> QED
      BY <2>2, <2>3, <3>1, <3>2 DEF Clear
  <2> QED
    BY <2>3 DEF Clear, r
<1>2. ~Has(q, "RESUME") => Clear(q)
  BY DEF Has, Clear
<1>3. ASSUME q # <<>>, Clear(q)
      PROVE  Clear(Tail(q)) /\ (Head(q) = "RESUME" => Sole(Tail(q), {}))
  <2> DEFINE r == Tail(q)
  <2>1. /\ Len(q) \in Nat /\ DOMAIN q = 1 .. Len(q)
        /\ DOMAIN r = 1 .. (Len(q) - 1)
        /\ \A i \in DOMAIN r : r[i] = q[i + 1]
        /\ 1 \in DOMAIN q /\ Head(q) = q[1]
    BY <1>3, Positions
  <2> HIDE DEF r
  <2>2. ASSUME NEW i \in DOMAIN r
        PROVE  i + 1 \in DOMAIN q /\ i \in Nat /\ i + 1 > 1 /\ r[i] = q[i + 1]
    BY <2>1
  <2>3. ASSUME NEW j \in DOMAIN r, NEW k \in DOMAIN r, r[j] = "RESUME", k > j
        PROVE  r[k] \notin Fresh
    <3>1. k + 1 > j + 1
      BY <2>2, <2>3
    <3> QED
      BY <1>3, <2>2, <2>3, <3>1 DEF Clear
  <2>4. Head(q) = "RESUME" => \A i \in DOMAIN r : r[i] \notin Fresh
    BY <1>3, <2>1, <2>2 DEF Clear
  <2> QED
    BY <2>3, <2>4 DEF Clear, Sole, r
<1> QED
  BY <1>1, <1>2, <1>3

-----------------------------------------------------------------------------
(* The helpers *)

Shaped(d) ==
  /\ {"state", "events", "timer", "cb", "ops", "chatPipe", "script", "cmux",
      "users", "done", "lost", "failures", "ppp", "pm", "sem"} \subseteq DOMAIN d
  /\ DOMAIN d.cb = Pipes /\ DOMAIN d.ops = Pipes
(* The link to the modem as d has it, unless the chat is on the bus. *)
Bussed(d, r) ==
  /\ Shaped(r) /\ r.users = d.users
  /\ d.chatPipe # "UART" =>
       r.chatPipe # "UART" /\ r.cb["UART"] = d.cb["UART"] /\ r.cmux = d.cmux
Retained(d, r) == Bussed(d, r) /\ r.done = d.done

LEMMA RetainedTrans ==
  ASSUME NEW d, NEW r, NEW t, Retained(d, r)
  PROVE  /\ Bussed(r, t) => Bussed(d, t)
         /\ Retained(r, t) => Retained(d, t)
BY DEF Retained, Bussed

LEMMA RetainedBy ==
  ASSUME NEW d, Shaped(d)
  PROVE  /\ Retained(d, d)
         /\ Retained(d, StartTimer(d)) /\ Retained(d, StopTimer(d))
         /\ \A p \in Dlcis : Retained(d, OpenAsync(d, p)) /\ \A o : Retained(d, Attach(d, p, o))
         /\ Retained(d, OpenAsync(d, "UART")) /\ Retained(d, CloseAsync(d, "UART"))
         /\ \A p \in Dlcis : Retained(d, ChatAttach(d, p)) /\ Retained(d, Release(d, p))
         /\ \A s : Retained(d, RunScript(d, s))
         /\ Retained(d, ChatRelease(d))
         /\ Retained(d, PppAttach(d)) /\ Retained(d, PppRelease(d))
         /\ Retained(d, CarrierOff(d))
         /\ \A e : Retained(d, Delegate(d, e))
         /\ Retained(d, ScriptFailed(d)) /\ Retained(d, ScriptSuccess(d))
<1>1. Retained(d, d)
  BY DEF Retained, Bussed
<1>2. \A x : Retained(d, [d EXCEPT !.timer = x])
  BY DEF Retained, Bussed, Shaped
<1>3. Retained(d, StartTimer(d)) /\ Retained(d, StopTimer(d))
  BY <1>1, <1>2 DEF StartTimer, StopTimer
<1>4. \A p \in Dlcis : \A o : Retained(d, Attach(d, p, o))
  BY DEF Retained, Bussed, Shaped, Attach, Dlcis, Pipes
<1>5. \A p : Retained(d, OpenAsync(d, p)) /\ Retained(d, CloseAsync(d, p))
  BY DEF Retained, Bussed, Shaped, OpenAsync, CloseAsync, Request
<1>6. \A p \in Dlcis : Retained(d, ChatAttach(d, p)) /\ Retained(d, Release(d, p))
  BY <1>4 DEF Retained, Bussed, Shaped, ChatAttach, Attach, Release, Dlcis, Pipes
<1>7. \A s : Retained(d, RunScript(d, s))
  BY <1>1 DEF Retained, Bussed, Shaped, RunScript
<1>8. Retained(d, ChatRelease(d))
  BY DEF Retained, Bussed, Shaped, ChatRelease, Release, Attach, Pipes
<1>9. Retained(d, PppAttach(d)) /\ Retained(d, PppRelease(d))
  BY <1>1 DEF Retained, Bussed, Shaped, PppAttach, PppRelease, Release, Attach, Pipes
<1>10. Retained(d, CarrierOff(d)) /\ Retained(d, ScriptFailed(d)) /\ Retained(d, ScriptSuccess(d))
  BY DEF Retained, Bussed, Shaped, CarrierOff, ScriptFailed, ScriptSuccess
<1>11. \A e : Retained(d, Delegate(d, e))
  BY DEF Retained, Bussed, Shaped, Delegate
<1> QED
  BY <1>1, <1>3, <1>4, <1>5, <1>6, <1>7, <1>8, <1>9, <1>10, <1>11

LEMMA OffShaped ==
  ASSUME NEW d, Shaped(d)
  PROVE  /\ Shaped(CmuxRelease(d)) /\ CmuxRelease(d).users = d.users
         /\ Shaped(CmuxDisconnect(d)) /\ CmuxDisconnect(d).users = d.users
         /\ Shaped(SemGive(d)) /\ SemGive(d).users = d.users
         /\ \A p : Shaped(ChatAttach(d, p)) /\ ChatAttach(d, p).users = d.users
BY DEF Shaped, CmuxRelease, CloseDlcis, Release, Attach, CmuxDisconnect, SemGive,
       ChatAttach

(* The user pipes are told only when CMUX connects and in a power-off. *)
LEMMA LeaveUsers ==
  ASSUME NEW d, Shaped(d), NEW s
  PROVE  LET r == Become(d, s)
         IN  /\ Shaped(r)
             /\ r.users = IF d.state = "INIT_POWER_OFF" THEN FALSE ELSE d.users
<1> DEFINE a == OnStateLeave(d)
<1>1. Shaped(a) /\ a.users = IF d.state = "INIT_POWER_OFF" THEN FALSE ELSE d.users
  <2>1. CASE d.state = "IDLE"
    BY <2>1 DEF OnStateLeave, IdleLeave, Shaped
  <2>2. CASE d.state = "RESET_PULSE"
    BY <2>2 DEF OnStateLeave, ResetPulseLeave, StopTimer, Shaped
  <2>3. CASE d.state \in {"OPEN_DLCI1", "OPEN_DLCI2"}
    <3>1. a = Release(d, d.state) \/ a = Release(d, "DLCI1") \/ a = Release(d, "DLCI2")
      BY <2>3 DEF OnStateLeave
    <3> QED
      BY <2>3, <3>1, RetainedBy DEF Retained, Bussed, Dlcis, OnStateLeave
  <2>4. CASE d.state = "DORMANT"
    <3> DEFINE c == CarrierOff(d)
               h == ChatRelease(c)
               p == PppRelease(h)
    <3>1. Shaped(c) /\ c.users = d.users
      BY RetainedBy DEF Retained, Bussed
    <3>2. Shaped(h) /\ h.users = d.users
      BY <3>1, RetainedBy DEF Retained, Bussed
    <3>3. Shaped(p) /\ p.users = d.users
      BY <3>2, RetainedBy DEF Retained, Bussed
    <3> HIDE DEF p
    <3>4. a = [p EXCEPT !.dormant = FALSE]
      BY <2>4 DEF OnStateLeave, DormantLeave, p
    <3> QED
      BY <2>4, <3>3, <3>4 DEF Shaped
  <2>5. CASE d.state = "INIT_POWER_OFF"
    <3> DEFINE c == [d EXCEPT !.users = FALSE]
               h == ChatRelease(c)
               p == PppRelease(h)
    <3>1. Shaped(c) /\ c.users = FALSE
      BY DEF Shaped
    <3> HIDE DEF c
    <3>2. Shaped(h) /\ h.users = FALSE
      BY <3>1, RetainedBy DEF Retained, Bussed
    <3> HIDE DEF h
    <3>3. Shaped(p) /\ p.users = FALSE
      BY <3>2, RetainedBy DEF Retained, Bussed
    <3>4. a = p
      BY <2>5 DEF OnStateLeave, InitPowerOffLeave, p, h, c
    <3> QED
      BY <2>5, <3>3, <3>4
  <2>6. CASE d.state \notin {"IDLE", "RESET_PULSE", "OPEN_DLCI1", "OPEN_DLCI2",
                             "DORMANT", "INIT_POWER_OFF"}
    <3>1. a \in {d, StopTimer(d), ChatRelease(d)}
      BY <2>6 DEF OnStateLeave
    <3>2. Retained(d, d) /\ Retained(d, StopTimer(d)) /\ Retained(d, ChatRelease(d))
      BY RetainedBy
    <3>3. Retained(d, a)
      BY <3>1, <3>2
    <3> QED
      BY <2>6, <3>3 DEF Retained, Bussed
  <2> QED
    BY <2>1, <2>2, <2>3, <2>4, <2>5, <2>6
<1> HIDE DEF a
<1>2. Become(d, s) = [a EXCEPT !.state = s, !.done = {}]
  BY DEF Become, a
<1> QED
  BY <1>1, <1>2 DEF Shaped

Whole(d) == Formed(d) /\ Shaped(d)

(* Once the modem is off or on its way there the user pipes are closed. *)
LEMMA EnterOff ==
  ASSUME NEW d, Whole(d), NEW s \in Off,
         \/ s \in {"IDLE", "INIT_POWER_OFF"} \/ d.state = "INIT_POWER_OFF"
         \/ ~d.users
  PROVE  LET r == EnterState(d, s)
         IN  Staged(r) /\ Whole(r) /\ r.state = s /\ r.events = d.events
<1> DEFINE b == Become(d, s)
           r == OnStateEnter(b)
<1>1. /\ Shaped(b) /\ b.state = s
      /\ b.users => s \in {"IDLE", "INIT_POWER_OFF"}
  <2>1. b.state = s /\ Shaped(b)
    BY LeaveUsers, OnlyBecome DEF Whole
  <2>2. b.users = IF d.state = "INIT_POWER_OFF" THEN FALSE ELSE d.users
    BY LeaveUsers DEF Whole
  <2> QED
    BY <2>1, <2>2
<1>2. EnterState(d, s) = r
  BY DEF EnterState
<1>3. Formed(r) /\ r.state = s /\ r.events = d.events
  <2>1. s \in States /\ s # "AWAIT_REGISTERED"
    BY DEF Off, PowerOffStates, States
  <2>2. Entry(d, r, s)
    BY <1>2, <2>1, EnterStateEntry DEF Whole
  <2> QED
    BY <2>1, <2>2 DEF Entry, Only
<1> HIDE DEF b
<1>4. Shaped(r) /\ (r.users => s = "INIT_POWER_OFF")
  <2>1. CASE s = "IDLE"
    <3> DEFINE h == ChatRelease(b)
               p == PppRelease(h)
               c == CmuxRelease(p)
               o == CloseAsync(c, "UART")
    <3>1. Shaped(h)
      BY <1>1, RetainedBy DEF Retained, Bussed
    <3>2. Shaped(p)
      BY <3>1, RetainedBy DEF Retained, Bussed
    <3>3. Shaped(c)
      BY <3>2, OffShaped
    <3>4. Shaped(o)
      BY <3>3, RetainedBy DEF Retained, Bussed
    <3> HIDE DEF o
    <3> DEFINE t == [o EXCEPT !.wake = FALSE, !.users = FALSE,
                       !.reset = (HasResetGpio /\ HoldResetOnSuspend) \/ @]
    <3>5. Shaped(t) /\ t.users = FALSE
      BY <3>4 DEF Shaped
    <3>6. r = SemGive(t)
      BY <1>1, <2>1 DEF OnStateEnter, IdleEnter, t, o
    <3> HIDE DEF t
    <3> QED
      BY <3>5, <3>6, OffShaped
  <2>2. CASE s = "INIT_POWER_OFF"
    <3> DEFINE c == CmuxDisconnect(b)
    <3>1. Shaped(c)
      BY <1>1, OffShaped
    <3>2. r = StartTimer(c)
      BY <1>1, <2>2 DEF OnStateEnter, InitPowerOffEnter
    <3> HIDE DEF c
    <3> QED
      BY <2>2, <3>1, <3>2, RetainedBy DEF Retained, Bussed
  <2>3. CASE s = "RUN_SHUTDOWN_SCRIPT"
    <3> DEFINE c == ChatAttach(b, b.cmdPipe)
    <3>1. Shaped(c) /\ c.users = b.users
      BY <1>1, OffShaped
    <3>2. r = RunScript(c, "shutdown")
      BY <1>1, <2>3 DEF OnStateEnter
    <3> HIDE DEF c
    <3>3. Retained(c, r)
      BY <3>1, <3>2, RetainedBy
    <3> QED
      BY <1>1, <2>3, <3>1, <3>3 DEF Retained, Bussed
  <2>4. CASE s = "POWER_OFF_PULSE"
    <3> DEFINE c == [b EXCEPT !.cmdPipe = "none"]
    <3>1. Shaped(c) /\ c.users = b.users
      BY <1>1 DEF Shaped
    <3>2. r = StartTimer(c)
      BY <1>1, <2>4 DEF OnStateEnter
    <3> HIDE DEF c
    <3> QED
      BY <1>1, <2>4, <3>1, <3>2, RetainedBy DEF Retained, Bussed
  <2>5. CASE s = "AWAIT_POWER_OFF"
    <3>1. r = StartTimer(b)
      BY <1>1, <2>5 DEF OnStateEnter
    <3> QED
      BY <1>1, <2>5, <3>1, RetainedBy DEF Retained, Bussed
  <2> QED
    BY <2>1, <2>2, <2>3, <2>4, <2>5 DEF Off, PowerOffStates
<1> HIDE DEF r
<1>5. Staged(r)
  BY <1>3, <1>4 DEF Staged, Off, PowerOffStates, MuxStates, Unvisited
<1> QED
  BY <1>2, <1>3, <1>4, <1>5 DEF Whole

(* From CONNECT_CMUX on the states of a session leave the bus to CMUX. *)
LEMMA EnterBussed ==
  ASSUME NEW d, Whole(d), d.state \in MuxStates \cup {"CONNECT_CMUX"},
         NEW s \in MuxStates
  PROVE  /\ Bussed(d, EnterState(d, s)) /\ EnterState(d, s).state = s
         /\ Bussed(d, Become(d, s)) /\ Become(d, s).state = s
<1> DEFINE l == OnStateLeave(d)
           b == Become(d, s)
           r == OnStateEnter(b)
<1>1. Bussed(d, l)
  <2>1. CASE d.state = "DORMANT"
    <3> DEFINE c == CarrierOff(d)
               h == ChatRelease(c)
               p == PppRelease(h)
    <3>1. Retained(d, c)
      BY RetainedBy DEF Whole
    <3>2. Retained(c, h)
      BY <3>1, RetainedBy DEF Retained, Bussed
    <3>3. Retained(h, p)
      BY <3>2, RetainedBy DEF Retained, Bussed
    <3>4. Retained(d, p)
      BY <3>1, <3>2, <3>3, RetainedTrans
    <3> HIDE DEF p
    <3>5. l = [p EXCEPT !.dormant = FALSE]
      BY <2>1 DEF OnStateLeave, DormantLeave, p
    <3> QED
      BY <3>4, <3>5 DEF Retained, Bussed, Shaped
  <2>2. CASE d.state # "DORMANT"
    <3>1. l \in {d, StopTimer(d), ChatRelease(d), Release(d, "DLCI1"),
                 Release(d, "DLCI2")}
      BY <2>2 DEF OnStateLeave, MuxStates
    <3> QED
      BY <3>1, RetainedBy DEF Retained, Whole, Dlcis
  <2> QED
    BY <2>1, <2>2
<1> HIDE DEF l
<1>2. b = [l EXCEPT !.state = s, !.done = {}]
  BY DEF Become, l
<1> HIDE DEF b
<1>3. Bussed(d, b) /\ b.state = s
  BY <1>1, <1>2 DEF Bussed, Shaped
<1>4. Bussed(b, r)
  <2>0. Shaped(b)
    BY <1>3 DEF Bussed
  <2>1. CASE s = "AWAIT_REGISTERED"
    <3> DEFINE p == PppAttach(b)
               n == IF IsRegistered(b) THEN Delegate(p, "REGISTERED") ELSE p
               t == StartTimer(n)
               c == ChatAttach(t, "DLCI2")
    <3>1. Retained(b, p)
      BY <2>0, RetainedBy
    <3>2. Shaped(p)
      BY <3>1 DEF Retained, Bussed
    <3> HIDE DEF p
    <3>3. Retained(p, n)
      BY <3>2, RetainedBy
    <3>4. Shaped(n)
      BY <3>3 DEF Retained, Bussed
    <3> HIDE DEF n
    <3>5. Retained(n, t)
      BY <3>4, RetainedBy
    <3>6. Shaped(t)
      BY <3>5 DEF Retained, Bussed
    <3> HIDE DEF t
    <3>7. Retained(t, c)
      BY <3>6, RetainedBy DEF Dlcis
    <3>8. r = c
      BY <1>3, <2>1 DEF OnStateEnter, AwaitRegisteredEnter, c, t, n, p
    <3> HIDE DEF c
    <3> QED
      BY <3>1, <3>3, <3>5, <3>7, <3>8, RetainedTrans DEF Retained
  <2>2. CASE s = "CARRIER_ON"
    <3> DEFINE p == [b EXCEPT !.carrier = TRUE, !.pppLive = TRUE]
    <3>1. Retained(b, p)
      BY <2>0 DEF Retained, Bussed, Shaped
    <3>2. r = StartTimer(p)
      BY <1>3, <2>2 DEF OnStateEnter, CarrierOnEnter
    <3> HIDE DEF p
    <3>3. Retained(p, r)
      BY <3>1, <3>2, RetainedBy DEF Retained, Bussed
    <3> QED
      BY <3>1, <3>3, RetainedTrans DEF Retained
  <2>3. CASE s \in Dlcis \cup {"OPEN_DLCI1", "OPEN_DLCI2"}
    <3>1. PICK p \in Dlcis : r = OpenAsync(Attach(b, p, "driver"), p)
      BY <1>3, <2>3 DEF OnStateEnter, MuxStates, Dlcis
    <3> DEFINE a == Attach(b, p, "driver")
    <3>2. Retained(b, a)
      BY <2>0, RetainedBy
    <3>3. Retained(a, OpenAsync(a, p))
      BY <3>2, RetainedBy DEF Retained, Bussed
    <3> HIDE DEF a
    <3> QED
      BY <3>1, <3>2, <3>3, RetainedTrans DEF Retained, a
  <2>4. CASE s = "RUN_APN_SCRIPT"
    <3> DEFINE p == StartTimer(b)
    <3>1. Retained(b, p)
      BY <2>0, RetainedBy
    <3> HIDE DEF p
    <3>2. r = [p EXCEPT !.apnScript = IF UseDefaultApn THEN "none" ELSE p.apn]
      BY <1>3, <2>4 DEF OnStateEnter, BuildApnScript, p
    <3> QED
      BY <3>1, <3>2 DEF Retained, Bussed, Shaped
  <2>5. CASE s \in {"WAIT_FOR_APN", "RUN_DIAL_SCRIPT"}
    <3>1. r \in {b, StartTimer(b)}
      BY <1>3, <2>5 DEF OnStateEnter
    <3> QED
      BY <2>0, <3>1, RetainedBy DEF Retained
  <2>6. CASE s = "DORMANT"
    <3>1. r = [b EXCEPT !.dormant = TRUE]
      BY <1>3, <2>6 DEF OnStateEnter
    <3> QED
      BY <2>0, <3>1 DEF Bussed, Shaped
  <2> QED
    BY <2>1, <2>2, <2>3, <2>4, <2>5, <2>6 DEF MuxStates
<1>5. EnterState(d, s) = r
  BY DEF EnterState, b
<1>6. EnterState(d, s).state = s
  <2>1. s \in States
    BY DEF MuxStates, States
  <2> QED
    BY ZenonT(60), <2>1, EnterStateEntry DEF Whole, Entry
<1> QED
  BY <1>3, <1>4, <1>5, <1>6 DEF Bussed, b

-----------------------------------------------------------------------------
(* The handlers *)

Turned ==
  Direct /\ OInv /\ Before /\ After /\ data.ops["UART"] = <<>>
(* What a handler leaves in order. *)
Settles ==
  /\ Staged(data')
  /\ data.state = "IDLE" =>
       /\ data'.events = Taken.events
       /\ IF data'.state = "IDLE" THEN data'.ops["UART"] = <<>>
                                  ELSE Event = "RESUME"
  /\ data.state # "IDLE" /\ Has(data'.events, "RESUME") =>
       \/ Has(Taken.events, "RESUME")
       \/ data'.state = "IDLE" /\ data'.cb["UART"] # "driver"

LEMMA WholeGood ==
  ASSUME NEW d, GoodData(d)
  PROVE  Whole(d)
<1>1. Formed(d)
  BY FormedGood
<1>2. Shaped(d)
  BY DEF GoodData, Data, Shaped
<1> QED
  BY <1>1, <1>2 DEF Whole

(* Reading the pipe keeps what is sole, in order or queued once. *)
LEMMA TakenWhole ==
  ASSUME Turned
  PROVE  /\ Whole(data) /\ Whole(Taken) /\ Retained(data, Taken)
         /\ Only(data, Taken, {"events"}) /\ Event \in Events
         /\ \A x : Has(data.events, x) <=> x = Event \/ Has(Taken.events, x)
         /\ \A S : Sole(data.events, S) =>
              /\ Sole(Taken.events, S)
              /\ Event \in Fresh => Event \in S /\ Sole(Taken.events, {})
         /\ Orderly(Taken.events)
         /\ Event \in Bus => ~Has(Taken.events, "TIMEOUT")
         /\ \A x : Once(data.events, x) =>
              Once(Taken.events, x) /\ (Event = x => ~Has(Taken.events, x))
         /\ Clear(data.events) =>
              Clear(Taken.events) /\ (Event = "RESUME" => Sole(Taken.events, {}))
<1>1. /\ Formed(data) /\ Only(data, Taken, {"events"}) /\ Formed(Taken)
      /\ Taken.events = Tail(data.events) /\ Event \in Events
      /\ \A x : Has(data.events, x) <=> x = Event \/ Has(Taken.events, x)
  BY TakenOnly DEF Turned
<1>2. Whole(data)
  BY WholeGood DEF Turned, Before
<1>3. Retained(data, Taken) /\ Shaped(Taken)
  BY <1>2 DEF Whole, Shaped, Retained, Bussed, Taken
<1>4. data.events \in Seq(Events) /\ data.events # <<>> /\ Event = Head(data.events)
  BY <1>1 DEF Formed, Turned, Before, Event
<1>5. Orderly(data.events)
  BY DEF Turned, OInv, Order, Batch
<1>6. \A S : Sole(data.events, S) =>
        /\ Sole(Taken.events, S)
        /\ Event \in Fresh => Event \in S /\ Sole(Taken.events, {})
  BY <1>1, <1>4, SoleTail
<1>7. /\ Orderly(Taken.events)
      /\ Event \in Bus => ~Has(Taken.events, "TIMEOUT")
  BY <1>1, <1>4, <1>5, OrderlyTail
<1>8. \A x : Once(data.events, x) =>
        Once(Taken.events, x) /\ (Event = x => ~Has(Taken.events, x))
  BY <1>1, <1>4, OnceQueue
<1>9. Clear(data.events) =>
        Clear(Taken.events) /\ (Event = "RESUME" => Sole(Taken.events, {}))
  BY <1>1, <1>4, ClearQueue
<1> QED
  BY <1>1, <1>2, <1>3, <1>6, <1>7, <1>8, <1>9 DEF Whole

(* A handler that settles keeps the order. *)
LEMMA Settling ==
  ASSUME Turned, Settles, draining' = TRUE
  PROVE  Order'
<1>1. /\ Pushes(Taken, data') /\ Formed(data')
  BY DEF Turned, After, Turn
<1>2. Taken.events \in Seq(Events) /\ Formed(data) /\ Event \in Events
  BY TakenWhole DEF Whole, Formed
<1>3. data'.events = Taken.events \/
        \E x \in {"REGISTERED", "SUSPEND", "RESUME"} :
          data'.events = Append(Taken.events, x)
  BY <1>1 DEF Pushes
<1>4. {"REGISTERED", "SUSPEND", "RESUME"} \subseteq Events \ {"TIMEOUT"}
  BY DEF Events
<1>5. Orderly(data'.events)
  BY <1>2, <1>3, <1>4, TakenWhole, OrderlyAppend
<1>6. Batch(data', draining')
  BY <1>5 DEF Batch
<1>7. Resumes(data, draining)
  BY DEF Turned, OInv, Order
<1>8. /\ Once(Taken.events, "RESUME")
      /\ Event = "RESUME" => ~Has(Taken.events, "RESUME")
      /\ \A x : Has(data.events, x) <=> x = Event \/ Has(Taken.events, x)
  BY <1>7, TakenWhole DEF Resumes
<1>9. Resumes(data', draining')
  <2>1. CASE data.state = "IDLE"
    <3>1. data'.events = Taken.events
      BY <2>1 DEF Settles
    <3>2. CASE Has(Taken.events, "RESUME")
      <4>1. Clear(data.events) /\ data'.state = "IDLE" /\ data'.ops["UART"] = <<>>
        BY <1>7, <1>8, <2>1, <3>2 DEF Resumes, Settles
      <4>2. Clear(Taken.events)
        BY <4>1, TakenWhole
      <4> QED
        BY <1>8, <3>1, <4>1, <4>2 DEF Resumes
    <3>3. CASE ~Has(Taken.events, "RESUME")
      BY <1>8, <3>1, <3>3 DEF Resumes
    <3> QED
      BY <3>2, <3>3
  <2>2. CASE data.state # "IDLE"
    <3>1. ~Has(Taken.events, "RESUME")
      BY <1>7, <1>8, <2>2 DEF Resumes, Event
    <3>2. CASE ~Has(data'.events, "RESUME")
      BY <3>2 DEF Resumes, Once, Has
    <3>3. CASE Has(data'.events, "RESUME")
      <4>1. data'.state = "IDLE" /\ data'.cb["UART"] # "driver"
        BY <2>2, <3>1, <3>3 DEF Settles
      <4>2. PICK x \in {"REGISTERED", "SUSPEND", "RESUME"} :
              data'.events = Append(Taken.events, x)
        BY <1>3, <3>1, <3>3
      <4>3. Clear(data'.events) /\ Once(data'.events, "RESUME")
        BY <1>2, <1>4, <1>8, <3>1, <4>2, ClearQueue, OnceQueue
      <4> QED
        BY <4>1, <4>3 DEF Resumes
    <3> QED
      BY <3>2, <3>3
  <2> QED
    BY <2>1, <2>2
<1> QED
  BY <1>6, <1>9 DEF Order, Settles

(* A handler that only reads the event, in a state that does not wait for it. *)
LEMMA AtTaken ==
  ASSUME Turned, Event \notin Fresh
  PROVE  /\ \A o, p, S : At(data, o, p, S) => At(Taken, o, p, S)
         /\ \A e \in Fresh : Has(Taken.events, e) <=> Has(data.events, e)
         /\ Taken.cb = data.cb /\ Taken.cmux = data.cmux /\ Taken.lost = data.lost
         /\ Taken.done = data.done /\ Taken.script = data.script
         /\ Taken.state = data.state /\ Taken.timer = data.timer
         /\ Untimed(data) => Untimed(Taken)
         /\ Once(data.events, "TIMEOUT") => Once(Taken.events, "TIMEOUT")
         /\ Taken.users = data.users
<1>1. /\ Taken.ops = data.ops /\ Taken.chatPipe = data.chatPipe
      /\ Taken.cb = data.cb /\ Taken.cmux = data.cmux /\ Taken.lost = data.lost
      /\ Taken.script = data.script
      /\ Taken.state = data.state /\ Taken.timer = data.timer
  BY TakenWhole DEF Only, Fields
<1>2. Taken.done = data.done /\ Taken.users = data.users
  BY TakenWhole DEF Retained, Bussed
<1>3. /\ \A x : Has(data.events, x) <=> x = Event \/ Has(Taken.events, x)
      /\ \A S : Sole(data.events, S) => Sole(Taken.events, S)
      /\ Once(data.events, "TIMEOUT") => Once(Taken.events, "TIMEOUT")
  BY TakenWhole
<1>4. \A o, p, S : At(data, o, p, S) => At(Taken, o, p, S)
  BY <1>1, <1>3 DEF At
<1> QED
  BY <1>1, <1>2, <1>3, <1>4 DEF Untimed

(* A handler that takes a running session to its end. *)
LEMMA Stopping ==
  ASSUME Turned, data.state # "IDLE", NEW a, Whole(a), a.events = Taken.events,
         NEW s \in Off, data' = EnterState(a, s),
         \/ s \in {"IDLE", "INIT_POWER_OFF"} \/ a.state = "INIT_POWER_OFF"
         \/ ~a.users
  PROVE  Settles
<1>1. Staged(data') /\ data'.events = Taken.events
  BY EnterOff
<1> QED
  BY <1>1 DEF Settles

LEMMA IdleSettles ==
  ASSUME Turned, IdleHandler
  PROVE  Settles
<1>1. /\ data.state = "IDLE" /\ Whole(Taken) /\ Taken.state = "IDLE"
      /\ Taken.ops = data.ops /\ Taken.chatPipe = data.chatPipe
      /\ Taken.script = data.script /\ Taken.users = data.users
  BY TakenWhole DEF IdleHandler, In, Only, Fields, Retained, Bussed
<1>2. data.chatPipe = "none" /\ data.script = "none" /\ ~data.users
  BY <1>1 DEF Turned, Before, GoodData, Good, Sound
<1>3. CASE On("RESUME") /\ data' = EnterState(Taken, "RUN_INIT_SCRIPT")
  <2> DEFINE b == Become(Taken, "RUN_INIT_SCRIPT")
             l == IdleLeave(Taken)
  <2>0. Whole(b) /\ b.state = "RUN_INIT_SCRIPT" /\ ~b.users
    BY ZenonT(60), <1>1, <1>2, LeaveUsers, OnlyBecome DEF Whole, Only
  <2>1. b = [l EXCEPT !.state = "RUN_INIT_SCRIPT", !.done = {}]
    BY <1>1 DEF Become, OnStateLeave
  <2>2. b.ops = data.ops /\ b.chatPipe = "none" /\ b.script = "none"
    BY <1>1, <1>2, <2>1 DEF IdleLeave, Whole, Shaped
  <2>3. data' = OpenBus(b)
    <3> HIDE DEF b
    <3>1. data' = OnStateEnter(b)
      BY <1>3 DEF EnterState, b
    <3> QED
      BY <2>0, <3>1 DEF OnStateEnter
  <2> HIDE DEF b
  <2>4. /\ data'.ops["UART"] = <<"open">> /\ data'.cb["UART"] = "driver"
        /\ data'.chatPipe = "none" /\ data'.script = "none"
        /\ ~data'.users
    <3>1. b.ops["UART"] = <<>>
      BY <2>2 DEF Turned
    <3>2. Append(b.ops["UART"], "open") = <<"open">>
      BY <3>1
    <3> QED
      BY <2>0, <2>2, <2>3, <3>2
      DEF OpenBus, OpenAsync, Request, Attach, Whole, Shaped, Pipes
  <2>5. data'.state = "RUN_INIT_SCRIPT" /\ data'.events = Taken.events
    <3>1. Entry(Taken, data', "RUN_INIT_SCRIPT")
      BY <1>1, <1>3, EnterStateEntry DEF Whole, States
    <3> QED
      BY <3>1 DEF Entry
  <2>6. Sole(Taken.events, {})
    <3>1. Has(data.events, "RESUME")
      BY <1>3, TakenWhole DEF On
    <3>2. Clear(data.events)
      BY <1>1, <3>1 DEF Turned, OInv, Order, Resumes
    <3> QED
      BY <1>3, <3>2, TakenWhole DEF On
  <2>7. Booting(data')
    BY <2>4, <2>5, <2>6 DEF Booting, At
  <2> QED
    BY <1>1, <1>3, <2>4, <2>5, <2>7 DEF Settles, Staged, MuxStates, Unvisited, On
<1>4. CASE data' \in {Taken, SemGive(Taken)}
  <2>1. /\ data'.state = "IDLE" /\ data'.events = Taken.events
        /\ data'.ops = data.ops /\ ~data'.users
    BY <1>1, <1>2, <1>4 DEF SemGive, Whole, Shaped
  <2> QED
    BY <1>1, <2>1 DEF Settles, Staged, MuxStates, Unvisited, Turned
<1> QED
  BY <1>3, <1>4 DEF IdleHandler, Ignores, Turned, Direct

LEMMA RunInitSettles ==
  ASSUME Turned, RunInitScriptHandler
  PROVE  Settles
<1>1. /\ data.state = "RUN_INIT_SCRIPT" /\ Whole(Taken) /\ Whole(data)
      /\ Taken.state = data.state /\ Taken.cb = data.cb /\ Taken.lost = data.lost
      /\ Taken.ops = data.ops /\ Taken.chatPipe = data.chatPipe
      /\ Taken.script = data.script /\ Taken.done = data.done
      /\ Taken.users = data.users /\ Taken.cmux = data.cmux
  BY TakenWhole DEF RunInitScriptHandler, In, Only, Fields, Retained, Bussed
<1>2. Booting(data) /\ ~data.users /\ data.ops["UART"] = <<>> /\ data.cmux = "released"
  BY <1>1 DEF Turned, OInv, Order, Staged, MuxStates, Before, Linked, BootStates
<1>3. \A S : Sole(data.events, S) =>
        /\ Event \in Fresh => Event \in S /\ Sole(Taken.events, {})
        /\ \A e \in Fresh : Has(data.events, e) => e \in S
  BY TakenWhole, SoleHas
<1>4. Has(data.events, Event)
  BY TakenWhole
<1>5. ASSUME data'.state = "RUN_INIT_SCRIPT", Booting(data'), ~data'.users,
             data'.events = Taken.events
      PROVE  Settles
  BY <1>1, <1>5 DEF Settles, Staged, MuxStates, Unvisited
<1>6. CASE On("BUS_OPENED") /\ data' = RunScript(ChatAttach(Taken, "UART"), "init")
  <2>1. At(data, <<>>, "none", {"BUS_OPENED"}) /\ Sole(Taken.events, {})
    BY <1>2, <1>3, <1>6 DEF Booting, At, Fresh, Bus, Results, On
  <2>2. /\ data'.chatPipe = "UART" /\ data'.script = "init"
        /\ data'.ops = data.ops /\ data'.events = Taken.events
        /\ data'.state = data.state /\ data'.users = data.users
    BY <1>1, <1>6, <2>1 DEF At, RunScript, ChatAttach, Attach, Whole, Shaped
  <2>3. Booting(data')
    BY <1>2, <2>1, <2>2 DEF Booting, At
  <2> QED
    BY <1>1, <1>2, <1>5, <2>2, <2>3
<1>7. CASE On("SCRIPT_SUCCESS") /\ data' = CloseBus(ChatRelease(Taken))
  <2>1. At(data, <<>>, "UART", Results) /\ Sole(Taken.events, {}) /\ Inited(data)
    <3>1. At(data, <<>>, "UART", Results)
      BY <1>2, <1>3, <1>7 DEF Booting, At, Fresh, Bus, Results, On
    <3>2. Sole(data.events, Results) /\ Sole(Taken.events, {})
      BY <1>3, <1>7, <3>1 DEF At, On, Fresh, Results
    <3>3. ~Has(data.events, "SCRIPT_FAILED")
      BY <1>4, <1>7, <3>2, SoleHas DEF On, Fresh, Results
    <3>4. Inited(data)
      BY <1>2, <1>3, <1>7, <3>3 DEF Booting, At, Fresh, Bus, Results, On, Inited
    <3> QED
      BY <3>1, <3>2, <3>4
  <2> DEFINE a == ChatRelease(Taken)
  <2>2. /\ a.chatPipe = "none" /\ a.script = "none" /\ a.ops = data.ops
        /\ a.events = Taken.events /\ a.state = data.state
        /\ a.users = data.users /\ a.done = data.done /\ a.lost = data.lost
        /\ Shaped(a)
    BY <1>1, <2>1 DEF At, ChatRelease, Release, Attach, Whole, Shaped
  <2> HIDE DEF a
  <2>3. Append(a.ops["UART"], "close") = <<"close">>
    <3>1. a.ops["UART"] = <<>>
      BY <1>2, <2>2
    <3> QED
      BY <3>1
  <2>4. /\ data'.chatPipe = "none" /\ data'.script = "none"
        /\ data'.ops["UART"] = <<"close">> /\ data'.cb["UART"] = "driver"
        /\ data'.events = Taken.events /\ data'.state = data.state
        /\ data'.users = data.users /\ data'.done = data.done
        /\ data'.lost = data.lost
    BY <1>7, <2>2, <2>3
    DEF CloseBus, CloseAsync, Request, Attach, Shaped, Pipes, a
  <2>5. Booting(data')
    BY <2>1, <2>4 DEF Booting, At, Inited
  <2> QED
    BY <1>1, <1>2, <1>5, <2>4, <2>5
<1>8. CASE On("BUS_CLOSED") /\ data' = EnterState(Taken, "CONNECT_CMUX")
  <2>1. At(data, <<>>, "none", {"BUS_CLOSED"}) /\ Sole(Taken.events, {})
    BY <1>2, <1>3, <1>8 DEF Booting, At, Fresh, Bus, Results, On
  <2>2. ~Has(Taken.events, "TIMEOUT")
    BY <1>8, TakenWhole DEF On, Bus
  <2> DEFINE b == [Taken EXCEPT !.state = "CONNECT_CMUX", !.done = {}]
  <2>3. data' = StartTimer(b)
    <3>1. /\ Become(Taken, "CONNECT_CMUX") = b
          /\ b.state = "CONNECT_CMUX"
      BY <1>1 DEF Become, OnStateLeave, Whole, Shaped
    <3> HIDE DEF b
    <3> QED
      BY <1>8, <3>1 DEF EnterState, OnStateEnter
  <2>4. /\ data'.chatPipe = "none" /\ data'.script = "none"
        /\ data'.ops["UART"] = <<>> /\ data'.cmux = "released"
        /\ data'.events = Taken.events /\ data'.state = "CONNECT_CMUX"
        /\ data'.users = data.users
    BY <1>1, <1>2, <2>1, <2>3 DEF At, StartTimer, Whole, Shaped
  <2>5. Once(Taken.events, "TIMEOUT")
    BY <2>2 DEF Once, Has
  <2>6. Linking(data')
    BY <2>1, <2>2, <2>4, <2>5 DEF Linking, At
  <2> QED
    BY <1>1, <1>2, <2>4, <2>6 DEF Settles, Staged, MuxStates, Unvisited
<1>9. CASE Event \in {"SUSPEND", "SCRIPT_FAILED"} /\ data' = EnterState(Taken, "IDLE")
  BY <1>1, <1>9, Stopping DEF Off
<1>10. CASE Ignores({"BUS_OPENED", "SCRIPT_SUCCESS", "BUS_CLOSED", "SUSPEND",
                     "SCRIPT_FAILED"})
  <2>1. Event \notin Fresh
    BY <1>2, <1>3, <1>10 DEF Ignores, Booting, At, Fresh, Bus, Results
  <2>2. Booting(Taken)
    BY <1>2, <2>1, AtTaken DEF Booting, Inited, Fresh, Results
  <2> QED
    BY <1>1, <1>2, <1>5, <1>10, <2>2 DEF Ignores
<1> QED
  BY <1>6, <1>7, <1>8, <1>9, <1>10 DEF RunInitScriptHandler, On, Turned, Direct

(* Opening a DLCI leaves the requests and the chat alone. *)
LEMMA EnterLinked ==
  ASSUME NEW d, Whole(d), d.state \in {"CONNECT_CMUX", "OPEN_DLCI1", "OPEN_DLCI2"},
         NEW s \in {"OPEN_DLCI1", "OPEN_DLCI2", "WAIT_FOR_APN"}
  PROVE  LET r == EnterState(d, s)
         IN  /\ r.ops["UART"] = d.ops["UART"] /\ r.chatPipe = d.chatPipe
             /\ r.script = d.script /\ r.events = d.events
<1> DEFINE l == OnStateLeave(d)
           b == Become(d, s)
           r == OnStateEnter(b)
<1>1. l \in {d, Release(d, "DLCI1"), Release(d, "DLCI2")}
  BY DEF OnStateLeave
<1>2. b = [l EXCEPT !.state = s, !.done = {}]
  BY DEF Become
<1>3. /\ Shaped(l) /\ l.ops = d.ops /\ l.chatPipe = d.chatPipe
      /\ l.script = d.script /\ l.events = d.events
  BY <1>1 DEF Release, Attach, Whole, Shaped
<1> HIDE DEF l
<1>4. /\ Shaped(b) /\ b.ops = d.ops /\ b.chatPipe = d.chatPipe
      /\ b.script = d.script /\ b.events = d.events /\ b.state = s
  BY <1>2, <1>3 DEF Shaped
<1>5. EnterState(d, s) = r
  BY DEF EnterState
<1> HIDE DEF b
<1>6. r = b \/ \E p \in Dlcis : r = OpenAsync(Attach(b, p, "driver"), p)
  BY <1>4 DEF OnStateEnter, Dlcis
<1> HIDE DEF r
<1>7. CASE r = b
  BY <1>4, <1>5, <1>7
<1>8. ASSUME NEW p \in Dlcis, r = OpenAsync(Attach(b, p, "driver"), p)
      PROVE  /\ r.ops["UART"] = d.ops["UART"] /\ r.chatPipe = d.chatPipe
             /\ r.script = d.script /\ r.events = d.events
  BY <1>4, <1>8 DEF OpenAsync, Request, Attach, Shaped, Dlcis, Pipes
<1> QED
  BY <1>5, <1>6, <1>7, <1>8

LEMMA ConnectCmuxSettles ==
  ASSUME Turned, ConnectCmuxHandler
  PROVE  Settles
<1>1. /\ data.state = "CONNECT_CMUX" /\ Whole(Taken) /\ Whole(data)
      /\ Taken.state = data.state /\ Taken.cb = data.cb
      /\ Taken.timer = data.timer
      /\ Taken.ops = data.ops /\ Taken.chatPipe = data.chatPipe
      /\ Taken.script = data.script
      /\ Taken.users = data.users /\ Taken.cmux = data.cmux
  BY TakenWhole DEF ConnectCmuxHandler, In, Only, Fields, Retained, Bussed
<1>2. Linking(data) /\ ~data.users /\ data.ops["UART"] = <<>>
  BY <1>1 DEF Turned, OInv, Order, Staged, MuxStates
<1>3. /\ \A S : Sole(data.events, S) =>
           /\ Event \in Fresh => Event \in S /\ Sole(Taken.events, {})
           /\ \A e \in Fresh : Has(data.events, e) => e \in S
      /\ \A x : Has(data.events, x) <=> x = Event \/ Has(Taken.events, x)
  BY TakenWhole, SoleHas
<1>4. ASSUME data'.state = "CONNECT_CMUX", Linking(data'), ~data'.users,
             data'.events = Taken.events
      PROVE  Settles
  BY <1>1, <1>4 DEF Settles, Staged, MuxStates, Unvisited
<1>5. CASE On("TIMEOUT") /\ data' = OpenBus(Taken)
  <2>1. /\ At(data, <<>>, "none", {}) /\ data.cmux = "released"
        /\ data.timer = "off" /\ Once(data.events, "TIMEOUT")
    BY <1>2, <1>3, <1>5 DEF Linking, At, Untimed, On
  <2>2. ~Has(Taken.events, "TIMEOUT") /\ Sole(Taken.events, {})
    BY <1>5, <2>1, TakenWhole DEF On, At
  <2>3. Append(Taken.ops["UART"], "open") = <<"open">>
    <3>1. Taken.ops["UART"] = <<>>
      BY <1>1, <1>2
    <3> QED
      BY <3>1
  <2>4. /\ data'.chatPipe = "none" /\ data'.script = "none"
        /\ data'.ops["UART"] = <<"open">> /\ data'.cb["UART"] = "driver"
        /\ data'.events = Taken.events /\ data'.state = "CONNECT_CMUX"
        /\ data'.users = data.users /\ data'.cmux = "released"
        /\ data'.timer = "off"
    BY <1>1, <1>5, <2>1, <2>3
    DEF OpenBus, OpenAsync, Request, Attach, Whole, Shaped, Pipes, At
  <2>5. Linking(data')
    BY <2>2, <2>4 DEF Linking, Untimed, At
  <2> QED
    BY <1>2, <1>4, <2>4, <2>5
<1>6. CASE On("BUS_OPENED") /\ data' = CmuxConnect(CmuxAttach(Taken))
  <2>1. /\ Untimed(data) /\ At(data, <<>>, "none", {"BUS_OPENED"})
        /\ data.cmux = "released" /\ Sole(Taken.events, {})
    BY <1>2, <1>3, <1>6 DEF Linking, At, Fresh, Bus, Results, On
  <2>2. ~Has(Taken.events, "TIMEOUT") /\ data.timer = "off"
    BY <1>3, <2>1 DEF Untimed
  <2> DEFINE a == CmuxAttach(Taken)
  <2>3. /\ a.cmux = "disconnected" /\ a.cb["UART"] = "cmux" /\ Shaped(a)
        /\ a.ops = data.ops /\ a.chatPipe = "none" /\ a.script = "none"
        /\ a.events = Taken.events /\ a.state = data.state
        /\ a.users = data.users /\ a.timer = "off"
    BY <1>1, <2>1, <2>2 DEF CmuxAttach, Attach, Whole, Shaped, Pipes, At
  <2> HIDE DEF a
  <2>4. data' = CmuxConnect(a)
    BY <1>6 DEF a
  <2>5. /\ data'.cmux = "connecting" /\ data'.cb["UART"] = "cmux"
        /\ data'.ops["UART"] = <<>> /\ data'.chatPipe = "none"
        /\ data'.script = "none" /\ data'.events = Taken.events
        /\ data'.state = "CONNECT_CMUX" /\ data'.users = data.users
        /\ data'.timer = "off"
    BY <1>1, <1>2, <2>3, <2>4 DEF CmuxConnect, Shaped
  <2>6. Linking(data')
    BY <2>1, <2>2, <2>5 DEF Linking, Untimed, At
  <2> QED
    BY <1>2, <1>4, <2>5, <2>6
<1>7. CASE /\ On("CMUX_CONNECTED")
           /\ data' = EnterState([Taken EXCEPT !.users = TRUE], "OPEN_DLCI1")
  <2>1. /\ At(data, <<>>, "none", {"CMUX_CONNECTED"}) /\ data.cmux = "connected"
        /\ data.cb["UART"] = "cmux" /\ Sole(Taken.events, {})
    BY <1>2, <1>3, <1>7 DEF Linking, At, Fresh, Bus, Results, On
  <2> DEFINE a == [Taken EXCEPT !.users = TRUE]
  <2>2. /\ Whole(a) /\ a.users = TRUE /\ a.state = "CONNECT_CMUX"
        /\ a.chatPipe = "none" /\ a.script = "none" /\ a.ops["UART"] = <<>>
        /\ a.cmux = "connected" /\ a.cb["UART"] = "cmux"
        /\ a.events = Taken.events
    BY <1>1, <1>2, <2>1 DEF Whole, Shaped, Formed, Fields, At
  <2>3. data' = EnterState(a, "OPEN_DLCI1")
    BY <1>7
  <2> HIDE DEF a
  <2>4. Bussed(a, data') /\ data'.state = "OPEN_DLCI1"
    BY <2>2, <2>3, EnterBussed DEF MuxStates
  <2>5. Muxed(data')
    BY <2>2, <2>4 DEF Bussed, Muxed
  <2>6. At(data', <<>>, "none", {}) /\ data'.events = Taken.events
    BY <2>1, <2>2, <2>3, EnterLinked DEF At
  <2> QED
    BY <1>1, <2>4, <2>5, <2>6 DEF Settles, Staged, MuxStates, Unvisited
<1>8. CASE On("SUSPEND") /\ data' = EnterState(Taken, "INIT_POWER_OFF")
  BY <1>1, <1>8, Stopping DEF Off, PowerOffStates
<1>9. CASE Ignores({"TIMEOUT", "BUS_OPENED", "CMUX_CONNECTED", "SUSPEND"})
  <2>1. Event \notin Fresh
    BY <1>2, <1>3, <1>9 DEF Ignores, Linking, At, Fresh, Bus, Results
  <2>2. Linking(Taken)
    BY <1>2, <1>3, <2>1, AtTaken DEF Linking
  <2> QED
    BY <1>1, <1>2, <1>4, <1>9, <2>2 DEF Ignores
<1> QED
  BY <1>5, <1>6, <1>7, <1>8, <1>9 DEF ConnectCmuxHandler

(* What the states on the multiplexer know. *)
Online ==
  /\ Turned /\ data.state \in MuxStates
  /\ Whole(Taken) /\ Taken.state = data.state /\ Retained(data, Taken)
LEMMA OnlineBy ==
  ASSUME Turned, data.state \in MuxStates
  PROVE  /\ Online /\ Muxed(data) /\ Muxed(Taken)
         /\ \A r : Bussed(Taken, r) => Muxed(r)
         /\ Taken.ops = data.ops /\ Taken.chatPipe = data.chatPipe
         /\ Taken.script = data.script
<1>1. /\ Whole(Taken) /\ Taken.state = data.state /\ Retained(data, Taken)
      /\ Taken.ops = data.ops /\ Taken.chatPipe = data.chatPipe
      /\ Taken.script = data.script
  BY TakenWhole DEF Only, Fields
<1>2. Muxed(data)
  BY DEF Turned, OInv, Order, Staged
<1>3. Muxed(Taken)
  BY <1>1, <1>2 DEF Retained, Bussed, Muxed
<1>4. \A r : Bussed(Taken, r) => Muxed(r)
  BY <1>3 DEF Bussed, Muxed
<1> QED
  BY <1>1, <1>2, <1>3, <1>4 DEF Online

(* An event handled without leaving such a state. *)
LEMMA OnlineStays ==
  ASSUME Turned, data.state \in MuxStates, Retained(Taken, data'),
         data'.state = data.state,
         \A x : Has(data'.events, x) => Has(Taken.events, x) \/ x = "SUSPEND",
         data.state \notin {"OPEN_DLCI1", "OPEN_DLCI2", "WAIT_FOR_APN"}
  PROVE  Settles
<1>1. Muxed(data') /\ data.state # "IDLE"
  BY OnlineBy DEF Retained, MuxStates
<1>2. data'.state = "RUN_APN_SCRIPT" /\ Has(data'.events, "SCRIPT_SUCCESS")
        => data'.done # {}
  <2>1. data'.done = data.done
    BY OnlineBy DEF Online, Retained
  <2>2. Has(Taken.events, "SCRIPT_SUCCESS") => Has(data.events, "SCRIPT_SUCCESS")
    BY TakenWhole
  <2> QED
    BY <2>1, <2>2 DEF Turned, OInv, Order, Staged
<1>3. Has(data'.events, "RESUME") => Has(Taken.events, "RESUME")
  OBVIOUS
<1> QED
  BY <1>1, <1>2, <1>3 DEF Settles, Staged, MuxStates, Unvisited

(* A step along the session. *)
LEMMA OnlineMoves ==
  ASSUME Turned, data.state \in MuxStates,
         NEW a, Whole(a), Bussed(Taken, a), a.state \in MuxStates,
         a.events = Taken.events, NEW s \in MuxStates \ {"OPEN_DLCI1"},
         data' = EnterState(a, s) \/ data' = Become(a, s),
         s \in {"OPEN_DLCI2", "WAIT_FOR_APN"} => At(data', <<>>, "none", {}),
         s = "RUN_APN_SCRIPT" => ~Has(Taken.events, "SCRIPT_SUCCESS")
  PROVE  Settles
<1>1. Bussed(a, data') /\ data'.state = s
  BY EnterBussed
<1>2. Muxed(data') /\ data.state # "IDLE"
  <2>1. Muxed(a)
    BY OnlineBy
  <2> QED
    BY <1>1, <2>1 DEF Bussed, Muxed, MuxStates
<1>3. \A x : Has(data'.events, x) => Has(Taken.events, x) \/ x = "REGISTERED"
  <2>1. s \in States /\ "REGISTERED" \in Events
    BY DEF MuxStates, States, Events
  <2>2. data'.events = a.events \/ data'.events = Append(a.events, "REGISTERED")
    <3>1. CASE data' = EnterState(a, s)
      <4>1. Entry(a, data', s)
        BY <2>1, <3>1, EnterStateEntry DEF Whole
      <4> QED
        BY <4>1 DEF Entry, Queues
    <3>2. CASE data' = Become(a, s)
      BY <3>2, OnlyBecome DEF Whole, Only, Fields
    <3> QED
      BY <3>1, <3>2
  <2>3. a.events \in Seq(Events)
    BY DEF Whole, Formed
  <2>4. \A x : Has(Append(a.events, "REGISTERED"), x) <=>
               Has(a.events, x) \/ x = "REGISTERED"
    BY <2>1, <2>3, HasAppend
  <2> QED
    BY <2>2, <2>4
<1> QED
  BY <1>1, <1>2, <1>3 DEF Settles, Staged, MuxStates, Unvisited

(* The end of a session in a power-off. *)
LEMMA OnlineEnds ==
  ASSUME Turned, data.state \in MuxStates, NEW a, Whole(a),
         a.events = Taken.events, data' = EnterState(a, "INIT_POWER_OFF")
  PROVE  Settles
<1>1. data.state # "IDLE"
  BY DEF MuxStates
<1> QED
  BY <1>1, Stopping DEF Off, PowerOffStates

LEMMA OpenDlcisSettle ==
  ASSUME Turned, OpenDlci1Handler \/ OpenDlci2Handler \/ WaitForApnHandler
  PROVE  Settles
<1>1. /\ data.state \in {"OPEN_DLCI1", "OPEN_DLCI2", "WAIT_FOR_APN"}
      /\ data.state \in MuxStates
  BY DEF OpenDlci1Handler, OpenDlci2Handler, WaitForApnHandler, In, MuxStates
<1>2. Online /\ Muxed(Taken) /\ Whole(Taken) /\ Taken.state = data.state
  BY <1>1, OnlineBy DEF Online
<1>3. At(data, <<>>, "none", {})
  BY <1>1 DEF Turned, OInv, Order, Staged
<1>4. At(Taken, <<>>, "none", {})
  BY <1>1, <1>3, OnlineBy, TakenWhole DEF At
<1>5. ~Has(Taken.events, "SCRIPT_SUCCESS")
  BY <1>4, SoleHas DEF At, Fresh, Results
<1>6. Bussed(Taken, Taken)
  BY <1>2 DEF Bussed, Whole
<1>7. ASSUME NEW s \in {"OPEN_DLCI2", "WAIT_FOR_APN"}, data.state # "WAIT_FOR_APN",
             NEW a, Whole(a), Bussed(Taken, a), a.state = data.state,
             a.events = Taken.events, At(a, <<>>, "none", {}),
             data' = EnterState(a, s)
      PROVE  Settles
  <2>1. At(data', <<>>, "none", {})
    BY <1>1, <1>7, EnterLinked DEF At
  <2> QED
    BY <1>1, <1>7, <2>1, OnlineMoves DEF MuxStates
<1>8. ASSUME NEW s \in {"RUN_APN_SCRIPT", "RUN_DIAL_SCRIPT"},
             NEW a, Whole(a), Bussed(Taken, a), a.state = data.state,
             a.events = Taken.events, data' = EnterState(a, s)
      PROVE  Settles
  BY <1>1, <1>5, <1>8, OnlineMoves DEF MuxStates
<1>9. CASE /\ data.state = "OPEN_DLCI1" /\ data' = EnterState(Taken, "OPEN_DLCI2")
  BY <1>2, <1>4, <1>6, <1>7, <1>9
<1>10. CASE /\ data.state = "OPEN_DLCI2"
            /\ data' = EnterState([Taken EXCEPT !.cmdPipe = "DLCI2"],
                              IF UseDefaultPdp THEN "RUN_DIAL_SCRIPT"
                              ELSE IF NeedsApn(data) THEN "WAIT_FOR_APN"
                              ELSE "RUN_APN_SCRIPT")
  <2> DEFINE a == [Taken EXCEPT !.cmdPipe = "DLCI2"]
  <2>1. /\ Whole(a) /\ Bussed(Taken, a) /\ a.state = data.state
        /\ a.events = Taken.events /\ At(a, <<>>, "none", {})
    BY <1>2, <1>4 DEF Whole, Shaped, Formed, Fields, Bussed, At
  <2>2. \/ data' = EnterState(a, "RUN_DIAL_SCRIPT")
        \/ data' = EnterState(a, "WAIT_FOR_APN")
        \/ data' = EnterState(a, "RUN_APN_SCRIPT")
    BY <1>10
  <2> HIDE DEF a
  <2> QED
    BY <1>7, <1>8, <1>10, <2>1, <2>2
<1>11. CASE data' = EnterState(Taken, "RUN_APN_SCRIPT")
  BY <1>2, <1>6, <1>8, <1>11
<1>12. CASE data' = EnterState(Taken, "INIT_POWER_OFF")
  BY <1>1, <1>2, <1>12, OnlineEnds
<1>13. CASE data' = Taken
  BY <1>1, <1>2, <1>4, <1>13 DEF Settles, Staged, MuxStates, Unvisited, Muxed
<1> QED
  BY <1>9, <1>10, <1>11, <1>12, <1>13
  DEF OpenDlci1Handler, OpenDlci2Handler, WaitForApnHandler, In, Ignores

(* A helper that leaves the session, its pipe and the bus as they are. *)
Steady(d, r) ==
  Retained(d, r) /\ Whole(r) /\ r.state = d.state /\ r.events = d.events
LEMMA SteadyBy ==
  ASSUME NEW d, Whole(d)
  PROVE  /\ Steady(d, d) /\ Steady(d, StartTimer(d)) /\ Steady(d, StopTimer(d))
         /\ Steady(d, OpenAsync(d, "UART")) /\ Steady(d, ChatAttach(d, "DLCI1"))
         /\ \A s : Steady(d, RunScript(d, s))
         /\ Steady(d, ChatRelease(d)) /\ Steady(d, PppRelease(d))
         /\ Steady(d, CarrierOff(d))
         /\ Steady(d, ScriptFailed(d)) /\ Steady(d, ScriptSuccess(d))
<1>1. ASSUME NEW F, NEW r, Only(d, r, F), "state" \notin F, "events" \notin F,
             Retained(d, r)
      PROVE  Steady(d, r)
  BY <1>1 DEF Steady, Only, Fields, Retained, Bussed, Whole
<1>2. Formed(d) /\ Shaped(d) /\ "DLCI1" \in Dlcis
  BY DEF Whole, Dlcis
<1>3. Steady(d, d)
  BY <1>2, RetainedBy DEF Steady
<1>4. Steady(d, StartTimer(d)) /\ Steady(d, StopTimer(d))
  <2>1. Only(d, StartTimer(d), {"timer"}) /\ Only(d, StopTimer(d), {"timer"})
    BY <1>2, OnlyTimer
  <2> QED
    BY <1>1, <1>2, <2>1, RetainedBy
<1>5. Steady(d, OpenAsync(d, "UART"))
  BY <1>1, <1>2, OnlyRing, RetainedBy
<1>6. Steady(d, ChatAttach(d, "DLCI1"))
  BY <1>1, <1>2, OnlyChat, RetainedBy
<1>7. ASSUME NEW s PROVE Steady(d, RunScript(d, s))
  BY <1>1, <1>2, OnlyChat, RetainedBy
<1>8. Steady(d, ChatRelease(d))
  BY <1>1, <1>2, OnlyChatRelease, RetainedBy
<1>9. Steady(d, PppRelease(d)) /\ Steady(d, CarrierOff(d))
  BY <1>1, <1>2, OnlyPpp, RetainedBy
<1>10. Steady(d, ScriptFailed(d)) /\ Steady(d, ScriptSuccess(d))
  BY <1>1, <1>2, OnlyCount, RetainedBy
<1> QED
  BY <1>3, <1>4, <1>5, <1>6, <1>7, <1>8, <1>9, <1>10

LEMMA SteadyTrans ==
  ASSUME NEW d, NEW r, NEW t, Steady(d, r), Steady(r, t)
  PROVE  Steady(d, t)
BY RetainedTrans DEF Steady

(* The states that run scripts on the multiplexer. *)
ChatStates ==
  {"RUN_APN_SCRIPT", "RUN_DIAL_SCRIPT", "AWAIT_REGISTERED", "CARRIER_ON", "DORMANT"}
LEMMA OnlineSteady ==
  ASSUME Turned, data.state \in ChatStates, Steady(Taken, data')
  PROVE  Settles
<1>1. data.state \in MuxStates /\ Taken.state = data.state
  BY OnlineBy DEF ChatStates, MuxStates, Online
<1> QED
  BY <1>1, OnlineStays DEF Steady, ChatStates

LEMMA OnlineRearms ==
  ASSUME Turned, data.state \in ChatStates
  PROVE  /\ Whole(Taken) /\ Steady(Taken, Taken) /\ Taken.state = data.state
         /\ Whole(CountReset) /\ Steady(Taken, CountReset)
         /\ Steady(Taken, StartTimer(CountReset))
         /\ Steady(Taken, StartTimer(ScriptFailed(Taken)))
         /\ \A s : Steady(Taken, RunScript(ChatAttach(Taken, "DLCI1"), s))
         /\ \A s : Steady(Taken, RunScript(Taken, s))
         /\ \A s : Steady(Taken, RunScript(StopTimer(Taken), s))
         /\ Steady(Taken, OpenAsync(Taken, "UART"))
<1>1. Whole(Taken) /\ Taken.state = data.state
  BY OnlineBy DEF ChatStates, MuxStates, Online
<1>2. \A a : Steady(Taken, a) => Whole(a)
  BY DEF Steady
<1>3. Steady(Taken, CountReset) /\ Steady(Taken, ScriptFailed(Taken))
  BY <1>1, SteadyBy DEF CountReset
<1>4. \A a : Steady(Taken, a) => Steady(Taken, StartTimer(a))
  BY <1>2, SteadyBy, SteadyTrans
<1>5. \A a : Steady(Taken, a) => \A s : Steady(Taken, RunScript(a, s))
  BY <1>2, SteadyBy, SteadyTrans
<1> QED
  BY <1>1, <1>2, <1>3, <1>4, <1>5, SteadyBy

(* The third failure of the APN or dial script. *)
LEMMA GivingUpSettles ==
  ASSUME Turned, data.state \in {"RUN_APN_SCRIPT", "RUN_DIAL_SCRIPT"},
         RetryOr(RequestSuspend)
  PROVE  Settles
<1>1. data.state \in ChatStates /\ data.state \in MuxStates
  BY DEF ChatStates, MuxStates
<1>2. CASE data' = StartTimer(ScriptFailed(Taken))
  BY <1>1, <1>2, OnlineRearms, OnlineSteady
<1>3. CASE data' = RequestSuspend
  <2>1. Steady(Taken, CountReset) /\ Whole(CountReset)
    BY <1>1, OnlineRearms
  <2>2. Retained(CountReset, data')
    BY <1>3, <2>1, RetainedBy DEF RequestSuspend, Whole
  <2>3. Retained(Taken, data')
    BY <2>1, <2>2, RetainedTrans DEF Steady
  <2>4. /\ Only(CountReset, data', {"events", "lost"})
        /\ Queues(CountReset, data', "SUSPEND")
    BY <1>3, <2>1, OnlyDelegate DEF RequestSuspend, Events, Whole
  <2>5. data'.state = data.state
    BY <1>1, <2>1, <2>4, OnlineRearms DEF Only, Fields, Steady
  <2>6. Taken.events \in Seq(Events) /\ "SUSPEND" \in Events
    BY <1>1, OnlineRearms DEF Whole, Formed, Events
  <2>7. \A x : Has(Append(Taken.events, "SUSPEND"), x) <=>
                 Has(Taken.events, x) \/ x = "SUSPEND"
    BY <2>6, HasAppend
  <2>8. \A x : Has(data'.events, x) => Has(Taken.events, x) \/ x = "SUSPEND"
    BY <2>1, <2>4, <2>7 DEF Queues, Steady
  <2> QED
    BY <1>1, <2>3, <2>5, <2>8, OnlineStays
<1> QED
  BY <1>2, <1>3 DEF RetryOr

LEMMA RunApnScriptSettles ==
  ASSUME Turned, RunApnScriptHandler
  PROVE  Settles
<1>1. /\ data.state = "RUN_APN_SCRIPT"
      /\ data.state \in ChatStates /\ data.state \in MuxStates
  BY DEF RunApnScriptHandler, In, ChatStates, MuxStates
<1>2. CASE data' \in {Taken, RunScript(ChatAttach(Taken, "DLCI1"), "apn")}
  BY <1>1, <1>2, OnlineRearms, OnlineSteady
<1>3. CASE data' = EnterState(CountReset, "RUN_DIAL_SCRIPT")
  BY <1>1, <1>3, OnlineRearms, OnlineMoves DEF Steady, Retained, MuxStates
<1>4. CASE RetryOr(RequestSuspend)
  BY <1>1, <1>4, GivingUpSettles
<1>5. CASE data' = EnterState(Taken, "INIT_POWER_OFF")
  BY <1>1, <1>5, OnlineRearms, OnlineEnds
<1> QED
  BY <1>2, <1>3, <1>4, <1>5 DEF RunApnScriptHandler, Ignores

LEMMA RunDialScriptSettles ==
  ASSUME Turned, RunDialScriptHandler
  PROVE  Settles
<1>1. /\ data.state = "RUN_DIAL_SCRIPT"
      /\ data.state \in ChatStates /\ data.state \in MuxStates
  BY DEF RunDialScriptHandler, In, ChatStates, MuxStates
<1>2. CASE data' \in {Taken, RunScript(ChatAttach(Taken, "DLCI1"), "dial"),
                      RunScript(StopTimer(Taken), "dial"),
                      OpenAsync(Taken, "UART")}
  BY <1>1, <1>2, OnlineRearms, OnlineSteady
<1>3. CASE \/ data' = EnterState(CountReset, "AWAIT_REGISTERED")
           \/ data' = Become(CountReset, "AWAIT_REGISTERED")
  BY <1>1, <1>3, OnlineRearms, OnlineMoves DEF Steady, Retained, MuxStates
<1>4. CASE RetryOr(RequestSuspend)
  BY <1>1, <1>4, GivingUpSettles
<1>5. CASE data' = EnterState(Taken, "INIT_POWER_OFF")
  BY <1>1, <1>5, OnlineRearms, OnlineEnds
<1> QED
  BY <1>2, <1>3, <1>4, <1>5 DEF RunDialScriptHandler, Ignores

(* Releasing a CMUX that is up takes its callback from the bus. *)
LEMMA IdleBus ==
  ASSUME NEW d, Whole(d), d.cmux = "connected",
         d.state \in {"AWAIT_REGISTERED", "CARRIER_ON"}
  PROVE  EnterState(d, "IDLE").cb["UART"] = "none"
<1> DEFINE b == Become(d, "IDLE")
           h == ChatRelease(b)
           p == PppRelease(h)
           c == CmuxRelease(p)
           o == CloseAsync(c, "UART")
           t == [o EXCEPT !.wake = FALSE, !.users = FALSE,
                          !.reset = (HasResetGpio /\ HoldResetOnSuspend) \/ @]
<1>1. EnterState(d, "IDLE") = OnStateEnter(b)
  BY DEF EnterState
<1>2. Shaped(b) /\ b.state = "IDLE" /\ b.cmux = "connected"
  <2>1. Shaped(b)
    BY LeaveUsers DEF Whole
  <2>2. /\ Only(d, b, {"state", "timer", "cb", "chatPipe", "script", "sem"})
        /\ b.state = "IDLE"
    BY OnlyBecome DEF Whole
  <2> QED
    BY <2>1, <2>2 DEF Only, Fields
<1> HIDE DEF b
<1>3. Shaped(h) /\ h.cmux = "connected"
  BY <1>2, RetainedBy DEF Retained, Bussed, ChatRelease, Release, Attach, Shaped
<1> HIDE DEF h
<1>4. Shaped(p) /\ p.cmux = "connected"
  BY <1>3, RetainedBy DEF Retained, Bussed, PppRelease, Release, Attach, Shaped
<1> HIDE DEF p
<1>5. Shaped(c) /\ c.cb["UART"] = "none"
  BY <1>4, OffShaped DEF CmuxRelease, CloseDlcis, Release, Attach, Shaped, Pipes
<1> HIDE DEF c
<1>6. Shaped(o) /\ o.cb["UART"] = "none"
  BY <1>5, RetainedBy DEF Retained, Bussed, CloseAsync, Request, Shaped
<1> HIDE DEF o
<1>7. Shaped(t) /\ t.cb["UART"] = "none"
  BY <1>6 DEF Shaped
<1>8. OnStateEnter(b) = SemGive(t)
  BY <1>2 DEF OnStateEnter, IdleEnter, t, o, c, p, h
<1> HIDE DEF t
<1> QED
  BY <1>1, <1>7, <1>8 DEF SemGive, Shaped

LEMMA RestartSettles ==
  ASSUME Turned, data.state \in {"AWAIT_REGISTERED", "CARRIER_ON"},
         NEW a, Steady(Taken, a), data' = Restart(a)
  PROVE  Settles
<1> DEFINE b == EnterState(a, "IDLE")
           c == Delegate(b, "RESUME")
<1>1. /\ Whole(a) /\ a.state = data.state /\ a.cmux = "connected"
      /\ a.events = Taken.events
  <2>1. Muxed(a) /\ Taken.state = data.state
    BY OnlineBy DEF Steady, Retained, Online, MuxStates
  <2> QED
    BY <2>1 DEF Steady, Muxed
<1>2. Staged(b) /\ Whole(b) /\ b.state = "IDLE" /\ b.events = Taken.events
  BY <1>1, EnterOff DEF Off
<1>3. b.cb["UART"] = "none"
  BY <1>1, IdleBus
<1> HIDE DEF b
<1>4. Retained(b, c)
  BY <1>2, RetainedBy DEF Whole
<1>5. c.state = "IDLE" /\ c.cb = b.cb /\ c.users = b.users /\ Shaped(c)
  BY <1>2, <1>4 DEF Delegate, Whole, Shaped
<1> HIDE DEF c
<1>6. data' = [c EXCEPT !.recovered = TRUE]
  BY DEF Restart, b, c
<1>7. /\ data'.state = "IDLE" /\ data'.cb["UART"] = "none"
      /\ data'.users = b.users
  BY <1>3, <1>5, <1>6 DEF Shaped
<1>8. ~b.users
  BY <1>2 DEF Staged, MuxStates
<1> QED
  BY <1>7, <1>8 DEF Settles, Staged, MuxStates, Unvisited

LEMMA AwaitRegisteredSettles ==
  ASSUME Turned, AwaitRegisteredHandler
  PROVE  Settles
<1>1. /\ data.state = "AWAIT_REGISTERED"
      /\ data.state \in ChatStates /\ data.state \in MuxStates
  BY DEF AwaitRegisteredHandler, In, ChatStates, MuxStates
<1>2. CASE data' \in {Taken, StartTimer(CountReset), RunScript(Taken, "periodic"),
                      OpenAsync(Taken, "UART"), StartTimer(ScriptFailed(Taken))}
  BY <1>1, <1>2, OnlineRearms, OnlineSteady
<1>3. CASE data' = Restart(CountReset)
  BY <1>1, <1>3, OnlineRearms, RestartSettles
<1>4. CASE data' = EnterState(Taken, "CARRIER_ON")
  BY <1>1, <1>4, OnlineRearms, OnlineMoves DEF Steady, Retained, MuxStates
<1>5. CASE data' = EnterState(Taken, "INIT_POWER_OFF")
  BY <1>1, <1>5, OnlineRearms, OnlineEnds
<1> QED
  BY <1>2, <1>3, <1>4, <1>5 DEF AwaitRegisteredHandler, Ignores, RetryOr

LEMMA CarrierOnSettles ==
  ASSUME Turned, CarrierOnHandler
  PROVE  Settles
<1>1. /\ data.state = "CARRIER_ON" /\ Taken.state = data.state
      /\ data.state \in ChatStates /\ data.state \in MuxStates
  BY OnlineRearms DEF CarrierOnHandler, In, ChatStates, MuxStates
<1>2. CASE data' \in {Taken, StartTimer(CountReset), RunScript(Taken, "periodic"),
                      OpenAsync(Taken, "UART"), StartTimer(ScriptFailed(Taken))}
  BY <1>1, <1>2, OnlineRearms, OnlineSteady
<1>3. CASE data' = Restart(CarrierOff(CountReset))
  BY <1>1, <1>3, OnlineRearms, SteadyBy, SteadyTrans, RestartSettles
<1>4. CASE data' = EnterState(Taken, "DORMANT")
  BY <1>1, <1>4, OnlineRearms, OnlineMoves DEF Steady, Retained, MuxStates
<1>5. CASE data' = Redial(Taken)
  <2> DEFINE m == EnterState(Taken, "DORMANT")
  <2>1. Whole(Taken) /\ Taken.state \in MuxStates
    BY <1>1, OnlineRearms
  <2>2. Bussed(Taken, m) /\ m.state = "DORMANT"
    BY <2>1, EnterBussed DEF MuxStates
  <2>3. Entry(Taken, m, "DORMANT")
    BY <2>1, EnterStateEntry DEF Whole, States
  <2>4. Whole(m) /\ m.events = Taken.events
    BY <2>2, <2>3 DEF Whole, Bussed, Entry, Only
  <2>5. data' = EnterState(m, "RUN_DIAL_SCRIPT")
    BY <1>5 DEF Redial
  <2> HIDE DEF m
  <2> QED
    BY <1>1, <2>2, <2>4, <2>5, OnlineMoves DEF MuxStates
<1>6. CASE data' = EnterState(PppRelease(ChatRelease(CarrierOff(Taken))),
                              "INIT_POWER_OFF")
  <2> DEFINE c == CarrierOff(Taken)
             h == ChatRelease(c)
             p == PppRelease(h)
  <2>1. Whole(Taken)
    BY <1>1, OnlineRearms
  <2>2. Steady(Taken, c) /\ Whole(c)
    BY <2>1, SteadyBy DEF Steady
  <2>3. Steady(c, h) /\ Whole(h)
    BY <2>2, SteadyBy DEF Steady
  <2>4. Steady(h, p) /\ Whole(p)
    BY <2>3, SteadyBy DEF Steady
  <2>5. p.events = Taken.events
    BY <2>2, <2>3, <2>4 DEF Steady
  <2> HIDE DEF p
  <2> QED
    BY <1>1, <1>6, <2>4, <2>5, OnlineEnds DEF p
<1>7. CASE data' = EnterState(Taken, "INIT_POWER_OFF")
  BY <1>1, <1>7, OnlineRearms, OnlineEnds
<1> QED
  BY <1>2, <1>3, <1>4, <1>5, <1>6 DEF CarrierOnHandler, Ignores, RetryOr

LEMMA DormantSettles ==
  ASSUME Turned, DormantHandler
  PROVE  Settles
<1>1. /\ data.state = "DORMANT"
      /\ data.state \in ChatStates /\ data.state \in MuxStates
  BY DEF DormantHandler, In, ChatStates, MuxStates
<1>2. CASE data' = Taken
  BY <1>1, <1>2, OnlineRearms, OnlineSteady
<1>3. CASE data' \in {EnterState(Taken, "RUN_DIAL_SCRIPT"),
                      EnterState(OpenAsync(Taken, "UART"), "RUN_DIAL_SCRIPT")}
  <2>1. PICK a \in {Taken, OpenAsync(Taken, "UART")} :
          data' = EnterState(a, "RUN_DIAL_SCRIPT")
    BY <1>3
  <2> QED
    BY <1>1, <2>1, OnlineRearms, OnlineMoves DEF Steady, Retained, MuxStates
<1> QED
  BY <1>2, <1>3 DEF DormantHandler, Ignores

-----------------------------------------------------------------------------
(* The power-off *)

LEMMA PowerOffSettles ==
  ASSUME Turned,
         \/ InitPowerOffHandler \/ RunShutdownScriptHandler
         \/ PowerOffPulseHandler \/ AwaitPowerOffHandler
  PROVE  Settles
<1>1. /\ data.state \in PowerOffStates /\ data.state # "IDLE"
      /\ Whole(Taken) /\ Taken.state = data.state /\ Taken.users = data.users
  BY TakenWhole
  DEF InitPowerOffHandler, RunShutdownScriptHandler, PowerOffPulseHandler,
      AwaitPowerOffHandler, In, PowerOffStates, Only, Fields, Retained, Bussed
<1>2. Taken.users => Taken.state = "INIT_POWER_OFF"
  BY <1>1 DEF Turned, OInv, Order, Staged, MuxStates, PowerOffStates
<1>3. ASSUME data'.events = Taken.events, data'.state = data.state,
             data'.users = data.users
      PROVE  Settles
  BY <1>1, <1>2, <1>3 DEF Settles, Staged, MuxStates, PowerOffStates, Unvisited
<1>4. ASSUME NEW a, Whole(a), a.events = Taken.events, a.state = data.state,
             a.users = data.users, NEW s \in Off, data' = EnterState(a, s)
      PROVE  Settles
  BY <1>1, <1>2, <1>4, Stopping
<1>5. ASSUME NEW a, Whole(a), a.events = Taken.events, a.state = data.state,
             a.users = data.users
      PROVE  /\ Whole(CloseAsync(a, "UART")) /\ Whole(NoCmdPipe(a))
             /\ \A r \in {CloseAsync(a, "UART"), NoCmdPipe(a)} :
                  /\ r.events = Taken.events /\ r.state = data.state
                  /\ r.users = data.users
  <2>1. Only(a, CloseAsync(a, "UART"), {"ops"})
    BY <1>5, OnlyRequest DEF CloseAsync, Pipes, Whole
  <2>2. Retained(a, CloseAsync(a, "UART"))
    BY <1>5, RetainedBy DEF Whole
  <2>3. /\ Whole(CloseAsync(a, "UART"))
        /\ CloseAsync(a, "UART").events = Taken.events
        /\ CloseAsync(a, "UART").state = data.state
        /\ CloseAsync(a, "UART").users = data.users
    BY <1>5, <2>1, <2>2 DEF Only, Fields, Retained, Bussed, Whole
  <2>4. /\ Whole(NoCmdPipe(a)) /\ NoCmdPipe(a).events = Taken.events
        /\ NoCmdPipe(a).state = data.state /\ NoCmdPipe(a).users = data.users
    BY <1>5 DEF NoCmdPipe, Whole, Shaped, Formed, Fields
  <2> QED
    BY <2>3, <2>4
<1>6. ASSUME NEW a, Whole(a), a.events = Taken.events, a.state = data.state,
             a.users = data.users, data' = BeginPowerOffPulse(a)
      PROVE  Settles
  <2> DEFINE c == CloseAsync(a, "UART")
  <2>1. /\ Whole(c) /\ c.events = Taken.events /\ c.state = data.state
        /\ c.users = data.users
    BY <1>5, <1>6
  <2>2. data' = EnterState(c, IF HasPowerGpio THEN "POWER_OFF_PULSE" ELSE "IDLE")
    BY <1>6 DEF BeginPowerOffPulse
  <2> HIDE DEF c
  <2> QED
    BY <1>4, <2>1, <2>2 DEF Off, PowerOffStates
<1>7. CASE InitPowerOffHandler
  <2>1. CASE data' = StartTimer([StopTimer(Taken) EXCEPT !.cmdPipe = "UART"])
    BY <1>1, <1>3, <2>1 DEF StartTimer, StopTimer, Whole, Shaped
  <2>2. CASE data' = EnterState(Taken, "RUN_SHUTDOWN_SCRIPT")
    BY <1>1, <1>4, <2>2 DEF Off, PowerOffStates
  <2>3. CASE data' = BeginPowerOffPulse(Taken)
    BY <1>1, <1>6, <2>3
  <2>4. CASE data' = Taken
    BY <1>1, <1>3, <2>4
  <2> QED
    BY <1>7, <2>1, <2>2, <2>3, <2>4 DEF InitPowerOffHandler, Ignores
<1>8. CASE RunShutdownScriptHandler
  <2>1. CASE data' = BeginPowerOffPulse(NoCmdPipe(Taken))
    <3> DEFINE a == NoCmdPipe(Taken)
    <3>1. /\ Whole(a) /\ a.events = Taken.events /\ a.state = data.state
          /\ a.users = data.users
      BY <1>1, <1>5
    <3> HIDE DEF a
    <3> QED
      BY <1>6, <2>1, <3>1 DEF a
  <2>2. CASE data' = EnterState(NoCmdPipe(CloseAsync(Taken, "UART")), "IDLE")
    <3> DEFINE c == CloseAsync(Taken, "UART")
               a == NoCmdPipe(c)
    <3>1. /\ Whole(c) /\ c.events = Taken.events /\ c.state = data.state
          /\ c.users = data.users
      BY <1>1, <1>5
    <3> HIDE DEF c
    <3>2. /\ Whole(a) /\ a.events = Taken.events /\ a.state = data.state
          /\ a.users = data.users
      BY <1>5, <3>1
    <3> HIDE DEF a
    <3> QED
      BY <1>4, <2>2, <3>2 DEF a, c, Off
  <2>3. CASE data' = Taken
    BY <1>1, <1>3, <2>3
  <2> QED
    BY <1>8, <2>1, <2>2, <2>3 DEF RunShutdownScriptHandler, Ignores
<1>9. CASE PowerOffPulseHandler \/ AwaitPowerOffHandler
  <2>1. CASE \E s \in Off : data' = EnterState(Taken, s)
    BY <1>1, <1>4, <2>1
  <2>2. CASE data' = Taken
    BY <1>1, <1>3, <2>2
  <2> QED
    BY <1>9, <2>1, <2>2
    DEF PowerOffPulseHandler, AwaitPowerOffHandler, Ignores, Off, PowerOffStates
<1> QED
  BY <1>7, <1>8, <1>9

(* Every handler settles; the boards these proofs are about visit no state  *)
(* before RUN_INIT_SCRIPT.                                                  *)
LEMMA DispatchSettles ==
  ASSUME Turned, Dispatch, ~DispatchEnd
  PROVE  Settles /\ draining' = TRUE
<1>1. data.state \notin Unvisited
  BY DEF Turned, OInv, Order, Staged
<1>2. /\ ~ResetPulseHandler /\ ~AwaitResetHandler /\ ~PowerOnPulseHandler
      /\ ~AwaitPowerOnHandler /\ ~SetBaudrateHandler
  BY <1>1
  DEF ResetPulseHandler, AwaitResetHandler, PowerOnPulseHandler,
      AwaitPowerOnHandler, SetBaudrateHandler, In, Unvisited
<1>3. Settles
  BY <1>2, IdleSettles, RunInitSettles, ConnectCmuxSettles, OpenDlcisSettle,
     RunApnScriptSettles, RunDialScriptSettles, AwaitRegisteredSettles,
     CarrierOnSettles, DormantSettles, PowerOffSettles
  DEF Dispatch
<1>4. draining' = TRUE
  BY <1>2
  DEF Dispatch, In, IdleHandler, RunInitScriptHandler, ConnectCmuxHandler,
      OpenDlci1Handler, OpenDlci2Handler, WaitForApnHandler, RunApnScriptHandler,
      RunDialScriptHandler, AwaitRegisteredHandler, CarrierOnHandler,
      DormantHandler, InitPowerOffHandler, RunShutdownScriptHandler,
      PowerOffPulseHandler, AwaitPowerOffHandler
<1> QED
  BY <1>3, <1>4

-----------------------------------------------------------------------------
(* What arrives while no event is handled *)

Standing == Direct /\ OInv
(* No event, or e at the end of the pipe. *)
Arriving(e) ==
  /\ data'.events = data.events \/ data'.events = Append(data.events, e)
  /\ draining' = draining /\ data'.state = data.state
  /\ data'.cb["UART"] = data.cb["UART"] /\ data'.users = data.users
  /\ data.lost => data'.lost

LEMMA StandingFacts ==
  ASSUME Standing
  PROVE  /\ Whole(data) /\ data.events \in Seq(Events) /\ Prompt
         /\ Batch(data, draining) /\ Resumes(data, draining) /\ Staged(data)
         /\ BusKeepsUp => data.ops["UART"] = <<>>
         /\ ThreadRuns => ~draining /\ data.events = <<>> /\ data.ops["UART"] = <<>>
<1>1. GoodData(data) /\ Whole(data)
  BY WholeGood DEF Standing, OInv, WInv, IInv
<1>2. data.events \in Seq(Events) /\ data.ops["UART"] \in Seq({"open", "close"})
  BY <1>1 DEF Whole, Formed, Pipes
<1>3. BusKeepsUp => data.ops["UART"] = <<>>
  <2>1. BusKeepsUp => Len(data.ops["UART"]) <= 0
    BY DEF BusKeepsUp, Standing, Direct
  <2>2. Len(data.ops["UART"]) <= 0 => data.ops["UART"] = <<>>
    BY <1>2
  <2> QED
    BY <2>1, <2>2
<1>4. ThreadRuns => ~draining /\ data.events = <<>> /\ data.ops["UART"] = <<>>
  BY <1>3 DEF ThreadRuns, Standing, Direct
<1> QED
  BY <1>1, <1>2, <1>3, <1>4
  DEF Standing, OInv, Order, WInv, IInv, Wakes, Prompt

LEMMA OrderArrives ==
  ASSUME Standing, NEW e \in Events \ {"RESUME"}, Arriving(e),
         data.ops["UART"] = <<>> => data'.ops["UART"] = <<>>,
         e \in Bus => draining, e = "TIMEOUT" => ~draining,
         e \in Fresh => ~(data.state = "IDLE" /\ Has(data.events, "RESUME")),
         Staged(data')
  PROVE  Order'
<1>1. /\ data.events \in Seq(Events) /\ Batch(data, draining)
      /\ Resumes(data, draining)
  BY StandingFacts
<1> DEFINE q == Append(data.events, e)
<1>2. \A x : Has(q, x) <=> Has(data.events, x) \/ x = e
  BY <1>1, HasAppend
<1>3. Batch(data', draining')
  <2>1. \A x : Has(data'.events, x) => Has(data.events, x) \/ x = e
    BY <1>2 DEF Arriving
  <2>2. Orderly(data'.events)
    <3>1. e = "TIMEOUT" => \A b \in Bus : ~Has(data.events, b)
      BY <1>1 DEF Batch
    <3>2. Orderly(q)
      BY <1>1, <3>1, OrderlyAppend DEF Batch
    <3> QED
      BY <1>1, <3>2 DEF Batch, Arriving
  <2> QED
    BY <1>1, <2>1, <2>2 DEF Batch, Arriving
<1>4. Resumes(data', draining')
  <2>1. CASE data'.events = data.events
    BY <1>1, <2>1 DEF Resumes, Arriving
  <2>2. CASE data'.events = q
    <3>1. Once(q, "RESUME") /\ (Has(q, "RESUME") => Has(data.events, "RESUME"))
      BY <1>1, <1>2, OnceQueue DEF Resumes
    <3>2. ASSUME Has(data.events, "RESUME"), data.state = "IDLE"
          PROVE  Clear(q)
      BY <1>1, <3>2, ClearQueue DEF Resumes
    <3>3. ASSUME Has(data.events, "RESUME") PROVE Head(q) = Head(data.events)
      <4>1. data.events # <<>>
        BY <3>3 DEF Has
      <4> QED
        BY <1>1, <4>1
    <3> HIDE DEF q
    <3> QED
      BY <1>1, <2>2, <3>1, <3>2, <3>3 DEF Resumes, Arriving
  <2> QED
    BY <2>1, <2>2 DEF Arriving
<1> QED
  BY <1>3, <1>4 DEF Order

(* What says nothing of a session's boot leaves its stage alone. *)
LEMMA StagedArrives ==
  ASSUME Standing, NEW e \in Events \ (Fresh \cup {"TIMEOUT"}), Arriving(e),
         data'.ops["UART"] = data.ops["UART"],
         \A f \in {"timer", "chatPipe", "script", "cmux", "done"} : data'[f] = data[f]
  PROVE  Staged(data')
<1>1. data.events \in Seq(Events) /\ Staged(data)
  BY StandingFacts
<1>2. \A S : Sole(data.events, S) => Sole(data'.events, S)
  BY <1>1, SoleAppend DEF Arriving
<1> DEFINE q == Append(data.events, e)
<1>3. e \in Events /\ e # "TIMEOUT"
  OBVIOUS
<1>4. \A x : Has(q, x) <=> Has(data.events, x) \/ x = e
  BY <1>1, <1>3, HasAppend
<1>5. Once(data.events, "TIMEOUT") => Once(q, "TIMEOUT")
  BY <1>1, <1>3, OnceQueue
<1>6. data'.events = data.events \/ data'.events = q
  BY DEF Arriving
<1> HIDE DEF q
<1>7. \A x : Has(data'.events, x) => Has(data.events, x) \/ x = e
  BY <1>4, <1>6
<1>8. \A x : Has(data.events, x) => Has(data'.events, x)
  BY <1>4, <1>6
<1>9. Once(data.events, "TIMEOUT") => Once(data'.events, "TIMEOUT")
  BY <1>5, <1>6
<1>10. \A o, p, S : At(data, o, p, S) => At(data', o, p, S)
  BY <1>2 DEF At
<1>11. Inited(data) => Inited(data')
  BY DEF Inited, Arriving
<1>12. Booting(data) => Booting(data')
  BY <1>8, <1>10, <1>11 DEF Booting, Arriving
<1>13. Untimed(data) => Untimed(data')
  BY <1>7 DEF Untimed
<1>14. Linking(data) => Linking(data')
  BY <1>7, <1>9, <1>10, <1>13 DEF Linking, Arriving
<1>15. Muxed(data) => Muxed(data')
  BY DEF Muxed, Arriving
<1>16. Has(data'.events, "SCRIPT_SUCCESS") => Has(data.events, "SCRIPT_SUCCESS")
  BY <1>7 DEF Fresh, Results
<1> QED
  BY <1>1, <1>10, <1>12, <1>14, <1>15, <1>16 DEF Staged, Arriving

LEMMA PlainArrives ==
  ASSUME Standing, NEW e \in Events \ (Fresh \cup {"TIMEOUT", "RESUME"}),
         Arriving(e),
         data'.ops["UART"] = data.ops["UART"],
         \A f \in {"timer", "chatPipe", "script", "cmux", "done"} : data'[f] = data[f]
  PROVE  Order'
<1>1. Staged(data')
  BY StagedArrives
<1>2. e \notin Bus
  BY DEF Fresh
<1> QED
  BY <1>1, <1>2, OrderArrives

LEMMA DelegateAs ==
  ASSUME NEW a, Shaped(a), NEW e
  PROVE  LET r == Delegate(a, e)
         IN  /\ Shaped(r)
             /\ \A f \in {"state", "timer", "cb", "ops", "chatPipe", "script",
                          "cmux", "users", "done"} : r[f] = a[f]
             /\ \/ r.events = Append(a.events, e) /\ r.lost = a.lost
                \/ r.events = a.events /\ r.lost = TRUE
BY DEF Delegate, Shaped

LEMMA TimeoutOrder ==
  ASSUME Standing, TimeoutWork
  PROVE  Order'
<1> DEFINE a == StopTimer(data)
           e == "TIMEOUT"
           q == Append(data.events, e)
<1>1. /\ Whole(data) /\ data.events \in Seq(Events) /\ Staged(data)
      /\ data.ops["UART"] = <<>> /\ ~draining /\ draining' = draining
      /\ data' = Delegate(a, e) /\ data.timer # "off"
  BY StandingFacts DEF TimeoutWork
<1>2. /\ Shaped(a) /\ a.timer = "off" /\ a.events = data.events /\ a.lost = data.lost
      /\ \A f \in {"state", "cb", "ops", "chatPipe", "script", "cmux", "users",
                   "done"} : a[f] = data[f]
  BY <1>1 DEF StopTimer, Whole, Shaped
<1> HIDE DEF a
<1>3. /\ \A f \in {"state", "timer", "cb", "ops", "chatPipe", "script", "cmux",
                    "users", "done"} : data'[f] = a[f]
      /\ \/ data'.events = Append(a.events, e) /\ data'.lost = a.lost
         \/ data'.events = a.events /\ data'.lost = TRUE
  BY ZenonT(60), <1>1, <1>2, DelegateAs
<1>4. /\ \A f \in {"state", "cb", "ops", "chatPipe", "script", "cmux", "users",
                   "done"} : data'[f] = data[f]
      /\ data'.timer = "off"
      /\ data'.events = q \/ data'.events = data.events
      /\ data.lost => data'.lost
  BY <1>2, <1>3
<1>5. Arriving(e) /\ e \in Events /\ e \notin Fresh
  BY <1>1, <1>4 DEF Arriving, Events, Fresh, Bus, Results
<1>6. /\ \A S : Sole(data.events, S) => Sole(q, S)
      /\ \A x : Has(q, x) <=> Has(data.events, x) \/ x = e
      /\ ~Has(data.events, e) => Once(q, e)
  <2>1. ~Has(data.events, e) => Once(data.events, e)
    BY DEF Once, Has
  <2> QED
    BY <1>1, <1>5, <2>1, SoleAppend, HasAppend, OnceQueue
<1> HIDE DEF q
<1>7. \A o, p, S : At(data, o, p, S) => At(data', o, p, S)
  BY <1>4, <1>6 DEF At
<1>8. \A x : Has(data.events, x) => Has(data'.events, x)
  BY <1>4, <1>6
<1>9. Booting(data) => Booting(data')
  BY <1>4, <1>7, <1>8 DEF Booting, Inited
<1>10. Linking(data) => Linking(data')
  BY <1>1, <1>4, <1>6, <1>7 DEF Linking, Untimed
<1>11. Has(data'.events, "SCRIPT_SUCCESS") => Has(data.events, "SCRIPT_SUCCESS")
  BY <1>4, <1>6
<1>12. Staged(data')
  BY <1>1, <1>4, <1>7, <1>9, <1>10, <1>11 DEF Staged, Muxed
<1> QED
  BY <1>1, <1>4, <1>5, <1>12, OrderArrives DEF Fresh

(* What a posted event in Fresh leaves: it is the sole one. *)
LEMMA SolePost ==
  ASSUME Standing, NEW e \in Events, NEW S, e \in S, Sole(data.events, {}),
         data'.events = data.events \/ data'.events = Append(data.events, e)
  PROVE  Sole(data'.events, S)
<1>1. data.events \in Seq(Events)
  BY StandingFacts
<1>2. Sole(Append(data.events, e), S)
  BY <1>1, SoleAppend
<1> QED
  BY <1>2, SoleHas

LEMMA ChatOrder ==
  ASSUME Standing, NEW success \in BOOLEAN, ChatCallback(success)
  PROVE  Order'
<1> DEFINE a == [data EXCEPT !.script = "none",
                   !.done = IF success THEN @ \cup {data.script} ELSE @]
           e == IF success THEN "SCRIPT_SUCCESS" ELSE "SCRIPT_FAILED"
           q == Append(data.events, e)
<1>1. /\ Whole(data) /\ data.events \in Seq(Events) /\ Staged(data)
      /\ data.ops["UART"] = <<>> /\ draining' = draining
      /\ data' = Delegate(a, e) /\ data.script # "none" /\ GoodData(data)
  BY StandingFacts DEF ChatCallback, Prompt
<1>2. /\ Shaped(a) /\ a.script = "none" /\ a.events = data.events /\ a.lost = data.lost
      /\ a.done = IF success THEN data.done \cup {data.script} ELSE data.done
      /\ \A f \in {"state", "cb", "ops", "chatPipe", "timer", "cmux", "users"} :
           a[f] = data[f]
  BY <1>1 DEF Whole, Shaped
<1>3. e \in Results /\ e \in Events /\ e \notin Bus \cup {"TIMEOUT", "RESUME"}
  BY DEF Results, Events, Bus
<1> HIDE DEF a
<1>4. /\ \A f \in {"state", "timer", "cb", "ops", "chatPipe", "script", "cmux",
                    "users", "done"} : data'[f] = a[f]
      /\ \/ data'.events = Append(a.events, e) /\ data'.lost = a.lost
         \/ data'.events = a.events /\ data'.lost = TRUE
  BY ZenonT(60), <1>1, <1>2, DelegateAs
<1>5. /\ \A f \in {"state", "cb", "ops", "chatPipe", "timer", "cmux", "users"} :
           data'[f] = data[f]
      /\ data'.script = "none"
      /\ data'.done = IF success THEN data.done \cup {data.script} ELSE data.done
      /\ (data'.events = q /\ data'.lost = data.lost)
         \/ (data'.events = data.events /\ data'.lost = TRUE)
  BY <1>2, <1>4
<1>6. Arriving(e)
  BY <1>1, <1>5 DEF Arriving
<1>7. data.state # "IDLE"
  BY <1>1 DEF GoodData, Good, Sound
<1>8. \A x : Has(q, x) <=> Has(data.events, x) \/ x = e
  BY <1>1, <1>3, HasAppend
<1>9. Booting(data) => Booting(data')
  <2> SUFFICES ASSUME Booting(data) PROVE Booting(data')
    OBVIOUS
  <2>1. At(data, <<>>, "UART", {}) /\ (data.script = "init" \/ data.lost)
    BY <1>1 DEF Booting, At
  <2>2. Sole(data'.events, Results)
    BY <1>3, <1>5, <2>1, SolePost DEF At
  <2>3. At(data', <<>>, "UART", Results)
    BY <1>5, <2>1, <2>2 DEF At
  <2>4. \/ Has(data'.events, "SCRIPT_FAILED") \/ data'.lost
        \/ Has(data'.events, "SCRIPT_SUCCESS") /\ Inited(data')
    <3>1. CASE data'.lost
      BY <3>1
    <3>2. CASE ~data'.lost
      <4>1. data'.events = q /\ data.script = "init"
        BY <1>5, <2>1, <3>2
      <4>2. CASE success
        BY <1>5, <1>8, <4>1, <4>2 DEF Inited
      <4>3. CASE ~success
        BY <1>8, <4>1, <4>3
      <4> QED
        BY <4>2, <4>3
    <3> QED
      BY <3>1, <3>2
  <2> QED
    BY <1>5, <2>3, <2>4 DEF Booting
<1>10. data.state \notin {"CONNECT_CMUX", "OPEN_DLCI1", "OPEN_DLCI2", "WAIT_FOR_APN"}
  BY <1>1 DEF Staged, Linking, At
<1>11. Has(data'.events, "SCRIPT_SUCCESS") =>
         success \/ Has(data.events, "SCRIPT_SUCCESS")
  BY <1>5, <1>8
<1> HIDE DEF q, e
<1>12. data'.state = "RUN_APN_SCRIPT" /\ Has(data'.events, "SCRIPT_SUCCESS")
         => data'.done # {}
  BY <1>1, <1>5, <1>11 DEF Staged
<1>13. Staged(data')
  BY <1>1, <1>5, <1>9, <1>10, <1>12 DEF Staged, Muxed
<1> QED
  BY <1>1, <1>3, <1>5, <1>6, <1>7, <1>13, OrderArrives

LEMMA CmuxOrder ==
  ASSUME Standing, CmuxConnected \/ CmuxDisconnected
  PROVE  Order'
<1>1. /\ Whole(data) /\ data.events \in Seq(Events) /\ Staged(data)
      /\ data.ops["UART"] = <<>> /\ draining' = draining
      /\ GoodData(data) /\ Linked(data)
  BY StandingFacts DEF CmuxConnected, CmuxDisconnected, Prompt
<1>2. data.state # "IDLE"
  BY <1>1 DEF GoodData, Good, Sound, CmuxConnected, CmuxDisconnected
<1>3. CASE CmuxConnected
  <2> DEFINE a == [data EXCEPT !.cmux = "connected"]
             e == "CMUX_CONNECTED"
  <2>1. data' = Delegate(a, e) /\ data.cmux = "connecting"
    BY <1>3 DEF CmuxConnected
  <2>2. /\ Shaped(a) /\ a.cmux = "connected" /\ a.events = data.events
        /\ a.lost = data.lost
        /\ \A f \in {"state", "cb", "ops", "chatPipe", "timer", "script", "users",
                     "done"} : a[f] = data[f]
    BY <1>1 DEF Whole, Shaped
  <2> HIDE DEF a
  <2>3. /\ \A f \in {"state", "timer", "cb", "ops", "chatPipe", "script", "cmux",
                      "users", "done"} : data'[f] = a[f]
        /\ \/ data'.events = Append(a.events, e) /\ data'.lost = a.lost
           \/ data'.events = a.events /\ data'.lost = TRUE
    BY ZenonT(60), <2>1, <2>2, DelegateAs
  <2>4. /\ \A f \in {"state", "cb", "ops", "chatPipe", "timer", "script", "users",
                     "done"} : data'[f] = data[f]
        /\ data'.cmux = "connected"
        /\ data'.events = Append(data.events, e) \/ data'.events = data.events
        /\ data.lost => data'.lost
    BY <2>2, <2>3
  <2>5. Arriving(e) /\ e \in Events
    BY <1>1, <2>4 DEF Arriving, Events
  <2>6. data.state \notin MuxStates \cup {"IDLE", "RUN_INIT_SCRIPT"}
    BY <1>1, <2>1 DEF Staged, Muxed, Linked, BootStates
  <2>7. Linking(data) => Linking(data')
    <3> SUFFICES ASSUME Linking(data) PROVE Linking(data')
      OBVIOUS
    <3>1. Untimed(data) /\ At(data, <<>>, "none", {}) /\ data.cb["UART"] = "cmux"
      BY <2>1 DEF Linking
    <3>2. Sole(data'.events, {"CMUX_CONNECTED"})
      BY <2>4, <2>5, <3>1, SolePost DEF At
    <3>3. At(data', <<>>, "none", {"CMUX_CONNECTED"})
      BY <2>4, <3>1, <3>2 DEF At
    <3>4. \A x : Has(Append(data.events, e), x) <=> Has(data.events, x) \/ x = e
      BY <1>1, <2>5, HasAppend
    <3>5. Untimed(data')
      BY <2>4, <3>1, <3>4 DEF Untimed
    <3> QED
      BY <2>4, <3>1, <3>3, <3>5 DEF Linking
  <2>8. Staged(data')
    BY <1>1, <2>4, <2>6, <2>7 DEF Staged, MuxStates
  <2>9. e \notin Bus \cup {"TIMEOUT", "RESUME"}
    BY DEF Bus
  <2> QED
    BY <1>1, <1>2, <2>4, <2>5, <2>8, <2>9, OrderArrives
<1>4. CASE CmuxDisconnected
  <2> DEFINE b == CloseDlcis(data)
             a == [b EXCEPT !.cmux = "disconnected"]
             e == "CMUX_DISCONNECTED"
  <2>1. data' = Delegate(a, e) /\ data.cmux = "disconnecting"
    BY <1>4 DEF CmuxDisconnected
  <2>2. /\ Shaped(b) /\ b.events = data.events /\ b.lost = data.lost
        /\ b.ops["UART"] = data.ops["UART"]
        /\ b.state = data.state /\ b.cb = data.cb /\ b.users = data.users
    BY <1>1 DEF Whole, Shaped, CloseDlcis, Pipes, Dlcis
  <2> HIDE DEF b
  <2>3. /\ Shaped(a) /\ a.events = data.events /\ a.lost = data.lost
        /\ a.ops["UART"] = data.ops["UART"]
        /\ a.state = data.state /\ a.cb = data.cb /\ a.users = data.users
    BY <2>2 DEF Shaped
  <2> HIDE DEF a
  <2>4. /\ data'.ops["UART"] = <<>>
        /\ data'.state = data.state /\ data'.cb = data.cb
        /\ data'.users = data.users
        /\ data'.events = Append(data.events, e) \/ data'.events = data.events
        /\ data.lost => data'.lost
    BY ZenonT(60), <1>1, <2>1, <2>3, DelegateAs
  <2>5. Arriving(e) /\ e \in Events
    BY <1>1, <2>4 DEF Arriving, Events
  <2>6. data.state \in PowerOffStates
    BY <1>1, <2>1 DEF Linked
  <2>7. Staged(data')
    BY <1>1, <2>4, <2>6 DEF Staged, PowerOffStates, MuxStates, Unvisited
  <2>8. e \notin Fresh \cup {"TIMEOUT", "RESUME"}
    BY DEF Fresh, Bus, Results
  <2>9. e \notin Bus
    BY DEF Bus
  <2> QED
    BY <2>4, <2>5, <2>7, <2>8, <2>9, OrderArrives
<1> QED
  BY <1>3, <1>4

LEMMA PipeOrder ==
  ASSUME Standing, NEW p \in Pipes, PipeEvent(p)
  PROVE  Order'
<1> DEFINE c == Completed(p)
           e == PipeNotice(p)
<1>1. /\ Whole(data) /\ data.events \in Seq(Events) /\ Staged(data)
      /\ Batch(data, draining) /\ Resumes(data, draining)
      /\ data.ops[p] # <<>> /\ draining' = draining
      /\ data' = IF data.cb[p] = "driver" THEN Delegate(c, e) ELSE c
  BY StandingFacts DEF PipeEvent
<1>2. /\ Shaped(c) /\ c.events = data.events /\ c.lost = data.lost
      /\ c.ops[p] = Tail(data.ops[p])
      /\ \A n \in Pipes \ {p} : c.ops[n] = data.ops[n]
      /\ \A f \in {"state", "cb", "timer", "chatPipe", "script", "cmux", "users",
                   "done"} : c[f] = data[f]
  BY <1>1 DEF Completed, Whole, Shaped
<1>3. /\ p = "UART" => e = IF Head(data.ops[p]) = "open" THEN "BUS_OPENED"
                                                        ELSE "BUS_CLOSED"
      /\ p # "UART" => e \in {"DLCI1_OPENED", "DLCI2_OPENED"}
  BY DEF PipeNotice, Pipes
<1> HIDE DEF c, e
<1>4. e \in Events \ {"RESUME", "TIMEOUT"} /\ (p # "UART" => e \notin Fresh)
  BY <1>3 DEF Events, Fresh, Bus, Results
<1>5. /\ \A f \in {"state", "cb", "timer", "chatPipe", "script", "cmux", "users",
                   "done", "ops"} : data'[f] = c[f]
      /\ \/ data'.events = data.events /\ (data.lost => data'.lost)
         \/ /\ data'.events = Append(data.events, e) /\ data'.lost = data.lost
            /\ data.cb[p] = "driver"
  <2>1. CASE data.cb[p] = "driver"
    <3>1. data' = Delegate(c, e)
      BY <1>1, <2>1
    <3>2. /\ \A f \in {"state", "timer", "cb", "ops", "chatPipe", "script",
                       "cmux", "users", "done"} : data'[f] = c[f]
          /\ \/ data'.events = Append(c.events, e) /\ data'.lost = c.lost
             \/ data'.events = c.events /\ data'.lost = TRUE
      BY ZenonT(60), <1>2, <3>1, DelegateAs
    <3> QED
      BY <1>2, <2>1, <3>2
  <2>2. CASE data.cb[p] # "driver"
    BY <1>1, <1>2, <2>2
  <2> QED
    BY <2>1, <2>2
<1>6. Arriving(e)
  BY <1>1, <1>2, <1>5 DEF Arriving
<1>7. CASE p # "UART"
  <2>1. data'.ops["UART"] = data.ops["UART"]
    BY <1>2, <1>5, <1>7 DEF Pipes
  <2>2. /\ \A f \in {"timer", "chatPipe", "script", "cmux", "done"} :
             data'[f] = data[f]
    BY <1>2, <1>5
  <2>3. e \in Events \ (Fresh \cup {"TIMEOUT", "RESUME"})
    BY <1>4, <1>7
  <2> QED
    BY <1>6, <2>1, <2>2, <2>3, PlainArrives
<1>8. CASE p = "UART"
  <2>1. draining /\ e \in Bus /\ data.ops["UART"] # <<>>
    BY <1>1, <1>3, <1>8 DEF Batch, Bus
  <2>2. /\ data'.ops["UART"] = Tail(data.ops["UART"])
        /\ \A f \in {"state", "cb", "timer", "chatPipe", "script", "cmux",
                     "users", "done"} : data'[f] = data[f]
    BY <1>2, <1>5, <1>8
  <2>3. \A S : Sole(data.events, {}) /\ e \in S => Sole(data'.events, S)
    BY <1>4, <1>6, SolePost DEF Arriving
  <2>4. Tail(<<"open">>) = <<>> /\ Tail(<<"close">>) = <<>>
    OBVIOUS
  <2>5. \A x : Has(Append(data.events, e), x) <=> Has(data.events, x) \/ x = e
    BY <1>1, <1>4, HasAppend
  <2>6. Booting(data) => Booting(data')
    <3> SUFFICES ASSUME Booting(data) PROVE Booting(data')
      OBVIOUS
    <3>1. CASE At(data, <<"open">>, "none", {})
      <4>1. e = "BUS_OPENED" /\ data'.ops["UART"] = <<>>
        BY <1>3, <1>8, <2>2, <2>4, <3>1 DEF At
      <4>2. Sole(data'.events, {"BUS_OPENED"})
        BY <2>3, <3>1, <4>1 DEF At
      <4>3. At(data', <<>>, "none", {"BUS_OPENED"})
        BY <2>2, <3>1, <4>1, <4>2 DEF At
      <4> QED
        BY <4>3 DEF Booting
    <3>2. CASE At(data, <<"close">>, "none", {}) /\ Inited(data)
      <4>1. e = "BUS_CLOSED" /\ data'.ops["UART"] = <<>>
        BY <1>3, <1>8, <2>2, <2>4, <3>2 DEF At
      <4>2. Sole(data'.events, {"BUS_CLOSED"})
        BY <2>3, <3>2, <4>1 DEF At
      <4>3. At(data', <<>>, "none", {"BUS_CLOSED"}) /\ Inited(data')
        BY <1>6, <2>2, <3>2, <4>1, <4>2 DEF At, Inited, Arriving
      <4> QED
        BY <4>3 DEF Booting
    <3> QED
      BY <2>1, <3>1, <3>2 DEF Booting, At
  <2>7. Linking(data) => Linking(data')
    <3> SUFFICES ASSUME Linking(data) PROVE Linking(data')
      OBVIOUS
    <3>1. /\ Untimed(data) /\ At(data, <<"open">>, "none", {})
          /\ data.cmux = "released"
      BY <2>1 DEF Linking, At
    <3>2. e = "BUS_OPENED" /\ data'.ops["UART"] = <<>>
      BY <1>3, <1>8, <2>2, <2>4, <3>1 DEF At
    <3>3. Sole(data'.events, {"BUS_OPENED"})
      BY <2>3, <3>1, <3>2 DEF At
    <3>4. At(data', <<>>, "none", {"BUS_OPENED"})
      BY <2>2, <3>1, <3>2, <3>3 DEF At
    <3>5. Untimed(data')
      BY <1>4, <1>6, <2>2, <2>5, <3>1 DEF Untimed, Arriving
    <3> QED
      BY <2>2, <3>1, <3>4, <3>5 DEF Linking
  <2>8. data.state \notin {"OPEN_DLCI1", "OPEN_DLCI2", "WAIT_FOR_APN"}
    BY <1>1, <2>1 DEF Staged, At
  <2>9. Has(data'.events, "SCRIPT_SUCCESS") => Has(data.events, "SCRIPT_SUCCESS")
    BY <1>6, <2>1, <2>5 DEF Arriving, Bus
  <2>10. Staged(data')
    BY <1>1, <2>2, <2>6, <2>7, <2>8, <2>9 DEF Staged, Muxed
  <2>11. CASE data.state = "IDLE" /\ Has(data.events, "RESUME")
    <3>1. data.cb["UART"] # "driver"
      BY <1>1, <2>1, <2>11 DEF Resumes
    <3>2. data'.events = data.events
      BY <1>5, <1>8, <3>1
    <3>3. Arriving("RING") /\ "RING" \in Events \ {"RESUME"}
          /\ "RING" \notin Fresh \cup {"TIMEOUT"} /\ "RING" \notin Bus
      BY <1>6, <3>2 DEF Arriving, Events, Fresh, Bus, Results
    <3>4. data.ops["UART"] = <<>> => data'.ops["UART"] = <<>>
      BY <2>1
    <3> QED
      BY <2>10, <3>3, <3>4, OrderArrives
  <2>12. CASE ~(data.state = "IDLE" /\ Has(data.events, "RESUME"))
    BY <1>4, <1>6, <2>1, <2>10, <2>12, OrderArrives
  <2> QED
    BY <2>11, <2>12
<1> QED
  BY <1>7, <1>8

(* A get_signal call that comes late finds no chat, or a boot that has lost *)
(* the result of its script.                                                *)
LEMMA QueryOrder ==
  ASSUME Standing, GetSignalRun
  PROVE  Order'
<1>1. /\ Whole(data) /\ Staged(data) /\ data.events = <<>>
      /\ data' = RunScript(data, "query") /\ draining' = draining
  BY StandingFacts DEF GetSignalRun
<1>2. /\ data' = data
      \/ /\ data.chatPipe # "none" /\ data.script = "none"
         /\ data' = [data EXCEPT !.script = "query"]
  BY <1>1 DEF RunScript
<1>3. /\ \A f \in {"state", "timer", "cb", "ops", "chatPipe", "cmux", "users",
                   "done", "events", "lost"} : data'[f] = data[f]
      /\ data'.script = data.script \/
           (data.chatPipe # "none" /\ data.script = "none" /\ data'.script = "query")
  BY <1>1, <1>2 DEF Whole, Shaped
<1>4. Sole(data.events, {}) /\ \A x : ~Has(data.events, x)
  BY <1>1 DEF Sole, Has
<1>5. \A o, S : At(data, o, "none", S) => At(data', o, "none", S)
  BY <1>3 DEF At
<1>6. Booting(data) => Booting(data')
  <2>1. CASE data'.script = data.script
    BY <1>3, <2>1 DEF Booting, At, Inited
  <2>2. CASE data.chatPipe # "none" /\ data.script = "none"
    <3>1. ASSUME Booting(data) PROVE At(data', <<>>, "UART", {}) /\ data'.lost
      BY <1>3, <1>4, <2>2, <3>1 DEF Booting, At
    <3> QED
      BY <3>1 DEF Booting
  <2> QED
    BY <1>3, <2>1, <2>2
<1>7. Linking(data) => Linking(data')
  BY <1>3, <1>5 DEF Linking, Untimed
<1>8. Staged(data')
  BY <1>1, <1>3, <1>5, <1>6, <1>7 DEF Staged, Muxed
<1>9. Arriving("RING") /\ "RING" \in Events \ {"RESUME"}
      /\ "RING" \notin Fresh \cup {"TIMEOUT"} /\ "RING" \notin Bus
  BY <1>1, <1>3 DEF Arriving, Events, Fresh, Bus, Results
<1> QED
  BY <1>3, <1>8, <1>9, OrderArrives

(* The first event of an empty pipe: a RESUME of the power manager. *)
LEMMA ResumeOrder ==
  ASSUME Standing, PmResume
  PROVE  Order'
<1> DEFINE a == [data EXCEPT !.pm = "active"]
           e == "RESUME"
<1>1. /\ Whole(data) /\ Staged(data) /\ ~draining /\ draining' = draining
      /\ data.events = <<>> /\ data.ops["UART"] = <<>>
      /\ Batch(data, draining) /\ data' = Delegate(a, e)
  BY StandingFacts DEF PmResume
<1>2. /\ Shaped(a) /\ a.events = <<>> /\ a.lost = data.lost
      /\ \A f \in {"state", "timer", "cb", "ops", "chatPipe", "script", "cmux",
                   "users", "done"} : a[f] = data[f]
  BY <1>1 DEF Whole, Shaped
<1>3. Append(<<>>, e) = <<e>>
  OBVIOUS
<1> HIDE DEF a
<1>4. /\ \A f \in {"state", "timer", "cb", "ops", "chatPipe", "script", "cmux",
                   "users", "done"} : data'[f] = a[f]
      /\ \/ data'.events = Append(a.events, e) /\ data'.lost = a.lost
         \/ data'.events = a.events /\ data'.lost = TRUE
  BY <1>1, <1>2, DelegateAs
<1>5. /\ \A f \in {"state", "timer", "cb", "ops", "chatPipe", "script", "cmux",
                   "users", "done"} : data'[f] = data[f]
      /\ data'.events = <<"RESUME">> \/ data'.events = <<>>
      /\ data.lost => data'.lost
      /\ data'.lost = TRUE \/ data'.lost = data.lost
  BY <1>2, <1>3, <1>4
<1>6. \A i, j \in DOMAIN data'.events : i = j /\ data'.events[i] = "RESUME"
  BY <1>5
<1>7. "RESUME" \notin Fresh \cup {"TIMEOUT"}
  BY DEF Fresh, Bus, Results
<1>8. Batch(data', draining')
  BY <1>1, <1>5, <1>6, <1>7 DEF Batch, Orderly, Has, Fresh
<1>9. Resumes(data', draining')
  <2>1. Once(data'.events, "RESUME") /\ Clear(data'.events)
    BY <1>6, <1>7 DEF Once, Clear
  <2>2. Has(data'.events, "RESUME") => Head(data'.events) = "RESUME"
    BY <1>5 DEF Has
  <2> QED
    BY <1>1, <1>5, <2>1, <2>2 DEF Resumes
<1>10. Arriving(e) /\ e \in Events \ (Fresh \cup {"TIMEOUT"})
  BY <1>1, <1>3, <1>5, <1>7 DEF Arriving, Events
<1>11. Staged(data')
  BY <1>5, <1>10, StagedArrives
<1> QED
  BY <1>8, <1>9, <1>11 DEF Order

LEMMA EnvironmentOrder ==
  ASSUME Standing, Environment
  PROVE  Order'
<1>1. Whole(data)
  BY StandingFacts
<1>2. ASSUME NEW a, NEW e \in Events \ (Fresh \cup {"TIMEOUT", "RESUME"}),
             Shaped(a), a.events = data.events, a.lost = data.lost,
             \A f \in {"state", "timer", "cb", "ops", "chatPipe", "script",
                       "cmux", "users", "done"} : a[f] = data[f],
             data' = Delegate(a, e), draining' = draining
      PROVE  Order'
  <2>1. /\ \A f \in {"state", "timer", "cb", "ops", "chatPipe", "script", "cmux",
                   "users", "done"} : data'[f] = a[f]
        /\ \/ data'.events = Append(a.events, e) /\ data'.lost = a.lost
           \/ data'.events = a.events /\ data'.lost = TRUE
    BY <1>2, DelegateAs
  <2>2. /\ \A f \in {"state", "timer", "cb", "ops", "chatPipe", "script", "cmux",
                   "users", "done"} : data'[f] = data[f]
        /\ Arriving(e)
    BY <1>2, <2>1 DEF Arriving
  <2> QED
    BY <2>2, PlainArrives
<1>3. {"MODEM_READY", "RING", "REGISTERED", "DEREGISTERED", "PPP_DEAD"} \subseteq
        Events \ (Fresh \cup {"TIMEOUT", "RESUME"})
  BY DEF Events, Fresh, Bus, Results
<1>4. CASE PppPhaseDead
  <2> DEFINE a == [data EXCEPT !.pppLive = FALSE]
  <2>1. /\ Shaped(a) /\ a.events = data.events /\ a.lost = data.lost
        /\ \A f \in {"state", "timer", "cb", "ops", "chatPipe", "script", "cmux",
                     "users", "done"} : a[f] = data[f]
    BY <1>1 DEF Whole, Shaped
  <2>2. data' = Delegate(a, "PPP_DEAD") /\ draining' = draining
    BY <1>4 DEF PppPhaseDead
  <2> HIDE DEF a
  <2> QED
    BY <1>2, <1>3, <2>1, <2>2
<1>5. CASE OnModemReady \/ RingGpio
  <2>1. PICK e \in {"MODEM_READY", "RING"} :
          data' = Delegate(data, e) /\ draining' = draining
    BY <1>5 DEF OnModemReady, RingGpio, Unsolicited
  <2> QED
    BY <1>1, <1>2, <1>3, <2>1 DEF Whole
<1>6. CASE \E domain \in Domains, registered \in BOOLEAN : OnCxreg(domain, registered)
  <2>1. PICK domain, registered : OnCxreg(domain, registered)
    BY <1>6
  <2> DEFINE a == [data EXCEPT !.registered = IF registered THEN @ \cup {domain}
                                                           ELSE @ \ {domain}]
  <2>2. /\ Shaped(a) /\ a.events = data.events /\ a.lost = data.lost
        /\ \A f \in {"state", "timer", "cb", "ops", "chatPipe", "script", "cmux",
                     "users", "done"} : a[f] = data[f]
    BY <1>1 DEF Whole, Shaped
  <2>3. PICK e \in {"REGISTERED", "DEREGISTERED"} :
          data' = Delegate(a, e) /\ draining' = draining
    BY <2>1 DEF OnCxreg, Unsolicited
  <2> HIDE DEF a
  <2> QED
    BY <1>2, <1>3, <2>2, <2>3
<1>7. CASE \E connected \in BOOLEAN : OnCgev(connected)
  BY <1>7 DEF OnCgev, Unsolicited, Standing, OInv, Order, Batch, Resumes, Staged,
     Booting, Linking, Muxed, Untimed, At, Inited
<1> QED
  BY <1>4, <1>5, <1>6, <1>7, TimeoutOrder, CmuxOrder, ChatOrder, PipeOrder
  DEF Environment

LEMMA CallersOrder ==
  ASSUME Standing, Callers
  PROVE  Order'
<1>1. Whole(data)
  BY StandingFacts
<1>2. {"SUSPEND", "APN_SET", "RING"} \subseteq Events \ (Fresh \cup {"TIMEOUT", "RESUME"})
  BY DEF Events, Fresh, Bus, Results
<1>3. ASSUME NEW e \in {"SUSPEND", "APN_SET", "RING"}, Arriving(e),
             \A f \in {"timer", "ops", "chatPipe", "script", "cmux", "done"} :
               data'[f] = data[f]
      PROVE  Order'
  BY <1>2, <1>3, PlainArrives
<1>4. CASE PmSuspend
  <2> DEFINE a == [data EXCEPT !.pm = "requesting"]
  <2>1. /\ Shaped(a) /\ a.events = data.events /\ a.lost = data.lost
        /\ \A f \in {"state", "timer", "cb", "ops", "chatPipe", "script", "cmux",
                     "users", "done"} : a[f] = data[f]
    BY <1>1 DEF Whole, Shaped
  <2>2. data' = Delegate(a, "SUSPEND") /\ draining' = draining
    BY <1>4 DEF PmSuspend
  <2> HIDE DEF a
  <2>3. /\ \A f \in {"state", "timer", "cb", "ops", "chatPipe", "script", "cmux",
                   "users", "done"} : data'[f] = a[f]
        /\ \/ data'.events = Append(a.events, "SUSPEND") /\ data'.lost = a.lost
           \/ data'.events = a.events /\ data'.lost = TRUE
    BY <2>1, <2>2, DelegateAs
  <2> QED
    BY <1>3, <2>1, <2>2, <2>3 DEF Arriving
<1>5. CASE SetApnWrite
  <2> DEFINE a == [data EXCEPT !.apn = setter,
                     !.lateApn = @ \/ ~ApnChangeAllowed(data.state)]
  <2>1. /\ Shaped(a) /\ a.events = data.events /\ a.lost = data.lost
        /\ \A f \in {"state", "timer", "cb", "ops", "chatPipe", "script", "cmux",
                     "users", "done"} : a[f] = data[f]
    BY <1>1 DEF Whole, Shaped
  <2>2. data' = Delegate(a, "APN_SET") /\ draining' = draining
    BY <1>5 DEF SetApnWrite
  <2> HIDE DEF a
  <2>3. /\ \A f \in {"state", "timer", "cb", "ops", "chatPipe", "script", "cmux",
                   "users", "done"} : data'[f] = a[f]
        /\ \/ data'.events = Append(a.events, "APN_SET") /\ data'.lost = a.lost
           \/ data'.events = a.events /\ data'.lost = TRUE
    BY <2>1, <2>2, DelegateAs
  <2> QED
    BY <1>3, <2>1, <2>2, <2>3 DEF Arriving
<1>6. CASE PmTakeSem \/ PmTimeout \/ GetSignalCheck \/ \E apn \in Apns : SetApnCheck(apn)
  <2>1. /\ \A f \in {"state", "timer", "cb", "ops", "chatPipe", "script", "cmux",
                     "users", "done", "events", "lost"} : data'[f] = data[f]
        /\ draining' = draining
    BY <1>1, <1>6
    DEF PmTakeSem, PmTimeout, GetSignalCheck, SetApnCheck, Whole, Shaped, callers
  <2> QED
    BY <1>3, <2>1 DEF Arriving
<1> QED
  BY <1>4, <1>5, <1>6, QueryOrder, ResumeOrder DEF Callers

-----------------------------------------------------------------------------
(* The invariant and the theorems *)

LEMMA DispatchOrder ==
  ASSUME Standing, Dispatch
  PROVE  Order'
<1>1. CASE DispatchEnd
  <2>1. /\ data' = data /\ draining' = FALSE
        /\ data.events = <<>> /\ data.ops["UART"] = <<>> /\ Staged(data)
    BY <1>1, StandingFacts DEF DispatchEnd
  <2>2. Batch(data, FALSE) /\ Resumes(data, FALSE)
    BY <2>1 DEF Batch, Orderly, Resumes, Once, Has
  <2> QED
    BY <2>1, <2>2 DEF Order
<1>2. CASE ~DispatchEnd
  <2>1. data.events # <<>> /\ After /\ data.ops["UART"] = <<>> /\ Before
    BY <1>2, StandingFacts, DispatchAfter DEF Prompt, Before
  <2>2. Turned
    BY <2>1 DEF Standing, Turned
  <2>3. Settles /\ draining' = TRUE
    BY <1>2, <2>2, DispatchSettles
  <2> QED
    BY <2>2, <2>3, Settling
<1> QED
  BY <1>1, <1>2

LEMMA OrderInit ==
  ASSUME Init
  PROVE  Order
<1>1. /\ data.state = "IDLE" /\ data.events = <<>> /\ draining = FALSE
      /\ data.ops["UART"] = <<>> /\ data.users = FALSE
  BY DEF Init, Pipes
<1> QED
  BY <1>1
  DEF Order, Batch, Orderly, Resumes, Once, Has, Staged, MuxStates, Unvisited

LEMMA OrderSteps ==
  ASSUME Direct, OInv, [Next]_vars
  PROVE  Order'
<1>1. CASE Next
  BY <1>1, DispatchOrder, EnvironmentOrder, CallersOrder DEF Next, Standing
<1>2. CASE UNCHANGED vars
  BY <1>2
  DEF vars, OInv, Order, Batch, Resumes, Staged, Booting, Linking, Muxed,
      Untimed, At, Inited
<1> QED
  BY <1>1, <1>2

(* On a board that boots straight into its init script the events of the     *)
(* bus, of CMUX and of the scripts are those the state waits for.            *)
THEOREM OrderInvariance ==
  ASSUME Direct
  PROVE  Spec => []OInv
<1>1. Init => Order
  BY OrderInit
<1>2. WInv /\ Order /\ [Next]_vars => Order'
  BY OrderSteps DEF OInv
<1> QED
  BY <1>1, <1>2, WakeInvariance, PTL DEF Spec, OInv

(* While DLCIs are in use the multiplexer is connected and owns the UART,    *)
(* and the user pipes are told "connected" only while it is.                 *)
THEOREM MuxKeepsBus ==
  ASSUME Direct
  PROVE  Spec => []MuxOwnsBus
<1>1. OInv => MuxOwnsBus
  BY DEF OInv, Order, Staged, Muxed, MuxOwnsBus
<1> QED
  BY <1>1, OrderInvariance, PTL

(* Only a handler changes the state, and only that of its own state. *)
LEMMA StateSteps ==
  ASSUME OInv, Next, data'.state # data.state
  PROVE  /\ data.events # <<>> /\ Before
         /\ data.state = "RUN_INIT_SCRIPT" => RunInitScriptHandler
         /\ data.state = "RUN_APN_SCRIPT" => RunApnScriptHandler
<1>1. Prompt
  BY DEF OInv, WInv, IInv, Wakes, Prompt
<1>2. Dispatch
  <2>1. ASSUME Environment \/ Callers PROVE data'.state = data.state
    BY <1>1, <2>1, EnvironmentArrives, CallersArrive DEF Arrived, Arrives
  <2> QED
    BY <2>1 DEF Next
<1>3. data.events # <<>> /\ Before /\ ~DispatchEnd
  BY <1>1, <1>2, DispatchAfter DEF Prompt, Before, DispatchEnd
<1> QED
  BY <1>2, <1>3
  DEF Dispatch, In, IdleHandler, ResetPulseHandler, AwaitResetHandler,
      PowerOnPulseHandler, AwaitPowerOnHandler, SetBaudrateHandler,
      ConnectCmuxHandler, OpenDlci1Handler, OpenDlci2Handler,
      WaitForApnHandler, RunDialScriptHandler,
      RunInitScriptHandler, RunApnScriptHandler, AwaitRegisteredHandler,
      CarrierOnHandler, DormantHandler, InitPowerOffHandler,
      RunShutdownScriptHandler, PowerOffPulseHandler, AwaitPowerOffHandler

(* The init state is left for CMUX by the closing of the bus. *)
LEMMA StepsBoot ==
  ASSUME OInv, Next, data.state = "RUN_INIT_SCRIPT", data'.state # data.state
  PROVE  data'.state = "CONNECT_CMUX" => "init" \in data.done \/ data.lost
<1>1. /\ RunInitScriptHandler /\ Booting(data) /\ Has(data.events, Event)
      /\ Formed(Taken) /\ Taken.state = data.state
  BY StateSteps, TakenOnly DEF OInv, Order, Staged, Fields
<1>2. CASE On("BUS_CLOSED")
  BY <1>1, <1>2, SoleHas DEF On, Booting, At, Fresh, Bus, Results, Inited
<1>3. CASE data' = RunScript(ChatAttach(Taken, "UART"), "init")
  <2> DEFINE a == ChatAttach(Taken, "UART")
  <2>1. Only(Taken, a, {"cb", "chatPipe"})
    BY <1>1, OnlyChat
  <2>2. Only(a, RunScript(a, "init"), {"script"})
    BY <2>1, OnlyChat DEF Only
  <2> HIDE DEF a
  <2> QED
    BY <1>1, <1>3, <2>1, <2>2 DEF Only, Fields, a
<1>4. CASE data' = CloseBus(ChatRelease(Taken))
  <2> DEFINE a == ChatRelease(Taken)
  <2>1. Only(Taken, a, {"cb", "chatPipe", "script"})
    BY <1>1, OnlyChatRelease
  <2>2. Only(a, CloseBus(a), {"cb", "ops"})
    BY <2>1, OnlyBus DEF Only
  <2> HIDE DEF a
  <2> QED
    BY <1>1, <1>4, <2>1, <2>2 DEF Only, Fields, a
<1>5. CASE \E s \in {"IDLE", "RESET_PULSE"} : data' = EnterState(Taken, s)
  <2>1. PICK s \in {"IDLE", "RESET_PULSE"} : data' = EnterState(Taken, s)
    BY <1>5
  <2>2. s \in States
    BY DEF States
  <2> QED
    BY <1>1, <2>1, <2>2, EnterStateEntry DEF Entry
<1>6. CASE data' = Taken
  BY <1>1, <1>6
<1> QED
  BY <1>1, <1>2, <1>3, <1>4, <1>5, <1>6 DEF RunInitScriptHandler, Ignores

(* The APN state is left for dialling by the success of its script. *)
LEMMA StepsApn ==
  ASSUME OInv, Next, data.state = "RUN_APN_SCRIPT", data'.state # data.state
  PROVE  data'.state = "RUN_DIAL_SCRIPT" => data.done # {}
<1>1. /\ RunApnScriptHandler /\ Staged(data) /\ Has(data.events, Event)
      /\ Whole(Taken) /\ Taken.state = data.state
  <2>1. Whole(data) /\ RunApnScriptHandler /\ Before /\ Staged(data)
    BY StateSteps, WholeGood DEF OInv, Order, Before
  <2>2. Shaped(Taken)
    BY <2>1 DEF Taken, Whole, Shaped
  <2> QED
    BY <2>1, <2>2, TakenOnly DEF Whole, Fields
<1>2. CASE On("SCRIPT_SUCCESS")
  BY <1>1, <1>2 DEF On, Staged
<1>3. CASE data' \in {Taken, StartTimer(ScriptFailed(Taken)),
                      RunScript(ChatAttach(Taken, "DLCI1"), "apn")}
  <2>1. \A a : Steady(Taken, a) => Whole(a)
    BY DEF Steady
  <2>2. Steady(Taken, data')
    BY <1>1, <1>3, <2>1, SteadyBy, SteadyTrans
  <2> QED
    BY <1>1, <2>2 DEF Steady
<1>4. CASE data' = RequestSuspend
  <2>1. Only(Taken, CountReset, {})
    BY <1>1, OnlyCount DEF CountReset, Whole
  <2>2. Formed(CountReset) /\ "SUSPEND" \in Events
    BY <2>1 DEF Only, Events
  <2>3. Only(CountReset, data', {"events", "lost"})
    BY <1>4, <2>2, OnlyDelegate DEF RequestSuspend
  <2> QED
    BY <1>1, <2>1, <2>3 DEF Only, Fields
<1>5. CASE data' = EnterState(Taken, "INIT_POWER_OFF")
  <2>1. data'.state = "INIT_POWER_OFF"
    BY <1>1, <1>5, EnterStateEntry DEF Entry, Whole, States
  <2> QED
    BY <2>1
<1> QED
  BY <1>1, <1>2, <1>3, <1>4, <1>5 DEF RunApnScriptHandler, RetryOr, Ignores

(* CMUX is connected only after the init script succeeded in the same        *)
(* session, unless the pipe dropped an event.                                *)
THEOREM InitPrecedesMux ==
  ASSUME Direct
  PROVE  Spec => InitBeforeMux
<1> DEFINE A == data.state = "RUN_INIT_SCRIPT" /\ data'.state = "CONNECT_CMUX"
                  => "init" \in data.done \/ data.lost
<1>1. OInv /\ [Next]_vars => [A]_vars
  <2> SUFFICES ASSUME OInv, Next PROVE A
    OBVIOUS
  <2>1. CASE data'.state = data.state
    BY <2>1
  <2>2. CASE data'.state # data.state /\ data.state = "RUN_INIT_SCRIPT"
    BY <2>2, StepsBoot
  <2> QED
    BY <2>1, <2>2
<1> QED
  BY <1>1, OrderInvariance, PTL DEF Spec, InitBeforeMux

(* Dialling after APN configuration follows a script that succeeded in the  *)
(* APN state.                                                               *)
THEOREM ApnPrecedesDial ==
  ASSUME Direct
  PROVE  Spec => ApnBeforeDial
<1> DEFINE A == data.state = "RUN_APN_SCRIPT" /\ data'.state = "RUN_DIAL_SCRIPT"
                  => data.done # {}
<1>1. OInv /\ [Next]_vars => [A]_vars
  <2> SUFFICES ASSUME OInv, Next PROVE A
    OBVIOUS
  <2>1. CASE data'.state = data.state
    BY <2>1
  <2>2. CASE data'.state # data.state /\ data.state = "RUN_APN_SCRIPT"
    BY <2>2, StepsApn
  <2> QED
    BY <2>1, <2>2
<1> QED
  BY <1>1, OrderInvariance, PTL DEF Spec, ApnBeforeDial
=============================================================================
