-------------------------- MODULE ModemQueueProofs --------------------------
(**************************************************************************)
(* What the event pipe holds.  The driver waits in most of its states for *)
(* one event; these proofs follow the events through the pipe and show    *)
(* that a waiting state has its wake-up under way, that a suspend request *)
(* is not overtaken, and what PPP, the APN and a recovery leave queued.   *)
(**************************************************************************)
EXTENDS ModemProofs

(* A record with the fields of the driver's data these proofs read.  They *)
(* follow the helpers through records that differ in the fields a helper  *)
(* writes: Only says that r differs from d in the fields F at most.       *)
Fields ==
  {"state", "events", "timer", "cb", "ops", "chatPipe", "script", "cmux",
   "cmdPipe", "pm", "sem", "pppLive", "apn", "apnScript", "lateApn", "lost",
   "recovered"}
Formed(d) ==
  /\ Fields \subseteq DOMAIN d
  /\ d.events \in Seq(Events)
  /\ DOMAIN d.cb = Pipes /\ DOMAIN d.ops = Pipes
  /\ \A p \in Pipes : d.ops[p] \in Seq({"open", "close"})
Only(d, r, F) ==
  /\ Formed(r)
  /\ \A f \in Fields \ F : r[f] = d[f]

-----------------------------------------------------------------------------
(* Queues *)

(* A queue holds what it held and what is appended. *)
LEMMA HasAppend ==
  ASSUME NEW S, NEW q \in Seq(S), NEW e \in S
  PROVE  /\ Append(q, e) \in Seq(S) /\ Append(q, e) # <<>>
         /\ \A x : Has(Append(q, e), x) <=> Has(q, x) \/ x = e
<1> DEFINE r == Append(q, e)
<1>1. /\ r \in Seq(S) /\ Len(q) \in Nat
      /\ DOMAIN q = 1 .. Len(q) /\ DOMAIN r = 1 .. (Len(q) + 1)
      /\ \A i \in 1 .. Len(q) : r[i] = q[i]
      /\ r[Len(q) + 1] = e
  OBVIOUS
<1>2. r # <<>>
  <2>1. Len(r) = Len(q) + 1 /\ Len(q) \in Nat
    OBVIOUS
  <2> QED
    BY <2>1
<1> HIDE DEF r
<1>3. ASSUME NEW x, Has(q, x) PROVE Has(r, x)
  BY <1>1, <1>3 DEF Has
<1>4. Has(r, e)
  <2>1. Len(q) + 1 \in DOMAIN r
    BY <1>1
  <2> QED
    BY <1>1, <2>1 DEF Has
<1>5. ASSUME NEW x, Has(r, x), x # e PROVE Has(q, x)
  <2>1. PICK i \in DOMAIN r : r[i] = x
    BY <1>5 DEF Has
  <2>2. i \in DOMAIN q /\ q[i] = x
    BY <1>1, <1>5, <2>1
  <2> QED
    BY <2>2 DEF Has
<1> QED
  BY <1>1, <1>2, <1>3, <1>4, <1>5 DEF r

(* Reading takes away the head. *)
LEMMA HasTail ==
  ASSUME NEW S, NEW q \in Seq(S), q # <<>>
  PROVE  /\ Tail(q) \in Seq(S) /\ Head(q) \in S
         /\ \A x : Has(q, x) <=> x = Head(q) \/ Has(Tail(q), x)
<1> DEFINE r == Tail(q)
<1>1. /\ r \in Seq(S) /\ Len(q) \in Nat /\ Len(q) >= 1
      /\ DOMAIN q = 1 .. Len(q) /\ DOMAIN r = 1 .. (Len(q) - 1)
      /\ Head(q) = q[1] /\ Head(q) \in S
      /\ \A i \in 1 .. (Len(q) - 1) : r[i] = q[i + 1]
  OBVIOUS
<1> HIDE DEF r
<1>2. ASSUME NEW x, Has(q, x), x # Head(q) PROVE Has(r, x)
  <2>1. PICK i \in DOMAIN q : q[i] = x
    BY <1>2 DEF Has
  <2>2. i - 1 \in DOMAIN r /\ (i - 1) + 1 = i
    BY <1>1, <1>2, <2>1
  <2>3. r[i - 1] = x
    BY <1>1, <2>1, <2>2
  <2> QED
    BY <2>2, <2>3 DEF Has
<1>3. Has(q, Head(q))
  <2>1. 1 \in DOMAIN q
    BY <1>1
  <2> QED
    BY <1>1, <2>1 DEF Has
<1>4. ASSUME NEW x, Has(r, x) PROVE Has(q, x)
  <2>1. PICK i \in DOMAIN r : r[i] = x
    BY <1>4 DEF Has
  <2>2. i + 1 \in DOMAIN q /\ q[i + 1] = x
    BY <1>1, <2>1
  <2> QED
    BY <2>2 DEF Has
<1> QED
  BY <1>1, <1>2, <1>3, <1>4 DEF r

-----------------------------------------------------------------------------
(* The helpers *)

LEMMA OnlyTimer ==
  ASSUME NEW d, Formed(d), NEW F, "timer" \in F
  PROVE  Only(d, StartTimer(d), F) /\ Only(d, StopTimer(d), F)
<1>1. ASSUME NEW x PROVE Only(d, [d EXCEPT !.timer = x], F)
  BY DEF Only, Formed, Fields
<1>2. Only(d, d, F)
  BY DEF Only
<1> QED
  BY <1>1, <1>2 DEF StartTimer, StopTimer

LEMMA OnlyAttach ==
  ASSUME NEW d, Formed(d), NEW p, NEW o
  PROVE  LET r == Attach(d, p, o)
         IN  /\ Only(d, r, {"cb"})
             /\ p \in Pipes => r.cb[p] = o
             /\ \A n \in Pipes \ {p} : r.cb[n] = d.cb[n]
BY DEF Only, Formed, Fields, Attach

(* A request joins the unfinished requests of its pipe. *)
LEMMA OnlyRequest ==
  ASSUME NEW d, Formed(d), NEW p \in Pipes, NEW op \in {"open", "close"}
  PROVE  LET r == Request(d, p, op)
         IN  /\ Only(d, r, {"ops"})
             /\ r.ops[p] # <<>> /\ Has(r.ops[p], op)
             /\ \A n \in Pipes : d.ops[n] # <<>> => r.ops[n] # <<>>
             /\ \A n \in Pipes : \A x : Has(d.ops[n], x) => Has(r.ops[n], x)
<1> DEFINE q == Append(d.ops[p], op)
           r == Request(d, p, op)
<1>1. /\ q \in Seq({"open", "close"}) /\ q # <<>>
      /\ \A x : Has(q, x) <=> Has(d.ops[p], x) \/ x = op
  BY HasAppend DEF Formed
<1> HIDE DEF q
<1>2. r = [d EXCEPT !.ops = [@ EXCEPT ![p] = q]]
  BY DEF q, Request
<1> HIDE DEF r
<1>3. /\ Only(d, r, {"ops"}) /\ r.ops[p] = q
      /\ \A n \in Pipes \ {p} : r.ops[n] = d.ops[n]
  BY <1>1, <1>2 DEF Only, Formed, Fields
<1> QED
  BY <1>1, <1>3 DEF r

LEMMA OnlyBus ==
  ASSUME NEW d, Formed(d)
  PROVE  /\ Only(d, OpenBus(d), {"cb", "ops"}) /\ Only(d, CloseBus(d), {"cb", "ops"})
         /\ Opening(OpenBus(d))
         /\ Asked(OpenBus(d), "UART") /\ Asked(CloseBus(d), "UART")
<1> DEFINE a == Attach(d, "UART", "driver")
<1>1. Only(d, a, {"cb"}) /\ a.cb["UART"] = "driver" /\ "UART" \in Pipes
  BY OnlyAttach DEF Pipes
<1>2. OpenBus(d) = Request(a, "UART", "open") /\ CloseBus(d) = Request(a, "UART", "close")
  BY DEF OpenBus, CloseBus, OpenAsync, CloseAsync
<1> HIDE DEF a
<1>3. ASSUME NEW op \in {"open", "close"}
      PROVE  LET r == Request(a, "UART", op)
             IN  /\ Only(d, r, {"cb", "ops"}) /\ r.cb["UART"] = "driver"
                 /\ r.ops["UART"] # <<>> /\ Has(r.ops["UART"], op)
  <2> DEFINE r == Request(a, "UART", op)
  <2>1. Only(a, r, {"ops"}) /\ r.ops["UART"] # <<>> /\ Has(r.ops["UART"], op)
    BY <1>1, OnlyRequest DEF Only
  <2> HIDE DEF r
  <2>2. Only(d, r, {"cb", "ops"}) /\ r.cb["UART"] = a.cb["UART"]
    BY <1>1, <2>1 DEF Only, Fields
  <2> QED
    BY <1>1, <2>1, <2>2 DEF r
<1> QED
  BY <1>2, <1>3 DEF Opening, Asked

(* The chat: whoever attaches it names its pipe, and a script runs after    *)
(* RunScript if the chat has one.                                           *)
LEMMA OnlyChat ==
  ASSUME NEW d, Formed(d), NEW p, NEW s
  PROVE  /\ Only(d, ChatAttach(d, p), {"cb", "chatPipe"})
         /\ ChatAttach(d, p).chatPipe = p
         /\ Only(d, RunScript(d, s), {"script"})
         /\ s # "none" /\ d.chatPipe # "none" => RunScript(d, s).script # "none"
         /\ d.script # "none" => RunScript(d, s).script # "none"
<1> DEFINE a == Attach(d, p, "chat")
<1>1. Only(d, a, {"cb"})
  BY OnlyAttach
<1>2. ChatAttach(d, p) = [a EXCEPT !.chatPipe = p]
  BY DEF ChatAttach
<1> HIDE DEF a
<1>3. Only(a, ChatAttach(d, p), {"chatPipe"}) /\ ChatAttach(d, p).chatPipe = p
  BY <1>1, <1>2 DEF Only, Formed, Fields
<1>4. Only(d, ChatAttach(d, p), {"cb", "chatPipe"})
  BY <1>1, <1>3 DEF Only
<1>5. Only(d, RunScript(d, s), {"script"})
  BY DEF RunScript, Only, Formed, Fields
<1>6. RunScript(d, s).script = IF d.chatPipe = "none" \/ d.script # "none"
                               THEN d.script ELSE s
  BY DEF RunScript, Formed, Fields
<1> QED
  BY <1>3, <1>4, <1>5, <1>6

LEMMA OnlyChatRelease ==
  ASSUME NEW d, Formed(d)
  PROVE  Only(d, ChatRelease(d), {"cb", "chatPipe", "script"})
<1>1. CASE d.chatPipe = "none"
  BY <1>1 DEF ChatRelease, Only, Formed, Fields
<1>2. CASE d.chatPipe # "none"
  <2> DEFINE a == Attach(d, d.chatPipe, "none")
  <2>1. Only(d, a, {"cb"})
    BY OnlyAttach
  <2>2. ChatRelease(d) = [a EXCEPT !.chatPipe = "none", !.script = "none"]
    BY <1>2 DEF ChatRelease, Release
  <2> HIDE DEF a
  <2> QED
    BY <2>1, <2>2 DEF Only, Formed, Fields
<1> QED
  BY <1>1, <1>2

(* CMUX takes the UART over; connecting leaves it connecting unless it is    *)
(* up or coming down.                                                        *)
LEMMA OnlyCmux ==
  ASSUME NEW d, Formed(d)
  PROVE  LET up == CmuxConnect(CmuxAttach(d))
         IN  /\ Only(d, up, {"cb", "cmux"})
             /\ up.cmux = IF d.cmux \in {"released", "disconnected"}
                          THEN "connecting" ELSE d.cmux
             /\ Only(d, CmuxDisconnect(d), {"cmux"})
<1> DEFINE a == Attach(d, "UART", "cmux")
           b == CmuxAttach(d)
<1>1. Only(d, a, {"cb"})
  BY OnlyAttach DEF Pipes
<1>2. b = [a EXCEPT !.cmux = IF @ = "released" THEN "disconnected" ELSE @]
  BY DEF CmuxAttach
<1> HIDE DEF a, b
<1>3. /\ Only(d, b, {"cb", "cmux"})
      /\ b.cmux = IF d.cmux = "released" THEN "disconnected" ELSE d.cmux
  BY <1>1, <1>2 DEF Only, Formed, Fields
<1>4. /\ Only(d, CmuxConnect(b), {"cb", "cmux"})
      /\ CmuxConnect(b).cmux = IF b.cmux = "disconnected" THEN "connecting" ELSE b.cmux
  BY <1>3 DEF CmuxConnect, Only, Formed, Fields
<1>5. Only(d, CmuxDisconnect(d), {"cmux"})
  BY DEF CmuxDisconnect, Only, Formed, Fields
<1> QED
  BY <1>3, <1>4, <1>5 DEF b

LEMMA OnlyCloseDlcis ==
  ASSUME NEW d, Formed(d)
  PROVE  LET r == CloseDlcis(d)
         IN  Only(d, r, {"ops"}) /\ r.ops["UART"] = d.ops["UART"]
<1>1. <<>> \in Seq({"open", "close"})
  OBVIOUS
<1> QED
  BY <1>1 DEF CloseDlcis, Only, Formed, Fields, Pipes, Dlcis

LEMMA OnlyCmuxRelease ==
  ASSUME NEW d, Formed(d)
  PROVE  LET r == CmuxRelease(d)
         IN  Only(d, r, {"cb", "ops", "cmux"}) /\ r.cmux = "released"
<1>1. CASE d.cmux = "released"
  BY <1>1 DEF CmuxRelease, Only
<1>2. CASE d.cmux # "released"
  <2> DEFINE a == Attach(d, "UART", "none")
             b == CloseDlcis(a)
  <2>1. Only(d, a, {"cb"})
    BY OnlyAttach DEF Pipes
  <2>2. CmuxRelease(d) = [b EXCEPT !.cmux = "released"]
    BY <1>2 DEF CmuxRelease, Release
  <2> HIDE DEF a
  <2>3. Only(a, b, {"ops"})
    BY <2>1, OnlyCloseDlcis DEF Only
  <2> HIDE DEF b
  <2>4. Only(d, b, {"cb", "ops"})
    BY <2>1, <2>3 DEF Only
  <2> QED
    BY <2>2, <2>4 DEF Only, Formed, Fields
<1> QED
  BY <1>1, <1>2

LEMMA OnlyPpp ==
  ASSUME NEW d, Formed(d)
  PROVE  /\ Only(d, PppAttach(d), {"cb"}) /\ Only(d, PppRelease(d), {"cb"})
         /\ Only(d, CarrierOff(d), {})
<1>1. ASSUME NEW o, NEW x
      PROVE  Only(d, [Attach(d, "DLCI1", o) EXCEPT !.ppp = x], {"cb"})
  <2> DEFINE a == Attach(d, "DLCI1", o)
  <2>1. Only(d, a, {"cb"})
    BY OnlyAttach DEF Pipes
  <2> HIDE DEF a
  <2>2. Only(d, [a EXCEPT !.ppp = x], {"cb"})
    BY <2>1 DEF Only, Formed, Fields
  <2> QED
    BY <2>2 DEF a
<1>2. Only(d, d, {"cb"})
  BY DEF Only
<1>3. Only(d, CarrierOff(d), {})
  BY DEF CarrierOff, Only, Formed, Fields
<1> QED
  BY <1>1, <1>2, <1>3 DEF PppAttach, PppRelease, Release

(* The token goes to a waiting suspend call. *)
LEMMA OnlySemGive ==
  ASSUME NEW d, Formed(d)
  PROVE  LET r == SemGive(d)
         IN  /\ Only(d, r, {"pm", "sem"})
             /\ r.pm = IF d.pm = "waiting" THEN "suspended" ELSE d.pm
BY DEF SemGive, Only, Formed, Fields

(* An event is queued where there is room for it, and lost otherwise. *)
Queues(d, r, e) ==
  \/ Len(d.events) < EventPipeSize /\ r.events = Append(d.events, e) /\ r.lost = d.lost
  \/ r.events = d.events /\ r.lost = TRUE
LEMMA OnlyDelegate ==
  ASSUME NEW d, Formed(d), NEW e \in Events
  PROVE  LET r == Delegate(d, e)
         IN  /\ Only(d, r, {"events", "lost"}) /\ Queues(d, r, e)
             /\ Has(r.events, e) \/ r.lost = TRUE
             /\ \A x : Has(d.events, x) => Has(r.events, x)
<1>1. /\ Append(d.events, e) \in Seq(Events)
      /\ \A x : Has(Append(d.events, e), x) <=> Has(d.events, x) \/ x = e
  BY HasAppend DEF Formed
<1>2. CASE Len(d.events) < EventPipeSize
  BY <1>1, <1>2 DEF Delegate, Only, Formed, Fields, Queues
<1>3. CASE ~(Len(d.events) < EventPipeSize)
  BY <1>3 DEF Delegate, Only, Formed, Fields, Queues
<1> QED
  BY <1>2, <1>3

-----------------------------------------------------------------------------
(* Leaving and entering states *)

(* A leave function changes the timer, the token and the chat's and PPP's    *)
(* callbacks; those of the online states the timer only.                     *)
LEMMA OnlyLeave ==
  ASSUME NEW d, Formed(d)
  PROVE  LET r == OnStateLeave(d)
         IN  /\ Only(d, r, {"timer", "cb", "chatPipe", "script", "sem"})
             /\ d.state = "AWAIT_REGISTERED" => Only(d, r, {"timer"})
<1> DEFINE F == {"timer", "cb", "chatPipe", "script", "sem"}
<1>1. CASE d.state = "IDLE"
  <2>1. OnStateLeave(d) = IdleLeave(d)
    BY <1>1 DEF OnStateLeave
  <2>2. Only(d, IdleLeave(d), F)
    BY DEF IdleLeave, Only, Formed, Fields
  <2> QED
    BY <1>1, <2>1, <2>2
<1>2. CASE d.state = "RESET_PULSE"
  <2> DEFINE a == [d EXCEPT !.reset = FALSE, !.wake = TRUE]
  <2>1. OnStateLeave(d) = StopTimer(a)
    BY <1>2 DEF OnStateLeave, ResetPulseLeave
  <2>2. Only(d, a, {})
    BY DEF Only, Formed, Fields
  <2> HIDE DEF a
  <2>3. Only(a, StopTimer(a), {"timer"})
    BY <2>2, OnlyTimer DEF Only
  <2> QED
    BY <1>2, <2>1, <2>2, <2>3 DEF Only
<1>3. CASE d.state \in {"AWAIT_RESET", "POWER_ON_PULSE", "AWAIT_REGISTERED",
                        "CARRIER_ON", "POWER_OFF_PULSE"}
  <2>1. OnStateLeave(d) = StopTimer(d)
    BY <1>3 DEF OnStateLeave
  <2>2. Only(d, StopTimer(d), F) /\ Only(d, StopTimer(d), {"timer"})
    BY OnlyTimer
  <2> QED
    BY <2>1, <2>2
<1>4. CASE d.state \in {"OPEN_DLCI1", "OPEN_DLCI2"}
  <2>1. \E p : OnStateLeave(d) = Attach(d, p, "none")
    BY <1>4 DEF OnStateLeave, Release
  <2>2. Only(d, OnStateLeave(d), {"cb"})
    BY <2>1, OnlyAttach
  <2> QED
    BY <1>4, <2>2 DEF Only
<1>5. CASE d.state \in {"RUN_DIAL_SCRIPT", "RUN_SHUTDOWN_SCRIPT"}
  <2>1. OnStateLeave(d) = ChatRelease(d)
    BY <1>5 DEF OnStateLeave
  <2> QED
    BY <1>5, <2>1, OnlyChatRelease DEF Only
<1>6. CASE d.state \in {"DORMANT", "INIT_POWER_OFF"}
  <2> DEFINE a == IF d.state = "DORMANT" THEN CarrierOff(d)
                                         ELSE [d EXCEPT !.users = FALSE]
             b == ChatRelease(a)
             c == PppRelease(b)
  <2>1. OnStateLeave(d) = IF d.state = "DORMANT" THEN [c EXCEPT !.dormant = FALSE]
                                                 ELSE c
    BY <1>6 DEF OnStateLeave, DormantLeave, InitPowerOffLeave
  <2>2. Only(d, a, {})
    BY OnlyPpp DEF Only, Formed, Fields
  <2> HIDE DEF a
  <2>3. Only(a, b, {"cb", "chatPipe", "script"})
    BY <2>2, OnlyChatRelease DEF Only
  <2> HIDE DEF b
  <2>4. Only(b, c, {"cb"})
    BY <2>3, OnlyPpp DEF Only
  <2> HIDE DEF c
  <2>5. Only(d, c, F)
    BY <2>2, <2>3, <2>4 DEF Only
  <2>6. Only(c, [c EXCEPT !.dormant = FALSE], {})
    BY <2>4 DEF Only, Formed, Fields
  <2> QED
    BY <1>6, <2>1, <2>5, <2>6 DEF Only
<1>7. CASE d.state \notin {"IDLE", "RESET_PULSE", "AWAIT_RESET",
            "POWER_ON_PULSE", "AWAIT_REGISTERED", "CARRIER_ON",
            "POWER_OFF_PULSE", "OPEN_DLCI1", "OPEN_DLCI2", "RUN_DIAL_SCRIPT",
            "RUN_SHUTDOWN_SCRIPT", "DORMANT", "INIT_POWER_OFF"}
  <2>1. OnStateLeave(d) = d
    BY <1>7 DEF OnStateLeave
  <2> QED
    BY <2>1 DEF Only
<1> QED
  BY <1>1, <1>2, <1>3, <1>4, <1>5, <1>6, <1>7

(* Storing the next state changes it only. *)
LEMMA OnlyBecome ==
  ASSUME NEW d, Formed(d), NEW s
  PROVE  LET r == Become(d, s)
         IN  /\ Only(d, r, {"state", "timer", "cb", "chatPipe", "script", "sem"})
             /\ r.state = s
             /\ d.state = "AWAIT_REGISTERED" => r.chatPipe = d.chatPipe
<1> DEFINE a == OnStateLeave(d)
<1>1. /\ Only(d, a, {"timer", "cb", "chatPipe", "script", "sem"})
      /\ d.state = "AWAIT_REGISTERED" => Only(d, a, {"timer"})
  BY OnlyLeave
<1>2. Become(d, s) = [a EXCEPT !.state = s, !.done = {}]
  BY DEF Become
<1> HIDE DEF a
<1>3. Only(a, Become(d, s), {"state"}) /\ Become(d, s).state = s
  BY <1>1, <1>2 DEF Only, Formed, Fields
<1> QED
  BY <1>1, <1>3 DEF Only, Fields

(* What entering state s makes of d. *)
Touched ==
  {"state", "events", "timer", "cb", "ops", "chatPipe", "script", "cmux",
   "cmdPipe", "pm", "sem", "pppLive", "apnScript", "lost"}
Entry(d, r, s) ==
  /\ Only(d, r, Touched) /\ r.state = s
  /\ \/ r.events = d.events /\ r.lost = d.lost
     \/ s = "AWAIT_REGISTERED" /\ Queues(d, r, "REGISTERED")
  /\ r.pm = IF s = "IDLE" /\ d.pm = "waiting" THEN "suspended" ELSE d.pm
  /\ r.pppLive = IF s = "CARRIER_ON" THEN TRUE ELSE d.pppLive
  /\ r.apnScript = IF s # "RUN_APN_SCRIPT" THEN d.apnScript
                   ELSE IF UseDefaultApn THEN "none" ELSE d.apn
  /\ s \notin {"IDLE", "INIT_POWER_OFF"} => r.cmux = d.cmux
  /\ s = "IDLE" => r.cmux = "released"
  /\ s = "AWAIT_REGISTERED" => r.chatPipe = "DLCI2"

(* The wake-up a state starts for itself on entry. *)
Started(r) ==
  /\ r.state \in TimedStates \cup
       {"CONNECT_CMUX", "RUN_APN_SCRIPT", "RUN_DIAL_SCRIPT", "AWAIT_REGISTERED",
        "CARRIER_ON"}
       => r.timer # "off"
  /\ r.state = "SET_BAUDRATE" => Opening(r)
  /\ r.state = "RUN_INIT_SCRIPT" => Asked(r, "UART")
  /\ r.state = "OPEN_DLCI1" => Asked(r, "DLCI1")
  /\ r.state = "OPEN_DLCI2" => Asked(r, "DLCI2")
  /\ r.state = "RUN_SHUTDOWN_SCRIPT" => r.script # "none"

LEMMA TimerStarts ==
  ASSUME NEW d, Formed(d), d.state # "off"
  PROVE  Only(d, StartTimer(d), {"timer"}) /\ StartTimer(d).timer # "off"
<1>1. Only(d, StartTimer(d), {"timer"})
  BY OnlyTimer
<1>2. StartTimer(d).timer # "off"
  BY DEF StartTimer, Formed, Fields
<1> QED
  BY <1>1, <1>2

LEMMA IdleEntry ==
  ASSUME NEW d, Formed(d), d.state = "IDLE"
  PROVE  Entry(d, IdleEnter(d), "IDLE")
<1> DEFINE a == ChatRelease(d)
           b == PppRelease(a)
           c == CmuxRelease(b)
           e == CloseAsync(c, "UART")
           f == [e EXCEPT !.wake = FALSE, !.users = FALSE,
                          !.reset = (HasResetGpio /\ HoldResetOnSuspend) \/ @]
<1>1. IdleEnter(d) = SemGive(f)
  BY DEF IdleEnter
<1>2. Only(d, a, {"cb", "chatPipe", "script"})
  BY OnlyChatRelease
<1> HIDE DEF a
<1>3. Only(a, b, {"cb"})
  BY <1>2, OnlyPpp DEF Only
<1> HIDE DEF b
<1>4. Only(b, c, {"cb", "ops", "cmux"}) /\ c.cmux = "released"
  BY <1>3, OnlyCmuxRelease DEF Only
<1> HIDE DEF c
<1>5. Only(c, e, {"ops"})
  BY <1>4, OnlyRequest DEF Only, CloseAsync, Pipes
<1> HIDE DEF e
<1>6. Only(e, f, {})
  BY <1>5 DEF Only, Formed, Fields
<1> HIDE DEF f
<1>7. /\ Only(f, SemGive(f), {"pm", "sem"})
      /\ SemGive(f).pm = IF f.pm = "waiting" THEN "suspended" ELSE f.pm
  BY <1>6, OnlySemGive DEF Only
<1>8. Only(d, f, {"cb", "chatPipe", "script", "ops", "cmux"}) /\ f.cmux = "released"
  BY <1>2, <1>3, <1>4, <1>5, <1>6 DEF Only, Fields
<1>9. Only(d, SemGive(f), Touched)
  BY <1>7, <1>8 DEF Only, Touched
<1> QED
  BY <1>1, <1>7, <1>8, <1>9 DEF Entry, Only, Fields

LEMMA AwaitRegisteredEntry ==
  ASSUME NEW d, Formed(d), d.state = "AWAIT_REGISTERED"
  PROVE  LET r == AwaitRegisteredEnter(d)
         IN  Entry(d, r, "AWAIT_REGISTERED") /\ Started(r)
<1> DEFINE a == PppAttach(d)
           b == IF IsRegistered(d) THEN Delegate(a, "REGISTERED") ELSE a
           c == StartTimer(b)
           r == ChatAttach(c, "DLCI2")
<1>1. AwaitRegisteredEnter(d) = r
  BY DEF AwaitRegisteredEnter
<1>2. Only(d, a, {"cb"})
  BY OnlyPpp
<1> HIDE DEF a
<1>3. /\ Only(a, b, {"events", "lost"})
      /\ (b.events = a.events /\ b.lost = a.lost) \/ Queues(a, b, "REGISTERED")
  BY ZenonT(60), <1>2, OnlyDelegate DEF Only, Events
<1> HIDE DEF b
<1>4. Only(d, b, {"cb", "events", "lost"}) /\ b.state = "AWAIT_REGISTERED"
  BY <1>2, <1>3 DEF Only, Fields
<1>5. (b.events = d.events /\ b.lost = d.lost) \/ Queues(d, b, "REGISTERED")
  BY <1>2, <1>3 DEF Only, Fields, Queues
<1>6. Only(b, c, {"timer"}) /\ c.timer # "off"
  BY <1>4, TimerStarts DEF Only
<1> HIDE DEF c
<1>7. Only(c, r, {"cb", "chatPipe"}) /\ r.chatPipe = "DLCI2"
  BY <1>6, OnlyChat DEF Only
<1> HIDE DEF r
<1>8. Only(d, r, {"cb", "chatPipe", "timer", "events", "lost"})
  BY <1>4, <1>6, <1>7 DEF Only
<1>9. /\ r.events = b.events /\ r.lost = b.lost
      /\ r.timer # "off" /\ r.state = "AWAIT_REGISTERED"
  BY <1>4, <1>6, <1>7 DEF Only, Fields
<1>10. Only(d, r, Touched)
  BY <1>8 DEF Only, Touched
<1>11. Started(r)
  BY <1>9 DEF Started
<1> QED
  BY <1>1, <1>5, <1>7, <1>8, <1>9, <1>10, <1>11 DEF Entry, Only, Fields, Queues

(* The enter functions of the other states. *)
LEMMA OtherEntry ==
  ASSUME NEW d, Formed(d), d.state \in States \ {"IDLE", "AWAIT_REGISTERED"}
  PROVE  LET r == OnStateEnter(d)
         IN  /\ Entry(d, r, d.state)
             /\ d.state # "RUN_SHUTDOWN_SCRIPT" \/ d.cmdPipe # "none" => Started(r)
             /\ d.state = "CARRIER_ON" => r.chatPipe = d.chatPipe
<1> DEFINE r == OnStateEnter(d)
           Plain(e) == Only(d, e, {"timer", "cb", "ops", "chatPipe", "script", "cmdPipe"})
<1>0. ASSUME Plain(r), d.state \notin {"RUN_APN_SCRIPT", "CARRIER_ON"}
      PROVE  Entry(d, r, d.state)
  BY <1>0 DEF Entry, Only, Fields, Touched
<1> USE DEF Started
<1>1. CASE d.state = "RESET_PULSE"
  <2> DEFINE a == IF d.originalBaud # "none"
                  THEN BaudrateUpdate(d, d.originalBaud) ELSE d
             b == [a EXCEPT !.wake = FALSE, !.reset = TRUE]
  <2>1. r = StartTimer(b)
    BY <1>1 DEF OnStateEnter, ResetPulseEnter
  <2>2. Only(d, a, {})
    BY DEF BaudrateUpdate, Only, Formed, Fields
  <2> HIDE DEF a
  <2>3. Only(a, b, {})
    BY <2>2 DEF Only, Formed, Fields
  <2> HIDE DEF b
  <2>4. Only(d, b, {})
    BY <2>2, <2>3 DEF Only
  <2>5. Only(b, StartTimer(b), {"timer"}) /\ StartTimer(b).timer # "off"
    BY <1>1, <2>4, TimerStarts DEF Only, Fields
  <2> HIDE DEF r
  <2>6. Plain(r) /\ r.timer # "off" /\ r.state = d.state
    BY <2>1, <2>4, <2>5 DEF Only, Fields
  <2> QED
    BY <1>0, <1>1, <2>6 DEF TimedStates, r
<1>2. CASE d.state \in {"AWAIT_RESET", "POWER_ON_PULSE", "CONNECT_CMUX",
                        "RUN_DIAL_SCRIPT", "AWAIT_POWER_OFF"}
  <2>1. r = StartTimer(d)
    BY <1>2 DEF OnStateEnter
  <2>2. Only(d, r, {"timer"}) /\ r.timer # "off"
    BY <1>2, <2>1, TimerStarts
  <2> HIDE DEF r
  <2>3. Plain(r) /\ r.state = d.state
    BY <2>2 DEF Only, Fields
  <2> QED
    BY <1>0, <1>2, <2>2, <2>3 DEF TimedStates, r
<1>3. CASE d.state = "AWAIT_POWER_ON"
  <2> DEFINE a == StartTimer(d)
  <2>1. r = OpenBus(a)
    BY <1>3 DEF OnStateEnter, AwaitPowerOnEnter
  <2>2. Only(d, a, {"timer"}) /\ a.timer # "off"
    BY <1>3, TimerStarts
  <2> HIDE DEF a
  <2>3. Only(a, r, {"cb", "ops"})
    BY <2>1, <2>2, OnlyBus DEF Only
  <2> HIDE DEF r
  <2>4. Plain(r) /\ r.state = d.state /\ r.timer # "off"
    BY <2>2, <2>3 DEF Only, Fields
  <2> QED
    BY <1>0, <1>3, <2>4 DEF TimedStates, r
<1>4. CASE d.state \in {"SET_BAUDRATE", "RUN_INIT_SCRIPT"}
  <2>1. r = OpenBus(d)
    BY <1>4 DEF OnStateEnter
  <2>2. Only(d, r, {"cb", "ops"}) /\ Opening(r) /\ Asked(r, "UART")
    BY <2>1, OnlyBus
  <2> HIDE DEF r
  <2>3. Plain(r) /\ r.state = d.state
    BY <2>2 DEF Only, Fields
  <2> QED
    BY <1>0, <1>4, <2>2, <2>3 DEF TimedStates, r
<1>5. CASE d.state \in {"OPEN_DLCI1", "OPEN_DLCI2"}
  <2>1. PICK p \in Pipes :
          /\ r = Request(Attach(d, p, "driver"), p, "open")
          /\ d.state = "OPEN_DLCI1" => p = "DLCI1"
          /\ d.state = "OPEN_DLCI2" => p = "DLCI2"
    BY <1>5 DEF OnStateEnter, OpenAsync, Pipes
  <2> DEFINE a == Attach(d, p, "driver")
  <2>2. Only(d, a, {"cb"}) /\ a.cb[p] = "driver"
    BY OnlyAttach
  <2> HIDE DEF a
  <2>3. Only(a, r, {"ops"}) /\ r.ops[p] # <<>>
    BY <2>1, <2>2, OnlyRequest DEF Only, a
  <2> HIDE DEF r
  <2>4. Plain(r) /\ r.state = d.state /\ r.cb = a.cb
    BY <2>2, <2>3 DEF Only, Fields
  <2> QED
    BY <1>0, <1>5, <2>1, <2>2, <2>3, <2>4 DEF TimedStates, Asked, r
<1>6. CASE d.state = "RUN_APN_SCRIPT"
  <2> DEFINE a == StartTimer(d)
  <2>1. r = [a EXCEPT !.apnScript = IF UseDefaultApn THEN "none" ELSE a.apn]
    BY <1>6 DEF OnStateEnter, BuildApnScript
  <2>2. Only(d, a, {"timer"}) /\ a.timer # "off"
    BY <1>6, TimerStarts
  <2> HIDE DEF a
  <2>3. /\ Only(a, r, {"apnScript"})
        /\ r.apnScript = IF UseDefaultApn THEN "none" ELSE a.apn
    BY <2>1, <2>2 DEF Only, Formed, Fields
  <2> HIDE DEF r
  <2>4. /\ Only(d, r, {"timer", "apnScript"}) /\ r.timer # "off"
        /\ r.state = d.state /\ a.apn = d.apn
    BY <2>2, <2>3 DEF Only, Fields
  <2>5. Only(d, r, Touched)
    BY <2>4 DEF Only, Touched
  <2>6. Entry(d, r, d.state)
    BY <1>6, <2>3, <2>4, <2>5 DEF Entry, Only, Fields
  <2> QED
    BY <1>6, <2>4, <2>6 DEF TimedStates, r
<1>7. CASE d.state = "CARRIER_ON"
  <2> DEFINE a == [d EXCEPT !.carrier = TRUE, !.pppLive = TRUE]
  <2>1. r = StartTimer(a)
    BY <1>7 DEF OnStateEnter, CarrierOnEnter
  <2>2. Only(d, a, {"pppLive"}) /\ a.pppLive = TRUE
    BY DEF Only, Formed, Fields
  <2> HIDE DEF a
  <2>3. Only(a, r, {"timer"}) /\ r.timer # "off"
    BY <1>7, <2>1, <2>2, TimerStarts DEF Only, Fields
  <2> HIDE DEF r
  <2>4. /\ Only(d, r, {"timer", "pppLive"}) /\ r.timer # "off"
        /\ r.state = d.state /\ r.pppLive = TRUE /\ r.chatPipe = d.chatPipe
    BY <2>2, <2>3 DEF Only, Fields
  <2>5. Only(d, r, Touched)
    BY <2>4 DEF Only, Touched
  <2>6. Entry(d, r, d.state)
    BY <1>7, <2>4, <2>5 DEF Entry, Only, Fields
  <2> QED
    BY <1>7, <2>4, <2>6 DEF TimedStates, r
<1>8. CASE d.state = "INIT_POWER_OFF"
  <2> DEFINE a == CmuxDisconnect(d)
  <2>1. r = StartTimer(a)
    BY <1>8 DEF OnStateEnter, InitPowerOffEnter
  <2>2. Only(d, a, {"cmux"})
    BY OnlyCmux
  <2> HIDE DEF a
  <2>3. Only(a, r, {"timer"}) /\ r.timer # "off"
    BY <1>8, <2>1, <2>2, TimerStarts DEF Only, Fields
  <2> HIDE DEF r
  <2>4. /\ Only(d, r, {"timer", "cmux"}) /\ r.timer # "off"
        /\ r.state = d.state
    BY <2>2, <2>3 DEF Only, Fields
  <2>5. Only(d, r, Touched)
    BY <2>4 DEF Only, Touched
  <2>6. Entry(d, r, d.state)
    BY <1>8, <2>4, <2>5 DEF Entry, Only, Fields
  <2> QED
    BY <1>8, <2>4, <2>6 DEF TimedStates, r
<1>9. CASE d.state = "RUN_SHUTDOWN_SCRIPT"
  <2> DEFINE a == ChatAttach(d, d.cmdPipe)
  <2>1. r = RunScript(a, "shutdown")
    BY <1>9 DEF OnStateEnter
  <2>2. Only(d, a, {"cb", "chatPipe"}) /\ a.chatPipe = d.cmdPipe
    BY OnlyChat
  <2> HIDE DEF a
  <2>3. Only(a, r, {"script"}) /\ (a.chatPipe # "none" => r.script # "none")
    BY <2>1, <2>2, OnlyChat DEF Only
  <2> HIDE DEF r
  <2>4. Plain(r) /\ r.state = d.state
    BY <2>2, <2>3 DEF Only, Fields
  <2> QED
    BY <1>0, <1>9, <2>2, <2>3, <2>4 DEF TimedStates, r
<1>10. CASE d.state = "POWER_OFF_PULSE"
  <2> DEFINE a == [d EXCEPT !.cmdPipe = "none"]
  <2>1. r = StartTimer(a)
    BY <1>10 DEF OnStateEnter
  <2>2. Only(d, a, {"cmdPipe"})
    BY DEF Only, Formed, Fields
  <2> HIDE DEF a
  <2>3. Only(a, r, {"timer"}) /\ r.timer # "off"
    BY <1>10, <2>1, <2>2, TimerStarts DEF Only, Fields
  <2> HIDE DEF r
  <2>4. Plain(r) /\ r.timer # "off" /\ r.state = d.state
    BY <2>2, <2>3 DEF Only, Fields
  <2> QED
    BY <1>0, <1>10, <2>4 DEF TimedStates, r
<1>11. CASE d.state \in {"DORMANT", "WAIT_FOR_APN"}
  <2>1. r \in {[d EXCEPT !.dormant = TRUE], d}
    BY <1>11 DEF OnStateEnter
  <2>2. Only(d, r, {})
    BY <2>1 DEF Only, Formed, Fields
  <2> HIDE DEF r
  <2>3. Plain(r) /\ r.state = d.state
    BY <2>2 DEF Only, Fields
  <2> QED
    BY <1>0, <1>11, <2>3 DEF TimedStates, r
<1> QED
  BY <1>1, <1>2, <1>3, <1>4, <1>5, <1>6, <1>7, <1>8, <1>9, <1>10, <1>11
  DEF States

(* enter_state. *)
LEMMA EnterStateEntry ==
  ASSUME NEW d, Formed(d), NEW s \in States
  PROVE  LET r == EnterState(d, s)
         IN  /\ Entry(d, r, s)
             /\ s # "RUN_SHUTDOWN_SCRIPT" \/ d.cmdPipe # "none" => Started(r)
             /\ s = "CARRIER_ON" /\ d.state = "AWAIT_REGISTERED"
                  => r.chatPipe = d.chatPipe
<1> DEFINE a == Become(d, s)
           r == OnStateEnter(a)
<1>1. /\ Only(d, a, {"state", "timer", "cb", "chatPipe", "script", "sem"})
      /\ a.state = s
      /\ d.state = "AWAIT_REGISTERED" => a.chatPipe = d.chatPipe
  BY OnlyBecome
<1>2. EnterState(d, s) = r
  BY DEF EnterState
<1> HIDE DEF a
<1>3. Formed(a) /\ a.cmdPipe = d.cmdPipe
  BY <1>1 DEF Only, Fields
<1>4. /\ Entry(a, r, s)
      /\ s # "RUN_SHUTDOWN_SCRIPT" \/ a.cmdPipe # "none" => Started(r)
      /\ s = "CARRIER_ON" => r.chatPipe = a.chatPipe
  <2>1. CASE s = "IDLE"
    <3>1. r = IdleEnter(a)
      BY <1>1, <2>1 DEF OnStateEnter
    <3>2. Entry(a, r, s)
      BY <1>1, <1>3, <2>1, <3>1, IdleEntry
    <3> HIDE DEF r
    <3>3. Started(r)
      BY <2>1, <3>2 DEF Started, TimedStates, Entry
    <3> QED
      BY <2>1, <3>2, <3>3
  <2>2. CASE s = "AWAIT_REGISTERED"
    <3>1. r = AwaitRegisteredEnter(a)
      BY <1>1, <2>2 DEF OnStateEnter
    <3> QED
      BY <1>1, <1>3, <2>2, <3>1, AwaitRegisteredEntry
  <2>3. CASE s \notin {"IDLE", "AWAIT_REGISTERED"}
    BY <1>1, <1>3, <2>3, OtherEntry
  <2> QED
    BY <2>1, <2>2, <2>3
<1> HIDE DEF r
<1>5. /\ \A f \in {"events", "lost", "pm", "pppLive", "apnScript", "apn",
                   "cmux", "recovered", "lateApn"} : a[f] = d[f]
      /\ r.state = s
  BY <1>1, <1>4 DEF Only, Fields, Entry
<1>6. Only(d, r, Touched)
  BY <1>1, <1>4 DEF Only, Touched, Entry
<1>7. Entry(d, r, s)
  BY <1>4, <1>5, <1>6 DEF Entry, Queues
<1> QED
  BY <1>1, <1>2, <1>3, <1>4, <1>7

-----------------------------------------------------------------------------
(* The invariant and what handling an event may do *)

Off == PowerOffStates \cup {"IDLE"}
BootStates ==
  {"IDLE", "RESET_PULSE", "AWAIT_RESET", "POWER_ON_PULSE", "AWAIT_POWER_ON",
   "SET_BAUDRATE", "RUN_INIT_SCRIPT"}
(* How far a session has come: each event takes it one step further at most. *)
Rank(s) ==
  CASE s = "CONNECT_CMUX" -> 1
    [] s = "OPEN_DLCI1" -> 2
    [] s = "OPEN_DLCI2" -> 3
    [] s \in {"WAIT_FOR_APN", "RUN_APN_SCRIPT", "RUN_DIAL_SCRIPT"} -> 4
    [] s = "AWAIT_REGISTERED" -> 5
    [] s = "CARRIER_ON" -> 6
    [] s = "DORMANT" -> 7
    [] OTHER -> 0

(* CMUX is released until it is used and brought down only by a power-off,  *)
(* and the chat that polls an attached modem has a pipe.                    *)
Linked(d) ==
  /\ d.state \in BootStates => d.cmux = "released"
  /\ d.cmux \in {"disconnecting", "disconnected"} => d.state \in PowerOffStates
  /\ d.state \in {"AWAIT_REGISTERED", "CARRIER_ON"} =>
       d.chatPipe = "DLCI2" \/ FALSE \in PppAttachResults
(* The wake-up is under way; a CMUX that is up has reported it. *)
Ready(d) ==
  \/ d.lost
  \/ /\ Waits(d)
     /\ d.state = "CONNECT_CMUX" /\ d.cmux = "connected" =>
          Has(d.events, "CMUX_CONNECTED")

(* A handler given event e finds d and leaves r. *)
Carries(d, r) ==
  /\ r.apn = d.apn /\ r.lateApn = d.lateApn
  /\ (d.lost => r.lost) /\ (d.recovered => r.recovered)
  /\ r.pm = d.pm \/ (d.pm = "waiting" /\ r.pm = "suspended" /\ r.state = "IDLE")
Pushes(d, r) ==
  \/ r.events = d.events
  \/ /\ Len(d.events) < EventPipeSize
     /\ \E x \in {"REGISTERED", "SUSPEND", "RESUME"} :
          r.events = Append(d.events, x) /\ (x = "RESUME" => r.recovered)
Climbs(d, e, r) ==
  /\ e = "SUSPEND" => r.state \in Off \/ (r.state = "DORMANT" /\ d.state = "DORMANT")
  /\ r.state \in Off \cup {d.state} \/
       (/\ d.state \notin PowerOffStates /\ Rank(r.state) <= Rank(d.state) + 1
        /\ d.state = "IDLE" => e = "RESUME" /\ Rank(r.state) = 0)
  /\ d.state \in PowerOffStates => r.state \in Off
Rings(d, e, r) ==
  r.state \in {"CARRIER_ON", "DORMANT"} =>
    \/ r.pppLive
    \/ /\ d.state \in {"CARRIER_ON", "DORMANT"} /\ r.pppLive = d.pppLive
       /\ e # "PPP_DEAD" \/ FALSE \in PppAdminStates
Names(d, e, r) ==
  /\ r.state = "WAIT_FOR_APN" =>
       r.apn = "none" \/ (d.state = "WAIT_FOR_APN" /\ e # "APN_SET")
  /\ r.state = "RUN_APN_SCRIPT" =>
       \/ d.state = "RUN_APN_SCRIPT" /\ r.apnScript = d.apnScript
       \/ r.apnScript = IF UseDefaultApn THEN "none" ELSE r.apn
Recovers(d, e, r) ==
  d.state # "IDLE" /\ r.state = "IDLE" =>
    \/ Has(r.events, "RESUME") \/ r.lost
    \/ d.state \in PowerOffStates \/ e = "SUSPEND"
    \/ d.state = "RUN_INIT_SCRIPT" /\ e = "SCRIPT_FAILED"
Turn(d, e, r) ==
  /\ Formed(r)
  /\ Carries(d, r) /\ Pushes(d, r) /\ Climbs(d, e, r) /\ Rings(d, e, r)
  /\ Names(d, e, r) /\ Recovers(d, e, r)

(* A helper that leaves the control of the session alone. *)
Calm(d, r) ==
  Only(d, r, {"timer", "cb", "ops", "chatPipe", "script", "cmux", "cmdPipe"})

LEMMA StaysTurn ==
  ASSUME NEW d, Formed(d), NEW r, Calm(d, r), NEW e,
         e = "SUSPEND" => d.state \in Off \cup {"DORMANT"},
         e = "APN_SET" => d.state # "WAIT_FOR_APN",
         e = "PPP_DEAD" =>
           d.state \notin {"CARRIER_ON", "DORMANT"} \/ FALSE \in PppAdminStates
  PROVE  Turn(d, e, r)
<1>1. /\ Formed(r)
      /\ \A f \in {"state", "events", "lost", "pm", "pppLive", "apnScript",
                   "apn", "recovered", "lateApn"} : r[f] = d[f]
  BY DEF Calm, Only, Fields
<1>2. Carries(d, r) /\ Pushes(d, r) /\ Climbs(d, e, r)
  BY <1>1 DEF Carries, Pushes, Climbs, Off
<1>3. Rings(d, e, r) /\ Names(d, e, r) /\ Recovers(d, e, r)
  BY <1>1 DEF Rings, Names, Recovers
<1> QED
  BY <1>1, <1>2, <1>3 DEF Turn

(* The transitions of the state chart, as far as they matter here. *)
Leads(d, e, s) ==
  /\ e = "SUSPEND" => s \in Off
  /\ s \in Off \cup {d.state} \/
       (/\ d.state \notin PowerOffStates /\ Rank(s) <= Rank(d.state) + 1
        /\ d.state = "IDLE" => e = "RESUME" /\ Rank(s) = 0)
  /\ d.state \in PowerOffStates => s \in Off
  /\ s = "WAIT_FOR_APN" => d.apn = "none"
  /\ s = "DORMANT" => d.state = "CARRIER_ON" /\ e # "PPP_DEAD"
  /\ s = "CARRIER_ON" => d.state = "AWAIT_REGISTERED"
  /\ s \in (BootStates \cup {"CONNECT_CMUX"}) \ {"IDLE"} => d.state \in BootStates
  /\ s = "RUN_SHUTDOWN_SCRIPT" => d.cmdPipe # "none"
  /\ s = "IDLE" /\ d.state # "IDLE" =>
       \/ d.state \in PowerOffStates \/ e = "SUSPEND"
       \/ d.state = "RUN_INIT_SCRIPT" /\ e = "SCRIPT_FAILED"

LEMMA EntersTurn ==
  ASSUME NEW d, Formed(d), NEW a, Calm(d, a), NEW e, NEW s \in States,
         Leads(d, e, s)
  PROVE  Turn(d, e, EnterState(a, s))
<1> DEFINE r == EnterState(a, s)
<1>1. Formed(a) /\ Entry(a, r, s)
  BY EnterStateEntry DEF Calm, Only
<1> HIDE DEF r
<1>2. /\ Formed(r) /\ r.state = s
      /\ \A f \in {"state", "events", "lost", "pm", "pppLive", "apnScript",
                   "apn", "recovered", "lateApn"} : a[f] = d[f]
      /\ r.apn = a.apn /\ r.lateApn = a.lateApn /\ r.recovered = a.recovered
  BY <1>1 DEF Calm, Only, Fields, Entry, Touched
<1>3. Carries(d, r)
  BY <1>1, <1>2 DEF Carries, Entry, Queues
<1>4. Pushes(d, r)
  BY <1>1, <1>2 DEF Pushes, Entry, Queues
<1>5. Climbs(d, e, r)
  BY <1>2 DEF Climbs, Leads, Off
<1>6. Rings(d, e, r)
  BY <1>1, <1>2 DEF Rings, Leads, Entry
<1>7. Names(d, e, r)
  BY <1>1, <1>2 DEF Names, Leads, Entry
<1>8. Recovers(d, e, r)
  BY <1>2 DEF Recovers, Leads
<1> QED
  BY <1>2, <1>3, <1>4, <1>5, <1>6, <1>7, <1>8 DEF Turn, r

LEMMA EntersReady ==
  ASSUME NEW d, Formed(d), Linked(d), NEW a, Calm(d, a), NEW e,
         NEW s \in States, Leads(d, e, s),
         s # "IDLE" => a.cmux = d.cmux,
         s \in {"CARRIER_ON", "RUN_SHUTDOWN_SCRIPT"} =>
           a.chatPipe = d.chatPipe /\ a.cmdPipe = d.cmdPipe
  PROVE  LET r == EnterState(a, s)
         IN  Linked(r) /\ Ready(r)
<1> DEFINE r == EnterState(a, s)
<1>1. Formed(a) /\ a.state = d.state
  BY DEF Calm, Only, Fields
<1>2. /\ Entry(a, r, s)
      /\ s # "RUN_SHUTDOWN_SCRIPT" \/ a.cmdPipe # "none" => Started(r)
      /\ s = "CARRIER_ON" /\ a.state = "AWAIT_REGISTERED"
           => r.chatPipe = a.chatPipe
  BY <1>1, EnterStateEntry
<1> HIDE DEF r
<1>3. r.state = s /\ Started(r)
  BY <1>2 DEF Entry, Leads
<1>4. /\ s = "IDLE" => r.cmux = "released"
      /\ s \notin {"IDLE", "INIT_POWER_OFF"} => r.cmux = d.cmux
  BY <1>2 DEF Entry
<1>5. Linked(r)
  <2>1. r.state \in BootStates => r.cmux = "released"
    BY <1>3, <1>4 DEF Linked, Leads, BootStates
  <2>2. r.cmux \in {"disconnecting", "disconnected"} => r.state \in PowerOffStates
    <3>1. CASE s \in PowerOffStates \cup {"IDLE"}
      BY <1>3, <1>4, <3>1
    <3>2. CASE s \notin PowerOffStates \cup {"IDLE"}
      BY <1>3, <1>4, <3>2 DEF Linked, Leads, Off, PowerOffStates
    <3> QED
      BY <3>1, <3>2
  <2>3. r.state \in {"AWAIT_REGISTERED", "CARRIER_ON"} =>
          r.chatPipe = "DLCI2" \/ FALSE \in PppAttachResults
    BY <1>1, <1>2, <1>3 DEF Linked, Leads, Entry
  <2> QED
    BY <2>1, <2>2, <2>3 DEF Linked
<1>6. s = "CONNECT_CMUX" => r.cmux = "released"
  BY <1>4 DEF Leads, Linked, BootStates
<1>7. Waits(r)
  BY <1>3 DEF Started, Waits, Timed, Scripted, TimedStates
<1> QED
  BY <1>3, <1>5, <1>6, <1>7 DEF Ready, r

(* What every handler may assume and has to show. *)
Before == GoodData(data) /\ data.events # <<>> /\ Linked(data) /\ Ready(data)
After  == Turn(Taken, Event, data') /\ Linked(data') /\ Ready(data')

LEMMA FormedGood ==
  ASSUME NEW d, GoodData(d)
  PROVE  Formed(d)
<1>1. /\ d.events \in Seq(Events)
      /\ d.cb \in [Pipes -> Owners] /\ d.ops \in [Pipes -> Seq({"open", "close"})]
  BY DEF GoodData, Data
<1>2. Fields \subseteq DOMAIN d
  BY DEF GoodData, Data, Fields
<1> QED
  BY <1>1, <1>2 DEF Formed

(* Reading the pipe. *)
LEMMA TakenOnly ==
  ASSUME Before
  PROVE  /\ Formed(data) /\ Only(data, Taken, {"events"}) /\ Formed(Taken)
         /\ Taken.events = Tail(data.events) /\ Event \in Events
         /\ \A x : Has(data.events, x) <=> x = Event \/ Has(Taken.events, x)
         /\ \A f \in Fields \ {"events"} : Taken[f] = data[f]
         /\ Linked(Taken)
<1>1. Formed(data)
  BY FormedGood DEF Before
<1>2. /\ Tail(data.events) \in Seq(Events) /\ Event \in Events
      /\ \A x : Has(data.events, x) <=> x = Event \/ Has(Tail(data.events), x)
  BY <1>1, HasTail DEF Before, Formed, Event
<1>3. Only(data, Taken, {"events"}) /\ Taken.events = Tail(data.events)
  BY <1>1, <1>2 DEF Taken, Only, Formed, Fields
<1>4. Linked(Taken)
  BY <1>3 DEF Before, Linked, Only, Fields
<1> QED
  BY <1>1, <1>2, <1>3, <1>4 DEF Only

(* A handler that enters a state. *)
LEMMA Entering ==
  ASSUME Before, NEW a, Calm(Taken, a), NEW s \in States,
         Leads(Taken, Event, s), data' = EnterState(a, s),
         s # "IDLE" => a.cmux = Taken.cmux,
         s \in {"CARRIER_ON", "RUN_SHUTDOWN_SCRIPT"} =>
           a.chatPipe = Taken.chatPipe /\ a.cmdPipe = Taken.cmdPipe
  PROVE  After
BY TakenOnly, EntersTurn, EntersReady DEF After
LEMMA EnteringAtOnce ==
  ASSUME Before, NEW s \in States, Leads(Taken, Event, s),
         data' = EnterState(Taken, s)
  PROVE  After
<1>1. Calm(Taken, Taken)
  BY TakenOnly DEF Calm, Only
<1> QED
  BY <1>1, Entering

(* An event the state has no case for. *)
LEMMA Ignoring ==
  ASSUME Before, data' = Taken,
         Event = "SUSPEND" => data.state \in Off \cup {"DORMANT"},
         Event = "APN_SET" => data.state # "WAIT_FOR_APN",
         Event = "PPP_DEAD" =>
           data.state \notin {"CARRIER_ON", "DORMANT"} \/ FALSE \in PppAdminStates,
         data.lost \/ (Waits(Taken) /\
           (data.state = "CONNECT_CMUX" => Event # "CMUX_CONNECTED"))
  PROVE  After
<1>1. Calm(Taken, Taken) /\ Formed(Taken) /\ Taken.state = data.state
  BY TakenOnly DEF Calm, Only, Fields
<1>2. Turn(Taken, Event, Taken)
  BY <1>1, StaysTurn
<1>3. Ready(Taken)
  BY TakenOnly DEF Before, Ready, Fields
<1> QED
  BY <1>2, <1>3, TakenOnly DEF After

-----------------------------------------------------------------------------
(* The event handlers *)

(* A handler that stays in its state. *)
LEMMA Staying ==
  ASSUME Before, Calm(Taken, data'),
         Event = "SUSPEND" => data.state \in Off \cup {"DORMANT"},
         Event = "APN_SET" => data.state # "WAIT_FOR_APN",
         Event = "PPP_DEAD" =>
           data.state \notin {"CARRIER_ON", "DORMANT"} \/ FALSE \in PppAdminStates,
         data'.chatPipe = data.chatPipe \/
           data.state \notin {"AWAIT_REGISTERED", "CARRIER_ON"},
         data'.cmux = data.cmux \/ (data.state \notin BootStates
           /\ data'.cmux \notin {"disconnecting", "disconnected"}),
         data.lost \/ (Waits(data') /\
           (data.state = "CONNECT_CMUX" /\ data'.cmux = "connected" =>
              Has(data'.events, "CMUX_CONNECTED")))
  PROVE  After
<1>1. /\ Formed(data') /\ Formed(Taken) /\ Taken.state = data.state
      /\ data'.state = data.state /\ data'.lost = data.lost
      /\ data'.events = Taken.events
  BY TakenOnly DEF Calm, Only, Fields
<1>2. Turn(Taken, Event, data')
  BY <1>1, StaysTurn
<1>3. Linked(data')
  BY <1>1, TakenOnly DEF Linked, Before
<1>4. Ready(data')
  BY <1>1 DEF Ready
<1> QED
  BY <1>2, <1>3, <1>4 DEF After

(* A suspend request ends a boot at once and a session by a power-off. *)
LEMMA Suspending ==
  ASSUME Before, On("SUSPEND"), NEW s \in {"IDLE", "INIT_POWER_OFF"},
         data' = EnterState(Taken, s)
  PROVE  After
<1>1. s \in States /\ Leads(Taken, Event, s)
  BY DEF States, Leads, On, Rank, Off, PowerOffStates, BootStates
<1> QED
  BY <1>1, EnteringAtOnce

LEMMA IdleAfter ==
  ASSUME Before, IdleHandler
  PROVE  After
<1>1. data.state = "IDLE" /\ Taken.state = "IDLE"
  BY TakenOnly DEF IdleHandler, In, Fields
<1>2. CASE On("RESUME") /\ data' = EnterState(Taken, ResumeState)
  <2>1. ResumeState \in {"AWAIT_POWER_ON", "RESET_PULSE", "SET_BAUDRATE",
                         "RUN_INIT_SCRIPT"}
    BY DEF ResumeState, BootState
  <2>2. ResumeState \in States
    BY <2>1 DEF States
  <2>3. Leads(Taken, Event, ResumeState)
    BY <1>1, <1>2, <2>1
    DEF Leads, On, Rank, Off, PowerOffStates, BootStates
  <2> QED
    BY <1>2, <2>2, <2>3, EnteringAtOnce
<1>3. CASE On("SUSPEND") /\ data' = SemGive(Taken)
  <2>1. /\ Only(Taken, data', {"pm", "sem"})
        /\ data'.pm = IF Taken.pm = "waiting" THEN "suspended" ELSE Taken.pm
    BY <1>3, TakenOnly, OnlySemGive
  <2>2. /\ Formed(data') /\ data'.state = "IDLE"
        /\ \A f \in {"events", "lost", "apn", "recovered", "lateApn", "cmux"} :
             data'[f] = Taken[f]
    BY <1>1, <2>1 DEF Only, Fields
  <2>3. Turn(Taken, Event, data')
    BY <1>1, <1>3, <2>1, <2>2
    DEF Turn, Carries, Pushes, Climbs, Rings, Names, Recovers, Off, PowerOffStates
  <2>4. Linked(data')
    BY <1>1, <2>2, TakenOnly DEF Linked, BootStates, PowerOffStates
  <2>5. Ready(data')
    BY <2>2 DEF Ready, Waits, TimedStates
  <2> QED
    BY <2>3, <2>4, <2>5 DEF After
<1>4. CASE Ignores({"RESUME", "SUSPEND"})
  <2>1. Waits(Taken)
    BY <1>1 DEF Waits, TimedStates
  <2> QED
    BY <1>1, <1>4, <2>1, Ignoring DEF Ignores, Off
<1> QED
  BY <1>2, <1>3, <1>4 DEF IdleHandler

LEMMA PulseAfter ==
  ASSUME Before, ResetPulseHandler \/ AwaitResetHandler \/ PowerOnPulseHandler
  PROVE  After
<1>1. /\ data.state \in {"RESET_PULSE", "AWAIT_RESET", "POWER_ON_PULSE"}
      /\ Taken.state = data.state
  BY TakenOnly
  DEF ResetPulseHandler, AwaitResetHandler, PowerOnPulseHandler, In, Fields
<1>2. CASE \E s \in {"AWAIT_RESET", "POWER_ON_PULSE", "AWAIT_POWER_ON"} :
             On("TIMEOUT") /\ data' = EnterState(Taken, s)
  <2>1. PICK s \in {"AWAIT_RESET", "POWER_ON_PULSE", "AWAIT_POWER_ON"} :
          On("TIMEOUT") /\ data' = EnterState(Taken, s)
    BY <1>2
  <2>2. s \in States /\ Leads(Taken, Event, s)
    BY <1>1, <2>1 DEF States, Leads, On, Rank, Off, PowerOffStates, BootStates
  <2> QED
    BY <2>1, <2>2, EnteringAtOnce
<1>3. CASE On("SUSPEND") /\ data' = EnterState(Taken, "IDLE")
  BY <1>1, <1>3, Suspending
<1>4. CASE Ignores({"TIMEOUT", "SUSPEND"})
  <2>1. data.lost \/ Waits(Taken)
    BY <1>1, <1>4, TakenOnly
    DEF Before, Ready, Waits, Timed, TimedStates, Ignores, Fields
  <2> QED
    BY <1>1, <1>4, <2>1, Ignoring DEF Ignores, Off
<1> QED
  BY <1>2, <1>3, <1>4
  DEF ResetPulseHandler, AwaitResetHandler, PowerOnPulseHandler

LEMMA AwaitPowerOnAfter ==
  ASSUME Before, AwaitPowerOnHandler
  PROVE  After
<1>1. data.state = "AWAIT_POWER_ON" /\ Taken.state = data.state /\ Formed(Taken)
  BY TakenOnly DEF AwaitPowerOnHandler, In, Fields
<1>2. CASE On("BUS_OPENED") /\ data' = ChatAttach(Taken, "UART")
  <2>1. Only(Taken, data', {"cb", "chatPipe"})
    BY <1>1, <1>2, OnlyChat
  <2>2. /\ data'.state = "AWAIT_POWER_ON" /\ data'.cmux = data.cmux
        /\ data'.timer = data.timer /\ data'.events = Taken.events
    BY <1>1, <2>1, TakenOnly DEF Only, Fields
  <2>3. data.lost \/ Waits(data')
    BY <1>1, <1>2, <2>2, TakenOnly
    DEF On, Before, Ready, Waits, Timed, TimedStates
  <2>4. Calm(Taken, data')
    BY <2>1 DEF Calm, Only
  <2> QED
    BY <1>1, <1>2, <2>2, <2>3, <2>4, Staying DEF On
<1>3. CASE On("MODEM_READY") /\ data' = EnterState(StopTimer(Taken), BootState)
  <2> DEFINE a == StopTimer(Taken)
  <2>1. Only(Taken, a, {"timer"})
    BY <1>1, OnlyTimer
  <2>2. data' = EnterState(a, BootState)
    BY <1>3
  <2> HIDE DEF a
  <2>3. Calm(Taken, a) /\ a.cmux = Taken.cmux
    BY <2>1 DEF Calm, Only, Fields
  <2>4. BootState \in {"SET_BAUDRATE", "RUN_INIT_SCRIPT"}
    BY DEF BootState
  <2>5. BootState \in States /\ Leads(Taken, Event, BootState)
    BY <1>1, <1>3, <2>4
    DEF States, Leads, On, Rank, Off, PowerOffStates, BootStates
  <2> QED
    BY <2>2, <2>3, <2>4, <2>5, Entering
<1>4. CASE On("TIMEOUT") /\ data' = EnterState(Taken, BootState)
  <2>1. BootState \in {"SET_BAUDRATE", "RUN_INIT_SCRIPT"}
    BY DEF BootState
  <2>2. BootState \in States /\ Leads(Taken, Event, BootState)
    BY <1>1, <1>4, <2>1
    DEF States, Leads, On, Rank, Off, PowerOffStates, BootStates
  <2> QED
    BY <1>4, <2>2, EnteringAtOnce
<1>5. CASE On("SUSPEND") /\ data' = EnterState(Taken, "IDLE")
  BY <1>1, <1>5, Suspending
<1>6. CASE Ignores({"BUS_OPENED", "MODEM_READY", "TIMEOUT", "SUSPEND"})
  <2>1. data.lost \/ Waits(Taken)
    BY <1>1, <1>6, TakenOnly
    DEF Before, Ready, Waits, Timed, TimedStates, Ignores, Fields
  <2> QED
    BY <1>1, <1>6, <2>1, Ignoring DEF Ignores, Off
<1> QED
  BY <1>2, <1>3, <1>4, <1>5, <1>6 DEF AwaitPowerOnHandler

(* The bus is open: the chat takes it and runs its script. *)
LEMMA ScriptStarts ==
  ASSUME NEW d, Formed(d), NEW p \in Pipes, NEW s \in Scripts
  PROVE  LET r == RunScript(ChatAttach(d, p), s)
         IN  Only(d, r, {"cb", "chatPipe", "script"}) /\ r.script # "none"
<1> DEFINE a == ChatAttach(d, p)
           r == RunScript(a, s)
<1>1. Only(d, a, {"cb", "chatPipe"}) /\ a.chatPipe # "none"
  BY OnlyChat DEF Pipes
<1> HIDE DEF a
<1>2. Only(a, r, {"script"}) /\ r.script # "none"
  BY <1>1, OnlyChat DEF Only, Scripts
<1> HIDE DEF r
<1>3. Only(d, r, {"cb", "chatPipe", "script"})
  BY <1>1, <1>2 DEF Only
<1> QED
  BY <1>2, <1>3 DEF r, a

LEMMA SetBaudrateAfter ==
  ASSUME Before, SetBaudrateHandler
  PROVE  After
<1>1. data.state = "SET_BAUDRATE" /\ Taken.state = data.state /\ Formed(Taken)
  BY TakenOnly DEF SetBaudrateHandler, In, Fields
<1>2. CASE On("BUS_OPENED") /\ data' = RunScript(ChatAttach(Taken, "UART"), "baud")
  <2>1. Only(Taken, data', {"cb", "chatPipe", "script"}) /\ data'.script # "none"
    BY <1>1, <1>2, ScriptStarts DEF Pipes, Scripts
  <2>2. data'.state = "SET_BAUDRATE" /\ data'.cmux = data.cmux
    BY <1>1, <2>1, TakenOnly DEF Only, Fields
  <2>3. Waits(data') /\ Calm(Taken, data')
    BY <2>1, <2>2 DEF Waits, Scripted, TimedStates, Calm, Only
  <2> QED
    BY <1>1, <1>2, <2>2, <2>3, Staying DEF On
<1>3. CASE /\ Event \in {"SCRIPT_FAILED", "SCRIPT_SUCCESS"}
           /\ data' = CloseBus(ChatRelease(StartTimer(Taken)))
  <2> DEFINE a == StartTimer(Taken)
             b == ChatRelease(a)
  <2>1. Only(Taken, a, {"timer"}) /\ a.timer # "off"
    BY <1>1, TimerStarts
  <2>2. data' = CloseBus(b)
    BY <1>3
  <2> HIDE DEF a
  <2>3. Only(a, b, {"cb", "chatPipe", "script"})
    BY <2>1, OnlyChatRelease DEF Only
  <2> HIDE DEF b
  <2>4. Only(b, data', {"cb", "ops"})
    BY <2>2, <2>3, OnlyBus DEF Only
  <2>5. /\ data'.state = "SET_BAUDRATE" /\ data'.cmux = data.cmux
        /\ data'.timer # "off"
    BY <1>1, <2>1, <2>3, <2>4, TakenOnly DEF Only, Fields
  <2>6. Calm(Taken, data')
    BY <2>1, <2>3, <2>4 DEF Calm, Only
  <2>7. Waits(data')
    BY <2>5 DEF Waits, Timed, TimedStates
  <2> QED
    BY <1>1, <1>3, <2>5, <2>6, <2>7, Staying
<1>4. CASE /\ On("BUS_CLOSED")
           /\ data' = [BaudrateUpdate(Taken, "new") EXCEPT
                         !.originalBaud = IF UartConfigurable THEN data.baud
                                                              ELSE "none"]
  <2> DEFINE a == BaudrateUpdate(Taken, "new")
  <2>1. Only(Taken, a, {})
    BY <1>1 DEF BaudrateUpdate, Only, Formed, Fields
  <2> HIDE DEF a
  <2>2. Only(a, data', {})
    BY <1>4, <2>1 DEF Only, Formed, Fields, a
  <2>3. /\ \A f \in {"state", "timer", "script", "events", "cb", "ops"} :
             data'[f] = Taken[f]
        /\ data'.cmux = data.cmux
    BY <2>1, <2>2, TakenOnly DEF Only, Fields
  <2>4. Calm(Taken, data')
    BY <2>1, <2>2 DEF Calm, Only
  <2>5. data.lost \/ Waits(data')
    BY <1>1, <1>4, <2>3, TakenOnly
    DEF On, Before, Ready, Waits, Timed, Scripted, Opening, TimedStates, Fields
  <2> QED
    BY <1>1, <1>4, <2>3, <2>4, <2>5, Staying DEF On
<1>5. CASE On("TIMEOUT") /\ data' = EnterState(Taken, "RUN_INIT_SCRIPT")
  <2>1. "RUN_INIT_SCRIPT" \in States /\ Leads(Taken, Event, "RUN_INIT_SCRIPT")
    BY <1>1, <1>5 DEF States, Leads, On, Rank, Off, PowerOffStates, BootStates
  <2> QED
    BY <1>5, <2>1, EnteringAtOnce
<1>6. CASE On("SUSPEND") /\ data' = EnterState(Taken, "IDLE")
  BY <1>1, <1>6, Suspending
<1>7. CASE Ignores({"BUS_OPENED", "SCRIPT_FAILED", "SCRIPT_SUCCESS",
                    "BUS_CLOSED", "TIMEOUT", "SUSPEND"})
  <2>1. data.lost \/ Waits(Taken)
    BY <1>1, <1>7, TakenOnly
    DEF Before, Ready, Waits, Timed, Scripted, Opening, TimedStates, Ignores,
        Fields
  <2> QED
    BY <1>1, <1>7, <2>1, Ignoring DEF Ignores, Off
<1> QED
  BY <1>2, <1>3, <1>4, <1>5, <1>6, <1>7 DEF SetBaudrateHandler

LEMMA RunInitScriptAfter ==
  ASSUME Before, RunInitScriptHandler
  PROVE  After
<1>1. data.state = "RUN_INIT_SCRIPT" /\ Taken.state = data.state /\ Formed(Taken)
  BY TakenOnly DEF RunInitScriptHandler, In, Fields
<1>2. CASE On("BUS_OPENED") /\ data' = RunScript(ChatAttach(Taken, "UART"), "init")
  <2>1. Only(Taken, data', {"cb", "chatPipe", "script"}) /\ data'.script # "none"
    BY <1>1, <1>2, ScriptStarts DEF Pipes, Scripts
  <2>2. data'.state = "RUN_INIT_SCRIPT" /\ data'.cmux = data.cmux
    BY <1>1, <2>1, TakenOnly DEF Only, Fields
  <2>3. Waits(data') /\ Calm(Taken, data')
    BY <2>1, <2>2 DEF Waits, Scripted, TimedStates, Calm, Only
  <2> QED
    BY <1>1, <1>2, <2>2, <2>3, Staying DEF On
<1>3. CASE On("SCRIPT_SUCCESS") /\ data' = CloseBus(ChatRelease(Taken))
  <2> DEFINE a == ChatRelease(Taken)
  <2>1. Only(Taken, a, {"cb", "chatPipe", "script"})
    BY <1>1, OnlyChatRelease
  <2>2. data' = CloseBus(a)
    BY <1>3
  <2> HIDE DEF a
  <2>3. Only(a, data', {"cb", "ops"}) /\ Asked(data', "UART")
    BY <2>1, <2>2, OnlyBus DEF Only
  <2>4. data'.state = "RUN_INIT_SCRIPT" /\ data'.cmux = data.cmux
    BY <1>1, <2>1, <2>3, TakenOnly DEF Only, Fields
  <2>5. Calm(Taken, data')
    BY <2>1, <2>3 DEF Calm, Only
  <2>6. Waits(data')
    BY <2>3, <2>4 DEF Waits, TimedStates
  <2> QED
    BY <1>1, <1>3, <2>4, <2>5, <2>6, Staying DEF On
<1>4. CASE On("BUS_CLOSED") /\ data' = EnterState(Taken, "CONNECT_CMUX")
  <2>1. "CONNECT_CMUX" \in States /\ Leads(Taken, Event, "CONNECT_CMUX")
    BY <1>1, <1>4 DEF States, Leads, On, Rank, Off, PowerOffStates, BootStates
  <2> QED
    BY <1>4, <2>1, EnteringAtOnce
<1>5. CASE On("SUSPEND") /\ data' = EnterState(Taken, "IDLE")
  BY <1>1, <1>5, Suspending
<1>6. CASE /\ On("SCRIPT_FAILED")
           /\ data' = EnterState(Taken, IF HasResetGpio /\ ResetOnRecovery
                                        THEN "RESET_PULSE" ELSE "IDLE")
  <2>1. PICK s \in {"RESET_PULSE", "IDLE"} : data' = EnterState(Taken, s)
    BY <1>6
  <2>2. s \in States /\ Leads(Taken, Event, s)
    BY <1>1, <1>6 DEF States, Leads, On, Rank, Off, PowerOffStates, BootStates
  <2> QED
    BY <2>1, <2>2, EnteringAtOnce
<1>7. CASE Ignores({"BUS_OPENED", "SCRIPT_SUCCESS", "BUS_CLOSED", "SUSPEND",
                    "SCRIPT_FAILED"})
  <2>1. data.lost \/ Waits(Taken)
    BY <1>1, <1>7, TakenOnly
    DEF Before, Ready, Waits, Scripted, Asked, TimedStates, Ignores, Fields
  <2> QED
    BY <1>1, <1>7, <2>1, Ignoring DEF Ignores, Off
<1> QED
  BY <1>2, <1>3, <1>4, <1>5, <1>6, <1>7 DEF RunInitScriptHandler

LEMMA ConnectCmuxAfter ==
  ASSUME Before, ConnectCmuxHandler
  PROVE  After
<1>1. data.state = "CONNECT_CMUX" /\ Taken.state = data.state /\ Formed(Taken)
  BY TakenOnly DEF ConnectCmuxHandler, In, Fields
<1>2. CASE On("TIMEOUT") /\ data' = OpenBus(Taken)
  <2>1. Only(Taken, data', {"cb", "ops"}) /\ Opening(data')
    BY <1>1, <1>2, OnlyBus
  <2>2. /\ data'.state = "CONNECT_CMUX" /\ data'.cmux = data.cmux
        /\ data'.events = Taken.events
    BY <1>1, <2>1, TakenOnly DEF Only, Fields
  <2>3. Waits(data') /\ Calm(Taken, data')
    BY <2>1, <2>2 DEF Waits, TimedStates, Calm, Only
  <2>4. data.lost \/ (data'.cmux = "connected" => Has(data'.events, "CMUX_CONNECTED"))
    BY <1>1, <1>2, <2>2, TakenOnly DEF Before, Ready, On
  <2> QED
    BY <1>1, <1>2, <2>2, <2>3, <2>4, Staying DEF On
<1>3. CASE On("BUS_OPENED") /\ data' = CmuxConnect(CmuxAttach(Taken))
  <2>1. /\ Only(Taken, data', {"cb", "cmux"})
        /\ data'.cmux = IF Taken.cmux \in {"released", "disconnected"}
                        THEN "connecting" ELSE Taken.cmux
    BY <1>1, <1>3, OnlyCmux
  <2>2. /\ data'.state = "CONNECT_CMUX" /\ data'.timer = data.timer
        /\ data'.events = Taken.events /\ Taken.cmux = data.cmux
    BY <1>1, <2>1, TakenOnly DEF Only, Fields
  <2>3. data.cmux \notin {"disconnecting", "disconnected"}
    BY <1>1 DEF Before, Linked, PowerOffStates
  <2>4. data.cmux \in Links
    BY DEF Before, GoodData, Data
  <2>5. data'.cmux \in {"connecting", "connected"}
    BY <2>1, <2>2, <2>3, <2>4 DEF Links
  <2>6. data'.cmux = "connected" => data.cmux = "connected"
    BY <2>1, <2>2, <2>3
  <2>7. data.lost \/ (data'.cmux = "connected" => Has(data'.events, "CMUX_CONNECTED"))
    BY <1>1, <1>3, <2>2, <2>6, TakenOnly DEF Before, Ready, On
  <2>8. data.lost \/ Waits(data')
    BY <2>2, <2>5, <2>7 DEF Waits, Muxing, TimedStates
  <2>9. Calm(Taken, data')
    BY <2>1 DEF Calm, Only
  <2> QED
    BY <1>1, <1>3, <2>5, <2>7, <2>8, <2>9, Staying DEF On, BootStates
<1>4. CASE /\ On("CMUX_CONNECTED")
           /\ data' = EnterState([Taken EXCEPT !.users = TRUE], "OPEN_DLCI1")
  <2> DEFINE a == [Taken EXCEPT !.users = TRUE]
  <2>1. Only(Taken, a, {})
    BY <1>1 DEF Only, Formed, Fields
  <2>2. data' = EnterState(a, "OPEN_DLCI1")
    BY <1>4
  <2> HIDE DEF a
  <2>3. Calm(Taken, a) /\ a.cmux = Taken.cmux
    BY <2>1 DEF Calm, Only, Fields
  <2>4. "OPEN_DLCI1" \in States /\ Leads(Taken, Event, "OPEN_DLCI1")
    BY <1>1, <1>4 DEF States, Leads, On, Rank, Off, PowerOffStates, BootStates
  <2> QED
    BY <2>2, <2>3, <2>4, Entering
<1>5. CASE On("SUSPEND") /\ data' = EnterState(Taken, "INIT_POWER_OFF")
  BY <1>1, <1>5, Suspending
<1>6. CASE Ignores({"TIMEOUT", "BUS_OPENED", "CMUX_CONNECTED", "SUSPEND"})
  <2>1. data.lost \/ Waits(Taken)
    BY <1>1, <1>6, TakenOnly
    DEF Before, Ready, Waits, Timed, Opening, Muxing, TimedStates, Ignores, Fields
  <2> QED
    BY <1>1, <1>6, <2>1, Ignoring DEF Ignores, Off
<1> QED
  BY <1>2, <1>3, <1>4, <1>5, <1>6 DEF ConnectCmuxHandler

LEMMA OpenDlcisAfter ==
  ASSUME Before, OpenDlci1Handler \/ OpenDlci2Handler \/ WaitForApnHandler
  PROVE  After
<1>1. /\ data.state \in {"OPEN_DLCI1", "OPEN_DLCI2", "WAIT_FOR_APN"}
      /\ Taken.state = data.state /\ Taken.apn = data.apn /\ Formed(Taken)
  BY TakenOnly
  DEF OpenDlci1Handler, OpenDlci2Handler, WaitForApnHandler, In, Fields
<1>2. CASE /\ On("DLCI1_OPENED") /\ data.state = "OPEN_DLCI1"
           /\ data' = EnterState(Taken, "OPEN_DLCI2")
  <2>1. "OPEN_DLCI2" \in States /\ Leads(Taken, Event, "OPEN_DLCI2")
    BY <1>1, <1>2 DEF States, Leads, On, Rank, Off, PowerOffStates, BootStates
  <2> QED
    BY <1>2, <2>1, EnteringAtOnce
<1>3. CASE OpenDlci2Handler /\ On("DLCI2_OPENED") /\
           data' = EnterState([Taken EXCEPT !.cmdPipe = "DLCI2"],
                              IF UseDefaultPdp THEN "RUN_DIAL_SCRIPT"
                              ELSE IF NeedsApn(data) THEN "WAIT_FOR_APN"
                              ELSE "RUN_APN_SCRIPT")
  <2> DEFINE a == [Taken EXCEPT !.cmdPipe = "DLCI2"]
             s == IF UseDefaultPdp THEN "RUN_DIAL_SCRIPT"
                  ELSE IF NeedsApn(data) THEN "WAIT_FOR_APN"
                  ELSE "RUN_APN_SCRIPT"
  <2>1. Only(Taken, a, {"cmdPipe"})
    BY <1>1 DEF Only, Formed, Fields
  <2>2. data' = EnterState(a, s)
    BY <1>3
  <2> HIDE DEF a
  <2>3. Calm(Taken, a) /\ a.cmux = Taken.cmux
    BY <2>1 DEF Calm, Only, Fields
  <2>4. data.state = "OPEN_DLCI2"
    BY <1>3 DEF OpenDlci2Handler, In
  <2>5. /\ s \in {"RUN_DIAL_SCRIPT", "WAIT_FOR_APN", "RUN_APN_SCRIPT"}
        /\ s = "WAIT_FOR_APN" => data.apn = "none"
    BY DEF NeedsApn
  <2> HIDE DEF s
  <2>6. s \in States /\ Leads(Taken, Event, s)
    BY <1>1, <1>3, <2>4, <2>5
    DEF States, Leads, On, Rank, Off, PowerOffStates, BootStates
  <2> QED
    BY <2>2, <2>3, <2>5, <2>6, Entering
<1>4. CASE /\ On("APN_SET") /\ data.state = "WAIT_FOR_APN"
           /\ data' = EnterState(Taken, "RUN_APN_SCRIPT")
  <2>1. "RUN_APN_SCRIPT" \in States /\ Leads(Taken, Event, "RUN_APN_SCRIPT")
    BY <1>1, <1>4 DEF States, Leads, On, Rank, Off, PowerOffStates, BootStates
  <2> QED
    BY <1>4, <2>1, EnteringAtOnce
<1>5. CASE On("SUSPEND") /\ data' = EnterState(Taken, "INIT_POWER_OFF")
  BY <1>1, <1>5, Suspending
<1>6. CASE /\ data' = Taken /\ Event # "SUSPEND"
           /\ data.state = "OPEN_DLCI1" => Event # "DLCI1_OPENED"
           /\ data.state = "OPEN_DLCI2" => Event # "DLCI2_OPENED"
           /\ data.state = "WAIT_FOR_APN" => Event # "APN_SET"
  <2>1. data.lost \/ Waits(Taken)
    BY <1>1, <1>6, TakenOnly
    DEF Before, Ready, Waits, Asked, TimedStates, Fields
  <2> QED
    BY <1>1, <1>6, <2>1, Ignoring
<1> QED
  BY <1>2, <1>3, <1>4, <1>5, <1>6
  DEF OpenDlci1Handler, OpenDlci2Handler, WaitForApnHandler, In, Ignores

(* Counting a script's results touches nothing these proofs read. *)
LEMMA OnlyCount ==
  ASSUME NEW d, Formed(d)
  PROVE  Only(d, ScriptFailed(d), {}) /\ Only(d, ScriptSuccess(d), {})
BY DEF ScriptFailed, ScriptSuccess, Only, Formed, Fields

(* A handler that counts the result and arms the timer again. *)
LEMMA Rearming ==
  ASSUME Before, Event \in {"SCRIPT_FAILED", "SCRIPT_SUCCESS"},
         data.state \in {"RUN_APN_SCRIPT", "RUN_DIAL_SCRIPT",
                         "AWAIT_REGISTERED", "CARRIER_ON"},
         data' \in {StartTimer(ScriptFailed(Taken)), StartTimer(CountReset)}
  PROVE  After
<1>1. PICK a \in {ScriptFailed(Taken), CountReset} : data' = StartTimer(a)
  OBVIOUS
<1>2. Only(Taken, a, {}) /\ a.state = data.state
  BY <1>1, TakenOnly, OnlyCount DEF CountReset, Only, Fields
<1>3. Only(a, data', {"timer"}) /\ data'.timer # "off"
  BY <1>1, <1>2, TimerStarts DEF Only
<1>4. /\ data'.state = data.state /\ data'.cmux = data.cmux
      /\ data'.chatPipe = data.chatPipe
  BY <1>2, <1>3, TakenOnly DEF Only, Fields
<1>5. Calm(Taken, data')
  BY <1>2, <1>3 DEF Calm, Only
<1>6. Waits(data')
  BY <1>3, <1>4 DEF Waits, Timed, TimedStates
<1> QED
  BY <1>4, <1>5, <1>6, Staying

(* The third failure of the APN or dial script queues a SUSPEND. *)
LEMMA GivingUp ==
  ASSUME Before, Event = "SCRIPT_FAILED", data' = RequestSuspend,
         data.state \in {"RUN_APN_SCRIPT", "RUN_DIAL_SCRIPT"}
  PROVE  After
<1>1. Only(Taken, CountReset, {})
  BY TakenOnly, OnlyCount DEF CountReset
<1>2. /\ Only(CountReset, data', {"events", "lost"})
      /\ Queues(CountReset, data', "SUSPEND")
      /\ Has(data'.events, "SUSPEND") \/ data'.lost = TRUE
  BY ZenonT(60), <1>1, OnlyDelegate DEF RequestSuspend, Only, Events
<1>3. /\ Formed(data') /\ data'.state = data.state
      /\ \A f \in {"state", "pm", "pppLive", "apnScript", "apn", "recovered",
                   "lateApn", "cmux"} : data'[f] = Taken[f]
      /\ Queues(Taken, data', "SUSPEND")
  BY <1>1, <1>2, TakenOnly DEF Only, Fields, Queues
<1>4. Carries(Taken, data') /\ Pushes(Taken, data')
  BY <1>3 DEF Carries, Pushes, Queues
<1>5. /\ Climbs(Taken, Event, data') /\ Rings(Taken, Event, data')
      /\ Names(Taken, Event, data') /\ Recovers(Taken, Event, data')
  BY <1>3 DEF Climbs, Rings, Names, Recovers, Off, PowerOffStates
<1>6. Linked(data')
  BY <1>3, TakenOnly DEF Linked, BootStates
<1>7. Ready(data')
  BY <1>2, <1>3 DEF Ready, Waits, TimedStates
<1> QED
  BY <1>3, <1>4, <1>5, <1>6, <1>7 DEF After, Turn

(* The third failure of the poll enters IDLE and queues a RESUME. *)
LEMMA Restarting ==
  ASSUME Before, Event = "SCRIPT_FAILED", NEW a, Calm(Taken, a),
         data' = Restart(a), data.state \in {"AWAIT_REGISTERED", "CARRIER_ON"}
  PROVE  After
<1> DEFINE b == EnterState(a, "IDLE")
           c == Delegate(b, "RESUME")
<1>1. Formed(a) /\ "IDLE" \in States
  BY DEF Calm, Only, States
<1>2. Entry(a, b, "IDLE")
  BY <1>1, EnterStateEntry
<1>3. data' = [c EXCEPT !.recovered = TRUE]
  BY DEF Restart
<1> HIDE DEF b
<1>4. /\ Only(b, c, {"events", "lost"}) /\ Queues(b, c, "RESUME")
      /\ Has(c.events, "RESUME") \/ c.lost = TRUE
  BY ZenonT(60), <1>2, OnlyDelegate DEF Entry, Only, Events
<1> HIDE DEF c
<1>5. Only(c, data', {"recovered"}) /\ data'.recovered = TRUE
  BY <1>3, <1>4 DEF Only, Formed, Fields
<1>6. /\ Formed(data') /\ data'.state = "IDLE" /\ data'.cmux = "released"
      /\ data'.apn = Taken.apn /\ data'.lateApn = Taken.lateApn
      /\ data'.pm = b.pm /\ data'.events = c.events /\ data'.lost = c.lost
  BY <1>2, <1>4, <1>5 DEF Calm, Only, Fields, Entry, Touched
<1>7. /\ b.events = Taken.events /\ b.lost = Taken.lost
      /\ b.pm = IF Taken.pm = "waiting" THEN "suspended" ELSE Taken.pm
  BY <1>2 DEF Calm, Only, Fields, Entry
<1>8. Carries(Taken, data') /\ Pushes(Taken, data')
  BY <1>4, <1>5, <1>6, <1>7 DEF Carries, Pushes, Queues
<1>9. /\ Climbs(Taken, Event, data') /\ Rings(Taken, Event, data')
      /\ Names(Taken, Event, data') /\ Recovers(Taken, Event, data')
  BY <1>4, <1>6, TakenOnly
  DEF Climbs, Rings, Names, Recovers, Off, PowerOffStates, Fields
<1>10. Linked(data') /\ Ready(data')
  BY <1>6 DEF Linked, BootStates, Ready, Waits, TimedStates
<1> QED
  BY <1>6, <1>8, <1>9, <1>10 DEF After, Turn

LEMMA RunApnScriptAfter ==
  ASSUME Before, RunApnScriptHandler
  PROVE  After
<1>1. data.state = "RUN_APN_SCRIPT" /\ Taken.state = data.state /\ Formed(Taken)
  BY TakenOnly DEF RunApnScriptHandler, In, Fields
<1>2. CASE On("TIMEOUT") /\ data' = RunScript(ChatAttach(Taken, "DLCI1"), "apn")
  <2>1. Only(Taken, data', {"cb", "chatPipe", "script"}) /\ data'.script # "none"
    BY <1>1, <1>2, ScriptStarts DEF Pipes, Scripts
  <2>2. data'.state = "RUN_APN_SCRIPT" /\ data'.cmux = data.cmux
    BY <1>1, <2>1, TakenOnly DEF Only, Fields
  <2>3. Waits(data') /\ Calm(Taken, data')
    BY <2>1, <2>2 DEF Waits, Scripted, TimedStates, Calm, Only
  <2> QED
    BY <1>1, <1>2, <2>2, <2>3, Staying DEF On
<1>3. CASE On("SCRIPT_SUCCESS") /\ data' = EnterState(CountReset, "RUN_DIAL_SCRIPT")
  <2>1. Only(Taken, CountReset, {})
    BY <1>1, OnlyCount DEF CountReset
  <2>2. Calm(Taken, CountReset) /\ CountReset.cmux = Taken.cmux
    BY <2>1 DEF Calm, Only, Fields
  <2>3. "RUN_DIAL_SCRIPT" \in States /\ Leads(Taken, Event, "RUN_DIAL_SCRIPT")
    BY <1>1, <1>3 DEF States, Leads, On, Rank, Off, PowerOffStates, BootStates
  <2> QED
    BY <1>3, <2>2, <2>3, Entering
<1>4. CASE On("SCRIPT_FAILED") /\ RetryOr(RequestSuspend)
  BY <1>1, <1>4, GivingUp, Rearming DEF RetryOr, On
<1>5. CASE On("SUSPEND") /\ data' = EnterState(Taken, "INIT_POWER_OFF")
  BY <1>1, <1>5, Suspending
<1>6. CASE Ignores({"TIMEOUT", "SCRIPT_SUCCESS", "SCRIPT_FAILED", "SUSPEND"})
  <2>1. data.lost \/ Waits(Taken)
    BY <1>1, <1>6, TakenOnly
    DEF Before, Ready, Waits, Timed, Scripted, TimedStates, Ignores, Fields
  <2> QED
    BY <1>1, <1>6, <2>1, Ignoring DEF Ignores
<1> QED
  BY <1>2, <1>3, <1>4, <1>5, <1>6 DEF RunApnScriptHandler

(* A ring opens the bus again. *)
LEMMA OnlyRing ==
  ASSUME NEW d, Formed(d)
  PROVE  Only(d, OpenAsync(d, "UART"), {"ops"})
BY OnlyRequest DEF OpenAsync, Pipes

LEMMA RunDialScriptAfter ==
  ASSUME Before, RunDialScriptHandler
  PROVE  After
<1>1. data.state = "RUN_DIAL_SCRIPT" /\ Taken.state = data.state /\ Formed(Taken)
  BY TakenOnly DEF RunDialScriptHandler, In, Fields
<1>2. ASSUME Calm(Taken, data'), data'.cmux = Taken.cmux,
             Event \notin {"SUSPEND"},
             data.lost \/ Scripted(data') \/ data'.chatPipe = "none"
               \/ Timed(data') \/ Has(data'.events, "SUSPEND")
      PROVE  After
  <2>1. /\ data'.state = "RUN_DIAL_SCRIPT" /\ data'.cmux = data.cmux
        /\ data.lost \/ Waits(data')
    BY <1>1, <1>2, TakenOnly DEF Calm, Only, Fields, Waits, TimedStates
  <2> QED
    BY <1>1, <1>2, <2>1, Staying
<1>12. ASSUME Only(Taken, data', {"ops"}),
              Event \notin {"TIMEOUT", "SCRIPT_SUCCESS", "SCRIPT_FAILED", "SUSPEND"}
       PROVE  After
  <2>1. /\ \A f \in {"timer", "script", "chatPipe", "events"} : data'[f] = Taken[f]
        /\ \A f \in {"timer", "script", "chatPipe", "lost"} : Taken[f] = data[f]
        /\ Calm(Taken, data') /\ data'.cmux = Taken.cmux
    BY <1>12, TakenOnly DEF Only, Fields, Calm
  <2>2. data.lost \/ Scripted(data) \/ data.chatPipe = "none" \/ Timed(data)
          \/ Has(data.events, "SUSPEND")
    BY <1>1, TakenOnly DEF Before, Ready, Waits, Fields
  <2>3. data.lost \/ Scripted(data') \/ data'.chatPipe = "none" \/ Timed(data')
          \/ Has(data'.events, "SUSPEND")
    BY <1>12, <2>1, <2>2, TakenOnly DEF Scripted, Timed
  <2> QED
    BY <1>2, <1>12, <2>1, <2>3
<1>3. CASE On("TIMEOUT") /\ data' = RunScript(ChatAttach(Taken, "DLCI1"), "dial")
  <2>1. Only(Taken, data', {"cb", "chatPipe", "script"}) /\ data'.script # "none"
    BY <1>1, <1>3, ScriptStarts DEF Pipes, Scripts
  <2> QED
    BY <1>2, <1>3, <2>1 DEF Calm, Only, Fields, On, Scripted
<1>4. CASE On("SCRIPT_FAILED") /\ RetryOr(RequestSuspend)
  BY <1>1, <1>4, GivingUp, Rearming DEF RetryOr, On
<1>5. Only(Taken, CountReset, {})
  BY <1>1, OnlyCount DEF CountReset
<1>6. CASE On("SCRIPT_SUCCESS") /\ data' = EnterState(CountReset, "AWAIT_REGISTERED")
  <2>1. Calm(Taken, CountReset) /\ CountReset.cmux = Taken.cmux
    BY <1>5 DEF Calm, Only, Fields
  <2>2. "AWAIT_REGISTERED" \in States /\ Leads(Taken, Event, "AWAIT_REGISTERED")
    BY <1>1, <1>6 DEF States, Leads, On, Rank, Off, PowerOffStates, BootStates
  <2> QED
    BY <1>6, <2>1, <2>2, Entering
<1>7. CASE /\ On("SCRIPT_SUCCESS") /\ FALSE \in PppAttachResults
           /\ data' = Become(CountReset, "AWAIT_REGISTERED")
  <2>1. /\ Only(CountReset, data',
                {"state", "timer", "cb", "chatPipe", "script", "sem"})
        /\ data'.state = "AWAIT_REGISTERED"
    BY <1>5, <1>7, OnlyBecome DEF Only
  <2>2. /\ Formed(data')
        /\ \A f \in {"events", "lost", "pm", "pppLive", "apnScript", "apn",
                     "recovered", "lateApn", "cmux"} : data'[f] = Taken[f]
    BY <1>5, <2>1 DEF Only, Fields
  <2>3. Carries(Taken, data') /\ Pushes(Taken, data')
    BY <2>2 DEF Carries, Pushes
  <2>4. /\ Climbs(Taken, Event, data') /\ Rings(Taken, Event, data')
        /\ Names(Taken, Event, data') /\ Recovers(Taken, Event, data')
    BY <1>1, <1>7, <2>1
    DEF Climbs, Rings, Names, Recovers, Rank, Off, PowerOffStates, On
  <2>5. Linked(data')
    BY <1>1, <1>7, <2>1, <2>2, TakenOnly DEF Linked, BootStates, PowerOffStates
  <2>6. Ready(data')
    BY <1>7, <2>1 DEF Ready, Waits, TimedStates
  <2> QED
    BY <2>2, <2>3, <2>4, <2>5, <2>6 DEF After, Turn
<1>8. CASE On("SUSPEND") /\ data' = EnterState(Taken, "INIT_POWER_OFF")
  BY <1>1, <1>8, Suspending
<1>9. CASE On("RING") /\ data' = OpenAsync(Taken, "UART")
  <2>1. Only(Taken, data', {"ops"})
    BY <1>1, <1>9, OnlyRing
  <2> QED
    BY <1>9, <1>12, <2>1 DEF On
<1>10. CASE /\ On("REGISTERED")
            /\ data' = IF data.script # "none" THEN Taken
                       ELSE RunScript(StopTimer(Taken), "dial")
  <2> DEFINE a == StopTimer(Taken)
  <2>1. Only(Taken, a, {"timer"})
    BY <1>1, OnlyTimer
  <2>2. data' \in {Taken, RunScript(a, "dial")}
    BY <1>10
  <2> HIDE DEF a
  <2>3. /\ Only(a, RunScript(a, "dial"), {"script"})
        /\ a.chatPipe # "none" => RunScript(a, "dial").script # "none"
    BY <2>1, OnlyChat DEF Only
  <2>4. Only(Taken, Taken, {})
    BY <1>1 DEF Only
  <2>5. Only(Taken, data', {"timer", "script"})
    BY <2>1, <2>2, <2>3, <2>4 DEF Only
  <2>6. data'.script # "none" \/ data'.chatPipe = "none"
    <3>1. CASE data.script # "none"
      BY <1>10, <3>1, TakenOnly DEF Fields
    <3>2. CASE data.script = "none"
      <4>1. data' = RunScript(a, "dial")
        BY <1>10, <3>2, TakenOnly DEF Fields, a
      <4> QED
        BY <2>3, <4>1 DEF Only, Fields
    <3> QED
      BY <3>1, <3>2
  <2> QED
    BY <1>2, <1>10, <2>5, <2>6 DEF Calm, Only, Fields, On, Scripted
<1>11. CASE Ignores({"TIMEOUT", "SCRIPT_FAILED", "SCRIPT_SUCCESS", "SUSPEND",
                     "RING", "REGISTERED"})
  <2>1. Only(Taken, data', {"ops"})
    BY <1>1, <1>11 DEF Only, Ignores
  <2> QED
    BY <1>11, <1>12, <2>1 DEF Ignores
<1> QED
  BY <1>3, <1>4, <1>6, <1>7, <1>8, <1>9, <1>10, <1>11 DEF RunDialScriptHandler

(* The poll of an attached modem runs on the chat's pipe. *)
LEMMA Polling ==
  ASSUME Before, On("TIMEOUT"), data' = RunScript(Taken, "periodic"),
         data.state \in {"AWAIT_REGISTERED", "CARRIER_ON"}
  PROVE  After
<1>1. Taken.state = data.state /\ Formed(Taken)
  BY TakenOnly DEF Fields
<1>2. /\ Only(Taken, data', {"script"})
      /\ Taken.chatPipe # "none" => data'.script # "none"
  BY <1>1, OnlyChat
<1>3. /\ data'.state = data.state /\ data'.cmux = data.cmux
      /\ data'.chatPipe = data.chatPipe /\ Taken.chatPipe = data.chatPipe
  BY <1>2, TakenOnly DEF Only, Fields
<1>4. Taken.chatPipe = "DLCI2" \/ FALSE \in PppAttachResults
  BY <1>3 DEF Before, Linked
<1>5. Waits(data') /\ Calm(Taken, data')
  BY <1>2, <1>3, <1>4 DEF Waits, Scripted, TimedStates, Calm, Only
<1> QED
  BY <1>3, <1>5, Staying DEF On

(* What an attached modem ignores and a ring leave its wake-up alone. *)
LEMMA Idling ==
  ASSUME Before, data.state \in {"AWAIT_REGISTERED", "CARRIER_ON", "DORMANT"},
         Only(Taken, data', {"ops"}),
         Event \notin {"TIMEOUT", "SCRIPT_SUCCESS", "SCRIPT_FAILED"},
         Event = "SUSPEND" => data.state = "DORMANT",
         Event = "PPP_DEAD" =>
           data.state = "AWAIT_REGISTERED" \/ FALSE \in PppAdminStates
  PROVE  After
<1>1. /\ \A f \in {"state", "timer", "script", "events"} : data'[f] = Taken[f]
      /\ Taken.state = data.state
      /\ data'.cmux = data.cmux /\ data'.chatPipe = data.chatPipe
  BY TakenOnly DEF Only, Fields
<1>2. data.lost \/ Waits(data')
  BY <1>1, TakenOnly
  DEF Before, Ready, Waits, Timed, Scripted, TimedStates, Fields
<1>3. Calm(Taken, data')
  BY DEF Calm, Only
<1> QED
  BY <1>1, <1>2, <1>3, Staying

LEMMA AwaitRegisteredAfter ==
  ASSUME Before, AwaitRegisteredHandler
  PROVE  After
<1>1. data.state = "AWAIT_REGISTERED" /\ Taken.state = data.state /\ Formed(Taken)
  BY TakenOnly DEF AwaitRegisteredHandler, In, Fields
<1>2. CASE On("SCRIPT_SUCCESS") /\ data' = StartTimer(CountReset)
  BY <1>1, <1>2, Rearming DEF On
<1>3. CASE On("SCRIPT_FAILED") /\ RetryOr(Restart(CountReset))
  <2>1. Calm(Taken, CountReset)
    BY <1>1, OnlyCount DEF CountReset, Calm, Only
  <2> QED
    BY <1>1, <1>3, <2>1, Restarting, Rearming DEF RetryOr, On
<1>4. CASE On("TIMEOUT") /\ data' = RunScript(Taken, "periodic")
  BY <1>1, <1>4, Polling
<1>5. CASE On("REGISTERED") /\ data' = EnterState(Taken, "CARRIER_ON")
  <2>1. "CARRIER_ON" \in States /\ Leads(Taken, Event, "CARRIER_ON")
    BY <1>1, <1>5 DEF States, Leads, On, Rank, Off, PowerOffStates, BootStates
  <2> QED
    BY <1>5, <2>1, EnteringAtOnce
<1>6. CASE On("SUSPEND") /\ data' = EnterState(Taken, "INIT_POWER_OFF")
  BY <1>1, <1>6, Suspending
<1>7. CASE On("RING") /\ data' = OpenAsync(Taken, "UART")
  BY <1>1, <1>7, OnlyRing, Idling DEF On
<1>8. CASE Ignores({"SCRIPT_SUCCESS", "SCRIPT_FAILED", "TIMEOUT", "REGISTERED",
                    "SUSPEND", "RING"})
  <2>1. Only(Taken, data', {"ops"})
    BY <1>1, <1>8 DEF Only, Ignores
  <2> QED
    BY <1>1, <1>8, <2>1, Idling DEF Ignores
<1> QED
  BY <1>2, <1>3, <1>4, <1>5, <1>6, <1>7, <1>8 DEF AwaitRegisteredHandler

(* PPP died: the modem goes dormant for a moment and dials again. *)
LEMMA RedialAfter ==
  ASSUME Before, data.state = "CARRIER_ON", On("PPP_DEAD"), data' = Redial(Taken)
  PROVE  After
<1> DEFINE b == EnterState(Taken, "DORMANT")
<1>1. data' = EnterState(b, "RUN_DIAL_SCRIPT")
  BY DEF Redial
<1>2. Entry(Taken, b, "DORMANT")
  BY TakenOnly, EnterStateEntry DEF States
<1> HIDE DEF b
<1>3. Formed(b) /\ b.state = "DORMANT"
  BY <1>2 DEF Entry, Only
<1>4. Entry(b, data', "RUN_DIAL_SCRIPT") /\ Started(data')
  BY <1>1, <1>3, EnterStateEntry DEF States
<1>5. /\ Formed(data') /\ data'.state = "RUN_DIAL_SCRIPT"
      /\ \A f \in {"events", "lost", "pm", "pppLive", "apnScript", "apn",
                   "recovered", "lateApn", "cmux"} : data'[f] = Taken[f]
  BY <1>2, <1>4 DEF Entry, Only, Fields, Touched
<1>6. Taken.state = "CARRIER_ON"
  BY TakenOnly DEF Fields
<1>7. Carries(Taken, data') /\ Pushes(Taken, data')
  BY <1>5 DEF Carries, Pushes
<1>8. /\ Climbs(Taken, Event, data') /\ Rings(Taken, Event, data')
      /\ Names(Taken, Event, data') /\ Recovers(Taken, Event, data')
  BY <1>5, <1>6 DEF Climbs, Rings, Names, Recovers, Rank, Off, PowerOffStates, On
<1>9. Linked(data')
  BY <1>5, <1>6, TakenOnly DEF Linked, BootStates, PowerOffStates
<1>10. Ready(data')
  BY <1>4, <1>5 DEF Ready, Waits, TimedStates, Started, Timed
<1> QED
  BY <1>5, <1>7, <1>8, <1>9, <1>10 DEF After, Turn

LEMMA CarrierOnAfter ==
  ASSUME Before, CarrierOnHandler
  PROVE  After
<1>1. data.state = "CARRIER_ON" /\ Taken.state = data.state /\ Formed(Taken)
  BY TakenOnly DEF CarrierOnHandler, In, Fields
<1>2. CASE On("SCRIPT_SUCCESS") /\ data' = StartTimer(CountReset)
  BY <1>1, <1>2, Rearming DEF On
<1>3. CASE On("SCRIPT_FAILED") /\ RetryOr(Restart(CarrierOff(CountReset)))
  <2>1. Only(Taken, CountReset, {})
    BY <1>1, OnlyCount DEF CountReset
  <2>2. Only(CountReset, CarrierOff(CountReset), {})
    BY <2>1, OnlyPpp DEF Only
  <2>3. Calm(Taken, CarrierOff(CountReset))
    BY <2>1, <2>2 DEF Calm, Only
  <2> QED
    BY <1>1, <1>3, <2>3, Restarting, Rearming DEF RetryOr, On
<1>4. CASE On("TIMEOUT") /\ data' = RunScript(Taken, "periodic")
  BY <1>1, <1>4, Polling
<1>5. CASE On("DEREGISTERED") /\ data' = EnterState(Taken, "DORMANT")
  <2>1. "DORMANT" \in States /\ Leads(Taken, Event, "DORMANT")
    BY <1>1, <1>5 DEF States, Leads, On, Rank, Off, PowerOffStates, BootStates
  <2> QED
    BY <1>5, <2>1, EnteringAtOnce
<1>6. CASE On("PPP_DEAD") /\ data' = Redial(Taken)
  BY <1>1, <1>6, RedialAfter
<1>7. CASE On("PPP_DEAD") /\ FALSE \in PppAdminStates /\ data' = Taken
  <2>1. Only(Taken, data', {"ops"})
    BY <1>1, <1>7 DEF Only
  <2> QED
    BY <1>1, <1>7, <2>1, Idling DEF On
<1>8. CASE /\ On("SUSPEND")
           /\ data' = EnterState(PppRelease(ChatRelease(CarrierOff(Taken))),
                                 "INIT_POWER_OFF")
  <2> DEFINE a == CarrierOff(Taken)
             b == ChatRelease(a)
             c == PppRelease(b)
  <2>1. Only(Taken, a, {})
    BY <1>1, OnlyPpp
  <2>2. data' = EnterState(c, "INIT_POWER_OFF")
    BY <1>8
  <2> HIDE DEF a
  <2>3. Only(a, b, {"cb", "chatPipe", "script"})
    BY <2>1, OnlyChatRelease DEF Only
  <2> HIDE DEF b
  <2>4. Only(b, c, {"cb"})
    BY <2>3, OnlyPpp DEF Only
  <2> HIDE DEF c
  <2>5. Calm(Taken, c) /\ c.cmux = Taken.cmux
    BY <2>1, <2>3, <2>4 DEF Calm, Only, Fields
  <2>6. "INIT_POWER_OFF" \in States /\ Leads(Taken, Event, "INIT_POWER_OFF")
    BY <1>1, <1>8 DEF States, Leads, On, Rank, Off, PowerOffStates, BootStates
  <2> QED
    BY <2>2, <2>5, <2>6, Entering
<1>9. CASE On("RING") /\ data' = OpenAsync(Taken, "UART")
  BY <1>1, <1>9, OnlyRing, Idling DEF On
<1>10. CASE Ignores({"SCRIPT_SUCCESS", "SCRIPT_FAILED", "TIMEOUT",
                     "DEREGISTERED", "PPP_DEAD", "SUSPEND", "RING"})
  <2>1. Only(Taken, data', {"ops"})
    BY <1>1, <1>10 DEF Only, Ignores
  <2> QED
    BY <1>1, <1>10, <2>1, Idling DEF Ignores
<1> QED
  BY <1>2, <1>3, <1>4, <1>5, <1>6, <1>7, <1>8, <1>9, <1>10 DEF CarrierOnHandler

LEMMA DormantAfter ==
  ASSUME Before, DormantHandler
  PROVE  After
<1>1. data.state = "DORMANT" /\ Taken.state = data.state /\ Formed(Taken)
  BY TakenOnly DEF DormantHandler, In, Fields
<1>2. CASE /\ Event \in {"RING", "PPP_DEAD"}
           /\ data' \in {EnterState(OpenAsync(Taken, "UART"), "RUN_DIAL_SCRIPT"),
                         EnterState(Taken, "RUN_DIAL_SCRIPT")}
  <2>1. PICK a \in {OpenAsync(Taken, "UART"), Taken} :
          data' = EnterState(a, "RUN_DIAL_SCRIPT")
    BY <1>2
  <2>2. Only(Taken, Taken, {"ops"})
    BY <1>1 DEF Only
  <2>3. Only(Taken, a, {"ops"})
    BY <1>1, <2>1, <2>2, OnlyRing
  <2>4. Calm(Taken, a) /\ a.cmux = Taken.cmux
    BY <2>3 DEF Calm, Only, Fields
  <2>5. "RUN_DIAL_SCRIPT" \in States /\ Leads(Taken, Event, "RUN_DIAL_SCRIPT")
    BY <1>1, <1>2 DEF States, Leads, Rank, Off, PowerOffStates, BootStates
  <2> QED
    BY <2>1, <2>4, <2>5, Entering
<1>3. CASE Ignores({"RING", "PPP_DEAD"})
  <2>1. Waits(Taken)
    BY <1>1 DEF Waits, TimedStates
  <2> QED
    BY <1>1, <1>3, <2>1, Ignoring DEF Ignores
<1> QED
  BY <1>2, <1>3 DEF DormantHandler, On

(* The end of a power-off: the bus is closed and a state on the way to IDLE *)
(* is entered.                                                              *)
LEMMA Closing ==
  ASSUME Before, NEW a, Calm(Taken, a), a.cmux = Taken.cmux,
         data.state \in PowerOffStates,
         data' = BeginPowerOffPulse(a) \/
           data' = EnterState(CloseAsync(a, "UART"), "IDLE")
  PROVE  After
<1> DEFINE c == CloseAsync(a, "UART")
<1>1. Formed(a) /\ Taken.state = data.state
  BY TakenOnly DEF Calm, Only, Fields
<1>2. Only(a, c, {"ops"})
  BY <1>1, OnlyRequest DEF CloseAsync, Pipes
<1>3. PICK s \in {"POWER_OFF_PULSE", "IDLE"} : data' = EnterState(c, s)
  BY DEF BeginPowerOffPulse
<1> HIDE DEF c
<1>4. Calm(Taken, c) /\ c.cmux = Taken.cmux
  BY <1>2 DEF Calm, Only, Fields
<1>5. s \in States /\ Leads(Taken, Event, s)
  BY <1>1 DEF States, Leads, Rank, Off, PowerOffStates, BootStates
<1> QED
  BY <1>3, <1>4, <1>5, Entering

LEMMA InitPowerOffAfter ==
  ASSUME Before, InitPowerOffHandler
  PROVE  After
<1>1. /\ data.state = "INIT_POWER_OFF" /\ Taken.state = data.state
      /\ Taken.cmdPipe = data.cmdPipe /\ Formed(Taken)
  BY TakenOnly DEF InitPowerOffHandler, In, Fields
<1>2. CASE /\ On("CMUX_DISCONNECTED")
           /\ data' = StartTimer([StopTimer(Taken) EXCEPT !.cmdPipe = "UART"])
  <2> DEFINE a == StopTimer(Taken)
             b == [a EXCEPT !.cmdPipe = "UART"]
  <2>1. Only(Taken, a, {"timer"})
    BY <1>1, OnlyTimer
  <2> HIDE DEF a
  <2>2. Only(a, b, {"cmdPipe"})
    BY <2>1 DEF Only, Formed, Fields
  <2>3. data' = StartTimer(b)
    BY <1>2 DEF a
  <2> HIDE DEF b
  <2>4. b.state = "INIT_POWER_OFF"
    BY <1>1, <2>1, <2>2 DEF Only, Fields
  <2>5. Only(b, data', {"timer"}) /\ data'.timer # "off"
    BY <2>2, <2>3, <2>4, TimerStarts DEF Only
  <2>6. data'.state = "INIT_POWER_OFF" /\ data'.cmux = data.cmux
    BY <1>1, <2>1, <2>2, <2>5, TakenOnly DEF Only, Fields
  <2>7. Calm(Taken, data')
    BY <2>1, <2>2, <2>5 DEF Calm, Only
  <2>8. Waits(data')
    BY <2>5, <2>6 DEF Waits, Timed, TimedStates
  <2> QED
    BY <1>1, <1>2, <2>6, <2>7, <2>8, Staying DEF On
<1>3. CASE /\ On("TIMEOUT") /\ data.cmdPipe # "none"
           /\ data' = EnterState(Taken, "RUN_SHUTDOWN_SCRIPT")
  <2>1. "RUN_SHUTDOWN_SCRIPT" \in States /\ Leads(Taken, Event, "RUN_SHUTDOWN_SCRIPT")
    BY <1>1, <1>3 DEF States, Leads, On, Rank, Off, PowerOffStates, BootStates
  <2> QED
    BY <1>3, <2>1, EnteringAtOnce
<1>4. CASE On("TIMEOUT") /\ data' = BeginPowerOffPulse(Taken)
  <2>1. Calm(Taken, Taken)
    BY <1>1 DEF Calm, Only
  <2> QED
    BY <1>1, <1>4, <2>1, Closing DEF PowerOffStates
<1>5. CASE Ignores({"CMUX_DISCONNECTED", "TIMEOUT"})
  <2>1. data.lost \/ Waits(Taken)
    BY <1>1, <1>5, TakenOnly
    DEF Before, Ready, Waits, Timed, TimedStates, Ignores, Fields
  <2> QED
    BY <1>1, <1>5, <2>1, Ignoring DEF Ignores, Off, PowerOffStates
<1> QED
  BY <1>2, <1>3, <1>4, <1>5 DEF InitPowerOffHandler

LEMMA RunShutdownScriptAfter ==
  ASSUME Before, RunShutdownScriptHandler
  PROVE  After
<1>1. /\ data.state = "RUN_SHUTDOWN_SCRIPT" /\ Taken.state = data.state
      /\ Formed(Taken)
  BY TakenOnly DEF RunShutdownScriptHandler, In, Fields
<1>2. ASSUME NEW d, Formed(d) PROVE Only(d, NoCmdPipe(d), {"cmdPipe"})
  BY <1>2 DEF NoCmdPipe, Only, Formed, Fields
<1>3. CASE On("SCRIPT_FAILED") /\ data' = BeginPowerOffPulse(NoCmdPipe(Taken))
  <2>1. Calm(Taken, NoCmdPipe(Taken)) /\ NoCmdPipe(Taken).cmux = Taken.cmux
    BY <1>1, <1>2 DEF Calm, Only, Fields
  <2> QED
    BY <1>1, <1>3, <2>1, Closing DEF PowerOffStates
<1>4. CASE /\ On("SCRIPT_SUCCESS")
           /\ data' = EnterState(NoCmdPipe(CloseAsync(Taken, "UART")), "IDLE")
  <2> DEFINE a == CloseAsync(Taken, "UART")
             b == NoCmdPipe(a)
  <2>1. Only(Taken, a, {"ops"})
    BY <1>1, OnlyRequest DEF CloseAsync, Pipes
  <2>2. data' = EnterState(b, "IDLE")
    BY <1>4
  <2> HIDE DEF a
  <2>3. Only(a, b, {"cmdPipe"})
    BY <1>2, <2>1 DEF Only
  <2> HIDE DEF b
  <2>4. Calm(Taken, b)
    BY <2>1, <2>3 DEF Calm, Only
  <2>5. "IDLE" \in States /\ Leads(Taken, Event, "IDLE")
    BY <1>1, <1>4 DEF States, Leads, On, Rank, Off, PowerOffStates, BootStates
  <2> QED
    BY <2>2, <2>4, <2>5, Entering
<1>5. CASE Ignores({"SCRIPT_FAILED", "SCRIPT_SUCCESS"})
  <2>1. data.lost \/ Waits(Taken)
    BY <1>1, <1>5, TakenOnly
    DEF Before, Ready, Waits, Scripted, TimedStates, Ignores, Fields
  <2> QED
    BY <1>1, <1>5, <2>1, Ignoring DEF Ignores, Off, PowerOffStates
<1> QED
  BY <1>3, <1>4, <1>5 DEF RunShutdownScriptHandler

LEMMA PowerOffAfter ==
  ASSUME Before, PowerOffPulseHandler \/ AwaitPowerOffHandler
  PROVE  After
<1>1. /\ data.state \in {"POWER_OFF_PULSE", "AWAIT_POWER_OFF"}
      /\ Taken.state = data.state
  BY TakenOnly DEF PowerOffPulseHandler, AwaitPowerOffHandler, In, Fields
<1>2. CASE \E s \in {"AWAIT_POWER_OFF", "IDLE"} :
             On("TIMEOUT") /\ data' = EnterState(Taken, s)
  <2>1. PICK s \in {"AWAIT_POWER_OFF", "IDLE"} :
          On("TIMEOUT") /\ data' = EnterState(Taken, s)
    BY <1>2
  <2>2. s \in States /\ Leads(Taken, Event, s)
    BY <1>1, <2>1 DEF States, Leads, On, Rank, Off, PowerOffStates, BootStates
  <2> QED
    BY <2>1, <2>2, EnteringAtOnce
<1>3. CASE Ignores({"TIMEOUT"})
  <2>1. data.lost \/ Waits(Taken)
    BY <1>1, <1>3, TakenOnly
    DEF Before, Ready, Waits, Timed, TimedStates, Ignores, Fields
  <2> QED
    BY <1>1, <1>3, <2>1, Ignoring DEF Ignores, Off, PowerOffStates
<1> QED
  BY <1>2, <1>3 DEF PowerOffPulseHandler, AwaitPowerOffHandler

(* Every event handled is a turn; finding the pipe empty changes nothing.   *)
LEMMA DispatchAfter ==
  ASSUME GoodData(data), Linked(data), Ready(data), Dispatch
  PROVE  \/ data.events # <<>> /\ BusKeepsUp /\ After
         \/ DispatchEnd /\ data' = data
<1>1. CASE DispatchEnd
  BY <1>1 DEF DispatchEnd
<1>2. CASE ~DispatchEnd
  <2>1. data.events # <<>> /\ BusKeepsUp
    BY <1>2
    DEF Dispatch, In, IdleHandler, ResetPulseHandler, AwaitResetHandler,
        PowerOnPulseHandler, AwaitPowerOnHandler, SetBaudrateHandler,
        RunInitScriptHandler, ConnectCmuxHandler, OpenDlci1Handler,
        OpenDlci2Handler, WaitForApnHandler, RunApnScriptHandler,
        RunDialScriptHandler, AwaitRegisteredHandler, CarrierOnHandler,
        DormantHandler, InitPowerOffHandler, RunShutdownScriptHandler,
        PowerOffPulseHandler, AwaitPowerOffHandler
  <2>2. Before
    BY <2>1 DEF Before
  <2>3. After
    BY <1>2, <2>2, IdleAfter, PulseAfter, AwaitPowerOnAfter, SetBaudrateAfter,
       RunInitScriptAfter, ConnectCmuxAfter, OpenDlcisAfter, RunApnScriptAfter,
       RunDialScriptAfter, AwaitRegisteredAfter, CarrierOnAfter, DormantAfter,
       InitPowerOffAfter, RunShutdownScriptAfter, PowerOffAfter
    DEF Dispatch
  <2> QED
    BY <2>1, <2>3
<1> QED
  BY <1>1, <1>2

-----------------------------------------------------------------------------
(* What arrives while no event is handled *)

(* One event at most is queued; resume and suspend calls queue theirs, PPP  *)
(* and a new APN announce themselves.                                       *)
Posts(d, r, e) ==
  /\ Queues(d, r, e)
  /\ Has(r.events, e) \/ r.lost = TRUE
  /\ r.pm = CASE e = "RESUME" -> "active"
              [] e = "SUSPEND" -> "requesting"
              [] OTHER -> d.pm
  /\ e = "RESUME" => d.pm = "suspended"
  /\ e = "SUSPEND" => d.pm = "active"
  /\ e # "PPP_DEAD" => r.pppLive = d.pppLive
  /\ e # "APN_SET" => r.apn = d.apn
Waiting(d, r) ==
  /\ r.events = d.events /\ r.lost = d.lost
  /\ r.pppLive = d.pppLive /\ r.apn = d.apn
  /\ \/ r.pm = d.pm
     \/ d.pm = "requesting" /\ r.pm = "waiting"
     \/ d.pm = "requesting" /\ d.sem = 1 /\ r.pm = "suspended"
     \/ d.pm = "waiting" /\ r.pm = "active"
Arrives(d, r) ==
  /\ Formed(r) /\ r.state = d.state
  /\ r.apnScript = d.apnScript /\ r.recovered = d.recovered
  /\ d.lost => r.lost
  /\ d.lateApn => r.lateApn
  /\ d.state = "RUN_APN_SCRIPT" => r.apn = d.apn \/ r.lateApn
  /\ Waiting(d, r) \/ \E e \in Events : Posts(d, r, e)

LEMMA Posting ==
  ASSUME NEW d, Formed(d), NEW F, NEW a, Only(d, a, F),
         "events" \notin F, "lost" \notin F, NEW e \in Events
  PROVE  LET r == Delegate(a, e)
         IN  /\ Only(d, r, F \cup {"events", "lost"})
             /\ \A f \in F : r[f] = a[f] \/ f \notin Fields
             /\ Queues(d, r, e)
             /\ Has(r.events, e) \/ r.lost = TRUE
             /\ \A x : Has(d.events, x) => Has(r.events, x)
             /\ d.lost => r.lost
<1> DEFINE r == Delegate(a, e)
<1>1. a.events = d.events /\ a.lost = d.lost
  BY DEF Only, Fields
<1>2. /\ Only(a, r, {"events", "lost"}) /\ Queues(a, r, e)
      /\ Has(r.events, e) \/ r.lost = TRUE
      /\ \A x : Has(a.events, x) => Has(r.events, x)
  BY OnlyDelegate DEF Only
<1> HIDE DEF r
<1>3. Only(d, r, F \cup {"events", "lost"})
  BY <1>2 DEF Only
<1>4. Queues(d, r, e)
  BY <1>1, <1>2 DEF Queues
<1>5. d.lost => r.lost
  BY <1>4 DEF Queues
<1>6. \A f \in F : r[f] = a[f] \/ f \notin Fields
  BY <1>2 DEF Only
<1> QED
  BY <1>1, <1>2, <1>3, <1>4, <1>5, <1>6 DEF r

(* Steps that touch neither a pipe nor the timer leave the wake-ups alone.  *)
LEMMA Quiet ==
  ASSUME NEW d, Formed(d), Linked(d), Ready(d), NEW r,
         Only(d, r, {"events", "lost", "pm", "sem", "pppLive", "apn", "lateApn",
                     "script"}),
         d.script # "none" => Scripted(r),
         \A x : Has(d.events, x) => Has(r.events, x),
         d.lost => r.lost
  PROVE  Linked(r) /\ Ready(r)
<1>1. \A f \in {"state", "timer", "cb", "ops", "cmux", "chatPipe"} : r[f] = d[f]
  BY DEF Only, Fields
<1>2. Linked(r)
  BY <1>1 DEF Linked
<1>3. Waits(d) => Waits(r)
  BY ZenonT(60), <1>1 DEF Waits, Timed, Scripted, Opening, Asked, Muxing
<1>4. Ready(r)
  BY <1>1, <1>3 DEF Ready
<1> QED
  BY <1>2, <1>4

Prompt == GoodData(data) /\ Linked(data) /\ Ready(data)
Arrived == Arrives(data, data') /\ Linked(data') /\ Ready(data')

(* A step that posts e and changes F only, none of it control. *)
LEMMA QuietPost ==
  ASSUME Prompt, NEW F, NEW a, NEW e \in Events, Only(data, a, F),
         F \subseteq {"pm", "sem", "pppLive", "apn", "lateApn"},
         data' = Delegate(a, e),
         a.pm = CASE e = "RESUME" -> "active"
                  [] e = "SUSPEND" -> "requesting"
                  [] OTHER -> data.pm,
         e = "RESUME" => data.pm = "suspended",
         e = "SUSPEND" => data.pm = "active",
         e # "PPP_DEAD" => a.pppLive = data.pppLive,
         e # "APN_SET" => a.apn = data.apn,
         data.lateApn => a.lateApn,
         data.state = "RUN_APN_SCRIPT" => a.apn = data.apn \/ a.lateApn
  PROVE  Arrived
<1>1. Formed(data) /\ "events" \notin F /\ "lost" \notin F
  BY FormedGood DEF Prompt
<1>2. /\ Only(data, data', F \cup {"events", "lost"})
      /\ \A f \in F : data'[f] = a[f] \/ f \notin Fields
      /\ Queues(data, data', e)
      /\ Has(data'.events, e) \/ data'.lost = TRUE
      /\ \A x : Has(data.events, x) => Has(data'.events, x)
      /\ data.lost => data'.lost
  BY ZenonT(60), <1>1, Posting
<1>3. \A f \in {"pm", "sem", "pppLive", "apn", "lateApn"} : data'[f] = a[f]
  BY <1>2 DEF Only, Fields
<1>4. data'.script = data.script
  BY <1>2 DEF Only, Fields
<1>5. Only(data, data', {"events", "lost", "pm", "sem", "pppLive", "apn",
                         "lateApn", "script"})
  BY <1>2 DEF Only
<1>6. Linked(data') /\ Ready(data')
  BY <1>1, <1>2, <1>4, <1>5, Quiet DEF Prompt, Scripted
<1>7. Posts(data, data', e)
  BY <1>2, <1>3 DEF Posts
<1>8. Arrives(data, data')
  BY <1>2, <1>3, <1>5, <1>7 DEF Arrives, Only, Fields
<1> QED
  BY <1>6, <1>8 DEF Arrived

(* A step of the world below the driver: its event and its own fields. *)
LEMMA CalmPost ==
  ASSUME Prompt, NEW a, Calm(data, a), NEW e \in Events \ {"RESUME", "SUSPEND"},
         data' = Delegate(a, e)
  PROVE  /\ Arrives(data, data')
         /\ \A f \in {"timer", "cb", "ops", "chatPipe", "script", "cmux", "cmdPipe"} :
              data'[f] = a[f]
         /\ data'.state = data.state
         /\ data.lost => data'.lost
         /\ Has(data'.events, e) \/ data'.lost
         /\ \A x : Has(data.events, x) => Has(data'.events, x)
<1> DEFINE F == {"timer", "cb", "ops", "chatPipe", "script", "cmux", "cmdPipe"}
<1>1. /\ Formed(data) /\ Only(data, a, F)
      /\ "events" \notin F /\ "lost" \notin F /\ e \in Events
  BY FormedGood DEF Prompt, Calm
<1>2. /\ Only(data, data', F \cup {"events", "lost"})
      /\ \A f \in F : data'[f] = a[f] \/ f \notin Fields
      /\ Queues(data, data', e)
      /\ Has(data'.events, e) \/ data'.lost = TRUE
      /\ \A x : Has(data.events, x) => Has(data'.events, x)
      /\ data.lost => data'.lost
  <2> HIDE DEF F
  <2> QED
    BY ZenonT(60), <1>1, Posting
<1>3. /\ \A f \in F : data'[f] = a[f]
      /\ \A f \in {"state", "apnScript", "recovered", "lateApn", "apn", "pm",
                   "pppLive"} : data'[f] = data[f]
  BY <1>2 DEF Fields, Only
<1>4. Posts(data, data', e)
  BY <1>2, <1>3 DEF Posts
<1>5. Arrives(data, data')
  BY <1>2, <1>3, <1>4 DEF Arrives, Only
<1> QED
  BY <1>2, <1>3, <1>5

LEMMA TimeoutArrives ==
  ASSUME Prompt, TimeoutWork
  PROVE  Arrived
<1> DEFINE a == StopTimer(data)
<1>1. Only(data, a, {"timer"})
  BY OnlyTimer, FormedGood DEF Prompt
<1>2. data' = Delegate(a, "TIMEOUT")
  BY DEF TimeoutWork
<1> HIDE DEF a
<1>3. Calm(data, a)
  BY <1>1 DEF Calm, Only
<1>4. "TIMEOUT" \in Events \ {"RESUME", "SUSPEND"}
  BY DEF Events
<1>5. /\ Arrives(data, data')
      /\ \A f \in {"cb", "ops", "chatPipe", "script", "cmux"} : data'[f] = data[f]
      /\ data'.state = data.state
      /\ data.lost => data'.lost
      /\ Has(data'.events, "TIMEOUT") \/ data'.lost
      /\ \A x : Has(data.events, x) => Has(data'.events, x)
  BY <1>1, <1>2, <1>3, <1>4, CalmPost DEF Only, Fields
<1>6. Linked(data')
  BY <1>5 DEF Prompt, Linked
<1>7. data'.lost \/ (Waits(data) => Waits(data'))
  BY <1>5 DEF Waits, Timed, Scripted, Opening, Asked, Muxing
<1>8. Ready(data')
  BY <1>5, <1>7 DEF Prompt, Ready
<1> QED
  BY <1>5, <1>6, <1>8 DEF Arrived

LEMMA ChatArrives ==
  ASSUME Prompt, NEW success, ChatCallback(success)
  PROVE  Arrived
<1> DEFINE a == [data EXCEPT !.script = "none",
                   !.done = IF success THEN @ \cup {data.script} ELSE @]
           e == IF success THEN "SCRIPT_SUCCESS" ELSE "SCRIPT_FAILED"
<1>1. Only(data, a, {"script"})
  BY FormedGood DEF Prompt, Only, Formed, Fields
<1>2. data' = Delegate(a, e)
  BY DEF ChatCallback
<1> HIDE DEF a
<1>3. Calm(data, a)
  BY <1>1 DEF Calm, Only
<1>4. e \in {"SCRIPT_SUCCESS", "SCRIPT_FAILED"}
  OBVIOUS
<1> HIDE DEF e
<1>5. e \in Events \ {"RESUME", "SUSPEND"}
  BY <1>4 DEF Events
<1>6. /\ Arrives(data, data')
      /\ \A f \in {"cb", "ops", "chatPipe", "timer", "cmux"} : data'[f] = data[f]
      /\ data'.state = data.state
      /\ data.lost => data'.lost
      /\ Has(data'.events, e) \/ data'.lost
      /\ \A x : Has(data.events, x) => Has(data'.events, x)
  BY <1>1, <1>2, <1>3, <1>5, CalmPost DEF Only, Fields
<1>7. Linked(data')
  BY <1>6 DEF Prompt, Linked
<1>8. data'.lost \/ (Waits(data) => Waits(data'))
  BY <1>4, <1>6 DEF Waits, Timed, Scripted, Opening, Asked, Muxing
<1>9. Ready(data')
  BY <1>6, <1>8 DEF Prompt, Ready
<1> QED
  BY <1>6, <1>7, <1>9 DEF Arrived

LEMMA CmuxArrives ==
  ASSUME Prompt, CmuxConnected \/ CmuxDisconnected
  PROVE  Arrived
<1>1. CASE CmuxConnected
  <2> DEFINE a == [data EXCEPT !.cmux = "connected"]
  <2>1. Only(data, a, {"cmux"}) /\ a.cmux = "connected"
    BY FormedGood DEF Prompt, Only, Formed, Fields
  <2>2. data' = Delegate(a, "CMUX_CONNECTED") /\ data.cmux = "connecting"
    BY <1>1 DEF CmuxConnected
  <2> HIDE DEF a
  <2>3. Calm(data, a)
    BY <2>1 DEF Calm, Only
  <2>4. "CMUX_CONNECTED" \in Events \ {"RESUME", "SUSPEND"}
    BY DEF Events
  <2>5. /\ Arrives(data, data')
        /\ \A f \in {"cb", "ops", "chatPipe", "timer", "script"} : data'[f] = data[f]
        /\ data'.state = data.state /\ data'.cmux = "connected"
        /\ data.lost => data'.lost
        /\ Has(data'.events, "CMUX_CONNECTED") \/ data'.lost
        /\ \A x : Has(data.events, x) => Has(data'.events, x)
    BY <2>1, <2>2, <2>3, <2>4, CalmPost DEF Only, Fields
  <2>6. Linked(data')
    BY <2>2, <2>5 DEF Prompt, Linked
  <2>7. data'.lost \/ (Waits(data) => Waits(data'))
    BY <2>5 DEF Waits, Timed, Scripted, Opening, Asked, Muxing
  <2>8. Ready(data')
    BY <2>5, <2>7 DEF Prompt, Ready
  <2> QED
    BY <2>5, <2>6, <2>8 DEF Arrived
<1>2. CASE CmuxDisconnected
  <2> DEFINE a == CloseDlcis(data)
             b == [a EXCEPT !.cmux = "disconnected"]
  <2>1. Only(data, a, {"ops"})
    BY FormedGood, OnlyCloseDlcis DEF Prompt
  <2>2. data' = Delegate(b, "CMUX_DISCONNECTED") /\ data.cmux = "disconnecting"
    BY <1>2 DEF CmuxDisconnected
  <2> HIDE DEF a
  <2>3. Only(a, b, {"cmux"}) /\ b.cmux = "disconnected"
    BY <2>1 DEF Only, Formed, Fields
  <2> HIDE DEF b
  <2>4. Calm(data, b)
    BY <2>1, <2>3 DEF Calm, Only
  <2>5. "CMUX_DISCONNECTED" \in Events \ {"RESUME", "SUSPEND"}
    BY DEF Events
  <2>6. /\ Arrives(data, data')
        /\ \A f \in {"timer", "chatPipe", "script"} : data'[f] = data[f]
        /\ data'.state = data.state /\ data'.cmux = "disconnected"
        /\ data.lost => data'.lost
        /\ \A x : Has(data.events, x) => Has(data'.events, x)
    BY <2>1, <2>2, <2>3, <2>4, <2>5, CalmPost DEF Only, Fields
  <2>7. data.state \in PowerOffStates
    BY <2>2 DEF Prompt, Linked
  <2>8. Linked(data')
    BY <2>6, <2>7 DEF Linked, BootStates, PowerOffStates
  <2>9. data'.lost \/ (Waits(data) => Waits(data'))
    BY <2>6, <2>7 DEF Waits, Timed, Scripted, PowerOffStates, TimedStates
  <2>10. Ready(data')
    BY <2>6, <2>7, <2>9 DEF Prompt, Ready, PowerOffStates
  <2> QED
    BY <2>6, <2>8, <2>10 DEF Arrived
<1> QED
  BY <1>1, <1>2

(* A pipe request ends; the driver is told if the pipe is its own. *)
LEMMA OnlyCompleted ==
  ASSUME Formed(data), NEW p \in Pipes, data.ops[p] # <<>>
  PROVE  /\ Only(data, Completed(p), {"ops"})
         /\ \A n \in Pipes \ {p} : Completed(p).ops[n] = data.ops[n]
         /\ Head(data.ops[p]) \in {"open", "close"}
         /\ \A x : Has(data.ops[p], x) <=>
                     x = Head(data.ops[p]) \/ Has(Completed(p).ops[p], x)
<1> DEFINE q == Tail(data.ops[p])
           O == IF Head(data.ops[p]) = "open" THEN data.open \cup {p}
                                              ELSE data.open \ {p}
<1>1. /\ q \in Seq({"open", "close"}) /\ Head(data.ops[p]) \in {"open", "close"}
      /\ \A x : Has(data.ops[p], x) <=> x = Head(data.ops[p]) \/ Has(q, x)
  BY HasTail DEF Formed
<1>2. Completed(p) = [data EXCEPT !.ops = [@ EXCEPT ![p] = q], !.open = O]
  BY DEF Completed
<1> HIDE DEF q, O
<1>3. /\ Only(data, Completed(p), {"ops"}) /\ Completed(p).ops[p] = q
      /\ \A n \in Pipes \ {p} : Completed(p).ops[n] = data.ops[n]
  BY ZenonT(60), <1>1, <1>2 DEF Only, Formed, Fields
<1> QED
  BY <1>1, <1>3

LEMMA PipeArrives ==
  ASSUME Prompt, NEW p \in Pipes, PipeEvent(p)
  PROVE  Arrived
<1> DEFINE c == Completed(p)
           e == PipeNotice(p)
<1>1. /\ Formed(data) /\ data.ops[p] # <<>>
      /\ data' = IF data.cb[p] = "driver" THEN Delegate(c, e) ELSE c
  BY FormedGood DEF Prompt, PipeEvent
<1>2. /\ Only(data, c, {"ops"})
      /\ \A n \in Pipes \ {p} : c.ops[n] = data.ops[n]
      /\ Head(data.ops[p]) \in {"open", "close"}
      /\ \A x : Has(data.ops[p], x) <=> x = Head(data.ops[p]) \/ Has(c.ops[p], x)
  BY <1>1, OnlyCompleted
<1>3. /\ p = "UART" => e = IF Head(data.ops[p]) = "open" THEN "BUS_OPENED"
                                                        ELSE "BUS_CLOSED"
      /\ p = "DLCI1" => e = "DLCI1_OPENED"
      /\ p = "DLCI2" => e = "DLCI2_OPENED"
  BY DEF PipeNotice
<1> HIDE DEF c, e
<1>4. Calm(data, c) /\ e \in Events \ {"RESUME", "SUSPEND"}
  BY <1>2, <1>3 DEF Calm, Only, Pipes, Events
<1>5. /\ Arrives(data, data')
      /\ \A f \in {"timer", "cb", "chatPipe", "script", "cmux"} : data'[f] = data[f]
      /\ data'.ops = c.ops /\ data'.state = data.state
      /\ data.lost => data'.lost
      /\ data.cb[p] = "driver" => Has(data'.events, e) \/ data'.lost
      /\ \A x : Has(data.events, x) => Has(data'.events, x)
  <2>1. CASE data.cb[p] = "driver"
    <3>1. /\ Arrives(data, data')
          /\ \A f \in {"timer", "cb", "ops", "chatPipe", "script", "cmux"} :
               data'[f] = c[f]
          /\ data'.state = data.state
          /\ data.lost => data'.lost
          /\ Has(data'.events, e) \/ data'.lost
          /\ \A x : Has(data.events, x) => Has(data'.events, x)
      BY <1>1, <1>4, <2>1, CalmPost
    <3>2. \A f \in {"timer", "cb", "chatPipe", "script", "cmux"} : c[f] = data[f]
      BY <1>2 DEF Only, Fields
    <3> QED
      BY <3>1, <3>2
  <2>2. CASE data.cb[p] # "driver"
    <3>1. /\ data' = c
          /\ \A f \in Fields \ {"ops"} : data'[f] = data[f]
      BY <1>1, <1>2, <2>2 DEF Only
    <3>2. Arrives(data, data')
      BY <1>2, <3>1 DEF Arrives, Waiting, Only, Fields
    <3> QED
      BY <2>2, <3>1, <3>2 DEF Fields
  <2> QED
    BY <2>1, <2>2
<1>6. Linked(data')
  BY <1>5 DEF Prompt, Linked
<1>7. data'.lost \/ \A n \in Pipes : Asked(data, n) =>
        Asked(data', n) \/ (n = p /\ Has(data'.events, e))
  BY <1>2, <1>5 DEF Asked
<1>8. data'.lost \/ (Opening(data) => Opening(data'))
  <2>1. CASE p = "UART"
    BY <1>2, <1>3, <1>5, <2>1 DEF Opening
  <2>2. CASE p # "UART"
    BY <1>2, <1>5, <2>2 DEF Opening, Pipes
  <2> QED
    BY <2>1, <2>2
<1>9. data'.lost \/ (Waits(data) => Waits(data'))
  BY <1>3, <1>5, <1>7, <1>8 DEF Waits, Timed, Scripted, Muxing, Pipes
<1>10. Ready(data')
  BY <1>5, <1>9 DEF Prompt, Ready
<1> QED
  BY <1>5, <1>6, <1>10 DEF Arrived

LEMMA EnvironmentArrives ==
  ASSUME Prompt, Environment
  PROVE  Arrived
<1>1. Formed(data)
  BY FormedGood DEF Prompt
<1>2. ASSUME NEW a, Only(data, a, {}), NEW e \in Events \ {"RESUME", "SUSPEND"},
             data' = Delegate(a, e)
      PROVE  Arrived
  <2>1. \A f \in {"pm", "pppLive", "apn", "lateApn"} : a[f] = data[f]
    BY <1>2 DEF Only, Fields
  <2> QED
    BY <1>2, <2>1, QuietPost
<1>3. Only(data, data, {})
  BY <1>1 DEF Only
<1>4. CASE TimeoutWork
  BY <1>4, TimeoutArrives
<1>5. CASE CmuxConnected \/ CmuxDisconnected
  BY <1>5, CmuxArrives
<1>6. CASE PppPhaseDead
  <2> DEFINE a == [data EXCEPT !.pppLive = FALSE]
  <2>1. Only(data, a, {"pppLive"})
    BY <1>1 DEF Only, Formed, Fields
  <2>2. data' = Delegate(a, "PPP_DEAD") /\ "PPP_DEAD" \in Events
    BY <1>6 DEF PppPhaseDead, Events
  <2> HIDE DEF a
  <2>3. \A f \in {"pm", "apn", "lateApn"} : a[f] = data[f]
    BY <2>1 DEF Only, Fields
  <2> QED
    BY <2>1, <2>2, <2>3, QuietPost
<1>7. CASE \E p \in Pipes : PipeEvent(p)
  BY <1>7, PipeArrives
<1>8. CASE \E success \in BOOLEAN : ChatCallback(success)
  BY <1>8, ChatArrives
<1>9. CASE OnModemReady \/ RingGpio
  <2>1. /\ data' = Delegate(data, "MODEM_READY") \/ data' = Delegate(data, "RING")
        /\ {"MODEM_READY", "RING"} \subseteq Events \ {"RESUME", "SUSPEND"}
    BY <1>9 DEF OnModemReady, RingGpio, Events
  <2> QED
    BY <1>2, <1>3, <2>1
<1>10. CASE \E domain \in Domains, registered \in BOOLEAN : OnCxreg(domain, registered)
  <2>1. PICK domain, registered : OnCxreg(domain, registered)
    BY <1>10
  <2> DEFINE a == [data EXCEPT !.registered = IF registered THEN @ \cup {domain}
                                                           ELSE @ \ {domain}]
  <2>2. Only(data, a, {})
    BY <1>1 DEF Only, Formed, Fields
  <2>3. PICK e \in {"REGISTERED", "DEREGISTERED"} : data' = Delegate(a, e)
    BY <2>1 DEF OnCxreg
  <2>4. e \in Events \ {"RESUME", "SUSPEND"}
    BY DEF Events
  <2> HIDE DEF a
  <2> QED
    BY <1>2, <2>2, <2>3, <2>4
<1>11. CASE \E connected \in BOOLEAN : OnCgev(connected)
  <2>1. data' = data
    BY <1>11 DEF OnCgev
  <2>2. Arrives(data, data')
    BY <1>1, <2>1 DEF Arrives, Waiting
  <2> QED
    BY <2>1, <2>2 DEF Arrived, Prompt
<1> QED
  BY <1>4, <1>5, <1>6, <1>7, <1>8, <1>9, <1>10, <1>11 DEF Environment

LEMMA CallersArrive ==
  ASSUME Prompt, Callers
  PROVE  Arrived
<1>1. Formed(data)
  BY FormedGood DEF Prompt
<1>2. ASSUME NEW F, Only(data, data', F), F \subseteq {"pm", "sem", "script"},
             Waiting(data, data'), data.script # "none" => data'.script # "none"
      PROVE  Arrived
  <2>1. /\ data'.events = data.events /\ data'.lost = data.lost
        /\ Only(data, data', {"events", "lost", "pm", "sem", "pppLive", "apn",
                              "lateApn", "script"})
        /\ \A f \in {"state", "apnScript", "recovered", "lateApn", "apn"} :
             data'[f] = data[f]
    BY <1>2 DEF Only, Fields
  <2>2. Linked(data') /\ Ready(data')
    BY <1>1, <1>2, <2>1, Quiet DEF Prompt, Scripted
  <2>3. Arrives(data, data')
    BY <1>2, <2>1 DEF Arrives, Only
  <2> QED
    BY <2>2, <2>3 DEF Arrived
<1>3. ASSUME NEW x \in PmStates, NEW e \in {"RESUME", "SUSPEND"},
             data' = Delegate([data EXCEPT !.pm = x], e),
             e = "RESUME" => data.pm = "suspended" /\ x = "active",
             e = "SUSPEND" => data.pm = "active" /\ x = "requesting"
      PROVE  Arrived
  <2> DEFINE a == [data EXCEPT !.pm = x]
  <2>1. Only(data, a, {"pm"}) /\ a.pm = x
    BY <1>1 DEF Only, Formed, Fields
  <2>2. data' = Delegate(a, e) /\ e \in Events
    BY <1>3 DEF Events
  <2> HIDE DEF a
  <2>3. \A f \in {"pppLive", "apn", "lateApn"} : a[f] = data[f]
    BY <2>1 DEF Only, Fields
  <2> QED
    BY <1>3, <2>1, <2>2, <2>3, QuietPost
<1>4. CASE PmResume
  BY <1>3, <1>4 DEF PmResume, PmStates
<1>5. CASE PmSuspend
  BY <1>3, <1>5 DEF PmSuspend, PmStates
<1>6. CASE PmTakeSem \/ PmTimeout
  <2>1. /\ Only(data, data', {"pm", "sem"})
        /\ \/ data.pm = "requesting" /\ data'.pm = "waiting"
           \/ data.pm = "requesting" /\ data.sem = 1 /\ data'.pm = "suspended"
           \/ data.pm = "waiting" /\ data'.pm = "active"
    BY <1>1, <1>6 DEF PmTakeSem, PmTimeout, Only, Formed, Fields
  <2>2. /\ \A f \in {"events", "lost", "pppLive", "apn", "script"} :
             data'[f] = data[f]
        /\ {"pm", "sem"} \subseteq {"pm", "sem", "script"}
    BY <2>1 DEF Only, Fields
  <2> QED
    BY <1>2, <2>1, <2>2 DEF Waiting
<1>7. CASE data' = RunScript(data, "query")
  <2>1. /\ Only(data, data', {"script"})
        /\ data.script # "none" => data'.script # "none"
    BY <1>1, <1>7, OnlyChat
  <2>2. \A f \in {"events", "lost", "pppLive", "apn", "pm"} : data'[f] = data[f]
    BY <2>1 DEF Only, Fields
  <2> QED
    BY <1>2, <2>1, <2>2 DEF Waiting
<1>8. CASE SetApnWrite
  <2> DEFINE a == [data EXCEPT !.apn = setter,
                     !.lateApn = @ \/ ~ApnChangeAllowed(data.state)]
  <2>1. Only(data, a, {"apn", "lateApn"})
    BY <1>1 DEF Only, Formed, Fields
  <2>2. a.lateApn = (data.lateApn \/ ~ApnChangeAllowed(data.state))
    BY <1>1 DEF Formed, Fields
  <2>3. data' = Delegate(a, "APN_SET") /\ "APN_SET" \in Events
    BY <1>8 DEF SetApnWrite, Events
  <2> HIDE DEF a
  <2>4. a.pm = data.pm /\ a.pppLive = data.pppLive
    BY <2>1 DEF Only, Fields
  <2>5. data.lateApn => a.lateApn
    BY <2>2
  <2>6. data.state = "RUN_APN_SCRIPT" => a.lateApn
    BY <2>2 DEF ApnChangeAllowed
  <2> QED
    BY <2>1, <2>3, <2>4, <2>5, <2>6, QuietPost
<1>9. CASE data' = data
  <2>1. Only(data, data', {})
    BY <1>1, <1>9 DEF Only
  <2> QED
    BY <1>2, <1>9, <2>1 DEF Waiting
<1> QED
  BY <1>4, <1>5, <1>6, <1>7, <1>8, <1>9
  DEF Callers, GetSignalCheck, GetSignalRun, SetApnCheck

-----------------------------------------------------------------------------
(* The invariant *)

(* A session that PPP keeps alive is told when PPP dies. *)
Redials(d) ==
  d.state \in {"CARRIER_ON", "DORMANT"} =>
    d.pppLive \/ Has(d.events, "PPP_DEAD") \/ d.lost \/ FALSE \in PppAdminStates
Wakes == Linked(data) /\ Ready(data) /\ Redials(data)
           /\ ParkedApnIsWoken /\ ApnScriptIsCurrent
WInv == IInv /\ Wakes

LEMMA HasPush ==
  ASSUME NEW d, Formed(d), NEW r,
         Pushes(d, r) \/ \E e \in Events : Queues(d, r, e)
  PROVE  \A x : Has(d.events, x) => Has(r.events, x)
<1>1. CASE r.events = d.events
  BY <1>1
<1>2. ASSUME NEW e \in Events, r.events = Append(d.events, e)
      PROVE  \A x : Has(d.events, x) => Has(r.events, x)
  BY <1>2, HasAppend DEF Formed
<1>3. {"REGISTERED", "SUSPEND", "RESUME"} \subseteq Events
  BY DEF Events
<1> QED
  BY <1>1, <1>2, <1>3 DEF Pushes, Queues

LEMMA WakesTurn ==
  ASSUME Before, Wakes, After
  PROVE  Wakes'
<1>1. /\ Turn(Taken, Event, data') /\ Formed(Taken)
      /\ \A x : Has(data.events, x) <=> x = Event \/ Has(Taken.events, x)
      /\ \A f \in {"state", "apn", "apnScript", "lateApn", "lost", "pppLive"} :
           Taken[f] = data[f]
  BY TakenOnly DEF After, Fields
<1>2. \A x : Has(data.events, x) => x = Event \/ Has(data'.events, x)
  BY <1>1, HasPush DEF Turn
<1>3. /\ data'.apn = data.apn /\ (data.lateApn => data'.lateApn)
      /\ data.lost => data'.lost
  BY <1>1 DEF Turn, Carries
<1>4. Redials(data')
  BY <1>1, <1>2, <1>3 DEF Turn, Rings, Wakes, Redials
<1>5. ParkedApnIsWoken'
  BY <1>1, <1>2, <1>3 DEF Turn, Names, Wakes, ParkedApnIsWoken, Queued, Has
<1>6. ApnScriptIsCurrent'
  BY <1>1, <1>3 DEF Turn, Names, Wakes, ApnScriptIsCurrent
<1> QED
  BY <1>4, <1>5, <1>6 DEF After, Wakes

LEMMA WakesArrive ==
  ASSUME Prompt, Wakes, Arrived
  PROVE  Wakes'
<1>1. Formed(data) /\ Arrives(data, data')
  BY FormedGood DEF Prompt, Arrived
<1>2. \A x : Has(data.events, x) => Has(data'.events, x)
  <2>1. CASE Waiting(data, data')
    BY <2>1 DEF Waiting
  <2>2. CASE \E e \in Events : Posts(data, data', e)
    BY <1>1, <2>2, HasPush DEF Posts
  <2> QED
    BY <1>1, <2>1, <2>2 DEF Arrives
<1>3. /\ data'.state = data.state /\ data'.apnScript = data.apnScript
      /\ (data.lateApn => data'.lateApn) /\ (data.lost => data'.lost)
      /\ data.state = "RUN_APN_SCRIPT" => data'.apn = data.apn \/ data'.lateApn
  BY <1>1 DEF Arrives
<1>4. /\ data'.pppLive = data.pppLive \/ Has(data'.events, "PPP_DEAD") \/ data'.lost
      /\ data'.apn = data.apn \/ Has(data'.events, "APN_SET") \/ data'.lost
  BY <1>1 DEF Arrives, Waiting, Posts
<1>5. Redials(data')
  BY <1>2, <1>3, <1>4 DEF Wakes, Redials
<1>6. ParkedApnIsWoken'
  BY <1>2, <1>3, <1>4 DEF Wakes, ParkedApnIsWoken, Queued, Has
<1>7. ApnScriptIsCurrent'
  BY <1>3 DEF Wakes, ApnScriptIsCurrent
<1> QED
  BY <1>5, <1>6, <1>7 DEF Arrived, Wakes

LEMMA WakesInit ==
  ASSUME Init
  PROVE  Wakes
<1>1. /\ data.state = "IDLE" /\ data.cmux = "released" /\ data.lost = FALSE
  BY DEF Init
<1> QED
  BY <1>1
  DEF Wakes, Linked, BootStates, Ready, Waits, TimedStates, Redials,
      ParkedApnIsWoken, ApnScriptIsCurrent

(* What a step does to the driver's data: nothing, an arrival or a turn.    *)
LEMMA Steps ==
  ASSUME WInv, Next
  PROVE  \/ data' = data
         \/ Arrived
         \/ Before /\ After
<1>1. Prompt
  BY DEF WInv, IInv, Wakes, Prompt
<1>2. CASE Dispatch
  BY <1>1, <1>2, DispatchAfter DEF Prompt, Before
<1>3. CASE Environment \/ Callers
  BY <1>1, <1>3, EnvironmentArrives, CallersArrive
<1> QED
  BY <1>2, <1>3 DEF Next

(* The waiting states, CMUX and the pipe agree in every reachable state. *)
THEOREM WakeInvariance == Spec => []WInv
<1>1. Init => Wakes
  BY WakesInit
<1>2. IInv /\ Wakes /\ [Next]_vars => Wakes'
  <2> SUFFICES ASSUME IInv, Wakes, [Next]_vars PROVE Wakes'
    OBVIOUS
  <2>1. CASE data' = data
    BY <2>1
    DEF Wakes, Linked, Ready, Redials, ParkedApnIsWoken, ApnScriptIsCurrent,
        Queued
  <2>2. CASE Arrived
    BY <2>2, WakesArrive DEF IInv, Wakes, Prompt
  <2>3. CASE Before /\ After
    BY <2>3, WakesTurn
  <2> QED
    BY <2>1, <2>2, <2>3, Steps DEF WInv, vars
<1> QED
  BY <1>1, <1>2, Invariance, PTL DEF Spec, WInv

(* Every state that waits for the modem has the wake-up it waits for under *)
(* way, unless an event was dropped.                                       *)
THEOREM StallsNever == Spec => []NeverStalls
<1>1. WInv => NeverStalls
  BY DEF WInv, Wakes, Ready, NeverStalls
<1> QED
  BY <1>1, WakeInvariance, PTL

(* A dormant modem is told that PPP died, and dials again. *)
THEOREM DormantRedialled == Spec => []DormantIsRedialled
<1>1. WInv => DormantIsRedialled
  BY DEF WInv, Wakes, Redials, DormantIsRedialled, Queued, Has
<1> QED
  BY <1>1, WakeInvariance, PTL

(* A modem parked for want of an APN has the event of its APN queued. *)
THEOREM ParkedWoken == Spec => []ParkedApnIsWoken
<1>1. WInv => ParkedApnIsWoken
  BY DEF WInv, Wakes
<1> QED
  BY <1>1, WakeInvariance, PTL

(* The APN sent is the APN reported, but for a write that lost its race.   *)
THEOREM ApnCurrent == Spec => []ApnScriptIsCurrent
<1>1. WInv => ApnScriptIsCurrent
  BY DEF WInv, Wakes
<1> QED
  BY <1>1, WakeInvariance, PTL

(* A modem goes off by a SUSPEND, by a power-off or by a failed init script; *)
(* every other way to IDLE queues a RESUME.                                  *)
THEOREM Recovered == Spec => RecoveryRestarts
<1> DEFINE A == data.state # "IDLE" /\ data'.state = "IDLE" =>
                  \/ \E i \in DOMAIN data'.events : data'.events[i] = "RESUME"
                  \/ data'.lost
                  \/ data.state \in PowerOffStates
                  \/ Event = "SUSPEND"
                  \/ data.state = "RUN_INIT_SCRIPT" /\ Event = "SCRIPT_FAILED"
<1>1. WInv /\ [Next]_vars => [A]_vars
  <2> SUFFICES ASSUME WInv, Next PROVE A
    OBVIOUS
  <2>1. CASE data' = data
    BY <2>1
  <2>2. CASE Arrived
    BY <2>2 DEF Arrived, Arrives
  <2>3. CASE Before /\ After
    BY <2>3, TakenOnly DEF After, Turn, Recovers, Has, Fields
  <2> QED
    BY <2>1, <2>2, <2>3, Steps
<1> QED
  BY <1>1, WakeInvariance, PTL DEF Spec, RecoveryRestarts

-----------------------------------------------------------------------------
(* A suspend request is not overtaken *)

(* While the power manager does not want the modem on, every RESUME in the *)
(* pipe has a SUSPEND behind it.                                           *)
Followed(q) ==
  \A i \in DOMAIN q : q[i] = "RESUME" =>
    \E j \in DOMAIN q : j > i /\ q[j] = "SUSPEND"
Excused(d) == d.lost \/ d.recovered
Fits(d)    == Len(d.events) <= EventPipeSize
Answered(d) == Excused(d) \/ d.pm = "active" \/ Followed(d.events)
(* A suspended modem that runs has that SUSPEND ahead of it, nearer than    *)
(* the events that would take the session to DORMANT, which ignores it.     *)
Stoppable(d) ==
  \/ Excused(d) \/ d.pm # "suspended" \/ d.state \in Off
  \/ \E i \in DOMAIN d.events :
       d.events[i] = "SUSPEND" /\ i + Rank(d.state) < EventPipeSize
Sticks(d) == Fits(d) /\ Answered(d) /\ Stoppable(d)

(* Positions in a pipe that grows at its end or loses its head. *)
LEMMA Positions ==
  ASSUME NEW S, NEW q \in Seq(S), NEW e \in S
  PROVE  /\ Len(q) \in Nat /\ DOMAIN q = 1 .. Len(q)
         /\ LET r == Append(q, e)
            IN  /\ Len(r) = Len(q) + 1 /\ DOMAIN r = 1 .. (Len(q) + 1)
                /\ \A i \in DOMAIN q : r[i] = q[i]
                /\ r[Len(q) + 1] = e
         /\ q # <<>> =>
              LET r == Tail(q)
              IN  /\ Len(r) = Len(q) - 1 /\ DOMAIN r = 1 .. (Len(q) - 1)
                  /\ \A i \in DOMAIN r : r[i] = q[i + 1]
                  /\ 1 \in DOMAIN q /\ Head(q) = q[1]
<1>1. Len(q) \in Nat /\ DOMAIN q = 1 .. Len(q)
  OBVIOUS
<1>2. LET r == Append(q, e)
      IN  /\ Len(r) = Len(q) + 1 /\ DOMAIN r = 1 .. (Len(q) + 1)
          /\ \A i \in DOMAIN q : r[i] = q[i]
          /\ r[Len(q) + 1] = e
  OBVIOUS
<1>3. q # <<>> =>
        LET r == Tail(q)
        IN  /\ Len(r) = Len(q) - 1 /\ DOMAIN r = 1 .. (Len(q) - 1)
            /\ \A i \in DOMAIN r : r[i] = q[i + 1]
            /\ 1 \in DOMAIN q /\ Head(q) = q[1]
  OBVIOUS
<1> QED
  BY <1>1, <1>2, <1>3

LEMMA FollowedAppend ==
  ASSUME NEW S, NEW q \in Seq(S), NEW e \in S,
         e = "SUSPEND" \/ (Followed(q) /\ e # "RESUME")
  PROVE  Followed(Append(q, e))
<1> DEFINE r == Append(q, e)
<1>1. /\ Len(q) \in Nat /\ DOMAIN q = 1 .. Len(q)
      /\ DOMAIN r = 1 .. (Len(q) + 1)
      /\ \A i \in DOMAIN q : r[i] = q[i]
      /\ r[Len(q) + 1] = e
  BY Positions
<1> HIDE DEF r
<1>2. ASSUME NEW i \in DOMAIN r, r[i] = "RESUME"
      PROVE  \E j \in DOMAIN r : j > i /\ r[j] = "SUSPEND"
  <2>1. i \in DOMAIN q /\ q[i] = "RESUME"
    BY <1>1, <1>2
  <2>2. CASE e = "SUSPEND"
    <3>1. Len(q) + 1 \in DOMAIN r /\ Len(q) + 1 > i
      BY <1>1, <2>1
    <3> QED
      BY <1>1, <2>2, <3>1
  <2>3. CASE Followed(q)
    <3>1. PICK j \in DOMAIN q : j > i /\ q[j] = "SUSPEND"
      BY <2>1, <2>3 DEF Followed
    <3>2. j \in DOMAIN r /\ r[j] = "SUSPEND"
      BY <1>1, <3>1
    <3> QED
      BY <3>1, <3>2
  <2> QED
    BY <2>2, <2>3
<1> QED
  BY <1>2 DEF Followed, r

LEMMA FollowedTail ==
  ASSUME NEW S, NEW q \in Seq(S), q # <<>>, Followed(q)
  PROVE  /\ Followed(Tail(q))
         /\ Head(q) = "RESUME" => Has(Tail(q), "SUSPEND")
<1> DEFINE r == Tail(q)
<1>1. Head(q) \in S
  OBVIOUS
<1>2. /\ Len(q) \in Nat /\ DOMAIN q = 1 .. Len(q)
      /\ DOMAIN r = 1 .. (Len(q) - 1)
      /\ \A i \in DOMAIN r : r[i] = q[i + 1]
      /\ 1 \in DOMAIN q /\ Head(q) = q[1]
  BY <1>1, Positions
<1> HIDE DEF r
<1>3. ASSUME NEW j \in DOMAIN q, j > 1
      PROVE  j - 1 \in DOMAIN r /\ r[j - 1] = q[j]
  <2>1. j - 1 \in DOMAIN r /\ (j - 1) + 1 = j
    BY <1>2, <1>3
  <2> QED
    BY <1>2, <2>1
<1>4. ASSUME NEW i \in DOMAIN r, r[i] = "RESUME"
      PROVE  \E j \in DOMAIN r : j > i /\ r[j] = "SUSPEND"
  <2>1. i + 1 \in DOMAIN q /\ q[i + 1] = "RESUME"
    BY <1>2, <1>4
  <2>2. PICK j \in DOMAIN q : j > i + 1 /\ q[j] = "SUSPEND"
    BY <2>1 DEF Followed
  <2>3. j > 1 /\ j - 1 > i
    BY <1>2, <2>2
  <2> QED
    BY <1>3, <2>2, <2>3
<1>5. ASSUME Head(q) = "RESUME" PROVE Has(r, "SUSPEND")
  <2>1. PICK j \in DOMAIN q : j > 1 /\ q[j] = "SUSPEND"
    BY <1>2, <1>5 DEF Followed
  <2> QED
    BY <1>3, <2>1 DEF Has
<1> QED
  BY <1>4, <1>5 DEF Followed, r

(* What is queued keeps its place when an event is queued behind it. *)
LEMMA KeepsPlaces ==
  ASSUME NEW d, Formed(d), Fits(d), NEW r,
         Pushes(d, r) \/ r.events = d.events \/ \E e \in Events : Queues(d, r, e)
  PROVE  /\ Fits(r)
         /\ \A i \in DOMAIN d.events :
              i \in DOMAIN r.events /\ r.events[i] = d.events[i]
<1>1. {"REGISTERED", "SUSPEND", "RESUME"} \subseteq Events
  BY DEF Events
<1>2. CASE r.events = d.events
  BY <1>2 DEF Fits
<1>3. ASSUME NEW e \in Events, r.events = Append(d.events, e),
             Len(d.events) < EventPipeSize
      PROVE  /\ Fits(r)
             /\ \A i \in DOMAIN d.events :
                  i \in DOMAIN r.events /\ r.events[i] = d.events[i]
  <2>1. /\ Len(d.events) \in Nat /\ DOMAIN d.events = 1 .. Len(d.events)
        /\ Len(r.events) = Len(d.events) + 1
        /\ DOMAIN r.events = 1 .. (Len(d.events) + 1)
        /\ \A i \in DOMAIN d.events : r.events[i] = d.events[i]
    BY <1>3, Positions DEF Formed
  <2>2. Fits(r)
    BY <1>3, <2>1, SizeAssumption DEF Fits
  <2> QED
    BY <2>1, <2>2
<1> QED
  BY <1>1, <1>2, <1>3 DEF Pushes, Queues

LEMMA SticksArrive ==
  ASSUME IInv, Sticks(data), Arrived
  PROVE  Sticks(data')
<1>1. Formed(data) /\ Arrives(data, data')
  BY FormedGood DEF IInv, Arrived
<1>2. /\ data'.state = data.state /\ data'.recovered = data.recovered
      /\ data.lost => data'.lost
      /\ Waiting(data, data') \/ \E e \in Events : Posts(data, data', e)
  BY <1>1 DEF Arrives
<1>3. /\ Fits(data')
      /\ \A i \in DOMAIN data.events :
           i \in DOMAIN data'.events /\ data'.events[i] = data.events[i]
  BY <1>1, <1>2, KeepsPlaces DEF Sticks, Waiting, Posts
<1>4. Answered(data')
  <2>1. SUFFICES ASSUME ~Excused(data'), data'.pm # "active"
                 PROVE  Followed(data'.events)
    BY DEF Answered
  <2>2. ~Excused(data) /\ ~data'.lost
    BY <1>2, <2>1 DEF Excused
  <2>3. CASE Waiting(data, data')
    <3>1. data.pm # "active" /\ data'.events = data.events
      BY <2>1, <2>3 DEF Waiting
    <3> QED
      BY <2>2, <3>1 DEF Sticks, Answered
  <2>4. ASSUME NEW e \in Events, Posts(data, data', e)
        PROVE  Followed(data'.events)
    <3>1. data'.events = Append(data.events, e) /\ e # "RESUME"
      BY <2>1, <2>2, <2>4 DEF Posts, Queues
    <3>2. e = "SUSPEND" \/ Followed(data.events)
      BY <2>1, <2>2, <2>4, <3>1 DEF Posts, Sticks, Answered
    <3> QED
      BY <1>1, <3>1, <3>2, FollowedAppend DEF Formed
  <2> QED
    BY <1>2, <2>3, <2>4
<1>5. Stoppable(data')
  <2>1. SUFFICES ASSUME ~Excused(data'), data'.pm = "suspended", data.state \notin Off
                 PROVE  \E i \in DOMAIN data'.events :
                          /\ data'.events[i] = "SUSPEND"
                          /\ i + Rank(data.state) < EventPipeSize
    BY <1>2 DEF Stoppable
  <2>2. ~Excused(data)
    BY <1>2, <2>1 DEF Excused
  <2>3. data.sem = 1 => data.state = "IDLE"
    BY DEF IInv, GoodData, Good, Sound
  <2>4. data.pm = "suspended"
    BY <1>2, <2>1, <2>3 DEF Waiting, Posts, Off
  <2>5. PICK i \in DOMAIN data.events :
          data.events[i] = "SUSPEND" /\ i + Rank(data.state) < EventPipeSize
    BY <2>1, <2>2, <2>4 DEF Sticks, Stoppable
  <2> QED
    BY <1>3, <2>5
<1> QED
  BY <1>3, <1>4, <1>5 DEF Sticks

LEMMA SticksTurn ==
  ASSUME EventPipeSize <= 8, Before, Sticks(data), After
  PROVE  Sticks(data')
<1> DEFINE q == data.events
           t == Tail(q)
<1>1. /\ Turn(Taken, Event, data') /\ Formed(data) /\ Formed(Taken)
      /\ Taken.events = t /\ Event = Head(q) /\ q # <<>>
      /\ q \in Seq(Events) /\ Event \in Events
      /\ \A f \in {"state", "pm", "lost", "recovered"} : Taken[f] = data[f]
  BY TakenOnly DEF After, Before, Fields, Event, Formed
<1>2. /\ Len(q) \in Nat /\ DOMAIN q = 1 .. Len(q)
      /\ Len(t) = Len(q) - 1 /\ DOMAIN t = 1 .. (Len(q) - 1)
      /\ \A i \in DOMAIN t : t[i] = q[i + 1]
      /\ 1 \in DOMAIN q /\ Event = q[1]
  BY <1>1, Positions
<1> HIDE DEF q, t
<1>3. Fits(Taken) /\ Len(q) <= EventPipeSize /\ EventPipeSize \in Nat
  BY <1>1, <1>2, SizeAssumption DEF Sticks, Fits, q
<1>4. /\ Fits(data')
      /\ \A i \in DOMAIN t : i \in DOMAIN data'.events /\ data'.events[i] = t[i]
  BY <1>1, <1>3, KeepsPlaces DEF Turn
<1>5. /\ Excused(data) => Excused(data')
      /\ \/ data'.pm = data.pm
         \/ data.pm = "waiting" /\ data'.pm = "suspended" /\ data'.state = "IDLE"
  BY <1>1 DEF Turn, Carries, Excused
<1>6. Answered(data')
  <2>1. SUFFICES ASSUME ~Excused(data'), data'.pm # "active"
                 PROVE  Followed(data'.events)
    BY DEF Answered
  <2>2. Followed(q)
    BY <1>5, <2>1 DEF Sticks, Answered, q
  <2>3. Followed(t)
    BY <1>1, <2>2, FollowedTail DEF t
  <2>4. CASE data'.events = t
    BY <2>3, <2>4
  <2>5. ASSUME NEW x \in {"REGISTERED", "SUSPEND", "RESUME"},
               data'.events = Append(t, x), x = "RESUME" => data'.recovered
        PROVE  Followed(data'.events)
    <3>1. x # "RESUME" /\ x \in Events
      BY <2>1, <2>5 DEF Excused, Events
    <3>2. t \in Seq(Events)
      BY <1>1 DEF Formed
    <3> QED
      BY <2>3, <2>5, <3>1, <3>2, FollowedAppend
  <2> QED
    BY <1>1, <2>4, <2>5 DEF Turn, Pushes
<1>7. Stoppable(data')
  <2>1. SUFFICES ASSUME ~Excused(data'), data'.pm = "suspended", data'.state \notin Off
                 PROVE  \E i \in DOMAIN data'.events :
                          /\ data'.events[i] = "SUSPEND"
                          /\ i + Rank(data'.state) < EventPipeSize
    BY DEF Stoppable
  <2>2. ~Excused(data) /\ data.pm = "suspended"
    BY <1>5, <2>1 DEF Off
  <2>3. /\ Event = "SUSPEND" => data'.state = "DORMANT" /\ data.state = "DORMANT"
        /\ \/ data'.state = data.state /\ data.state \notin Off
           \/ /\ data.state \notin PowerOffStates
              /\ Rank(data'.state) <= Rank(data.state) + 1
              /\ data.state = "IDLE" => Event = "RESUME" /\ Rank(data'.state) = 0
    BY <1>1, <2>1 DEF Turn, Climbs, Off
  <2>4. Rank(data.state) \in 0 .. 7 /\ Rank(data'.state) \in 0 .. 7
    BY DEF Rank
  <2>5. CASE data.state \in Off
    <3>1. Event = "RESUME" /\ Rank(data'.state) = 0
      BY <2>3, <2>5 DEF Off
    <3>2. Followed(q)
      BY <2>2 DEF Sticks, Answered, q
    <3>3. PICK i \in DOMAIN t : t[i] = "SUSPEND"
      BY <1>1, <3>1, <3>2, FollowedTail DEF Has, t
    <3>4. i + 0 < EventPipeSize
      BY <1>2, <1>3, <3>3
    <3> QED
      BY <1>4, <3>1, <3>3, <3>4
  <2>6. CASE data.state \notin Off
    <3>1. PICK i \in DOMAIN q : q[i] = "SUSPEND" /\ i + Rank(data.state) < EventPipeSize
      BY <2>2, <2>6 DEF Sticks, Stoppable, q
    <3>2. i # 1
      <4>1. SUFFICES ASSUME i = 1 PROVE FALSE
        OBVIOUS
      <4>2. data.state = "DORMANT"
        BY <1>2, <2>3, <3>1, <4>1
      <4>3. Rank(data.state) = 7
        BY <4>2 DEF Rank
      <4> QED
        BY <1>3, <3>1, <4>1, <4>3
    <3>3. i - 1 \in DOMAIN t /\ (i - 1) + 1 = i
      BY <1>2, <3>1, <3>2
    <3>4. t[i - 1] = "SUSPEND"
      BY <1>2, <3>1, <3>3
    <3>5. Rank(data'.state) <= Rank(data.state) + 1
      BY <2>3, <2>4
    <3>6. (i - 1) + Rank(data'.state) < EventPipeSize
      BY <1>2, <1>3, <2>4, <3>1, <3>5
    <3> QED
      BY <1>4, <3>3, <3>4, <3>6
  <2> QED
    BY <2>5, <2>6
<1> QED
  BY <1>4, <1>6, <1>7 DEF Sticks

(* A device the power manager holds for suspended is off, on its way there  *)
(* or about to be told, for pipes of up to eight events: RESUME, the seven  *)
(* events that take a session to DORMANT and SUSPEND are nine.              *)
THEOREM SuspendNotOvertaken ==
  ASSUME EventPipeSize <= 8
  PROVE  Spec => []SuspendSticks
<1>1. Init => Sticks(data)
  <2> SUFFICES ASSUME Init PROVE Sticks(data)
    OBVIOUS
  <2>1. data.events = <<>> /\ data.state = "IDLE"
    BY DEF Init
  <2>2. Len(<<>>) = 0 /\ DOMAIN <<>> = {}
    OBVIOUS
  <2> QED
    BY <2>1, <2>2, SizeAssumption
    DEF Sticks, Fits, Answered, Followed, Stoppable, Off
<1>2. WInv /\ Sticks(data) /\ [Next]_vars => Sticks(data)'
  <2> SUFFICES ASSUME WInv, Sticks(data), [Next]_vars PROVE Sticks(data')
    OBVIOUS
  <2>1. CASE data' = data
    BY <2>1
  <2>2. CASE Arrived
    BY <2>2, SticksArrive DEF WInv
  <2>3. CASE Before /\ After
    BY <2>3, SticksTurn
  <2> QED
    BY <2>1, <2>2, <2>3, Steps DEF vars
<1>3. Sticks(data) => SuspendSticks
  BY DEF Sticks, Stoppable, Excused, SuspendSticks, Off, Queued
<1> QED
  BY <1>1, <1>2, <1>3, WakeInvariance, PTL DEF Spec
=============================================================================
