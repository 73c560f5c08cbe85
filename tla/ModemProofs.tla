---------------------------- MODULE ModemProofs -----------------------------
(**************************************************************************)
(* What the helper functions of the modem driver change and what they     *)
(* leave alone; the inductive invariant of the driver's data; and the     *)
(* theorems about the driver, for every board description, size of the    *)
(* event pipe and set of APNs and registration domains. Each action keeps *)
(* the invariant; each theorem reads one property off it.                 *)
(**************************************************************************)
EXTENDS ModemProperties, TLAPS

(* The fields the invariant relates to the state, the links between the *)
(* pipes and their users, and the owner of DLCI1.                       *)
SameMode(d, r) ==
  /\ r.state = d.state /\ r.sem = d.sem
  /\ r.carrier = d.carrier /\ r.dormant = d.dormant
  /\ r.reset = d.reset /\ r.wake = d.wake
SameLinks(d, r) ==
  /\ r.chatPipe = d.chatPipe /\ r.script = d.script /\ r.cmux = d.cmux
  /\ r.ppp = d.ppp /\ r.users = d.users
SameDlci1(d, r) == r.cb["DLCI1"] = d.cb["DLCI1"]
Same(d, r) == SameMode(d, r) /\ SameLinks(d, r) /\ SameDlci1(d, r)

(* What the type of the driver's data says of the fields that are not *)
(* flags.                                                             *)
LEMMA FieldTypes ==
  ASSUME NEW d \in Data
  PROVE  /\ d.state \in States /\ d.timer \in States \cup {"off"}
         /\ d.events \in Seq(Events)
         /\ d.cb \in [Pipes -> Owners]
         /\ d.ops \in [Pipes -> Seq({"open", "close"})]
         /\ d.open \in SUBSET Pipes
         /\ d.chatPipe \in Pipes \cup {"none"}
         /\ d.cmdPipe \in Pipes \cup {"none"}
         /\ d.script \in Scripts \cup {"none"}
         /\ d.cmux \in Links /\ d.failures \in FailureCounts
         /\ d.sem \in Tokens /\ d.pm \in PmStates
         /\ d.apn \in Apns \cup {"none"}
         /\ d.baud \in {"initial", "new"}
         /\ d.originalBaud \in {"none", "initial", "new"}
         /\ d.registered \in SUBSET Domains /\ d.done \in SUBSET Scripts
BY DEF Data

(* What it says of the flags. *)
LEMMA FlagTypes ==
  ASSUME NEW d \in Data
  PROVE  /\ d.ppp \in BOOLEAN /\ d.carrier \in BOOLEAN /\ d.dormant \in BOOLEAN
         /\ d.users \in BOOLEAN /\ d.reset \in BOOLEAN /\ d.wake \in BOOLEAN
         /\ d.lateApn \in BOOLEAN
BY DEF Data

(* modem_cellular_delegate_event writes the event pipe only. *)
LEMMA DelegateFacts ==
  ASSUME NEW d \in Data, NEW e \in Events
  PROVE  /\ Delegate(d, e) \in Data
         /\ Same(d, Delegate(d, e)) /\ Delegate(d, e).timer = d.timer
<1>1. Append(d.events, e) \in Seq(Events)
  BY FieldTypes
<1>2. ASSUME NEW q \in Seq(Events)
      PROVE  [d EXCEPT !.events = q] \in Data
  BY DEF Data
<1>3. [d EXCEPT !.lost = TRUE] \in Data
  BY DEF Data
<1>4. Delegate(d, e) \in Data
  BY <1>1, <1>2, <1>3 DEF Delegate
<1>5. CASE Len(d.events) < EventPipeSize
  BY ZenonT(60), <1>4, <1>5
     DEF Data, Delegate, Same, SameMode, SameLinks, SameDlci1
<1>6. CASE ~(Len(d.events) < EventPipeSize)
  BY ZenonT(60), <1>4, <1>6
     DEF Data, Delegate, Same, SameMode, SameLinks, SameDlci1
<1> QED
  BY <1>4, <1>5, <1>6

(* k_work_schedule arms the timer only. *)
LEMMA StartTimerFacts ==
  ASSUME NEW d \in Data
  PROVE  /\ StartTimer(d) \in Data
         /\ Same(d, StartTimer(d))
         /\ StartTimer(d).timer = IF d.timer = "off" THEN d.state ELSE d.timer
<1>1. ASSUME NEW t \in States \cup {"off"}
      PROVE  [d EXCEPT !.timer = t] \in Data
  BY DEF Data
<1>2. StartTimer(d) \in Data
  BY <1>1, FieldTypes DEF StartTimer
<1> QED
  BY ZenonT(60), <1>2 DEF Data, StartTimer, Same, SameMode, SameLinks, SameDlci1

(* k_work_cancel_delayable disarms the timer only. *)
LEMMA StopTimerFacts ==
  ASSUME NEW d \in Data
  PROVE  /\ StopTimer(d) \in Data
         /\ Same(d, StopTimer(d)) /\ StopTimer(d).timer = "off"
BY ZenonT(60) DEF Data, StopTimer, Same, SameMode, SameLinks, SameDlci1

(* k_sem_give touches suspended_sem only. *)
LEMMA SemGiveFacts ==
  ASSUME NEW d \in Data
  PROVE  /\ SemGive(d) \in Data
         /\ SemGive(d).timer = d.timer /\ SemGive(d).state = d.state
         /\ SemGive(d).carrier = d.carrier /\ SemGive(d).dormant = d.dormant
         /\ SemGive(d).reset = d.reset /\ SemGive(d).wake = d.wake
         /\ SameLinks(d, SemGive(d)) /\ SameDlci1(d, SemGive(d))
<1>1. 1 \in Tokens /\ "suspended" \in PmStates
  BY DEF Tokens, PmStates
<1>2. ASSUME NEW n \in Tokens
      PROVE  [d EXCEPT !.sem = n] \in Data
  BY DEF Data
<1>3. ASSUME NEW m \in PmStates
      PROVE  [d EXCEPT !.pm = m] \in Data
  BY DEF Data
<1>4. SemGive(d) \in Data
  BY <1>1, <1>2, <1>3 DEF SemGive
<1>5. /\ SemGive(d).timer = d.timer /\ SemGive(d).state = d.state
      /\ SemGive(d).carrier = d.carrier /\ SemGive(d).dormant = d.dormant
      /\ SemGive(d).reset = d.reset /\ SemGive(d).wake = d.wake
  BY DEF Data, SemGive
<1>6. SameLinks(d, SemGive(d)) /\ SameDlci1(d, SemGive(d))
  BY DEF Data, SemGive, SameLinks, SameDlci1
<1> QED
  BY <1>4, <1>5, <1>6

(* Attaching a callback to a pipe leaves the timer alone; to any pipe but *)
(* DLCI1 it leaves DLCI1's owner alone.                                   *)
LEMMA AttachFacts ==
  ASSUME NEW d \in Data, NEW p, NEW owner \in Owners
  PROVE  /\ Attach(d, p, owner) \in Data
         /\ SameMode(d, Attach(d, p, owner))
         /\ SameLinks(d, Attach(d, p, owner))
         /\ Attach(d, p, owner).timer = d.timer
         /\ Attach(d, p, owner).cb["DLCI1"] =
              IF p = "DLCI1" THEN owner ELSE d.cb["DLCI1"]
<1>1. [d.cb EXCEPT ![p] = owner] \in [Pipes -> Owners]
  BY FieldTypes
<1>2. ASSUME NEW f \in [Pipes -> Owners]
      PROVE  [d EXCEPT !.cb = f] \in Data
  BY DEF Data
<1>3. Attach(d, p, owner) \in Data
  BY <1>1, <1>2 DEF Attach
<1> QED
  BY <1>3 DEF Data, Attach, SameMode, SameLinks, Pipes

(* An asynchronous open or close only queues the request. *)
LEMMA RequestFacts ==
  ASSUME NEW d \in Data, NEW p \in Pipes, NEW op \in {"open", "close"}
  PROVE  /\ Request(d, p, op) \in Data
         /\ Same(d, Request(d, p, op)) /\ Request(d, p, op).timer = d.timer
<1>1. Append(d.ops[p], op) \in Seq({"open", "close"})
  BY FieldTypes
<1>2. [d.ops EXCEPT ![p] = Append(d.ops[p], op)]
        \in [Pipes -> Seq({"open", "close"})]
  BY <1>1, FieldTypes
<1>3. ASSUME NEW f \in [Pipes -> Seq({"open", "close"})]
      PROVE  [d EXCEPT !.ops = f] \in Data
  BY DEF Data
<1>4. Request(d, p, op) \in Data
  BY <1>2, <1>3 DEF Request
<1> QED
  BY <1>4 DEF Data, Request, Same, SameMode, SameLinks, SameDlci1
(* The chat's pipe keeps its type. *)
LEMMA ChatPipeType ==
  ASSUME NEW d \in Data, NEW p \in Pipes \cup {"none"}
  PROVE  [d EXCEPT !.chatPipe = p] \in Data
BY DEF Data

(* modem_chat_attach moves the chat to a pipe and touches no other user *)
(* of the links.                                                        *)
LEMMA ChatAttachFacts ==
  ASSUME NEW d \in Data, NEW p \in Pipes \cup {"none"}
  PROVE  /\ ChatAttach(d, p) \in Data /\ SameMode(d, ChatAttach(d, p))
         /\ ChatAttach(d, p).timer = d.timer
         /\ ChatAttach(d, p).chatPipe = p
         /\ ChatAttach(d, p).script = d.script
         /\ ChatAttach(d, p).cmux = d.cmux /\ ChatAttach(d, p).ppp = d.ppp
         /\ ChatAttach(d, p).users = d.users
         /\ p # "DLCI1" => SameDlci1(d, ChatAttach(d, p))
<1> DEFINE a == Attach(d, p, "chat")
           r == [a EXCEPT !.chatPipe = p]
<1>1. /\ a \in Data /\ SameMode(d, a) /\ SameLinks(d, a) /\ a.timer = d.timer
      /\ p # "DLCI1" => SameDlci1(d, a)
  BY AttachFacts DEF Owners, SameDlci1
<1>2. ChatAttach(d, p) = r
  BY DEF ChatAttach
<1> HIDE DEF a
<1>3. r \in Data
  BY <1>1, ChatPipeType
<1>4. SameMode(a, r) /\ SameDlci1(a, r) /\ r.timer = a.timer
  BY <1>1 DEF Data, SameMode, SameDlci1
<1>5. /\ r.chatPipe = p /\ r.script = a.script
      /\ r.cmux = a.cmux /\ r.ppp = a.ppp /\ r.users = a.users
  BY <1>1 DEF Data
<1> HIDE DEF r
<1> QED
  BY <1>1, <1>2, <1>3, <1>4, <1>5 DEF SameMode, SameLinks, SameDlci1

(* modem_chat_release frees the chat and its script; DLCI1 changes its *)
(* owner only if the chat was on it.                                   *)
LEMMA ChatReleaseFacts ==
  ASSUME NEW d \in Data
  PROVE  /\ ChatRelease(d) \in Data /\ SameMode(d, ChatRelease(d))
         /\ ChatRelease(d).timer = d.timer
         /\ ChatRelease(d).chatPipe = "none" /\ ChatRelease(d).script = "none"
         /\ ChatRelease(d).cmux = d.cmux /\ ChatRelease(d).ppp = d.ppp
         /\ ChatRelease(d).users = d.users
         /\ d.chatPipe # "DLCI1" => SameDlci1(d, ChatRelease(d))
<1>1. CASE d.chatPipe = "none"
  <2> DEFINE r == [d EXCEPT !.script = "none"]
  <2>1. r.chatPipe = "none" /\ r.script = "none"
    BY <1>1 DEF Data
  <2>2. /\ r \in Data /\ SameMode(d, r) /\ SameDlci1(d, r)
        /\ r.timer = d.timer
        /\ r.cmux = d.cmux /\ r.ppp = d.ppp /\ r.users = d.users
    BY ZenonT(60) DEF Data, SameMode, SameDlci1
  <2> QED
    BY <1>1, <2>1, <2>2 DEF ChatRelease
<1>2. CASE d.chatPipe # "none"
  <2> DEFINE a == Release(d, d.chatPipe)
             r == [a EXCEPT !.chatPipe = "none", !.script = "none"]
  <2>1. /\ a \in Data /\ SameMode(d, a) /\ SameLinks(d, a) /\ a.timer = d.timer
        /\ d.chatPipe # "DLCI1" => SameDlci1(d, a)
    BY AttachFacts DEF Release, Owners, SameDlci1
  <2>2. ChatRelease(d) = r
    BY <1>2 DEF ChatRelease
  <2> HIDE DEF a
  <2>3. r \in Data
    BY ZenonT(60), <2>1 DEF Data
  <2>4. SameMode(a, r) /\ SameDlci1(a, r) /\ r.timer = a.timer
    BY <2>1 DEF Data, SameMode, SameDlci1
  <2>5. /\ r.chatPipe = "none" /\ r.script = "none"
        /\ r.cmux = a.cmux /\ r.ppp = a.ppp /\ r.users = a.users
    BY <2>1 DEF Data
  <2> HIDE DEF r
  <2> QED
    BY <2>1, <2>2, <2>3, <2>4, <2>5 DEF SameMode, SameLinks, SameDlci1
<1> QED
  BY <1>1, <1>2

(* modem_chat_run_script_async starts a script only on an attached chat. *)
LEMMA RunScriptFacts ==
  ASSUME NEW d \in Data, NEW s \in Scripts
  PROVE  /\ RunScript(d, s) \in Data /\ SameMode(d, RunScript(d, s))
         /\ RunScript(d, s).timer = d.timer
         /\ SameDlci1(d, RunScript(d, s))
         /\ RunScript(d, s).chatPipe = d.chatPipe
         /\ d.chatPipe = "none" => RunScript(d, s).script = d.script
         /\ RunScript(d, s).cmux = d.cmux /\ RunScript(d, s).ppp = d.ppp
         /\ RunScript(d, s).users = d.users
<1> DEFINE r == [d EXCEPT !.script = s]
<1>1. /\ r \in Data /\ SameMode(d, r) /\ SameDlci1(d, r)
      /\ r.timer = d.timer
      /\ r.cmux = d.cmux /\ r.ppp = d.ppp /\ r.users = d.users
  BY ZenonT(60) DEF Data, SameMode, SameDlci1
<1>2. r.chatPipe = d.chatPipe
  BY DEF Data
<1> HIDE DEF r
<1>3. RunScript(d, s) = d \/ (d.chatPipe # "none" /\ RunScript(d, s) = r)
  BY DEF RunScript, r
<1> QED
  BY <1>1, <1>2, <1>3 DEF SameMode, SameDlci1

(* Closing the DLCIs of a disconnected multiplexer changes no owner. *)
LEMMA CloseDlcisFacts ==
  ASSUME NEW d \in Data
  PROVE  /\ CloseDlcis(d) \in Data /\ Same(d, CloseDlcis(d))
         /\ CloseDlcis(d).timer = d.timer
<1>1. [p \in Pipes |-> IF p \in Dlcis THEN <<>> ELSE d.ops[p]]
        \in [Pipes -> Seq({"open", "close"})]
  BY FieldTypes
<1>2. d.open \ Dlcis \in SUBSET Pipes
  BY FieldTypes
<1>3. ASSUME NEW f \in [Pipes -> Seq({"open", "close"})],
             NEW o \in SUBSET Pipes
      PROVE  /\ [d EXCEPT !.open = o, !.ops = f] \in Data
             /\ Same(d, [d EXCEPT !.open = o, !.ops = f])
             /\ [d EXCEPT !.open = o, !.ops = f].timer = d.timer
  BY ZenonT(60) DEF Data, Same, SameMode, SameLinks, SameDlci1
<1> QED
  BY <1>1, <1>2, <1>3 DEF CloseDlcis

(* The multiplexer's link state keeps its type. *)
LEMMA CmuxType ==
  ASSUME NEW d \in Data, NEW link \in Links
  PROVE  [d EXCEPT !.cmux = link] \in Data
BY DEF Data

(* Attaching, connecting and disconnecting the multiplexer leave the *)
(* chat, PPP and DLCI1 alone.                                        *)
LEMMA CmuxFacts ==
  ASSUME NEW d \in Data,
         NEW r \in {CmuxAttach(d), CmuxConnect(d), CmuxDisconnect(d)}
  PROVE  /\ r \in Data /\ SameMode(d, r) /\ SameDlci1(d, r)
         /\ r.timer = d.timer /\ r.chatPipe = d.chatPipe
         /\ r.script = d.script /\ r.ppp = d.ppp /\ r.users = d.users
<1>1. CASE r = CmuxAttach(d)
  <2> DEFINE a == Attach(d, "UART", "cmux")
             link == IF a.cmux = "released" THEN "disconnected" ELSE a.cmux
  <2>1. /\ a \in Data /\ SameMode(d, a) /\ SameLinks(d, a)
        /\ a.timer = d.timer /\ SameDlci1(d, a)
    BY AttachFacts DEF Owners, SameDlci1
  <2>2. r = [a EXCEPT !.cmux = link]
    BY <1>1 DEF CmuxAttach
  <2> HIDE DEF a
  <2>3. link \in Links
    BY <2>1, FieldTypes DEF Links
  <2> HIDE DEF link
  <2>4. r \in Data
    BY <2>1, <2>2, <2>3, CmuxType
  <2>5. SameMode(a, r) /\ SameDlci1(a, r) /\ r.timer = a.timer
    BY <2>1, <2>2 DEF Data, SameMode, SameDlci1
  <2>6. /\ r.chatPipe = a.chatPipe /\ r.script = a.script
        /\ r.ppp = a.ppp /\ r.users = a.users
    BY <2>1, <2>2 DEF Data
  <2> QED
    BY <2>1, <2>4, <2>5, <2>6 DEF SameMode, SameLinks, SameDlci1
<1>2. CASE r \in {CmuxConnect(d), CmuxDisconnect(d)}
  <2>1. PICK link \in Links : r = [d EXCEPT !.cmux = link]
    BY <1>2, FieldTypes DEF CmuxConnect, CmuxDisconnect, Links
  <2> QED
    BY ZenonT(60), <2>1 DEF Data, SameMode, SameDlci1
<1> QED
  BY <1>1, <1>2

(* modem_cmux_release leaves the multiplexer released and the chat and *)
(* PPP alone.                                                          *)
LEMMA CmuxReleaseFacts ==
  ASSUME NEW d \in Data, NEW r, r = CmuxRelease(d)
  PROVE  /\ r \in Data /\ SameMode(d, r) /\ SameDlci1(d, r)
         /\ r.timer = d.timer /\ r.chatPipe = d.chatPipe
         /\ r.script = d.script /\ r.ppp = d.ppp /\ r.users = d.users
         /\ r.cmux = "released"
<1>1. CASE d.cmux = "released"
  BY <1>1 DEF CmuxRelease, SameMode, SameDlci1
<1>2. CASE d.cmux # "released"
  <2> DEFINE a == Release(d, "UART")
             b == CloseDlcis(a)
  <2>1. /\ a \in Data /\ SameMode(d, a) /\ SameLinks(d, a)
        /\ a.timer = d.timer /\ SameDlci1(d, a)
    BY AttachFacts DEF Release, Owners, SameDlci1
  <2>2. b \in Data /\ Same(a, b) /\ b.timer = a.timer
    BY <2>1, CloseDlcisFacts
  <2>3. r = [b EXCEPT !.cmux = "released"]
    BY <1>2 DEF CmuxRelease
  <2> HIDE DEF a, b
  <2>4. "released" \in Links
    BY DEF Links
  <2>5. r \in Data
    BY <2>2, <2>3, <2>4, CmuxType
  <2>6. SameMode(b, r) /\ SameDlci1(b, r) /\ r.timer = b.timer
    BY <2>2, <2>3 DEF Data, SameMode, SameDlci1
  <2>7. /\ r.chatPipe = b.chatPipe /\ r.script = b.script
        /\ r.ppp = b.ppp /\ r.users = b.users /\ r.cmux = "released"
    BY <2>2, <2>3 DEF Data
  <2> QED
    BY <2>1, <2>2, <2>5, <2>6, <2>7 DEF Same, SameMode, SameLinks, SameDlci1
<1> QED
  BY <1>1, <1>2

(* modem_ppp_attach makes PPP the owner of DLCI1. *)
LEMMA PppAttachFacts ==
  ASSUME NEW d \in Data, d.ppp = FALSE, NEW r, r = PppAttach(d)
  PROVE  /\ r \in Data /\ SameMode(d, r) /\ r.timer = d.timer
         /\ r.chatPipe = d.chatPipe /\ r.script = d.script
         /\ r.cmux = d.cmux /\ r.users = d.users
         /\ r.ppp = TRUE /\ r.cb["DLCI1"] = "ppp"
<1> DEFINE a == Attach(d, "DLCI1", "ppp")
<1>1. /\ a \in Data /\ SameMode(d, a) /\ SameLinks(d, a)
      /\ a.timer = d.timer /\ a.cb["DLCI1"] = "ppp"
  BY AttachFacts DEF Owners
<1>2. r = [a EXCEPT !.ppp = TRUE]
  BY DEF PppAttach
<1> HIDE DEF a
<1>3. r \in Data
  BY ZenonT(60), <1>1, <1>2 DEF Data
<1>4. SameMode(a, r) /\ SameDlci1(a, r) /\ r.timer = a.timer
  BY <1>1, <1>2 DEF Data, SameMode, SameDlci1
<1>5. /\ r.chatPipe = a.chatPipe /\ r.script = a.script
      /\ r.cmux = a.cmux /\ r.users = a.users /\ r.ppp = TRUE
  BY <1>1, <1>2 DEF Data
<1> QED
  BY <1>1, <1>3, <1>4, <1>5 DEF SameMode, SameLinks, SameDlci1

(* modem_ppp_release leaves PPP detached. *)
LEMMA PppReleaseFacts ==
  ASSUME NEW d \in Data, NEW r, r = PppRelease(d)
  PROVE  /\ r \in Data /\ SameMode(d, r) /\ r.timer = d.timer
         /\ r.chatPipe = d.chatPipe /\ r.script = d.script
         /\ r.cmux = d.cmux /\ r.users = d.users /\ r.ppp = FALSE
<1>1. CASE d.ppp
  <2> DEFINE a == Release(d, "DLCI1")
  <2>1. /\ a \in Data /\ SameMode(d, a) /\ SameLinks(d, a)
        /\ a.timer = d.timer
    BY AttachFacts DEF Release, Owners
  <2>2. r = [a EXCEPT !.ppp = FALSE]
    BY <1>1 DEF PppRelease
  <2> HIDE DEF a
  <2>3. r \in Data
    BY ZenonT(60), <2>1, <2>2 DEF Data
  <2>4. SameMode(a, r) /\ r.timer = a.timer
    BY <2>1, <2>2 DEF Data, SameMode
  <2>5. /\ r.chatPipe = a.chatPipe /\ r.script = a.script
        /\ r.cmux = a.cmux /\ r.users = a.users /\ r.ppp = FALSE
    BY <2>1, <2>2 DEF Data
  <2> QED
    BY <2>1, <2>3, <2>4, <2>5 DEF SameMode, SameLinks
<1>2. CASE ~d.ppp
  BY <1>2, FlagTypes DEF PppRelease, SameMode
<1> QED
  BY <1>1, <1>2

(* Opening and closing the bus queue a request at most. *)
LEMMA BusFacts ==
  ASSUME NEW d \in Data, NEW r \in {OpenBus(d), CloseBus(d)}
  PROVE  r \in Data /\ Same(d, r) /\ r.timer = d.timer
<1> DEFINE a == Attach(d, "UART", "driver")
<1>1. /\ a \in Data /\ SameMode(d, a) /\ SameLinks(d, a)
      /\ a.timer = d.timer /\ SameDlci1(d, a)
  BY AttachFacts DEF Owners, SameDlci1
<1>2. r \in {Request(a, "UART", "open"), Request(a, "UART", "close")}
  BY DEF OpenBus, CloseBus, OpenAsync, CloseAsync
<1> HIDE DEF a
<1>3. r \in Data /\ Same(a, r) /\ r.timer = a.timer
  BY <1>1, <1>2, RequestFacts DEF Pipes
<1> QED
  BY <1>1, <1>3 DEF Same, SameMode, SameLinks, SameDlci1

-----------------------------------------------------------------------------

(* The states whose leave function cancels the timer; those in which PPP *)
(* may be attached; whether the reset is held while the modem is idle.   *)
StoppedStates ==
  {"RESET_PULSE", "AWAIT_RESET", "POWER_ON_PULSE", "AWAIT_REGISTERED",
   "CARRIER_ON", "POWER_OFF_PULSE"}
PppStates == {"AWAIT_REGISTERED", "CARRIER_ON", "DORMANT", "INIT_POWER_OFF"}
Held == HasResetGpio /\ HoldResetOnSuspend

(* The inductive invariant of one record of the driver's data: interface,  *)
(* pins, token, timer and link users agree with the state. Between two     *)
(* functions of one handler it may lack the carrier, hence Sound and Good. *)
PppOwned(d) == d.ppp => d.cb["DLCI1"] = "ppp" /\ d.chatPipe # "DLCI1"
Sound(d) ==
  /\ d.sem = 1 => d.state = "IDLE"
  /\ d.carrier => d.state \in {"CARRIER_ON", "DORMANT"}
  /\ d.dormant <=> d.state = "DORMANT"
  /\ d.reset <=> d.state = "RESET_PULSE" \/ (d.state = "IDLE" /\ Held)
  /\ d.wake <=> d.state \notin {"IDLE", "RESET_PULSE"}
  /\ d.timer \in StoppedStates => d.state = d.timer
  /\ d.ppp => d.state \in PppStates
  /\ PppOwned(d)
  /\ d.state = "IDLE" =>
       /\ d.chatPipe = "none" /\ d.script = "none" /\ d.cmux = "released"
       /\ ~d.ppp /\ ~d.users

(* What OnStateLeave establishes, whatever state is left. *)
Left(d, r) ==
  /\ r.state = d.state /\ r.sem = 0 /\ ~r.dormant /\ ~r.reset /\ r.wake
  /\ r.carrier <=> d.carrier /\ d.state # "DORMANT"
  /\ r.timer \notin StoppedStates
  /\ r.ppp => d.ppp /\ d.state \notin {"DORMANT", "INIT_POWER_OFF"}
  /\ PppOwned(r)

(* A leave function without effects of its own on the interface, the pins *)
(* or the token establishes Left.                                         *)
LEMMA LeftPlain ==
  ASSUME NEW d \in Data, Sound(d),
         d.state \notin {"IDLE", "RESET_PULSE", "DORMANT", "INIT_POWER_OFF"},
         NEW r \in Data, SameMode(d, r), PppOwned(r), r.ppp => d.ppp,
         r.timer \notin StoppedStates
  PROVE  Left(d, r)
<1>1. d.sem \in {0, 1}
  BY FieldTypes DEF Tokens
<1> QED
  BY <1>1 DEF Sound, Left, SameMode

(* Leaving IDLE takes the token and raises the wake line. *)
LEMMA IdleLeaveFacts ==
  ASSUME NEW d \in Data, Sound(d), d.state = "IDLE"
  PROVE  IdleLeave(d) \in Data /\ Left(d, IdleLeave(d))
<1> DEFINE r == IdleLeave(d)
<1>1. r \in Data
  <2>1. 0 \in Tokens
    BY DEF Tokens
  <2>2. ASSUME NEW b \in BOOLEAN, NEW n \in Tokens
        PROVE  [d EXCEPT !.sem = n, !.wake = TRUE,
                         !.reset = b] \in Data
    BY ZenonT(60) DEF Data
  <2>3. (d.reset /\ ~(HasResetGpio /\ HoldResetOnSuspend)) \in BOOLEAN
    OBVIOUS
  <2> QED
    BY <2>1, <2>2, <2>3 DEF IdleLeave
<1>2. /\ r.state = d.state /\ r.sem = 0 /\ r.dormant = d.dormant
      /\ r.wake = TRUE /\ r.carrier = d.carrier
  BY DEF Data, IdleLeave
<1>3. r.timer = d.timer /\ r.ppp = d.ppp
  BY DEF Data, IdleLeave
<1>4. r.reset = (d.reset /\ ~Held)
  BY DEF Data, IdleLeave, Held
<1>5. ~r.reset
  BY <1>4 DEF Sound
<1> HIDE DEF r
<1>6. ~d.ppp /\ d.timer \notin StoppedStates /\ ~d.dormant /\ ~d.carrier
  BY DEF Sound, StoppedStates
<1> QED
  BY <1>1, <1>2, <1>3, <1>5, <1>6 DEF Left, PppOwned, r

(* Leaving RESET_PULSE releases the reset line, raises the wake line and *)
(* stops the timer.                                                      *)
LEMMA ResetPulseLeaveFacts ==
  ASSUME NEW d \in Data, Sound(d), d.state = "RESET_PULSE"
  PROVE  ResetPulseLeave(d) \in Data /\ Left(d, ResetPulseLeave(d))
<1> DEFINE a == [d EXCEPT !.reset = FALSE, !.wake = TRUE]
           r == StopTimer(a)
<1>1. a \in Data
  BY DEF Data
<1>2. /\ a.state = d.state /\ a.sem = d.sem /\ a.dormant = d.dormant
      /\ a.wake = TRUE /\ a.reset = FALSE /\ a.carrier = d.carrier
      /\ a.ppp = d.ppp
  BY DEF Data
<1> HIDE DEF a
<1>3. r \in Data /\ Same(a, r) /\ r.timer = "off"
  BY <1>1, StopTimerFacts
<1>4. ResetPulseLeave(d) = r
  BY DEF ResetPulseLeave, a
<1>5. d.sem \in {0, 1}
  BY FieldTypes DEF Tokens
<1> HIDE DEF r
<1> QED
  BY <1>2, <1>3, <1>4, <1>5
  DEF Sound, Left, PppOwned, StoppedStates, PppStates, Same, SameMode, SameLinks

(* net_if_carrier_off clears the carrier only. *)
LEMMA CarrierOffFacts ==
  ASSUME NEW d \in Data, NEW r, r = CarrierOff(d)
  PROVE  /\ r \in Data /\ r.carrier = FALSE /\ r.state = d.state
         /\ r.sem = d.sem /\ r.dormant = d.dormant /\ r.reset = d.reset
         /\ r.wake = d.wake /\ r.timer = d.timer
         /\ SameLinks(d, r) /\ SameDlci1(d, r)
<1>1. r \in Data
  BY ZenonT(60) DEF Data, CarrierOff
<1>2. /\ r.carrier = FALSE /\ r.state = d.state
      /\ r.sem = d.sem /\ r.dormant = d.dormant /\ r.reset = d.reset
      /\ r.wake = d.wake /\ r.timer = d.timer
  BY DEF Data, CarrierOff
<1>3. SameLinks(d, r) /\ SameDlci1(d, r)
  BY DEF Data, CarrierOff, SameLinks, SameDlci1
<1> QED
  BY <1>1, <1>2, <1>3

(* Leaving DORMANT takes the interface down and releases the chat and *)
(* PPP.                                                               *)
LEMMA DormantLeaveFacts ==
  ASSUME NEW d \in Data, Sound(d), d.state = "DORMANT"
  PROVE  DormantLeave(d) \in Data /\ Left(d, DormantLeave(d))
<1> DEFINE a == CarrierOff(d)
           b == ChatRelease(a)
           c == PppRelease(b)
           r == [c EXCEPT !.dormant = FALSE]
<1>1. /\ a \in Data /\ a.carrier = FALSE /\ a.state = d.state
      /\ a.sem = d.sem /\ a.reset = d.reset
      /\ a.wake = d.wake /\ a.timer = d.timer
  BY CarrierOffFacts
<1> HIDE DEF a
<1>2. b \in Data /\ SameMode(a, b) /\ b.timer = a.timer
  BY <1>1, ChatReleaseFacts
<1> HIDE DEF b
<1>3. c \in Data /\ SameMode(b, c) /\ c.timer = b.timer /\ c.ppp = FALSE
  BY <1>2, PppReleaseFacts
<1>4. DormantLeave(d) = r
  BY DEF DormantLeave, a, b
<1> HIDE DEF c
<1>5. r \in Data
  BY ZenonT(60), <1>3 DEF Data
<1>6. /\ r.dormant = FALSE /\ r.state = c.state /\ r.sem = c.sem
      /\ r.reset = c.reset /\ r.wake = c.wake /\ r.timer = c.timer
      /\ r.carrier = c.carrier /\ r.ppp = c.ppp
  BY <1>3 DEF Data
<1>7. d.sem \in {0, 1}
  BY FieldTypes DEF Tokens
<1> HIDE DEF r
<1> QED
  BY <1>1, <1>2, <1>3, <1>4, <1>5, <1>6, <1>7
  DEF Sound, Left, PppOwned, StoppedStates, SameMode

(* Leaving INIT_POWER_OFF tells the users and releases the chat and PPP. *)
LEMMA InitPowerOffLeaveFacts ==
  ASSUME NEW d \in Data, Sound(d), d.state = "INIT_POWER_OFF"
  PROVE  InitPowerOffLeave(d) \in Data /\ Left(d, InitPowerOffLeave(d))
<1> DEFINE a == [d EXCEPT !.users = FALSE]
           b == ChatRelease(a)
           c == PppRelease(b)
<1>1. a \in Data
  BY DEF Data
<1>2. SameMode(d, a) /\ a.timer = d.timer
  BY DEF Data, SameMode
<1> HIDE DEF a
<1>3. b \in Data /\ SameMode(a, b) /\ b.timer = a.timer
  BY <1>1, ChatReleaseFacts
<1> HIDE DEF b
<1>4. c \in Data /\ SameMode(b, c) /\ c.timer = b.timer /\ c.ppp = FALSE
  BY <1>3, PppReleaseFacts
<1>5. InitPowerOffLeave(d) = c
  BY DEF InitPowerOffLeave, a, b
<1>6. d.sem \in {0, 1}
  BY FieldTypes DEF Tokens
<1> HIDE DEF c
<1> QED
  BY <1>2, <1>3, <1>4, <1>5, <1>6
  DEF Sound, Left, PppOwned, StoppedStates, SameMode

(* on_state_leave establishes Left from every state. *)
LEMMA LeaveFacts ==
  ASSUME NEW d \in Data, Sound(d)
  PROVE  OnStateLeave(d) \in Data /\ Left(d, OnStateLeave(d))
<1> DEFINE r == OnStateLeave(d)
<1>1. CASE d.state = "IDLE"
  BY <1>1, IdleLeaveFacts DEF OnStateLeave
<1>2. CASE d.state = "RESET_PULSE"
  BY <1>2, ResetPulseLeaveFacts DEF OnStateLeave
<1>3. CASE d.state \in {"AWAIT_RESET", "POWER_ON_PULSE", "AWAIT_REGISTERED",
                        "CARRIER_ON", "POWER_OFF_PULSE"}
  <2>1. r = StopTimer(d)
    BY <1>3 DEF OnStateLeave
  <2>2. r \in Data /\ Same(d, r) /\ r.timer = "off"
    BY <2>1, StopTimerFacts
  <2>3. PppOwned(r) /\ (r.ppp => d.ppp)
    BY <2>2 DEF Sound, PppOwned, Same, SameLinks, SameDlci1
  <2> HIDE DEF r
  <2> QED
    BY <1>3, <2>2, <2>3, LeftPlain DEF Same, StoppedStates, r
<1>4. CASE d.state \in {"OPEN_DLCI1", "OPEN_DLCI2"}
  <2>1. PICK p \in {"DLCI1", "DLCI2"} : r = Release(d, p)
    BY <1>4 DEF OnStateLeave
  <2>2. r \in Data /\ SameMode(d, r) /\ SameLinks(d, r) /\ r.timer = d.timer
    BY <2>1, AttachFacts DEF Release, Owners
  <2>3. ~d.ppp /\ d.timer \notin StoppedStates
    BY <1>4 DEF Sound, PppStates, StoppedStates
  <2>4. PppOwned(r) /\ (r.ppp => d.ppp)
    BY <2>2, <2>3 DEF PppOwned, SameLinks
  <2> HIDE DEF r
  <2> QED
    BY <1>4, <2>2, <2>3, <2>4, LeftPlain DEF r
<1>5. CASE d.state \in {"RUN_DIAL_SCRIPT", "RUN_SHUTDOWN_SCRIPT"}
  <2>1. r = ChatRelease(d)
    BY <1>5 DEF OnStateLeave
  <2>2. r \in Data /\ SameMode(d, r) /\ r.ppp = d.ppp /\ r.timer = d.timer
    BY <2>1, ChatReleaseFacts
  <2>3. ~d.ppp /\ d.timer \notin StoppedStates
    BY <1>5 DEF Sound, PppStates, StoppedStates
  <2>4. PppOwned(r) /\ (r.ppp => d.ppp)
    BY <2>2, <2>3 DEF PppOwned
  <2> HIDE DEF r
  <2> QED
    BY <1>5, <2>2, <2>3, <2>4, LeftPlain DEF r
<1>6. CASE d.state = "DORMANT"
  BY <1>6, DormantLeaveFacts DEF OnStateLeave
<1>7. CASE d.state = "INIT_POWER_OFF"
  BY <1>7, InitPowerOffLeaveFacts DEF OnStateLeave
<1>8. CASE d.state \notin {"IDLE", "RESET_PULSE", "AWAIT_RESET",
                           "POWER_ON_PULSE", "AWAIT_REGISTERED", "CARRIER_ON",
                           "POWER_OFF_PULSE", "OPEN_DLCI1", "OPEN_DLCI2",
                           "RUN_DIAL_SCRIPT", "RUN_SHUTDOWN_SCRIPT",
                           "DORMANT", "INIT_POWER_OFF"}
  <2>1. r = d
    BY <1>8 DEF OnStateLeave
  <2>2. SameMode(d, d) /\ PppOwned(d) /\ d.timer \notin StoppedStates
    BY <1>8 DEF Sound, SameMode, StoppedStates
  <2> QED
    BY <1>8, <2>1, <2>2, LeftPlain
<1> QED
  BY <1>1, <1>2, <1>3, <1>4, <1>5, <1>6, <1>7, <1>8

-----------------------------------------------------------------------------
(* When a handler may call EnterState. *)
MayEnter(d, s) ==
  /\ s \in States
  /\ d.carrier => d.state = "DORMANT" \/ s = "DORMANT"
  /\ s = "DORMANT" => d.carrier /\ d.state # "DORMANT"
  /\ d.ppp => \/ d.state \in {"DORMANT", "INIT_POWER_OFF"}
              \/ s \in {"IDLE", "CARRIER_ON", "DORMANT", "INIT_POWER_OFF"}

(* The record between OnStateLeave and OnStateEnter. *)
Between(a, s) ==
  /\ a.state = s /\ a.sem = 0 /\ ~a.dormant /\ ~a.reset /\ a.wake
  /\ a.carrier <=> s = "DORMANT"
  /\ a.timer \notin StoppedStates
  /\ a.ppp => s \in {"IDLE", "CARRIER_ON", "DORMANT", "INIT_POWER_OFF"}
  /\ PppOwned(a)

Entered(r, s) ==
  /\ r.state = s /\ Sound(r)
  /\ s \in {"CARRIER_ON", "DORMANT"} => r.carrier

(* Leaving a state and storing the next one gives the record *)
(* on_state_enter starts from.                               *)
LEMMA BecomeFacts ==
  ASSUME NEW d \in Data, Sound(d), NEW s, MayEnter(d, s)
  PROVE  Become(d, s) \in Data /\ Between(Become(d, s), s)
<1> DEFINE a == OnStateLeave(d)
           r == Become(d, s)
<1>1. a \in Data /\ Left(d, a)
  BY LeaveFacts
<1>2. r = [a EXCEPT !.state = s, !.done = {}]
  BY DEF Become
<1> HIDE DEF a, r
<1>3. s \in States
  BY DEF MayEnter
<1>4. r \in Data
  BY ZenonT(60), <1>1, <1>2, <1>3 DEF Data
<1>5. /\ r.state = s /\ r.sem = a.sem /\ r.dormant = a.dormant
      /\ r.reset = a.reset /\ r.wake = a.wake /\ r.carrier = a.carrier
  BY <1>1, <1>2 DEF Data
<1>6. /\ r.timer = a.timer /\ r.ppp = a.ppp
      /\ r.cb = a.cb /\ r.chatPipe = a.chatPipe
  BY <1>1, <1>2 DEF Data
<1>7. a.carrier <=> s = "DORMANT"
  BY <1>1 DEF Left, MayEnter
<1>8. a.ppp => s \in {"IDLE", "CARRIER_ON", "DORMANT", "INIT_POWER_OFF"}
  BY <1>1 DEF Left, MayEnter
<1>9. Between(r, s)
  BY <1>1, <1>5, <1>6, <1>7, <1>8 DEF Left, Between, PppOwned
<1> QED
  BY <1>4, <1>9 DEF r

(* An enter function that touches neither the interface nor the pins *)
(* establishes Entered.                                              *)
LEMMA EnteredPlain ==
  ASSUME NEW s \in States \ {"IDLE", "RESET_PULSE", "DORMANT", "CARRIER_ON"},
         NEW a \in Data, Between(a, s),
         NEW r \in Data, SameMode(a, r), r.timer \in {a.timer, s},
         r.ppp => s \in PppStates, PppOwned(r)
  PROVE  Entered(r, s)
BY DEF Between, Entered, Sound, SameMode

(* The pins IDLE sets keep their types. *)
LEMMA ReleasePinsType ==
  ASSUME NEW d \in Data
  PROVE  [d EXCEPT !.wake = FALSE, !.users = FALSE,
                   !.reset = (HasResetGpio /\ HoldResetOnSuspend) \/ @] \in Data
<1>1. ASSUME NEW x \in BOOLEAN
      PROVE  [d EXCEPT !.wake = FALSE, !.users = FALSE, !.reset = x] \in Data
  BY ZenonT(60) DEF Data
<1>2. ((HasResetGpio /\ HoldResetOnSuspend) \/ d.reset) \in BOOLEAN
  OBVIOUS
<1> QED
  BY <1>1, <1>2

(* Entering IDLE releases the chat, PPP and CMUX, and gives the token. *)
LEMMA IdleEnterFacts ==
  ASSUME NEW a \in Data, Between(a, "IDLE")
  PROVE  IdleEnter(a) \in Data /\ Entered(IdleEnter(a), "IDLE")
<1> DEFINE b == ChatRelease(a)
           c == PppRelease(b)
           e == CmuxRelease(c)
           f == CloseAsync(e, "UART")
           g == [f EXCEPT !.wake = FALSE, !.users = FALSE,
                          !.reset = (HasResetGpio /\ HoldResetOnSuspend) \/ @]
           r == SemGive(g)
<1>1. /\ b \in Data /\ SameMode(a, b) /\ b.timer = a.timer
      /\ b.chatPipe = "none" /\ b.script = "none"
  BY ChatReleaseFacts
<1> HIDE DEF b
<1>2. /\ c \in Data /\ SameMode(b, c) /\ c.timer = b.timer
      /\ c.chatPipe = b.chatPipe /\ c.script = b.script /\ c.ppp = FALSE
  BY <1>1, PppReleaseFacts
<1> HIDE DEF c
<1>3. /\ e \in Data /\ SameMode(c, e) /\ e.timer = c.timer
      /\ e.chatPipe = c.chatPipe /\ e.script = c.script /\ e.ppp = c.ppp
      /\ e.cmux = "released"
  BY <1>2, CmuxReleaseFacts
<1> HIDE DEF e
<1>4. /\ f \in Data /\ SameMode(e, f) /\ f.timer = e.timer
      /\ SameLinks(e, f)
  BY <1>3, RequestFacts DEF CloseAsync, Same, Pipes
<1> HIDE DEF f
<1>5. IdleEnter(a) = r
  BY DEF IdleEnter, b, c, e, f
<1>6. g \in Data
  BY <1>4, ReleasePinsType
<1>7. /\ g.state = f.state /\ g.carrier = f.carrier /\ g.dormant = f.dormant
      /\ g.wake = FALSE /\ g.users = FALSE /\ g.reset = (Held \/ f.reset)
  BY <1>4 DEF Data, Held
<1>8. /\ g.timer = f.timer /\ g.chatPipe = f.chatPipe /\ g.script = f.script
      /\ g.cmux = f.cmux /\ g.ppp = f.ppp
  BY <1>4 DEF Data
<1> HIDE DEF g
<1>9. /\ r \in Data /\ r.timer = g.timer /\ r.state = g.state
      /\ r.carrier = g.carrier /\ r.dormant = g.dormant
      /\ r.reset = g.reset /\ r.wake = g.wake
      /\ SameLinks(g, r)
  BY <1>6, SemGiveFacts
<1> HIDE DEF r
<1>10. /\ r.state = "IDLE" /\ ~r.carrier /\ ~r.dormant /\ ~r.wake
       /\ r.timer \notin StoppedStates /\ ~r.ppp /\ ~r.users
       /\ r.chatPipe = "none" /\ r.script = "none" /\ r.cmux = "released"
  BY <1>1, <1>2, <1>3, <1>4, <1>7, <1>8, <1>9
  DEF Between, SameMode, SameLinks
<1>11. ~a.reset /\ f.reset = a.reset
  BY <1>1, <1>2, <1>3, <1>4 DEF Between, SameMode
<1>12. r.reset <=> Held
  BY <1>7, <1>9, <1>11
<1> QED
  BY <1>5, <1>9, <1>10, <1>12 DEF Entered, Sound, PppOwned
(* The pins RESET_PULSE sets keep their types. *)
LEMMA RaisePinsType ==
  ASSUME NEW d \in Data
  PROVE  [d EXCEPT !.wake = FALSE, !.reset = TRUE] \in Data
BY DEF Data

(* A baud rate update touches the UART's configuration only. *)
LEMMA BaudrateFacts ==
  ASSUME NEW d \in Data, NEW b \in {"initial", "new"}
  PROVE  /\ BaudrateUpdate(d, b) \in Data /\ Same(d, BaudrateUpdate(d, b))
         /\ BaudrateUpdate(d, b).timer = d.timer
<1>1. BaudrateUpdate(d, b) \in Data
  <2>1. [d EXCEPT !.baud = b] \in Data
    BY ZenonT(60) DEF Data
  <2> QED
    BY <2>1 DEF BaudrateUpdate
<1>2. SameMode(d, BaudrateUpdate(d, b)) /\ BaudrateUpdate(d, b).timer = d.timer
  BY DEF Data, BaudrateUpdate, SameMode
<1>3. SameLinks(d, BaudrateUpdate(d, b)) /\ SameDlci1(d, BaudrateUpdate(d, b))
  BY DEF Data, BaudrateUpdate, SameLinks, SameDlci1
<1> QED
  BY <1>1, <1>2, <1>3 DEF Same

(* Entering RESET_PULSE asserts the reset line, with the wake line *)
(* released.                                                       *)
LEMMA ResetPulseEnterFacts ==
  ASSUME NEW a \in Data, Between(a, "RESET_PULSE")
  PROVE  /\ ResetPulseEnter(a) \in Data
         /\ Entered(ResetPulseEnter(a), "RESET_PULSE")
<1> DEFINE b == IF a.originalBaud # "none"
                THEN BaudrateUpdate(a, a.originalBaud) ELSE a
           c == [b EXCEPT !.wake = FALSE, !.reset = TRUE]
           r == StartTimer(c)
<1>1. b \in Data /\ Same(a, b) /\ b.timer = a.timer
  BY BaudrateFacts, FieldTypes DEF Same, SameMode, SameLinks, SameDlci1
<1>2. ResetPulseEnter(a) = r
  BY DEF ResetPulseEnter
<1> HIDE DEF b
<1>3. c \in Data
  BY <1>1, RaisePinsType
<1>4. /\ c.state = b.state /\ c.sem = b.sem /\ c.carrier = b.carrier
      /\ c.dormant = b.dormant /\ c.wake = FALSE /\ c.reset = TRUE
      /\ c.timer = b.timer /\ c.ppp = b.ppp
  BY <1>1 DEF Data
<1> HIDE DEF c
<1>5. r \in Data /\ SameMode(c, r) /\ r.ppp = c.ppp
      /\ (r.timer = c.timer \/ r.timer = c.state)
  BY <1>3, StartTimerFacts DEF Same, SameLinks
<1> HIDE DEF r
<1>6. /\ r.state = "RESET_PULSE" /\ r.sem = 0 /\ ~r.carrier /\ ~r.dormant
      /\ ~r.wake /\ r.reset /\ ~r.ppp
  BY <1>1, <1>4, <1>5 DEF Between, Same, SameMode, SameLinks
<1>7. r.timer \in StoppedStates => r.timer = "RESET_PULSE"
  BY <1>1, <1>4, <1>5 DEF Between, Same, SameMode
<1> QED
  BY <1>2, <1>5, <1>6, <1>7 DEF Entered, Sound, PppOwned

(* Entering CARRIER_ON raises the carrier. *)
LEMMA CarrierOnEnterFacts ==
  ASSUME NEW a \in Data, Between(a, "CARRIER_ON")
  PROVE  CarrierOnEnter(a) \in Data /\ Entered(CarrierOnEnter(a), "CARRIER_ON")
<1> DEFINE b == [a EXCEPT !.carrier = TRUE, !.pppLive = TRUE]
           r == StartTimer(b)
<1>1. b \in Data
  BY DEF Data
<1>2. /\ b.state = a.state /\ b.sem = a.sem /\ b.carrier = TRUE
      /\ b.dormant = a.dormant /\ b.wake = a.wake /\ b.reset = a.reset
      /\ b.timer = a.timer
  BY DEF Data
<1>3. b.ppp = a.ppp /\ b.chatPipe = a.chatPipe /\ b.cb = a.cb
  BY DEF Data
<1>4. CarrierOnEnter(a) = r
  BY DEF CarrierOnEnter
<1> HIDE DEF b
<1>5. r \in Data /\ Same(b, r) /\ (r.timer = b.timer \/ r.timer = b.state)
  BY <1>1, StartTimerFacts
<1> HIDE DEF r
<1>6. PppOwned(r)
  BY <1>3, <1>5 DEF Between, PppOwned, Same, SameLinks, SameDlci1
<1>7. /\ r.state = "CARRIER_ON" /\ r.sem = 0 /\ r.carrier /\ ~r.dormant
      /\ r.wake /\ ~r.reset
  BY <1>2, <1>5 DEF Between, Same, SameMode
<1>8. r.timer \in StoppedStates => r.timer = "CARRIER_ON"
  BY <1>2, <1>5 DEF Between
<1> QED
  BY <1>4, <1>5, <1>6, <1>7, <1>8 DEF Entered, Sound, PppStates

(* Entering DORMANT marks the interface dormant, with its carrier on. *)
LEMMA DormantEnterFacts ==
  ASSUME NEW a \in Data, Between(a, "DORMANT"), NEW r,
         r = [a EXCEPT !.dormant = TRUE]
  PROVE  r \in Data /\ Entered(r, "DORMANT")
<1>1. r \in Data
  BY ZenonT(60) DEF Data
<1>2. /\ r.state = a.state /\ r.sem = a.sem /\ r.carrier = a.carrier
      /\ r.dormant = TRUE /\ r.wake = a.wake /\ r.reset = a.reset
      /\ r.timer = a.timer
  BY DEF Data
<1>3. r.ppp = a.ppp /\ r.chatPipe = a.chatPipe /\ r.cb = a.cb
  BY DEF Data
<1> QED
  BY <1>1, <1>2, <1>3 DEF Between, Entered, Sound, PppOwned, PppStates

(* Entering AWAIT_REGISTERED attaches PPP to DLCI1 first, so the chat *)
(* must be elsewhere.                                                 *)
LEMMA AwaitRegisteredEnterFacts ==
  ASSUME NEW a \in Data, Between(a, "AWAIT_REGISTERED")
  PROVE  /\ AwaitRegisteredEnter(a) \in Data
         /\ Entered(AwaitRegisteredEnter(a), "AWAIT_REGISTERED")
<1> DEFINE b == PppAttach(a)
           c == IF IsRegistered(a) THEN Delegate(b, "REGISTERED") ELSE b
           e == StartTimer(c)
           r == ChatAttach(e, "DLCI2")
<1>1. a.ppp = FALSE
  BY FlagTypes DEF Between
<1>2. /\ b \in Data /\ SameMode(a, b) /\ b.timer = a.timer
      /\ b.ppp = TRUE /\ b.cb["DLCI1"] = "ppp"
  BY <1>1, PppAttachFacts
<1> HIDE DEF b
<1>3. c \in Data /\ Same(b, c) /\ c.timer = b.timer
  BY <1>2, DelegateFacts DEF Events, Same, SameMode, SameLinks, SameDlci1
<1> HIDE DEF c
<1>4. e \in Data /\ Same(c, e) /\ (e.timer = c.timer \/ e.timer = c.state)
  BY <1>3, StartTimerFacts
<1> HIDE DEF e
<1>5. /\ r \in Data /\ SameMode(e, r) /\ r.timer = e.timer
      /\ r.chatPipe = "DLCI2" /\ r.ppp = e.ppp /\ SameDlci1(e, r)
  BY <1>4, ChatAttachFacts DEF Pipes
<1>6. AwaitRegisteredEnter(a) = r
  BY DEF AwaitRegisteredEnter, b, c, e
<1> HIDE DEF r
<1>7. SameMode(a, r) /\ (r.timer = a.timer \/ r.timer = a.state)
  BY <1>2, <1>3, <1>4, <1>5 DEF Same, SameMode
<1>8. PppOwned(r)
  BY <1>2, <1>3, <1>4, <1>5 DEF PppOwned, Same, SameLinks, SameDlci1
<1>9. r.timer \in {a.timer, "AWAIT_REGISTERED"}
  BY <1>7 DEF Between
<1> QED
  BY <1>5, <1>6, <1>7, <1>8, <1>9, EnteredPlain DEF States, PppStates

(* Entering RUN_SHUTDOWN_SCRIPT moves the chat to the command pipe. *)
LEMMA RunShutdownEnterFacts ==
  ASSUME NEW a \in Data, Between(a, "RUN_SHUTDOWN_SCRIPT"),
         NEW r, r = RunScript(ChatAttach(a, a.cmdPipe), "shutdown")
  PROVE  r \in Data /\ Entered(r, "RUN_SHUTDOWN_SCRIPT")
<1> DEFINE b == ChatAttach(a, a.cmdPipe)
<1>1. b \in Data /\ SameMode(a, b) /\ b.timer = a.timer /\ b.ppp = a.ppp
  BY FieldTypes, ChatAttachFacts
<1> HIDE DEF b
<1>2. r \in Data /\ SameMode(b, r) /\ r.timer = b.timer /\ r.ppp = b.ppp
  BY <1>1, RunScriptFacts DEF Scripts, b
<1>3. SameMode(a, r) /\ r.timer = a.timer
  BY <1>1, <1>2 DEF SameMode
<1>4. ~r.ppp /\ PppOwned(r)
  BY <1>1, <1>2 DEF Between, PppOwned
<1> QED
  BY <1>2, <1>3, <1>4, EnteredPlain DEF States

(* Entering POWER_OFF_PULSE arms the timer the state owns. *)
LEMMA PowerOffPulseEnterFacts ==
  ASSUME NEW a \in Data, Between(a, "POWER_OFF_PULSE"),
         NEW r, r = StartTimer([a EXCEPT !.cmdPipe = "none"])
  PROVE  r \in Data /\ Entered(r, "POWER_OFF_PULSE")
<1> DEFINE b == [a EXCEPT !.cmdPipe = "none"]
<1>1. b \in Data
  BY DEF Data
<1>2. SameMode(a, b) /\ b.timer = a.timer /\ b.ppp = a.ppp
  BY DEF Data, SameMode
<1> HIDE DEF b
<1>3. r \in Data /\ Same(b, r) /\ (r.timer = b.timer \/ r.timer = b.state)
  BY <1>1, StartTimerFacts DEF b
<1>4. SameMode(a, r) /\ r.timer \in {a.timer, "POWER_OFF_PULSE"}
  BY <1>2, <1>3 DEF Between, Same, SameMode
<1>5. ~r.ppp /\ PppOwned(r)
  BY <1>2, <1>3 DEF Between, PppOwned, Same, SameLinks
<1> QED
  BY <1>3, <1>4, <1>5, EnteredPlain DEF States

(* The script built from an APN keeps its type. *)
LEMMA ApnScriptType ==
  ASSUME NEW d \in Data, NEW name \in Apns \cup {"none"}
  PROVE  [d EXCEPT !.apnScript = name] \in Data
BY ZenonT(60) DEF Data

(* Entering RUN_APN_SCRIPT builds the script and arms the timer or *)
(* attaches the chat.                                              *)
LEMMA RunApnEnterFacts ==
  ASSUME NEW a \in Data, Between(a, "RUN_APN_SCRIPT"),
         NEW r, r = BuildApnScript(StartTimer(a))
  PROVE  r \in Data /\ Entered(r, "RUN_APN_SCRIPT")
<1> DEFINE b == StartTimer(a)
           name == IF UseDefaultApn THEN "none" ELSE b.apn
<1>1. b \in Data /\ Same(a, b) /\ (b.timer = a.timer \/ b.timer = a.state)
  BY StartTimerFacts
<1>2. r = [b EXCEPT !.apnScript = name]
  BY DEF BuildApnScript
<1> HIDE DEF b
<1>3. name \in Apns \cup {"none"}
  BY <1>1, FieldTypes
<1> HIDE DEF name
<1>4. r \in Data
  BY <1>1, <1>2, <1>3, ApnScriptType
<1>5. SameMode(b, r) /\ r.timer = b.timer /\ r.ppp = b.ppp
  BY <1>1, <1>2 DEF Data, SameMode
<1>6. SameMode(a, r) /\ r.timer \in {a.timer, "RUN_APN_SCRIPT"}
  BY <1>1, <1>5 DEF Between, Same, SameMode
<1>7. ~r.ppp /\ PppOwned(r)
  BY <1>1, <1>5 DEF Between, PppOwned, Same, SameLinks
<1> QED
  BY <1>4, <1>6, <1>7, EnteredPlain DEF States

(* The other states only arm the timer or request pipes. *)
LEMMA EnterLinksFacts ==
  ASSUME NEW s \in {"AWAIT_POWER_ON", "SET_BAUDRATE", "RUN_INIT_SCRIPT",
                    "OPEN_DLCI1", "OPEN_DLCI2", "INIT_POWER_OFF"},
         NEW a \in Data, Between(a, s)
  PROVE  OnStateEnter(a) \in Data /\ Entered(OnStateEnter(a), s)
<1> DEFINE r == OnStateEnter(a)
<1>0. a.state = s
  BY DEF Between
<1>1. CASE s = "AWAIT_POWER_ON"
  <2>1. r = OpenBus(StartTimer(a))
    BY <1>0, <1>1 DEF OnStateEnter, AwaitPowerOnEnter
  <2>2. /\ StartTimer(a) \in Data /\ Same(a, StartTimer(a))
        /\ StartTimer(a).timer \in {a.timer, s}
    BY <1>0, StartTimerFacts
  <2>3. r \in Data /\ Same(StartTimer(a), r) /\ r.timer = StartTimer(a).timer
    BY <2>1, <2>2, BusFacts
  <2>4. SameMode(a, r) /\ ~r.ppp /\ PppOwned(r) /\ r.timer \in {a.timer, s}
    BY <1>1, <2>2, <2>3
    DEF Between, PppOwned, Same, SameMode, SameLinks
  <2> HIDE DEF r
  <2> QED
    BY <1>1, <2>3, <2>4, EnteredPlain DEF States, r
<1>2. CASE s \in {"SET_BAUDRATE", "RUN_INIT_SCRIPT"}
  <2>1. r = OpenBus(a)
    BY <1>0, <1>2 DEF OnStateEnter
  <2>2. r \in Data /\ Same(a, r) /\ r.timer = a.timer
    BY <2>1, BusFacts
  <2>3. SameMode(a, r) /\ ~r.ppp /\ PppOwned(r)
    BY <1>2, <2>2 DEF Between, PppOwned, Same, SameLinks
  <2> HIDE DEF r
  <2> QED
    BY <1>2, <2>2, <2>3, EnteredPlain DEF States, r
<1>3. CASE s \in {"OPEN_DLCI1", "OPEN_DLCI2"}
  <2>1. PICK p \in Dlcis : r = OpenAsync(Attach(a, p, "driver"), p)
    BY <1>0, <1>3 DEF OnStateEnter, Dlcis
  <2> DEFINE b == Attach(a, p, "driver")
  <2>2. b \in Data /\ SameMode(a, b) /\ b.timer = a.timer /\ b.ppp = a.ppp
    BY AttachFacts DEF Owners, SameLinks
  <2> HIDE DEF b
  <2>3. r \in Data /\ Same(b, r) /\ r.timer = b.timer
    BY <2>1, <2>2, RequestFacts DEF OpenAsync, b, Pipes, Dlcis
  <2>4. SameMode(a, r) /\ ~r.ppp /\ PppOwned(r) /\ r.timer = a.timer
    BY <1>3, <2>2, <2>3 DEF Between, PppOwned, Same, SameMode, SameLinks
  <2> HIDE DEF r
  <2> QED
    BY <1>3, <2>3, <2>4, EnteredPlain DEF States, r
<1>4. CASE s = "INIT_POWER_OFF"
  <2> DEFINE b == CmuxDisconnect(a)
  <2>1. r = StartTimer(b)
    BY <1>0, <1>4 DEF OnStateEnter, InitPowerOffEnter
  <2>2. /\ b \in Data /\ SameMode(a, b) /\ SameDlci1(a, b)
        /\ b.timer = a.timer /\ b.chatPipe = a.chatPipe /\ b.ppp = a.ppp
    BY CmuxFacts
  <2> HIDE DEF b
  <2>3. r \in Data /\ Same(b, r) /\ (r.timer = b.timer \/ r.timer = b.state)
    BY <2>1, <2>2, StartTimerFacts
  <2>4. SameMode(a, r) /\ PppOwned(r) /\ r.timer \in {a.timer, s}
    BY <1>0, <2>2, <2>3
    DEF Between, PppOwned, Same, SameMode, SameLinks, SameDlci1
  <2> HIDE DEF r
  <2> QED
    BY <1>4, <2>3, <2>4, EnteredPlain DEF States, PppStates, r
<1> QED
  BY <1>1, <1>2, <1>3, <1>4

(* The rest arm the timer, or do nothing. *)
LEMMA EnterTimerFacts ==
  ASSUME NEW s \in {"AWAIT_RESET", "POWER_ON_PULSE", "CONNECT_CMUX",
                    "RUN_DIAL_SCRIPT", "AWAIT_POWER_OFF", "WAIT_FOR_APN"},
         NEW a \in Data, Between(a, s)
  PROVE  OnStateEnter(a) \in Data /\ Entered(OnStateEnter(a), s)
<1> DEFINE r == OnStateEnter(a)
<1>1. r = StartTimer(a) \/ r = a
  BY DEF Between, OnStateEnter
<1>2. r \in Data /\ Same(a, r) /\ r.timer \in {a.timer, s}
  BY ZenonT(60), <1>1, StartTimerFacts
  DEF Between, Same, SameMode, SameLinks, SameDlci1
<1>3. SameMode(a, r) /\ ~r.ppp /\ PppOwned(r)
  BY <1>2 DEF Between, PppOwned, Same, SameLinks
<1> HIDE DEF r
<1> QED
  BY <1>2, <1>3, EnteredPlain DEF States, r

(* enter_state establishes the invariant in the state entered, when *)
(* MayEnter allows it.                                              *)
LEMMA EnterStateFacts ==
  ASSUME NEW d \in Data, Sound(d), NEW s, MayEnter(d, s)
  PROVE  EnterState(d, s) \in Data /\ Entered(EnterState(d, s), s)
<1> DEFINE a == Become(d, s)
<1>1. a \in Data /\ Between(a, s)
  BY BecomeFacts
<1>2. EnterState(d, s) = OnStateEnter(a)
  BY DEF EnterState
<1> HIDE DEF a
<1>3. a.state = s /\ s \in States
  BY <1>1 DEF Between, MayEnter
<1>4. CASE s = "IDLE"
  BY <1>1, <1>2, <1>3, <1>4, IdleEnterFacts DEF OnStateEnter
<1>5. CASE s = "RESET_PULSE"
  BY <1>1, <1>2, <1>3, <1>5, ResetPulseEnterFacts DEF OnStateEnter
<1>6. CASE s = "CARRIER_ON"
  BY <1>1, <1>2, <1>3, <1>6, CarrierOnEnterFacts DEF OnStateEnter
<1>7. CASE s = "DORMANT"
  BY <1>1, <1>2, <1>3, <1>7, DormantEnterFacts DEF OnStateEnter
<1>8. CASE s = "AWAIT_REGISTERED"
  BY <1>1, <1>2, <1>3, <1>8, AwaitRegisteredEnterFacts DEF OnStateEnter
<1>9. CASE s = "RUN_SHUTDOWN_SCRIPT"
  BY <1>1, <1>2, <1>3, <1>9, RunShutdownEnterFacts DEF OnStateEnter
<1>10. CASE s = "POWER_OFF_PULSE"
  BY <1>1, <1>2, <1>3, <1>10, PowerOffPulseEnterFacts DEF OnStateEnter
<1>11. CASE s = "RUN_APN_SCRIPT"
  BY <1>1, <1>2, <1>3, <1>11, RunApnEnterFacts DEF OnStateEnter
<1>12. CASE s \in {"AWAIT_POWER_ON", "SET_BAUDRATE", "RUN_INIT_SCRIPT",
                   "OPEN_DLCI1", "OPEN_DLCI2", "INIT_POWER_OFF"}
  BY <1>1, <1>2, <1>12, EnterLinksFacts
<1>13. CASE s \in {"AWAIT_RESET", "POWER_ON_PULSE", "CONNECT_CMUX",
                   "RUN_DIAL_SCRIPT", "AWAIT_POWER_OFF", "WAIT_FOR_APN"}
  BY <1>1, <1>2, <1>13, EnterTimerFacts
<1> QED
  BY <1>3, <1>4, <1>5, <1>6, <1>7, <1>8, <1>9, <1>10, <1>11, <1>12, <1>13
  DEF States

-----------------------------------------------------------------------------
(* The part of the invariant that speaks of the data. *)
Good(d) == Sound(d) /\ (d.state \in {"CARRIER_ON", "DORMANT"} => d.carrier)
GoodData(d) == d \in Data /\ Good(d)

(* enter_state, where it may be called, ends in the state asked for and *)
(* in a good record.                                                    *)
LEMMA EnterGood ==
  ASSUME NEW d \in Data, Sound(d), NEW s, MayEnter(d, s)
  PROVE  GoodData(EnterState(d, s)) /\ EnterState(d, s).state = s
BY EnterStateFacts DEF Entered, Good, GoodData

(* Away from AWAIT_REGISTERED and CARRIER_ON every state but DORMANT may be *)
(* entered.                                                                 *)
LEMMA EnterOffline ==
  ASSUME NEW d, GoodData(d), d.state \notin {"AWAIT_REGISTERED", "CARRIER_ON"},
         NEW s \in States \ {"DORMANT"}
  PROVE  GoodData(EnterState(d, s)) /\ EnterState(d, s).state = s
<1>1. MayEnter(d, s)
  BY DEF GoodData, Good, Sound, MayEnter, PppStates
<1> QED
  BY <1>1, EnterGood DEF GoodData, Good

(* From AWAIT_REGISTERED the handler enters these states only. *)
LEMMA EnterFromRegistered ==
  ASSUME NEW d, GoodData(d), d.state = "AWAIT_REGISTERED",
         NEW s \in {"IDLE", "CARRIER_ON", "INIT_POWER_OFF"}
  PROVE  GoodData(EnterState(d, s)) /\ EnterState(d, s).state = s
<1>1. MayEnter(d, s)
  BY DEF GoodData, Good, Sound, MayEnter, States
<1> QED
  BY <1>1, EnterGood DEF GoodData, Good

(* A step that changes no mode, link or owner, and arms no other state's *)
(* timer, keeps the record good.                                         *)
LEMMA GoodFrame ==
  ASSUME NEW d, GoodData(d), NEW r \in Data, Same(d, r),
         r.timer \in {d.timer, d.state, "off"}
  PROVE  GoodData(r)
BY DEF GoodData, Good, Sound, PppOwned, StoppedStates, Same, SameMode, SameLinks, SameDlci1

(* Outside IDLE the links may change as long as PPP keeps DLCI1. *)
LEMMA GoodLinks ==
  ASSUME NEW d, GoodData(d), d.state # "IDLE", NEW r \in Data, SameMode(d, r),
         r.timer = d.timer, r.ppp => d.ppp, PppOwned(r)
  PROVE  GoodData(r)
BY DEF GoodData, Good, Sound, SameMode

(* Reading the event pipe takes one event and changes nothing else. *)
LEMMA TakenFacts ==
  ASSUME GoodData(data), data.events # <<>>
  PROVE  /\ GoodData(Taken) /\ Same(data, Taken) /\ Taken.timer = data.timer
         /\ Taken \in Data /\ Event \in Events
<1>1. Tail(data.events) \in Seq(Events) /\ Event \in Events
  BY FieldTypes DEF Event, GoodData
<1>2. Taken \in Data
  <2>1. ASSUME NEW d \in Data, NEW q \in Seq(Events)
        PROVE  [d EXCEPT !.events = q] \in Data
    BY DEF Data
  <2> QED
    BY <1>1, <2>1 DEF Taken, GoodData
<1>3. SameMode(data, Taken) /\ Taken.timer = data.timer
  BY DEF Data, GoodData, Taken, SameMode
<1>4. SameLinks(data, Taken) /\ SameDlci1(data, Taken)
  BY DEF Data, GoodData, Taken, SameLinks, SameDlci1
<1>5. GoodData(Taken)
  BY <1>2, <1>3, <1>4, GoodFrame DEF Same
<1> QED
  BY <1>1, <1>2, <1>3, <1>4, <1>5 DEF Same

(* Counting a script's failure or success changes the counter only, which *)
(* stays below its limit.                                                 *)
LEMMA CounterFacts ==
  ASSUME NEW d, GoodData(d), NEW r,
         \/ r = ScriptSuccess(d)
         \/ r = ScriptFailed(d) /\ ~RetryExceeded(d)
  PROVE  GoodData(r) /\ Same(d, r) /\ r.timer = d.timer
<1>1. PICK n \in FailureCounts : r = [d EXCEPT !.failures = n]
  BY FieldTypes
  DEF ScriptSuccess, ScriptFailed, RetryExceeded, FailureCounts,
      MaxScriptFailures, GoodData
<1>2. r \in Data
  BY ZenonT(60), <1>1 DEF Data, GoodData
<1>3. SameMode(d, r) /\ r.timer = d.timer
  BY <1>1 DEF Data, GoodData, SameMode
<1>4. SameLinks(d, r) /\ SameDlci1(d, r)
  BY <1>1 DEF Data, GoodData, SameLinks, SameDlci1
<1> QED
  BY <1>2, <1>3, <1>4, GoodFrame DEF Same

(* Arming the state's own timer and disarming any keep the record good. *)
LEMMA TimerGood ==
  ASSUME NEW d, GoodData(d)
  PROVE  /\ GoodData(StartTimer(d)) /\ StartTimer(d).state = d.state
         /\ GoodData(StopTimer(d)) /\ StopTimer(d).state = d.state
<1>1. GoodData(StartTimer(d))
  BY StartTimerFacts, GoodFrame DEF GoodData
<1>2. GoodData(StopTimer(d))
  BY StopTimerFacts, GoodFrame DEF GoodData
<1> QED
  BY <1>1, <1>2, StartTimerFacts, StopTimerFacts DEF GoodData, Same, SameMode

(* Queueing an event keeps the record good. *)
LEMMA DelegateGood ==
  ASSUME NEW d, GoodData(d), NEW e \in Events
  PROVE  GoodData(Delegate(d, e)) /\ Delegate(d, e).state = d.state
BY DelegateFacts, GoodFrame DEF GoodData, Same, SameMode

(* So does requesting a pipe to open or close, *)
LEMMA RequestGood ==
  ASSUME NEW d, GoodData(d), NEW p \in Pipes, NEW op \in {"open", "close"}
  PROVE  GoodData(Request(d, p, op)) /\ Request(d, p, op).state = d.state
BY RequestFacts, GoodFrame DEF GoodData, Same, SameMode

(* and opening or closing the bus. *)
LEMMA BusGood ==
  ASSUME NEW d, GoodData(d), NEW r \in {OpenBus(d), CloseBus(d)}
  PROVE  GoodData(r) /\ r.state = d.state
BY BusFacts, GoodFrame DEF GoodData, Same, SameMode

(* The chat is attached to DLCI1 only while PPP is not. *)
LEMMA ChatAttachGood ==
  ASSUME NEW d, GoodData(d), d.state \notin PppStates \cup {"IDLE"},
         NEW p \in Pipes
  PROVE  GoodData(ChatAttach(d, p)) /\ ChatAttach(d, p).state = d.state
<1>1. ~d.ppp
  BY DEF GoodData, Good, Sound
<1>2. /\ ChatAttach(d, p) \in Data /\ SameMode(d, ChatAttach(d, p))
      /\ ChatAttach(d, p).timer = d.timer /\ ChatAttach(d, p).ppp = d.ppp
  BY ChatAttachFacts DEF GoodData
<1> QED
  BY <1>1, <1>2, GoodLinks DEF PppOwned, SameMode

(* Releasing the chat keeps the record good: with PPP attached the chat *)
(* is not on DLCI1.                                                     *)
LEMMA ChatReleaseGood ==
  ASSUME NEW d, GoodData(d)
  PROVE  GoodData(ChatRelease(d)) /\ ChatRelease(d).state = d.state
<1> DEFINE r == ChatRelease(d)
<1>1. /\ r \in Data /\ SameMode(d, r) /\ r.timer = d.timer
      /\ r.chatPipe = "none" /\ r.script = "none"
      /\ r.cmux = d.cmux /\ r.ppp = d.ppp /\ r.users = d.users
      /\ d.chatPipe # "DLCI1" => SameDlci1(d, r)
  BY ChatReleaseFacts DEF GoodData
<1> HIDE DEF r
<1> QED
  BY <1>1 DEF GoodData, Good, Sound, PppOwned, SameMode, SameDlci1, r

(* Running a script keeps the record good: an idle modem's chat has no *)
(* pipe to run it on.                                                  *)
LEMMA RunScriptGood ==
  ASSUME NEW d, GoodData(d), NEW s \in Scripts
  PROVE  GoodData(RunScript(d, s)) /\ RunScript(d, s).state = d.state
<1> DEFINE r == RunScript(d, s)
<1>1. /\ r \in Data /\ SameMode(d, r) /\ r.timer = d.timer
      /\ SameDlci1(d, r) /\ r.chatPipe = d.chatPipe
      /\ d.chatPipe = "none" => r.script = d.script
      /\ r.cmux = d.cmux /\ r.ppp = d.ppp /\ r.users = d.users
  BY RunScriptFacts DEF GoodData
<1> HIDE DEF r
<1> QED
  BY <1>1 DEF GoodData, Good, Sound, PppOwned, SameMode, SameDlci1, r

(* The token may be given in IDLE. *)
LEMMA SemGiveIdle ==
  ASSUME NEW d, GoodData(d), d.state = "IDLE"
  PROVE  GoodData(SemGive(d))
<1> DEFINE r == SemGive(d)
<1>1. /\ r \in Data /\ r.timer = d.timer /\ r.state = d.state
      /\ r.carrier = d.carrier /\ r.dormant = d.dormant
      /\ r.reset = d.reset /\ r.wake = d.wake
      /\ SameLinks(d, r) /\ SameDlci1(d, r)
  BY SemGiveFacts DEF GoodData
<1> HIDE DEF r
<1> QED
  BY <1>1 DEF GoodData, Good, Sound, PppOwned, SameLinks, SameDlci1, r

(* Fields that Good does not look at. *)
LEMMA CmdPipeGood ==
  ASSUME NEW d, GoodData(d), NEW p \in Pipes \cup {"none"}
  PROVE  GoodData([d EXCEPT !.cmdPipe = p]) /\ [d EXCEPT !.cmdPipe = p].state = d.state
<1> DEFINE r == [d EXCEPT !.cmdPipe = p]
<1>1. r \in Data
  BY DEF Data, GoodData
<1>2. SameMode(d, r) /\ r.timer = d.timer
  BY DEF Data, GoodData, SameMode
<1>3. SameLinks(d, r) /\ SameDlci1(d, r)
  BY DEF Data, GoodData, SameLinks, SameDlci1
<1> HIDE DEF r
<1> QED
  BY <1>1, <1>2, <1>3, GoodFrame DEF Same, SameMode, r

(* The flag that remembers a recovery is free to change. *)
LEMMA RecoveredGood ==
  ASSUME NEW d, GoodData(d)
  PROVE  GoodData([d EXCEPT !.recovered = TRUE])
<1> DEFINE r == [d EXCEPT !.recovered = TRUE]
<1>1. r \in Data
  BY DEF Data, GoodData
<1>2. SameMode(d, r) /\ r.timer = d.timer
  BY DEF Data, GoodData, SameMode
<1>3. SameLinks(d, r) /\ SameDlci1(d, r)
  BY DEF Data, GoodData, SameLinks, SameDlci1
<1> HIDE DEF r
<1> QED
  BY <1>1, <1>2, <1>3, GoodFrame DEF Same, r

(* The users are told of a connection while CONNECT_CMUX is left. *)
LEMMA UsersGood ==
  ASSUME NEW d, GoodData(d), d.state = "CONNECT_CMUX"
  PROVE  /\ GoodData([d EXCEPT !.users = TRUE])
         /\ [d EXCEPT !.users = TRUE].state = "CONNECT_CMUX"
<1> DEFINE r == [d EXCEPT !.users = TRUE]
<1>1. r \in Data
  BY DEF Data, GoodData
<1>2. SameMode(d, r) /\ r.timer = d.timer /\ r.ppp = d.ppp
  BY DEF Data, GoodData, SameMode
<1>3. ~d.ppp
  BY DEF GoodData, Good, Sound, PppStates
<1> HIDE DEF r
<1> QED
  BY <1>1, <1>2, <1>3, GoodLinks DEF SameMode, PppOwned, r

(* The remembered baud rate keeps its type. *)
LEMMA OriginalBaudType ==
  ASSUME NEW d \in Data, NEW old \in {"none", "initial", "new"}
  PROVE  [d EXCEPT !.originalBaud = old] \in Data
BY ZenonT(60) DEF Data

(* Switching to the new baud rate keeps the record good. *)
LEMMA BaudGood ==
  ASSUME NEW d, GoodData(d), NEW old \in {"none", "initial", "new"}, NEW r,
         r = [BaudrateUpdate(d, "new") EXCEPT !.originalBaud = old]
  PROVE  GoodData(r)
<1> DEFINE b == BaudrateUpdate(d, "new")
<1>1. b \in Data /\ Same(d, b) /\ b.timer = d.timer
  BY BaudrateFacts DEF GoodData
<1>2. r = [b EXCEPT !.originalBaud = old]
  OBVIOUS
<1> HIDE DEF b
<1>3. r \in Data
  BY ZenonT(60), <1>1, <1>2, OriginalBaudType
<1>4. SameMode(b, r) /\ r.timer = b.timer
  BY <1>1, <1>2 DEF Data, SameMode
<1>5. SameLinks(b, r) /\ SameDlci1(b, r)
  BY <1>1, <1>2 DEF Data, SameLinks, SameDlci1
<1>6. Same(d, r) /\ r.timer = d.timer
  BY <1>1, <1>4, <1>5 DEF Same, SameMode, SameLinks, SameDlci1
<1> QED
  BY <1>3, <1>6, GoodFrame

(* The multiplexer may be driven in every state but IDLE. *)
LEMMA CmuxGood ==
  ASSUME NEW d, GoodData(d), d.state # "IDLE",
         NEW r \in {CmuxAttach(d), CmuxConnect(d), CmuxDisconnect(d)}
  PROVE  GoodData(r) /\ r.state = d.state
<1>1. /\ r \in Data /\ SameMode(d, r) /\ SameDlci1(d, r)
      /\ r.timer = d.timer /\ r.chatPipe = d.chatPipe /\ r.ppp = d.ppp
  BY CmuxFacts DEF GoodData
<1>2. PppOwned(r)
  BY <1>1 DEF GoodData, Good, Sound, PppOwned, SameDlci1
<1> QED
  BY <1>1, <1>2, GoodLinks DEF SameMode

----------------------------------------------------------------------------
(* A handler starts from the record without the event it took, still in *)
(* its own state.                                                       *)
LEMMA InFacts ==
  ASSUME GoodData(data), NEW s, In(s)
  PROVE  /\ GoodData(Taken) /\ Taken.state = s /\ data.state = s
         /\ Taken \in Data /\ Event \in Events
BY TakenFacts DEF In, Same, SameMode

(* A script that succeeded resets the counter only. *)
LEMMA CountResetGood ==
  ASSUME GoodData(Taken)
  PROVE  GoodData(CountReset) /\ CountReset.state = Taken.state
BY CounterFacts DEF CountReset, Same, SameMode

(* A failed script either retries, arming the state's timer, or does what *)
(* the handler does when retries are exhausted.                           *)
LEMMA RetryGood ==
  ASSUME GoodData(Taken), NEW x, GoodData(x), RetryOr(x)
  PROVE  GoodData(data')
<1>1. CASE RetryExceeded(Taken)
  BY <1>1 DEF RetryOr
<1>2. CASE ~RetryExceeded(Taken)
  BY <1>2, CounterFacts, TimerGood DEF RetryOr
<1> QED
  BY <1>1, <1>2

(* A handler that gives up queues a SUSPEND for itself. *)
LEMMA RequestSuspendGood ==
  ASSUME GoodData(Taken)
  PROVE  GoodData(RequestSuspend)
BY CountResetGood, DelegateGood DEF RequestSuspend, Events

(* The IDLE handler resumes the modem or gives the token again. *)
LEMMA IdleHandlerGood ==
  ASSUME GoodData(data), IdleHandler
  PROVE  GoodData(data')
<1>1. GoodData(Taken) /\ Taken.state = "IDLE"
  BY InFacts DEF IdleHandler
<1>2. CASE data' = EnterState(Taken, ResumeState)
  <2>1. ResumeState \in States \ {"DORMANT"}
    BY DEF ResumeState, BootState, States
  <2> QED
    BY <1>1, <1>2, <2>1, EnterOffline
<1>3. CASE data' = SemGive(Taken)
  BY <1>1, <1>3, SemGiveIdle
<1>4. CASE data' = Taken
  BY <1>1, <1>4
<1> QED
  BY <1>2, <1>3, <1>4 DEF IdleHandler, Ignores

(* The handlers of the reset and power-on pulses only enter other states. *)
LEMMA PulseHandlersGood ==
  ASSUME GoodData(data),
         ResetPulseHandler \/ AwaitResetHandler \/ PowerOnPulseHandler
  PROVE  GoodData(data')
<1>1. PICK s \in {"RESET_PULSE", "AWAIT_RESET", "POWER_ON_PULSE"} : In(s)
  BY DEF ResetPulseHandler, AwaitResetHandler, PowerOnPulseHandler
<1>2. GoodData(Taken) /\ Taken.state = s
  BY <1>1, InFacts
<1>3. \/ data' = Taken
      \/ \E next \in {"IDLE", "AWAIT_RESET", "POWER_ON_PULSE",
                      "AWAIT_POWER_ON"} :
           data' = EnterState(Taken, next)
  BY DEF ResetPulseHandler, AwaitResetHandler, PowerOnPulseHandler, Ignores
<1> QED
  BY <1>1, <1>2, <1>3, EnterOffline DEF States

(* The AWAIT_POWER_ON handler. *)
LEMMA AwaitPowerOnHandlerGood ==
  ASSUME GoodData(data), AwaitPowerOnHandler
  PROVE  GoodData(data')
<1>1. GoodData(Taken) /\ Taken.state = "AWAIT_POWER_ON"
  BY InFacts DEF AwaitPowerOnHandler
<1>2. BootState \in States \ {"DORMANT"} /\ "IDLE" \in States \ {"DORMANT"}
  BY DEF BootState, States
<1>3. CASE data' = ChatAttach(Taken, "UART")
  BY <1>1, <1>3, ChatAttachGood DEF PppStates, Pipes
<1>4. CASE data' = EnterState(StopTimer(Taken), BootState)
  BY <1>1, <1>2, <1>4, TimerGood, EnterOffline
<1>5. CASE data' = EnterState(Taken, BootState)
  BY <1>1, <1>2, <1>5, EnterOffline
<1>6. CASE data' = EnterState(Taken, "IDLE")
  BY <1>1, <1>2, <1>6, EnterOffline
<1> QED
  BY <1>1, <1>3, <1>4, <1>5, <1>6 DEF AwaitPowerOnHandler, Ignores

(* The SET_BAUDRATE handler. *)
LEMMA SetBaudrateHandlerGood ==
  ASSUME GoodData(data), SetBaudrateHandler
  PROVE  GoodData(data')
<1>1. GoodData(Taken) /\ Taken.state = "SET_BAUDRATE"
  BY InFacts DEF SetBaudrateHandler
<1>2. CASE data' = RunScript(ChatAttach(Taken, "UART"), "baud")
  BY <1>1, <1>2, ChatAttachGood, RunScriptGood DEF PppStates, Pipes, Scripts
<1>3. CASE data' = CloseBus(ChatRelease(StartTimer(Taken)))
  BY <1>1, <1>3, TimerGood, ChatReleaseGood, BusGood
<1>4. CASE data' = [BaudrateUpdate(Taken, "new") EXCEPT
                      !.originalBaud = IF UartConfigurable THEN data.baud
                                                           ELSE "none"]
  <2>1. (IF UartConfigurable THEN data.baud ELSE "none")
          \in {"none", "initial", "new"}
    BY FieldTypes DEF GoodData
  <2> QED
    BY <1>1, <1>4, <2>1, BaudGood
<1>5. CASE data' = EnterState(Taken, "RUN_INIT_SCRIPT")
  BY <1>1, <1>5, EnterOffline DEF States
<1>6. CASE data' = EnterState(Taken, "IDLE")
  BY <1>1, <1>6, EnterOffline DEF States
<1> QED
  BY <1>1, <1>2, <1>3, <1>4, <1>5, <1>6 DEF SetBaudrateHandler, Ignores

(* The RUN_INIT_SCRIPT handler. *)
LEMMA RunInitScriptHandlerGood ==
  ASSUME GoodData(data), RunInitScriptHandler
  PROVE  GoodData(data')
<1>1. GoodData(Taken) /\ Taken.state = "RUN_INIT_SCRIPT"
  BY InFacts DEF RunInitScriptHandler
<1>2. CASE data' = RunScript(ChatAttach(Taken, "UART"), "init")
  BY <1>1, <1>2, ChatAttachGood, RunScriptGood DEF PppStates, Pipes, Scripts
<1>3. CASE data' = CloseBus(ChatRelease(Taken))
  BY <1>1, <1>3, ChatReleaseGood, BusGood
<1>4. CASE \E s \in {"CONNECT_CMUX", "IDLE", "RESET_PULSE"} :
             data' = EnterState(Taken, s)
  BY <1>1, <1>4, EnterOffline DEF States
<1> QED
  BY <1>1, <1>2, <1>3, <1>4 DEF RunInitScriptHandler, Ignores

(* The CONNECT_CMUX handler. *)
LEMMA ConnectCmuxHandlerGood ==
  ASSUME GoodData(data), ConnectCmuxHandler
  PROVE  GoodData(data')
<1>1. GoodData(Taken) /\ Taken.state = "CONNECT_CMUX"
  BY InFacts DEF ConnectCmuxHandler
<1>2. CASE data' = OpenBus(Taken)
  BY <1>1, <1>2, BusGood
<1>3. CASE data' = CmuxConnect(CmuxAttach(Taken))
  BY <1>1, <1>3, CmuxGood DEF PppStates
<1>4. CASE data' = EnterState([Taken EXCEPT !.users = TRUE], "OPEN_DLCI1")
  BY <1>1, <1>4, UsersGood, EnterOffline DEF States
<1>5. CASE data' = EnterState(Taken, "INIT_POWER_OFF")
  BY <1>1, <1>5, EnterOffline DEF States
<1> QED
  BY <1>1, <1>2, <1>3, <1>4, <1>5 DEF ConnectCmuxHandler, Ignores

(* The handlers of OPEN_DLCI1, OPEN_DLCI2 and WAIT_FOR_APN. *)
LEMMA OpenDlcisHandlersGood ==
  ASSUME GoodData(data),
         OpenDlci1Handler \/ OpenDlci2Handler \/ WaitForApnHandler
  PROVE  GoodData(data')
<1>1. PICK s \in {"OPEN_DLCI1", "OPEN_DLCI2", "WAIT_FOR_APN"} : In(s)
  BY DEF OpenDlci1Handler, OpenDlci2Handler, WaitForApnHandler
<1>2. GoodData(Taken) /\ Taken.state = s
  BY <1>1, InFacts
<1>3. \/ data' = Taken
      \/ \E next \in {"OPEN_DLCI2", "INIT_POWER_OFF", "RUN_APN_SCRIPT"} :
           data' = EnterState(Taken, next)
      \/ \E next \in {"RUN_DIAL_SCRIPT", "WAIT_FOR_APN", "RUN_APN_SCRIPT"} :
           data' = EnterState([Taken EXCEPT !.cmdPipe = "DLCI2"], next)
  BY DEF OpenDlci1Handler, OpenDlci2Handler, WaitForApnHandler, Ignores
<1>4. /\ GoodData([Taken EXCEPT !.cmdPipe = "DLCI2"])
      /\ [Taken EXCEPT !.cmdPipe = "DLCI2"].state = s
  BY <1>2, CmdPipeGood DEF Pipes
<1> QED
  BY ZenonT(60), <1>1, <1>2, <1>3, <1>4, EnterOffline DEF States

(* The RUN_APN_SCRIPT handler. *)
LEMMA RunApnScriptHandlerGood ==
  ASSUME GoodData(data), RunApnScriptHandler
  PROVE  GoodData(data')
<1>1. GoodData(Taken) /\ Taken.state = "RUN_APN_SCRIPT"
  BY InFacts DEF RunApnScriptHandler
<1>2. CASE data' = RunScript(ChatAttach(Taken, "DLCI1"), "apn")
  BY <1>1, <1>2, ChatAttachGood, RunScriptGood DEF PppStates, Pipes, Scripts
<1>3. CASE data' = EnterState(CountReset, "RUN_DIAL_SCRIPT")
  BY <1>1, <1>3, CountResetGood, EnterOffline DEF States
<1>4. CASE RetryOr(RequestSuspend)
  BY <1>1, <1>4, RetryGood, RequestSuspendGood
<1>5. CASE data' = EnterState(Taken, "INIT_POWER_OFF")
  BY <1>1, <1>5, EnterOffline DEF States
<1> QED
  BY <1>1, <1>2, <1>3, <1>4, <1>5 DEF RunApnScriptHandler, Ignores

(* PPP refuses to attach: the state is changed, its enter function gives up. *)
LEMMA BecomeGood ==
  ASSUME NEW d, GoodData(d), d.state = "RUN_DIAL_SCRIPT"
  PROVE  GoodData(Become(d, "AWAIT_REGISTERED"))
<1> DEFINE r == Become(d, "AWAIT_REGISTERED")
<1>1. MayEnter(d, "AWAIT_REGISTERED")
  BY DEF GoodData, Good, Sound, PppStates, MayEnter, States
<1>2. r \in Data /\ Between(r, "AWAIT_REGISTERED")
  BY <1>1, BecomeFacts DEF GoodData, Good
<1> HIDE DEF r
<1> QED
  BY <1>2 DEF GoodData, Good, Sound, Between, r

(* The RUN_DIAL_SCRIPT handler. *)
LEMMA RunDialScriptHandlerGood ==
  ASSUME GoodData(data), RunDialScriptHandler
  PROVE  GoodData(data')
<1>1. GoodData(Taken) /\ Taken.state = "RUN_DIAL_SCRIPT"
  BY InFacts DEF RunDialScriptHandler
<1>2. GoodData(CountReset) /\ CountReset.state = "RUN_DIAL_SCRIPT"
  BY <1>1, CountResetGood
<1>3. CASE data' = RunScript(ChatAttach(Taken, "DLCI1"), "dial")
  BY <1>1, <1>3, ChatAttachGood, RunScriptGood DEF PppStates, Pipes, Scripts
<1>4. CASE RetryOr(RequestSuspend)
  BY <1>1, <1>4, RetryGood, RequestSuspendGood
<1>5. CASE data' = EnterState(CountReset, "AWAIT_REGISTERED")
  BY <1>2, <1>5, EnterOffline DEF States
<1>6. CASE data' = Become(CountReset, "AWAIT_REGISTERED")
  BY <1>2, <1>6, BecomeGood
<1>7. CASE data' = EnterState(Taken, "INIT_POWER_OFF")
  BY <1>1, <1>7, EnterOffline DEF States
<1>8. CASE data' = OpenAsync(Taken, "UART")
  BY <1>1, <1>8, RequestGood DEF OpenAsync, Pipes
<1>9. CASE data' = IF data.script # "none" THEN Taken
                   ELSE RunScript(StopTimer(Taken), "dial")
  BY <1>1, <1>9, TimerGood, RunScriptGood DEF Scripts
<1> QED
  BY <1>1, <1>3, <1>4, <1>5, <1>6, <1>7, <1>8, <1>9
  DEF RunDialScriptHandler, Ignores

(* A recovery enters IDLE from any state whose carrier is off, and queues *)
(* a RESUME.                                                              *)
LEMMA RestartGood ==
  ASSUME NEW d \in Data, Sound(d), ~d.carrier
  PROVE  GoodData(Restart(d))
<1>1. MayEnter(d, "IDLE")
  BY DEF MayEnter, States
<1>2. GoodData(EnterState(d, "IDLE"))
  BY <1>1, EnterGood
<1> QED
  BY <1>2, DelegateGood, RecoveredGood DEF Restart, Events

(* The AWAIT_REGISTERED handler: the retries that end in a recovery *)
(* included.                                                        *)
LEMMA AwaitRegisteredHandlerGood ==
  ASSUME GoodData(data), AwaitRegisteredHandler
  PROVE  GoodData(data')
<1>1. GoodData(Taken) /\ Taken.state = "AWAIT_REGISTERED"
  BY InFacts DEF AwaitRegisteredHandler
<1>2. GoodData(CountReset) /\ CountReset.state = "AWAIT_REGISTERED"
  BY <1>1, CountResetGood
<1>3. CASE data' = StartTimer(CountReset)
  BY <1>2, <1>3, TimerGood
<1>4. CASE RetryOr(Restart(CountReset))
  <2>1. ~CountReset.carrier
    BY <1>2 DEF GoodData, Good, Sound
  <2> QED
    BY <1>1, <1>2, <1>4, <2>1, RestartGood, RetryGood DEF GoodData, Good
<1>5. CASE data' = RunScript(Taken, "periodic")
  BY <1>1, <1>5, RunScriptGood DEF Scripts
<1>6. CASE \E s \in {"CARRIER_ON", "INIT_POWER_OFF"} :
             data' = EnterState(Taken, s)
  BY <1>1, <1>6, EnterFromRegistered
<1>7. CASE data' = OpenAsync(Taken, "UART")
  BY <1>1, <1>7, RequestGood DEF OpenAsync, Pipes
<1> QED
  BY <1>1, <1>3, <1>4, <1>5, <1>6, <1>7 DEF AwaitRegisteredHandler, Ignores

(* Taking the carrier down in CARRIER_ON keeps everything but the link *)
(* between carrier and state.                                          *)
LEMMA CarrierDown ==
  ASSUME NEW d, GoodData(d), d.state = "CARRIER_ON"
  PROVE  /\ CarrierOff(d) \in Data /\ Sound(CarrierOff(d))
         /\ ~CarrierOff(d).carrier /\ CarrierOff(d).state = "CARRIER_ON"
<1> DEFINE a == CarrierOff(d)
<1>1. /\ a \in Data /\ a.carrier = FALSE /\ a.state = d.state
      /\ a.sem = d.sem /\ a.dormant = d.dormant /\ a.reset = d.reset
      /\ a.wake = d.wake /\ a.timer = d.timer
      /\ SameLinks(d, a) /\ SameDlci1(d, a)
  BY CarrierOffFacts DEF GoodData
<1> HIDE DEF a
<1>2. PppOwned(a)
  BY <1>1 DEF GoodData, Good, Sound, PppOwned, SameLinks, SameDlci1
<1>3. Sound(a)
  BY <1>1, <1>2 DEF GoodData, Good, Sound, SameLinks
<1> QED
  BY <1>1, <1>3 DEF a

(* A suspend in CARRIER_ON takes the carrier down and releases the chat *)
(* and PPP before the power-off.                                        *)
LEMMA SuspendOnline ==
  ASSUME NEW d, GoodData(d), d.state = "CARRIER_ON"
  PROVE  GoodData(EnterState(PppRelease(ChatRelease(CarrierOff(d))),
                             "INIT_POWER_OFF"))
<1> DEFINE a == CarrierOff(d)
           b == ChatRelease(a)
           c == PppRelease(b)
<1>1. a \in Data /\ Sound(a) /\ ~a.carrier /\ a.state = "CARRIER_ON"
  BY CarrierDown
<1> HIDE DEF a
<1>2. b \in Data /\ SameMode(a, b) /\ b.timer = a.timer
  BY <1>1, ChatReleaseFacts
<1> HIDE DEF b
<1>3. c \in Data /\ SameMode(b, c) /\ c.timer = b.timer /\ c.ppp = FALSE
  BY <1>2, PppReleaseFacts
<1> HIDE DEF c
<1>4. Sound(c) /\ ~c.carrier /\ ~c.ppp
  BY <1>1, <1>2, <1>3 DEF Sound, SameMode, PppOwned
<1>5. MayEnter(c, "INIT_POWER_OFF")
  BY <1>4 DEF MayEnter, States
<1> QED
  BY <1>3, <1>4, <1>5, EnterGood DEF a, b, c

(* The CARRIER_ON handler. *)
LEMMA CarrierOnHandlerGood ==
  ASSUME GoodData(data), CarrierOnHandler
  PROVE  GoodData(data')
<1>1. GoodData(Taken) /\ Taken.state = "CARRIER_ON"
  BY InFacts DEF CarrierOnHandler
<1>2. GoodData(CountReset) /\ CountReset.state = "CARRIER_ON"
  BY <1>1, CountResetGood
<1>3. CASE data' = StartTimer(CountReset)
  BY <1>2, <1>3, TimerGood
<1>4. CASE RetryOr(Restart(CarrierOff(CountReset)))
  BY <1>1, <1>2, <1>4, CarrierDown, RestartGood, RetryGood
<1>5. CASE data' = RunScript(Taken, "periodic")
  BY <1>1, <1>5, RunScriptGood DEF Scripts
<1>6. GoodData(EnterState(Taken, "DORMANT"))
      /\ EnterState(Taken, "DORMANT").state = "DORMANT"
  <2>1. MayEnter(Taken, "DORMANT")
    BY <1>1 DEF GoodData, Good, MayEnter, States
  <2> QED
    BY <1>1, <2>1, EnterGood DEF GoodData, Good
<1>7. CASE data' = EnterState(Taken, "DORMANT")
  BY <1>6, <1>7
<1>8. CASE data' = Redial(Taken)
  BY <1>6, <1>8, EnterOffline DEF Redial, States
<1>9. CASE data' = EnterState(PppRelease(ChatRelease(CarrierOff(Taken))),
                              "INIT_POWER_OFF")
  BY <1>1, <1>9, SuspendOnline
<1>10. CASE data' = OpenAsync(Taken, "UART")
  BY <1>1, <1>10, RequestGood DEF OpenAsync, Pipes
<1> QED
  BY <1>1, <1>3, <1>4, <1>5, <1>7, <1>8, <1>9, <1>10
  DEF CarrierOnHandler, Ignores

(* The DORMANT handler. *)
LEMMA DormantHandlerGood ==
  ASSUME GoodData(data), DormantHandler
  PROVE  GoodData(data')
<1>1. GoodData(Taken) /\ Taken.state = "DORMANT"
  BY InFacts DEF DormantHandler
<1>2. CASE data' = EnterState(OpenAsync(Taken, "UART"), "RUN_DIAL_SCRIPT")
  BY <1>1, <1>2, RequestGood, EnterOffline DEF OpenAsync, Pipes, States
<1>3. CASE data' = EnterState(Taken, "RUN_DIAL_SCRIPT")
  BY <1>1, <1>3, EnterOffline DEF States
<1> QED
  BY <1>1, <1>2, <1>3 DEF DormantHandler, Ignores

(* begin_power_off_pulse ends in POWER_OFF_PULSE or, without a power pin, *)
(* in IDLE.                                                               *)
LEMMA PowerOffGood ==
  ASSUME NEW d, GoodData(d),
         d.state \in {"INIT_POWER_OFF", "RUN_SHUTDOWN_SCRIPT"}
  PROVE  /\ GoodData(BeginPowerOffPulse(d))
         /\ BeginPowerOffPulse(d).state \in {"POWER_OFF_PULSE", "IDLE"}
BY RequestGood, EnterOffline DEF BeginPowerOffPulse, CloseAsync, Pipes, States

(* The INIT_POWER_OFF handler, and where it leads. *)
LEMMA InitPowerOffHandlerGood ==
  ASSUME GoodData(data), InitPowerOffHandler
  PROVE  GoodData(data') /\ data'.state \in PowerOffStates \cup {"IDLE"}
<1>1. GoodData(Taken) /\ Taken.state = "INIT_POWER_OFF"
  BY InFacts DEF InitPowerOffHandler
<1>2. CASE data' = StartTimer([StopTimer(Taken) EXCEPT !.cmdPipe = "UART"])
  <2> DEFINE d == StopTimer(Taken)
  <2>1. GoodData(d) /\ d.state = "INIT_POWER_OFF"
    BY <1>1, TimerGood
  <2> HIDE DEF d
  <2>2. /\ GoodData([d EXCEPT !.cmdPipe = "UART"])
        /\ [d EXCEPT !.cmdPipe = "UART"].state = "INIT_POWER_OFF"
    BY <2>1, CmdPipeGood DEF Pipes
  <2> QED
    BY <1>2, <2>2, TimerGood DEF d, PowerOffStates
<1>3. CASE data' = EnterState(Taken, "RUN_SHUTDOWN_SCRIPT")
  BY <1>1, <1>3, EnterOffline DEF States, PowerOffStates
<1>4. CASE data' = BeginPowerOffPulse(Taken)
  BY <1>1, <1>4, PowerOffGood DEF PowerOffStates
<1>5. CASE data' = Taken
  BY <1>1, <1>5 DEF PowerOffStates
<1> QED
  BY <1>2, <1>3, <1>4, <1>5 DEF InitPowerOffHandler, Ignores

(* The RUN_SHUTDOWN_SCRIPT handler, and where it leads. *)
LEMMA RunShutdownScriptHandlerGood ==
  ASSUME GoodData(data), RunShutdownScriptHandler
  PROVE  GoodData(data') /\ data'.state \in PowerOffStates \cup {"IDLE"}
<1>1. GoodData(Taken) /\ Taken.state = "RUN_SHUTDOWN_SCRIPT"
  BY InFacts DEF RunShutdownScriptHandler
<1>2. CASE data' = BeginPowerOffPulse(NoCmdPipe(Taken))
  BY <1>1, <1>2, CmdPipeGood, PowerOffGood DEF NoCmdPipe, PowerOffStates
<1>3. CASE data' = EnterState(NoCmdPipe(CloseAsync(Taken, "UART")), "IDLE")
  <2> DEFINE d == CloseAsync(Taken, "UART")
  <2>1. GoodData(d) /\ d.state = "RUN_SHUTDOWN_SCRIPT"
    BY <1>1, RequestGood DEF CloseAsync, Pipes
  <2> HIDE DEF d
  <2>2. GoodData(NoCmdPipe(d)) /\ NoCmdPipe(d).state = "RUN_SHUTDOWN_SCRIPT"
    BY <2>1, CmdPipeGood DEF NoCmdPipe
  <2> QED
    BY <1>3, <2>2, EnterOffline DEF States, d
<1>4. CASE data' = Taken
  BY <1>1, <1>4 DEF PowerOffStates
<1> QED
  BY <1>2, <1>3, <1>4 DEF RunShutdownScriptHandler, Ignores

(* The handlers of POWER_OFF_PULSE and AWAIT_POWER_OFF, and where they *)
(* lead.                                                               *)
LEMMA PowerOffPulseHandlersGood ==
  ASSUME GoodData(data), PowerOffPulseHandler \/ AwaitPowerOffHandler
  PROVE  GoodData(data') /\ data'.state \in PowerOffStates \cup {"IDLE"}
<1>1. PICK s \in {"POWER_OFF_PULSE", "AWAIT_POWER_OFF"} : In(s)
  BY DEF PowerOffPulseHandler, AwaitPowerOffHandler
<1>2. GoodData(Taken) /\ Taken.state = s
  BY <1>1, InFacts
<1>3. data' = Taken \/ \E next \in {"IDLE", "AWAIT_POWER_OFF"} :
                         data' = EnterState(Taken, next)
  BY DEF PowerOffPulseHandler, AwaitPowerOffHandler, Ignores
<1> QED
  BY <1>1, <1>2, <1>3, EnterOffline DEF States, PowerOffStates

-----------------------------------------------------------------------------
(* The environment and the callers keep the state, and the record good. *)
Kept(d, r) == GoodData(r) /\ r.state = d.state

(* A change to fields the invariant does not mention keeps the record *)
(* good and the state.                                                *)
LEMMA KeptFrame ==
  ASSUME NEW d, GoodData(d), NEW r \in Data, Same(d, r), r.timer = d.timer
  PROVE  Kept(d, r)
BY GoodFrame DEF Kept, Same, SameMode

(* So does an event delegated after it. *)
LEMMA KeptDelegate ==
  ASSUME NEW d, NEW r, Kept(d, r), NEW e \in Events
  PROVE  Kept(d, Delegate(r, e))
BY DelegateGood DEF Kept

(* A pipe's completion changes its queue and the set of open pipes. *)
LEMMA CompletedGood ==
  ASSUME GoodData(data), NEW p \in Pipes, data.ops[p] # <<>>
  PROVE  Kept(data, Completed(p)) /\ PipeNotice(p) \in Events
<1>1. Tail(data.ops[p]) \in Seq({"open", "close"})
  BY FieldTypes DEF GoodData
<1>2. [data.ops EXCEPT ![p] = Tail(data.ops[p])]
        \in [Pipes -> Seq({"open", "close"})]
  BY <1>1, FieldTypes DEF GoodData
<1>3. (IF Head(data.ops[p]) = "open" THEN data.open \cup {p}
                                     ELSE data.open \ {p}) \in SUBSET Pipes
  BY FieldTypes DEF GoodData
<1>4. PICK f \in [Pipes -> Seq({"open", "close"})], o \in SUBSET Pipes :
        Completed(p) = [data EXCEPT !.ops = f, !.open = o]
  BY <1>2, <1>3 DEF Completed
<1> DEFINE r == [data EXCEPT !.ops = f, !.open = o]
<1>5. r \in Data
  BY DEF Data, GoodData
<1>6. SameMode(data, r) /\ r.timer = data.timer
  BY DEF Data, GoodData, SameMode
<1>7. SameLinks(data, r) /\ SameDlci1(data, r)
  BY DEF Data, GoodData, SameLinks, SameDlci1
<1> HIDE DEF r
<1>8. Kept(data, r)
  BY <1>5, <1>6, <1>7, KeptFrame DEF Same
<1>9. PipeNotice(p) \in Events
  BY DEF PipeNotice, Events
<1> QED
  BY <1>4, <1>8, <1>9 DEF r

(* A pipe's notification, whoever receives it. *)
LEMMA PipeEventGood ==
  ASSUME GoodData(data), NEW p \in Pipes, PipeEvent(p)
  PROVE  Kept(data, data')
BY CompletedGood, KeptDelegate DEF PipeEvent

(* A script's end frees the chat for another and is reported as an event. *)
LEMMA ChatCallbackGood ==
  ASSUME GoodData(data), NEW success \in BOOLEAN, ChatCallback(success)
  PROVE  Kept(data, data')
<1> DEFINE done == IF success THEN data.done \cup {data.script} ELSE data.done
           r == [data EXCEPT !.script = "none", !.done = done]
<1>1. done \in SUBSET Scripts
  BY FieldTypes DEF ChatCallback, GoodData
<1>2. data' = Delegate(r, IF success THEN "SCRIPT_SUCCESS" ELSE "SCRIPT_FAILED")
  BY DEF ChatCallback
<1> HIDE DEF done
<1>3. r \in Data
  BY <1>1 DEF Data, GoodData
<1>4. SameMode(data, r) /\ SameDlci1(data, r) /\ r.timer = data.timer
  BY DEF Data, GoodData, SameMode, SameDlci1
<1>5. /\ r.chatPipe = data.chatPipe /\ r.script = "none"
      /\ r.cmux = data.cmux /\ r.ppp = data.ppp /\ r.users = data.users
  BY DEF Data, GoodData
<1> HIDE DEF r
<1>6. Kept(data, r)
  BY <1>3, <1>4, <1>5
  DEF Kept, GoodData, Good, Sound, PppOwned, SameMode, SameDlci1
<1> QED
  BY <1>2, <1>6, KeptDelegate DEF Events

(* The multiplexer changes its link only while it is attached, which it *)
(* is not in IDLE.                                                      *)
LEMMA CmuxLinkGood ==
  ASSUME NEW d, GoodData(d), d.cmux # "released", NEW link \in Links
  PROVE  Kept(d, [d EXCEPT !.cmux = link])
<1> DEFINE r == [d EXCEPT !.cmux = link]
<1>1. r \in Data
  BY CmuxType DEF GoodData
<1>2. SameMode(d, r) /\ SameDlci1(d, r) /\ r.timer = d.timer
  BY DEF Data, GoodData, SameMode, SameDlci1
<1>3. r.chatPipe = d.chatPipe /\ r.ppp = d.ppp
  BY DEF Data, GoodData
<1>4. d.state # "IDLE" /\ PppOwned(d)
  BY DEF GoodData, Good, Sound
<1> HIDE DEF r
<1>5. PppOwned(r)
  BY <1>2, <1>3, <1>4 DEF PppOwned, SameDlci1
<1> QED
  BY <1>1, <1>2, <1>3, <1>4, <1>5, GoodLinks DEF Kept, SameMode, r

(* The multiplexer's connection and disconnection. *)
LEMMA CmuxEventsGood ==
  ASSUME GoodData(data), CmuxConnected \/ CmuxDisconnected
  PROVE  Kept(data, data')
<1>1. CASE CmuxConnected
  <2>1. data.cmux # "released" /\ "connected" \in Links
    BY <1>1 DEF CmuxConnected, Links
  <2> QED
    BY <1>1, <2>1, CmuxLinkGood, KeptDelegate DEF CmuxConnected, Events
<1>2. CASE CmuxDisconnected
  <2> DEFINE d == CloseDlcis(data)
  <2>1. d \in Data /\ Same(data, d) /\ d.timer = data.timer
    BY CloseDlcisFacts DEF GoodData
  <2>2. data' = Delegate([d EXCEPT !.cmux = "disconnected"],
                         "CMUX_DISCONNECTED")
    BY <1>2 DEF CmuxDisconnected
  <2> HIDE DEF d
  <2>3. GoodData(d)
    BY <2>1, GoodFrame
  <2>4. d.cmux # "released" /\ "disconnected" \in Links
    BY <1>2, <2>1 DEF CmuxDisconnected, Links, Same, SameLinks
  <2> DEFINE r == [d EXCEPT !.cmux = "disconnected"]
  <2>5. Kept(d, r)
    BY <2>3, <2>4, CmuxLinkGood
  <2>6. data' = Delegate(r, "CMUX_DISCONNECTED")
    BY <2>2
  <2> HIDE DEF r
  <2>7. Kept(data, r)
    BY <2>1, <2>5 DEF Kept, Same, SameMode
  <2> QED
    BY <2>6, <2>7, KeptDelegate DEF Events
<1> QED
  BY <1>1, <1>2

(* The report that PPP died. *)
LEMMA PppPhaseDeadGood ==
  ASSUME GoodData(data), PppPhaseDead
  PROVE  Kept(data, data')
<1> DEFINE r == [data EXCEPT !.pppLive = FALSE]
<1>1. r \in Data
  BY DEF Data, GoodData
<1>2. SameMode(data, r) /\ r.timer = data.timer
  BY DEF Data, GoodData, SameMode
<1>3. SameLinks(data, r) /\ SameDlci1(data, r)
  BY DEF Data, GoodData, SameLinks, SameDlci1
<1>4. data' = Delegate(r, "PPP_DEAD")
  BY DEF PppPhaseDead
<1> HIDE DEF r
<1>5. Kept(data, r)
  BY <1>1, <1>2, <1>3, KeptFrame DEF Same
<1> QED
  BY <1>4, <1>5, KeptDelegate DEF Events

(* Recording a registration report. *)
LEMMA ReportGood ==
  ASSUME GoodData(data), NEW reg \in SUBSET Domains
  PROVE  Kept(data, [data EXCEPT !.registered = reg])
<1> DEFINE r == [data EXCEPT !.registered = reg]
<1>1. r \in Data
  BY DEF Data, GoodData
<1>2. SameMode(data, r) /\ r.timer = data.timer
  BY DEF Data, GoodData, SameMode
<1>3. SameLinks(data, r) /\ SameDlci1(data, r)
  BY DEF Data, GoodData, SameLinks, SameDlci1
<1> HIDE DEF r
<1> QED
  BY <1>1, <1>2, <1>3, KeptFrame DEF Same, r

(* The modem's unsolicited messages and the ring line. *)
LEMMA UnsolicitedGood ==
  ASSUME GoodData(data),
         \/ OnModemReady \/ RingGpio
         \/ \E domain \in Domains, registered \in BOOLEAN :
              OnCxreg(domain, registered)
         \/ \E connected \in BOOLEAN : OnCgev(connected)
  PROVE  Kept(data, data')
<1>1. CASE OnModemReady \/ RingGpio
  BY <1>1, KeptDelegate DEF OnModemReady, RingGpio, Events, Kept
<1>2. CASE \E domain \in Domains, registered \in BOOLEAN :
             OnCxreg(domain, registered)
  <2>1. PICK domain \in Domains, registered \in BOOLEAN :
          OnCxreg(domain, registered)
    BY <1>2
  <2> DEFINE reg == IF registered THEN data.registered \cup {domain}
                                  ELSE data.registered \ {domain}
             r == [data EXCEPT !.registered = reg]
  <2>2. reg \in SUBSET Domains
    BY FieldTypes DEF GoodData
  <2>3. data' = Delegate(r, IF IsRegistered(r) THEN "REGISTERED"
                                               ELSE "DEREGISTERED")
    BY <2>1 DEF OnCxreg
  <2> HIDE DEF reg
  <2>4. Kept(data, r)
    BY <2>2, ReportGood
  <2> HIDE DEF r
  <2> QED
    BY <2>3, <2>4, KeptDelegate DEF Events
<1>3. CASE \E connected \in BOOLEAN : OnCgev(connected)
  BY <1>3, KeptFrame DEF OnCgev, GoodData, Same, SameMode, SameLinks, SameDlci1
<1> QED
  BY <1>1, <1>2, <1>3

(* The power manager's own state is free to change. *)
LEMMA PmFieldGood ==
  ASSUME GoodData(data), NEW m \in PmStates
  PROVE  Kept(data, [data EXCEPT !.pm = m])
<1> DEFINE r == [data EXCEPT !.pm = m]
<1>1. r \in Data
  BY DEF Data, GoodData
<1>2. SameMode(data, r) /\ r.timer = data.timer
  BY DEF Data, GoodData, SameMode
<1>3. SameLinks(data, r) /\ SameDlci1(data, r)
  BY DEF Data, GoodData, SameLinks, SameDlci1
<1> HIDE DEF r
<1> QED
  BY <1>1, <1>2, <1>3, KeptFrame DEF Same, r

(* A suspend call that finds the token takes it. *)
LEMMA TakeSemGood ==
  ASSUME GoodData(data)
  PROVE  Kept(data, [data EXCEPT !.sem = 0, !.pm = "suspended"])
<1> DEFINE r == [data EXCEPT !.sem = 0, !.pm = "suspended"]
<1>1. r \in Data
  <2>1. 0 \in Tokens /\ "suspended" \in PmStates
    BY DEF Tokens, PmStates
  <2>2. ASSUME NEW n \in Tokens, NEW m \in PmStates
        PROVE  [data EXCEPT !.sem = n, !.pm = m] \in Data
    BY DEF Data, GoodData
  <2> QED
    BY <2>1, <2>2
<1>2. /\ r.state = data.state /\ r.sem = 0 /\ r.carrier = data.carrier
      /\ r.dormant = data.dormant /\ r.reset = data.reset
      /\ r.wake = data.wake /\ r.timer = data.timer
  BY DEF Data, GoodData
<1>3. SameLinks(data, r) /\ SameDlci1(data, r)
  BY DEF Data, GoodData, SameLinks, SameDlci1
<1> HIDE DEF r
<1>4. PppOwned(r)
  BY <1>3 DEF GoodData, Good, Sound, PppOwned, SameLinks, SameDlci1
<1> QED
  BY <1>1, <1>2, <1>3, <1>4 DEF Kept, GoodData, Good, Sound, SameLinks, r

(* The steps of resume and suspend calls. *)
LEMMA PmActionsGood ==
  ASSUME GoodData(data), PmResume \/ PmSuspend \/ PmTakeSem \/ PmTimeout
  PROVE  Kept(data, data')
<1>1. CASE PmResume \/ PmSuspend
  BY <1>1, PmFieldGood, KeptDelegate DEF PmResume, PmSuspend, PmStates, Events
<1>2. CASE PmTakeSem
  BY <1>2, PmFieldGood, TakeSemGood DEF PmTakeSem, PmStates
<1>3. CASE PmTimeout
  BY <1>3, PmFieldGood DEF PmTimeout, PmStates
<1> QED
  BY <1>1, <1>2, <1>3

(* An APN written by an application thread. *)
LEMMA SetApnWriteGood ==
  ASSUME GoodData(data), setter \in Apns \cup {"none"}, SetApnWrite
  PROVE  Kept(data, data')
<1> DEFINE late == data.lateApn \/ ~ApnChangeAllowed(data.state)
           r == [data EXCEPT !.apn = setter, !.lateApn = late]
<1>1. late \in BOOLEAN
  OBVIOUS
<1>2. data' = Delegate(r, "APN_SET")
  BY DEF SetApnWrite
<1> HIDE DEF late
<1>3. r \in Data
  BY ZenonT(60), <1>1 DEF Data, GoodData
<1>4. SameMode(data, r) /\ r.timer = data.timer
  BY DEF Data, GoodData, SameMode
<1>5. SameLinks(data, r) /\ SameDlci1(data, r)
  BY DEF Data, GoodData, SameLinks, SameDlci1
<1> HIDE DEF r
<1>6. Kept(data, r)
  BY <1>3, <1>4, <1>5, KeptFrame DEF Same
<1> QED
  BY <1>2, <1>6, KeptDelegate DEF Events

(* The driver's data as modem_cellular_init leaves them. *)
LEMMA InitGood ==
  ASSUME Init
  PROVE  GoodData(data)
<1>1. data \in Data
  <2>1. 0 \in FailureCounts /\ 0 \in Tokens
    BY DEF FailureCounts, Tokens, MaxScriptFailures
  <2>2. <<>> \in Seq(Events) /\ <<>> \in Seq({"open", "close"})
    OBVIOUS
  <2>3. (HasResetGpio /\ HoldResetOnSuspend) \in BOOLEAN
    OBVIOUS
  <2>4. InitialApn \in Apns \cup {"none"}
    BY ApnAssumption
  <2>5. /\ [p \in Pipes |-> "none"] \in [Pipes -> Owners]
        /\ [p \in Pipes |-> <<>>] \in [Pipes -> Seq({"open", "close"})]
    BY <2>2 DEF Owners
  <2>6. "IDLE" \in States /\ "released" \in Links /\ "suspended" \in PmStates
    BY DEF States, Links, PmStates
  <2> QED
    BY <2>1, <2>2, <2>3, <2>4, <2>5, <2>6 DEF Init, Data
<1>2. /\ data.state = "IDLE" /\ data.sem = 0 /\ data.carrier = FALSE
      /\ data.dormant = FALSE /\ data.wake = FALSE /\ data.timer = "off"
      /\ data.reset = (HasResetGpio /\ HoldResetOnSuspend)
  BY DEF Init
<1>3. /\ data.chatPipe = "none" /\ data.script = "none"
      /\ data.cmux = "released" /\ data.ppp = FALSE /\ data.users = FALSE
  BY DEF Init
<1> QED
  BY <1>1, <1>2, <1>3
  DEF GoodData, Good, Sound, PppOwned, Held, StoppedStates, PppStates

-----------------------------------------------------------------------------
(* Every handler of the dispatch loop keeps the record good. *)
LEMMA DispatchGood ==
  ASSUME GoodData(data), Dispatch
  PROVE  GoodData(data')
<1>1. CASE DispatchEnd
  BY <1>1 DEF DispatchEnd
<1> QED
  BY <1>1, IdleHandlerGood, PulseHandlersGood, AwaitPowerOnHandlerGood,
     PowerOffPulseHandlersGood,
     SetBaudrateHandlerGood, RunInitScriptHandlerGood, ConnectCmuxHandlerGood,
     OpenDlcisHandlersGood, RunApnScriptHandlerGood, RunDialScriptHandlerGood,
     AwaitRegisteredHandlerGood, CarrierOnHandlerGood, DormantHandlerGood,
     InitPowerOffHandlerGood, RunShutdownScriptHandlerGood
  DEF Dispatch

(* So do timer, pipes, chat, CMUX, PPP and the modem, which leave the state *)
(* to the handlers of the events they queue,                                *)
LEMMA EnvironmentGood ==
  ASSUME GoodData(data), Environment
  PROVE  Kept(data, data')
<1>1. CASE TimeoutWork
  BY <1>1, TimerGood, DelegateGood DEF TimeoutWork, Events, Kept
<1> QED
  BY <1>1, PipeEventGood, ChatCallbackGood, CmuxEventsGood, PppPhaseDeadGood,
     UnsolicitedGood DEF Environment

(* and the application threads. *)
LEMMA CallersGood ==
  ASSUME GoodData(data), setter \in Apns \cup {"none"}, Callers
  PROVE  Kept(data, data')
<1>1. CASE GetSignalRun
  BY <1>1, RunScriptGood DEF GetSignalRun, Scripts, Kept
<1>2. CASE GetSignalCheck \/ (\E apn \in Apns : SetApnCheck(apn))
  BY <1>2 DEF GetSignalCheck, SetApnCheck, Kept
<1> QED
  BY <1>1, <1>2, PmActionsGood, SetApnWriteGood DEF Callers

(* What the threads and the dispatch loop hold outside the driver's data. *)
Clients ==
  /\ draining \in BOOLEAN /\ query \in {"idle", "checked"}
  /\ setter \in Apns \cup {"none"} /\ suspends \in Nat /\ noise \in Nat

(* The inductive invariant: TypeOK and, with it, the relation of interface, *)
(* pins, timer, token and link owners to the state.                         *)
IInv == GoodData(data) /\ Clients

(* Every step keeps the types of what the threads hold. *)
LEMMA ClientsPreserved ==
  ASSUME Clients, Next
  PROVE  Clients'
<1>1. CASE Dispatch
  <2>1. draining' \in BOOLEAN /\ UNCHANGED callers
    BY <1>1
    DEF Dispatch, In, DispatchEnd, IdleHandler, ResetPulseHandler,
        AwaitResetHandler, PowerOnPulseHandler, AwaitPowerOnHandler,
        SetBaudrateHandler, RunInitScriptHandler, ConnectCmuxHandler,
        OpenDlci1Handler, OpenDlci2Handler, WaitForApnHandler,
        RunApnScriptHandler, RunDialScriptHandler, AwaitRegisteredHandler,
        CarrierOnHandler, DormantHandler, InitPowerOffHandler,
        RunShutdownScriptHandler, PowerOffPulseHandler, AwaitPowerOffHandler
  <2> QED
    BY <2>1 DEF Clients, callers
<1>2. CASE Environment
  <2>1. /\ UNCHANGED <<draining, query, setter, suspends>>
        /\ noise' \in {noise, noise + 1}
    BY <1>2
    DEF Environment, TimeoutWork, CmuxConnected, CmuxDisconnected,
        PppPhaseDead, PipeEvent, ChatCallback, OnModemReady, RingGpio,
        OnCxreg, OnCgev, Unsolicited, Noise, callers
  <2> QED
    BY <2>1 DEF Clients
<1>3. CASE PmResume \/ PmSuspend \/ PmTakeSem \/ PmTimeout
  <2>1. /\ UNCHANGED <<draining, query, setter, noise>>
        /\ suspends' \in {suspends, suspends + 1}
    BY <1>3 DEF PmResume, PmSuspend, PmTakeSem, PmTimeout, callers
  <2> QED
    BY <2>1 DEF Clients
<1>4. CASE GetSignalCheck \/ GetSignalRun
  <2>1. /\ UNCHANGED <<draining, setter, suspends>>
        /\ query' \in {"idle", "checked"} /\ noise' \in {noise, noise + 1}
    BY <1>4 DEF GetSignalCheck, GetSignalRun, Noise
  <2> QED
    BY <2>1 DEF Clients
<1>5. CASE SetApnWrite \/ \E apn \in Apns : SetApnCheck(apn)
  <2>1. /\ UNCHANGED <<draining, query, suspends>>
        /\ setter' \in Apns \cup {"none"} /\ noise' \in {noise, noise + 1}
    BY <1>5 DEF SetApnWrite, SetApnCheck, Noise
  <2> QED
    BY <2>1 DEF Clients
<1> QED
  BY <1>1, <1>2, <1>3, <1>4, <1>5 DEF Next, Callers

(* The inductive invariant holds of the initial state and is preserved by *)
(* every handler, environment step and call.                              *)
THEOREM Invariance == Spec => []IInv
<1>1. Init => IInv
  <2>1. ASSUME Init PROVE Clients
    <3>1. /\ draining = FALSE /\ query = "idle" /\ setter = "none"
          /\ suspends = 0 /\ noise = 0
      BY <2>1 DEF Init
    <3>2. draining \in BOOLEAN
      BY <3>1
    <3>3. query \in {"idle", "checked"} /\ setter \in Apns \cup {"none"}
      BY <3>1
    <3>4. suspends \in Nat /\ noise \in Nat
      BY <3>1
    <3> QED
      BY <3>2, <3>3, <3>4 DEF Clients
  <2> QED
    BY <2>1, InitGood DEF IInv
<1>2. IInv /\ [Next]_vars => IInv'
  <2> SUFFICES ASSUME IInv, [Next]_vars PROVE IInv'
    OBVIOUS
  <2>1. CASE Next
    <3>1. Clients'
      BY <2>1, ClientsPreserved DEF IInv
    <3>2. GoodData(data')
      BY <2>1, DispatchGood, EnvironmentGood, CallersGood
      DEF IInv, Clients, Next, Kept
    <3> QED
      BY <3>1, <3>2 DEF IInv
  <2>2. CASE UNCHANGED vars
    BY <2>2 DEF IInv, Clients, vars, callers
  <2> QED
    BY <2>1, <2>2
<1> QED
  BY <1>1, <1>2, PTL DEF Spec

(* The driver's data keep their types, the failure counter and the token *)
(* their bounds.                                                         *)
THEOREM TypeCorrect == Spec => []TypeOK
<1>1. IInv => TypeOK
  BY DEF IInv, GoodData, Clients, TypeOK
<1> QED
  BY <1>1, Invariance, PTL

(* Whatever path leads to IDLE, the chat, PPP and CMUX are released, the *)
(* interface is down and the user pipes have been told.                  *)
THEOREM IdleIsQuiescent == Spec => []IdleQuiescent
<1>1. IInv => IdleQuiescent
  BY DEF IInv, GoodData, Good, Sound, IdleQuiescent
<1> QED
  BY <1>1, Invariance, PTL

(* suspended_sem can be taken in IDLE only: a suspend call that takes it *)
(* never reports a running modem as suspended.                           *)
THEOREM TokenOnlyWhenIdle == Spec => []TokenMeansIdle
<1>1. IInv => TokenMeansIdle
  BY DEF IInv, GoodData, Good, Sound, TokenMeansIdle
<1> QED
  BY <1>1, Invariance, PTL

(* The network interface has its carrier exactly in CARRIER_ON and DORMANT *)
(* and is dormant exactly in DORMANT.                                      *)
THEOREM InterfaceFollows == Spec => []InterfaceFollowsState
<1>1. IInv => InterfaceFollowsState
  BY DEF IInv, GoodData, Good, Sound, InterfaceFollowsState
<1> QED
  BY <1>1, Invariance, PTL

(* The reset and wake lines follow the state.                               *)
THEOREM PinsFollow == Spec => []PinsFollowState
<1>1. IInv => PinsFollowState
  BY DEF IInv, GoodData, Good, Sound, PinsFollowState, Held
<1> QED
  BY <1>1, Invariance, PTL

(* While PPP is attached nobody takes DLCI1 from it.                        *)
THEOREM PppOwns == Spec => []PppOwnsDlci1
<1>1. IInv => PppOwnsDlci1
  BY DEF IInv, GoodData, Good, Sound, PppOwned, PppOwnsDlci1
<1> QED
  BY <1>1, Invariance, PTL

(* A timer armed by a state whose leave function stops it does not survive *)
(* the state.                                                              *)
THEOREM TimerStops == Spec => []TimerStopsWithState
<1>1. IInv => TimerStopsWithState
  BY DEF IInv, GoodData, Good, Sound, StoppedStates, TimerStopsWithState
<1> QED
  BY <1>1, Invariance, PTL

(* A handler that runs in a power-off state is one of the last four. *)
LEMMA PowerOffStep ==
  ASSUME GoodData(data), data.state \in PowerOffStates, Dispatch
  PROVE  data'.state \in PowerOffStates \cup {"IDLE"}
<1>1. CASE DispatchEnd
  BY <1>1 DEF DispatchEnd
<1>2. CASE \/ InitPowerOffHandler \/ RunShutdownScriptHandler
           \/ PowerOffPulseHandler \/ AwaitPowerOffHandler
  BY <1>2, InitPowerOffHandlerGood, RunShutdownScriptHandlerGood,
     PowerOffPulseHandlersGood
<1> QED
  BY <1>1, <1>2
  DEF Dispatch, In, PowerOffStates, IdleHandler, ResetPulseHandler,
      AwaitResetHandler, PowerOnPulseHandler, AwaitPowerOnHandler,
      SetBaudrateHandler, RunInitScriptHandler, ConnectCmuxHandler,
      OpenDlci1Handler, OpenDlci2Handler, WaitForApnHandler,
      RunApnScriptHandler, RunDialScriptHandler, AwaitRegisteredHandler,
      CarrierOnHandler, DormantHandler

(* No event, whatever its order, turns a power-off the driver has begun *)
(* into anything but IDLE.                                              *)
THEOREM PowerOffFinal == Spec => PowerOffIsFinal
<1>1. IInv /\ [Next]_vars =>
        [data.state \in PowerOffStates =>
           data'.state \in PowerOffStates \cup {"IDLE"}]_vars
  <2> SUFFICES ASSUME IInv, Next, data.state \in PowerOffStates
               PROVE  data'.state \in PowerOffStates \cup {"IDLE"}
    OBVIOUS
  <2>1. CASE Dispatch
    BY <2>1, PowerOffStep DEF IInv
  <2>2. CASE Environment \/ Callers
    BY <2>2, EnvironmentGood, CallersGood DEF IInv, Clients, Kept
  <2> QED
    BY <2>1, <2>2 DEF Next
<1> QED
  BY <1>1, Invariance, PTL DEF Spec, PowerOffIsFinal
=============================================================================
