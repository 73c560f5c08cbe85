------------------------------ MODULE AppProofs ------------------------------
(***************************************************************************)
(* Proofs about P3's application on the abstract modem, for every set of   *)
(* registration values and every number of reports.                        *)
(***************************************************************************)
EXTENDS CellularApp, TLAPS

(* A session, and the RESUME that begins one, exist only after main has     *)
(* installed its callback and asserted the power.                           *)
Ordered ==
  /\ pending \/ phase # "off" => listening /\ powered
  /\ app \in {"assert power", "resume"} => listening
  /\ app = "resume" => powered

(* The lines of the init script that have been answered are known.          *)
Answers ==
  /\ phase = "booting" =>
       \A i \in 1 .. (line - 1) :
         InitScript[i] \in Fields => identity[InitScript[i]] # "none"
  /\ IdentityBeforeDial

(* As long as no session began with reports on, they are on only in the     *)
(* last lines of the script or after it.                                    *)
ReportsLate ==
  /\ ~again /\ reports /\ phase = "booting" => line > 18
  /\ IdentityIsTheModems

ShownOK ==
  shown \in [identity : [Fields -> {"none", "own", "report"}],
             status : Statuses \cup {"none"}]

AppIInv ==
  AppTypeOK /\ ShownOK /\ Ordered /\ BroughtUpInOrder /\ Answers /\ ReportsLate

(* The names in use. *)
LEMMA FieldNames ==
  Fields = {"imei", "model_id", "manufacturer", "imsi", "iccid", "fw_version"}
<1>1. DOMAIN InfoFields = 1 .. 6
  BY DEF InfoFields
<1>2. /\ InfoFields[1] = "imei" /\ InfoFields[2] = "model_id"
      /\ InfoFields[3] = "manufacturer" /\ InfoFields[4] = "imsi"
      /\ InfoFields[5] = "iccid" /\ InfoFields[6] = "fw_version"
  BY DEF InfoFields
<1>3. 1 .. 6 = {1, 2, 3, 4, 5, 6}
  OBVIOUS
<1> QED
  BY <1>1, <1>2, <1>3 DEF Fields

LEMMA PhaseNames ==
  /\ Phases = {"off", "booting", "linking", "attached", "online", "dormant",
               "stopping"}
  /\ \A p \in Phases : Moves[p] \subseteq Phases \ {"off", "booting"}
BY DEF Phases, Moves

(* Every identity field is asked for, none of them after the first request  *)
(* for registration reports.                                                *)
LEMMA ScriptLines ==
  /\ Len(InitScript) = 22
  /\ \A f \in Fields : \E i \in 1 .. 22 : InitScript[i] = f
  /\ \A i \in 1 .. 22 : InitScript[i] = "reports" => i > 18
  /\ \A i \in 1 .. 22 : i > 18 => InitScript[i] \notin AnyLine
<1>1. Len(InitScript) = 22
  BY DEF InitScript
<1>2. /\ InitScript[7] = "imei" /\ InitScript[9] = "model_id"
      /\ InitScript[11] = "manufacturer" /\ InitScript[13] = "fw_version"
      /\ InitScript[15] = "imsi" /\ InitScript[17] = "iccid"
      /\ InitScript[19] = "reports" /\ InitScript[20] = "reports"
      /\ InitScript[21] = "reports" /\ InitScript[22] = "CMUX"
  BY DEF InitScript
<1>3. \A i \in {1, 2, 3, 4, 5, 6, 8, 10, 12, 14, 16, 18} : InitScript[i] = "OK"
  BY DEF InitScript
<1>4. \A f \in Fields : \E i \in 1 .. 22 : InitScript[i] = f
  <2>1. \A i \in {7, 9, 11, 13, 15, 17} : i \in 1 .. 22
    OBVIOUS
  <2> QED
    BY <1>2, <2>1, FieldNames
<1>5. \A i \in 1 .. 22 : i > 18 => i \in {19, 20, 21, 22}
  OBVIOUS
<1>6. \A i \in 1 .. 22 : InitScript[i] = "reports" => i > 18
  <2> SUFFICES ASSUME NEW i \in 1 .. 22, ~(i > 18)
               PROVE  InitScript[i] # "reports"
    OBVIOUS
  <2>1. i \in {1, 2, 3, 4, 5, 6, 8, 10, 12, 14, 16, 18} \cup {7, 9, 11, 13, 15, 17}
    OBVIOUS
  <2> QED
    BY <1>2, <1>3, <2>1
<1>7. \A i \in 1 .. 22 : i > 18 => InitScript[i] \notin AnyLine
  BY <1>2, <1>5 DEF AnyLine
<1> QED
  BY <1>1, <1>4, <1>6, <1>7

(* The order of main's steps. *)
LEMMA StepNames ==
  /\ Len(Steps) = 15 /\ DOMAIN Steps = 1 .. 15
  /\ Steps[1] = "check" /\ Steps[2] = "set callback"
  /\ Steps[3] = "assert power" /\ Steps[4] = "resume" /\ Steps[5] = "settle"
  /\ Steps[6] = "signal" /\ Steps[7] = "await signal" /\ Steps[8] = "status"
  /\ Steps[9] = "imei" /\ Steps[10] = "model_id" /\ Steps[11] = "manufacturer"
  /\ Steps[12] = "imsi" /\ Steps[13] = "iccid" /\ Steps[14] = "fw_version"
  /\ Steps[15] = "wait"
BY DEF Steps, Startup, Snapshot, InfoFields

LEMMA StepsDiffer ==
  \A i \in 1 .. 15 :
    /\ Steps[i] = "check" => i = 1
    /\ Steps[i] = "set callback" => i = 2
    /\ Steps[i] = "assert power" => i = 3
    /\ Steps[i] = "resume" => i = 4
    /\ Steps[i] = "settle" => i = 5
    /\ Steps[i] = "signal" => i = 6
    /\ Steps[i] = "await signal" => i = 7
    /\ Steps[i] = "status" => i = 8
    /\ Steps[i] = "imei" => i = 9
    /\ Steps[i] = "model_id" => i = 10
    /\ Steps[i] = "manufacturer" => i = 11
    /\ Steps[i] = "imsi" => i = 12
    /\ Steps[i] = "iccid" => i = 13
    /\ Steps[i] = "fw_version" => i = 14
    /\ Steps[i] = "wait" => i = 15
<1>1. \A i \in 1 .. 15 : i \in {1, 2, 3, 4, 5, 6, 7, 8, 9, 10, 11, 12, 13, 14, 15}
  OBVIOUS
<1>2. \A i \in {1, 2, 3, 4, 5, 6, 7, 8, 9, 10, 11, 12, 13, 14, 15} :
        /\ Steps[i] = "check" => i = 1
        /\ Steps[i] = "set callback" => i = 2
        /\ Steps[i] = "assert power" => i = 3
        /\ Steps[i] = "resume" => i = 4
        /\ Steps[i] = "settle" => i = 5
        /\ Steps[i] = "signal" => i = 6
        /\ Steps[i] = "await signal" => i = 7
        /\ Steps[i] = "status" => i = 8
        /\ Steps[i] = "imei" => i = 9
        /\ Steps[i] = "model_id" => i = 10
        /\ Steps[i] = "manufacturer" => i = 11
        /\ Steps[i] = "imsi" => i = 12
        /\ Steps[i] = "iccid" => i = 13
        /\ Steps[i] = "fw_version" => i = 14
        /\ Steps[i] = "wait" => i = 15
  BY ZenonT(60), StepNames
<1> QED
  BY <1>1, <1>2

LEMMA StepsInjective == \A i \in 1 .. 15, j \in 1 .. 15 : Steps[i] = Steps[j] => i = j
<1> SUFFICES ASSUME NEW i \in 1 .. 15, NEW j \in 1 .. 15, Steps[i] = Steps[j]
             PROVE  i = j
  OBVIOUS
<1>1. CASE j = 1
  BY <1>1, StepNames, StepsDiffer
<1>2. CASE j = 2
  BY <1>2, StepNames, StepsDiffer
<1>3. CASE j = 3
  BY <1>3, StepNames, StepsDiffer
<1>4. CASE j = 4
  BY <1>4, StepNames, StepsDiffer
<1>5. CASE j = 5
  BY <1>5, StepNames, StepsDiffer
<1>6. CASE j = 6
  BY <1>6, StepNames, StepsDiffer
<1>7. CASE j = 7
  BY <1>7, StepNames, StepsDiffer
<1>8. CASE j = 8
  BY <1>8, StepNames, StepsDiffer
<1>9. CASE j = 9
  BY <1>9, StepNames, StepsDiffer
<1>10. CASE j = 10
  BY <1>10, StepNames, StepsDiffer
<1>11. CASE j = 11
  BY <1>11, StepNames, StepsDiffer
<1>12. CASE j = 12
  BY <1>12, StepNames, StepsDiffer
<1>13. CASE j = 13
  BY <1>13, StepNames, StepsDiffer
<1>14. CASE j = 14
  BY <1>14, StepNames, StepsDiffer
<1>15. CASE j = 15
  BY <1>15, StepNames, StepsDiffer
<1>16. j \in {1, 2, 3, 4, 5, 6, 7, 8, 9, 10, 11, 12, 13, 14, 15}
  OBVIOUS
<1> QED
  BY <1>1, <1>2, <1>3, <1>4, <1>5, <1>6, <1>7, <1>8, <1>9, <1>10, <1>11, <1>12,
     <1>13, <1>14, <1>15, <1>16

LEMMA AfterStep == \A i \in 1 .. 14 : After(Steps[i]) = Steps[i + 1]
<1> SUFFICES ASSUME NEW i \in 1 .. 14
             PROVE  After(Steps[i]) = Steps[i + 1]
  OBVIOUS
<1>1. i \in 1 .. 15 /\ 1 + i = i + 1
  OBVIOUS
<1>2. i \in DOMAIN Steps
  BY <1>1, StepNames
<1>3. \A j \in DOMAIN Steps : Steps[j] = Steps[i] => j = i
  BY <1>1, StepNames, StepsInjective
<1> DEFINE place == CHOOSE j \in DOMAIN Steps : Steps[j] = Steps[i]
<1>4. place \in DOMAIN Steps /\ Steps[place] = Steps[i]
  BY <1>2
<1>5. place = i
  BY <1>3, <1>4
<1>6. After(Steps[i]) = Steps[1 + place]
  BY DEF After
<1> QED
  BY <1>1, <1>5, <1>6

LEMMA NextSteps ==
  /\ After("check") = "set callback"
  /\ After("set callback") = "assert power"
  /\ After("assert power") = "resume"
  /\ After("resume") = "settle"
  /\ After("settle") = "signal"
  /\ After("await signal") = "status"
  /\ After("status") = "imei"
  /\ After("imei") = "model_id"
  /\ After("model_id") = "manufacturer"
  /\ After("manufacturer") = "imsi"
  /\ After("imsi") = "iccid"
  /\ After("iccid") = "fw_version"
  /\ After("fw_version") = "wait"
<1>1. \A i \in {1, 2, 3, 4, 5, 7, 8, 9, 10, 11, 12, 13, 14} : i \in 1 .. 14
  OBVIOUS
<1>2. /\ After(Steps[1]) = Steps[1 + 1]
      /\ After(Steps[2]) = Steps[2 + 1]
      /\ After(Steps[3]) = Steps[3 + 1]
      /\ After(Steps[4]) = Steps[4 + 1]
      /\ After(Steps[5]) = Steps[5 + 1]
      /\ After(Steps[7]) = Steps[7 + 1]
      /\ After(Steps[8]) = Steps[8 + 1]
      /\ After(Steps[9]) = Steps[9 + 1]
      /\ After(Steps[10]) = Steps[10 + 1]
      /\ After(Steps[11]) = Steps[11 + 1]
      /\ After(Steps[12]) = Steps[12 + 1]
      /\ After(Steps[13]) = Steps[13 + 1]
      /\ After(Steps[14]) = Steps[14 + 1]
  BY <1>1, AfterStep
<1>3. /\ After(Steps[1]) = Steps[2]
      /\ After(Steps[2]) = Steps[3]
      /\ After(Steps[3]) = Steps[4]
      /\ After(Steps[4]) = Steps[5]
      /\ After(Steps[5]) = Steps[6]
      /\ After(Steps[7]) = Steps[8]
      /\ After(Steps[8]) = Steps[9]
      /\ After(Steps[9]) = Steps[10]
      /\ After(Steps[10]) = Steps[11]
      /\ After(Steps[11]) = Steps[12]
      /\ After(Steps[12]) = Steps[13]
      /\ After(Steps[13]) = Steps[14]
      /\ After(Steps[14]) = Steps[15]
  BY <1>2
<1> QED
  BY <1>3, StepNames

(* The places main can be in, and where it goes from the snapshot. *)
Later == {"settle", "signal", "await signal", "status", "wait", "waiting",
          "stopped"} \cup Fields
LEMMA MainSteps ==
  /\ {Steps[i] : i \in DOMAIN Steps} \cup {"waiting", "stopped"}
       = {"check", "set callback", "assert power", "resume"} \cup Later
  /\ \A s \in {"settle", "await signal", "status"} \cup Fields :
       After(s) \in Later
<1>1. {Steps[i] : i \in DOMAIN Steps} =
        {"check", "set callback", "assert power", "resume", "settle", "signal",
         "await signal", "status", "wait"} \cup Fields
  <2>1. \A i \in 1 .. 15 : i \in {1, 2, 3, 4, 5, 6, 7, 8, 9, 10, 11, 12, 13, 14, 15}
    OBVIOUS
  <2>2. \A i \in {1, 2, 3, 4, 5, 6, 7, 8, 9, 10, 11, 12, 13, 14, 15} : i \in 1 .. 15
    OBVIOUS
  <2>3. \A i \in DOMAIN Steps : Steps[i] \in
        {"check", "set callback", "assert power", "resume", "settle", "signal",
         "await signal", "status", "wait"} \cup Fields
    BY <2>1, StepNames, FieldNames
  <2>4. \A s \in {"check", "set callback", "assert power", "resume", "settle",
                  "signal", "await signal", "status", "wait"} \cup Fields :
          \E i \in DOMAIN Steps : Steps[i] = s
    BY ZenonT(60), <2>2, StepNames, FieldNames
  <2> QED
    BY <2>3, <2>4
<1>2. \A s \in {"settle", "await signal", "status"} \cup Fields :
        After(s) \in Later
  BY NextSteps, FieldNames DEF Later
<1>3. {"check", "set callback", "assert power", "resume"} \cup Later =
        ({"check", "set callback", "assert power", "resume", "settle", "signal",
          "await signal", "status", "wait"} \cup Fields) \cup {"waiting", "stopped"}
  BY DEF Later
<1> QED
  BY <1>1, <1>2, <1>3

(* Everything but main's place is left as it is. *)
Moving == UNCHANGED <<power, listening, powered, shown>> /\ Untouched
LEMMA MainMoves ==
  ASSUME AppIInv, Moving, app' \in Later \cup {"set callback"}
  PROVE  AppIInv'
<1>1. /\ UNCHANGED <<phase, pm, token, pending, listening, powered, flags, line,
                     reports, identity, status, shown, sent, again>>
  BY DEF power, Untouched, Moving
<1>2. AppTypeOK' /\ ShownOK'
  BY <1>1, MainSteps DEF AppIInv, AppTypeOK, ShownOK
<1>3. app' \notin {"assert power", "resume"}
  BY FieldNames DEF Later
<1>4. Ordered' /\ BroughtUpInOrder'
  BY <1>1, <1>3 DEF AppIInv, Ordered, BroughtUpInOrder
<1>5. Answers' /\ ReportsLate'
  BY <1>1 DEF AppIInv, Answers, IdentityBeforeDial, ReportsLate,
              IdentityIsTheModems
<1> QED
  BY <1>2, <1>4, <1>5 DEF AppIInv

(* main's steps that touch nothing else. *)
LEMMA QuietMain ==
  ASSUME AppIInv,
         CheckDevices \/ GiveUpStart \/ Settle \/ GetSignal \/ SignalScriptEnds
           \/ WaitEnds
  PROVE  AppIInv'
<1>1. Moving
  BY DEF Moving, CheckDevices, GiveUpStart, Settle, GetSignal, SignalScriptEnds, WaitEnds
<1>2. app' \in Later \cup {"set callback"}
  <2>1. CASE CheckDevices
    BY <2>1, NextSteps DEF CheckDevices, At
  <2>2. CASE GiveUpStart
    BY <2>2 DEF GiveUpStart, Later
  <2>3. CASE Settle \/ SignalScriptEnds
    BY <2>3, NextSteps DEF Settle, SignalScriptEnds, At, Later
  <2>4. CASE GetSignal
    <3>1. app' \in {"await signal", "status"}
      BY <2>4 DEF GetSignal
    <3> QED
      BY <3>1 DEF Later
  <2>5. CASE WaitEnds
    BY <2>5 DEF WaitEnds, Later
  <2> QED
    BY <2>1, <2>2, <2>3, <2>4, <2>5
<1> QED
  BY <1>1, <1>2, MainMoves

(* The bring-up. *)
LEMMA BringUp ==
  ASSUME AppIInv, SetCallback \/ AssertPower \/ RunResume
  PROVE  AppIInv'
<1>1. CASE SetCallback
  <2>1. /\ app = "set callback" /\ app' = "assert power" /\ listening' = TRUE
        /\ UNCHANGED <<phase, pm, token, pending, powered, flags, line, reports,
                       identity, status, shown, sent, again>>
    BY <1>1, NextSteps DEF SetCallback, At, Untouched, power
  <2>2. AppTypeOK' /\ ShownOK'
    BY <2>1, MainSteps DEF AppIInv, AppTypeOK, ShownOK
  <2>3. Ordered' /\ BroughtUpInOrder'
    BY <2>1 DEF AppIInv, Ordered, BroughtUpInOrder
  <2>4. Answers' /\ ReportsLate'
    BY <2>1 DEF AppIInv, Answers, IdentityBeforeDial, ReportsLate,
                IdentityIsTheModems
  <2> QED
    BY <2>2, <2>3, <2>4 DEF AppIInv
<1>2. CASE AssertPower
  <2>1. /\ app = "assert power" /\ app' = "resume" /\ powered' = TRUE
        /\ UNCHANGED <<phase, pm, token, pending, listening, flags, line, reports,
                       identity, status, shown, sent, again>>
    BY <1>2, NextSteps DEF AssertPower, At, Untouched, power
  <2>2. AppTypeOK' /\ ShownOK'
    BY <2>1, MainSteps DEF AppIInv, AppTypeOK, ShownOK
  <2>3. Ordered' /\ BroughtUpInOrder'
    BY <2>1 DEF AppIInv, Ordered, BroughtUpInOrder
  <2>4. Answers' /\ ReportsLate'
    BY <2>1 DEF AppIInv, Answers, IdentityBeforeDial, ReportsLate,
                IdentityIsTheModems
  <2> QED
    BY <2>2, <2>3, <2>4 DEF AppIInv
<1>3. CASE RunResume
  <2>1. /\ app = "resume" /\ app' = "settle"
        /\ UNCHANGED <<phase, token, listening, powered, flags, line, reports,
                       identity, status, shown, sent, again>>
        /\ pm' \in {pm, "active"} /\ pending' \in {pending, TRUE}
    BY <1>3, NextSteps DEF RunResume, Resume, At, Untouched, power
  <2>2. AppTypeOK' /\ ShownOK'
    BY <2>1, MainSteps DEF AppIInv, AppTypeOK, ShownOK, Later
  <2>3. Ordered' /\ BroughtUpInOrder'
    BY <2>1 DEF AppIInv, Ordered, BroughtUpInOrder
  <2>4. Answers' /\ ReportsLate'
    BY <2>1 DEF AppIInv, Answers, IdentityBeforeDial, ReportsLate,
                IdentityIsTheModems
  <2> QED
    BY <2>2, <2>3, <2>4 DEF AppIInv
<1> QED
  BY <1>1, <1>2, <1>3

(* The snapshot, and the wait that clears the flags. *)
LEMMA Showing ==
  ASSUME AppIInv,
         ShowStatus \/ (\E field \in Fields : ShowInfo(field)) \/ EnterWait
  PROVE  AppIInv'
<1>1. /\ UNCHANGED <<phase, pm, token, pending, listening, powered, line, reports,
                     identity, status, sent, again>>
      /\ flags' \in {flags, {}}
  BY DEF ShowStatus, ShowInfo, EnterWait, Untouched, power, Kept
<1>2. app' \in Later
  BY ZenonT(60), NextSteps, MainSteps
     DEF ShowStatus, ShowInfo, EnterWait, At, Later
<1>3. ShownOK'
  <2>1. /\ shown \in [identity : [Fields -> {"none", "own", "report"}],
                       status : Statuses \cup {"none"}]
        /\ identity \in [Fields -> {"none", "own", "report"}]
        /\ status \in Statuses
    BY DEF AppIInv, ShownOK, AppTypeOK
  <2>2. CASE ShowStatus
    BY <2>1, <2>2 DEF ShowStatus, ShownOK
  <2>3. ASSUME NEW field \in Fields, ShowInfo(field)
        PROVE  ShownOK'
    <3>1. shown' = [shown EXCEPT !.identity =
                      [shown.identity EXCEPT ![field] = identity[field]]]
      BY <2>1, <2>3 DEF ShowInfo
    <3>2. [shown.identity EXCEPT ![field] = identity[field]]
            \in [Fields -> {"none", "own", "report"}]
      BY <2>1
    <3> QED
      BY <2>1, <3>1, <3>2 DEF ShownOK
  <2>4. CASE EnterWait
    BY <2>1, <2>4 DEF EnterWait, ShownOK
  <2> QED
    BY <2>2, <2>3, <2>4
<1>4. AppTypeOK'
  BY <1>1, <1>2, <1>3, MainSteps DEF AppIInv, AppTypeOK, ShownOK
<1>5. app' \notin {"assert power", "resume"}
  BY <1>2, FieldNames DEF Later
<1>6. Ordered' /\ BroughtUpInOrder'
  BY <1>1, <1>5 DEF AppIInv, Ordered, BroughtUpInOrder
<1>7. Answers' /\ ReportsLate'
  BY <1>1 DEF AppIInv, Answers, IdentityBeforeDial, ReportsLate,
              IdentityIsTheModems
<1> QED
  BY <1>3, <1>4, <1>6, <1>7 DEF AppIInv

(* Storing a field. *)
LEMMA StoreInfoFacts ==
  ASSUME AppIInv, NEW field \in Fields, NEW value \in {"own", "report"},
         StoreInfo(field, value)
  PROVE  /\ identity' \in [Fields -> {"none", "own", "report"}]
         /\ identity'[field] = value
         /\ \A f \in Fields : identity'[f] \in {identity[f], value}
         /\ \A f \in Fields : identity[f] # "none" => identity'[f] # "none"
         /\ flags' \subseteq {"info", "reg"}
<1>1. identity \in [Fields -> {"none", "own", "report"}]
  BY DEF AppIInv, AppTypeOK
<1>2. identity' = [identity EXCEPT ![field] = value]
  BY DEF StoreInfo
<1>3. flags' \subseteq {"info", "reg"}
  BY DEF StoreInfo, Emit, AppIInv, AppTypeOK
<1> QED
  BY <1>1, <1>2, <1>3

(* A line of the init script is answered. *)
LEMMA ScriptLineKeeps == AppIInv /\ ScriptLine => AppIInv'
<1> SUFFICES ASSUME AppIInv, ScriptLine
             PROVE  AppIInv'
  OBVIOUS
<1>1. /\ phase = "booting" /\ line' = line + 1
      /\ reports' = (reports \/ InitScript[line] = "reports")
      /\ UNCHANGED <<phase, pm, token, pending, app, listening, powered, status,
                     shown, sent, again>>
  BY DEF ScriptLine, power
<1>2. line \in 1 .. 22
  BY ScriptLines DEF ScriptLine, ScriptDone, AppIInv, AppTypeOK
<1>3. line' \in 1 .. 23 /\ line' - 1 = line
  BY <1>1, <1>2
<1>4. /\ identity' \in [Fields -> {"none", "own", "report"}]
      /\ flags' \subseteq {"info", "reg"}
      /\ \A f \in Fields : identity[f] # "none" => identity'[f] # "none"
      /\ \A f \in Fields : identity'[f] \in {identity[f], "own"}
      /\ InitScript[line] \in Fields => identity'[InitScript[line]] # "none"
  <2>1. CASE InitScript[line] \in Fields
    <3>1. StoreInfo(InitScript[line], "own")
      BY <2>1 DEF ScriptLine
    <3> QED
      BY <2>1, <3>1, StoreInfoFacts
  <2>2. CASE InitScript[line] \notin Fields
    BY <2>2 DEF ScriptLine, AppIInv, AppTypeOK
  <2> QED
    BY <2>1, <2>2
<1>5. AppTypeOK' /\ ShownOK'
  BY <1>1, <1>3, <1>4, ScriptLines DEF AppIInv, AppTypeOK, ShownOK
<1>6. Ordered' /\ BroughtUpInOrder'
  BY <1>1 DEF AppIInv, Ordered, BroughtUpInOrder
<1>7. Answers'
  <2>1. ASSUME NEW i \in 1 .. line, InitScript[i] \in Fields
        PROVE  identity'[InitScript[i]] # "none"
    <3>1. CASE i = line
      BY <1>4, <2>1, <3>1
    <3>2. CASE i # line
      <4>1. i \in 1 .. (line - 1)
        BY <1>2, <3>2
      <4>2. identity[InitScript[i]] # "none"
        BY <1>1, <2>1, <4>1 DEF AppIInv, Answers
      <4> QED
        BY <1>4, <2>1, <4>2
    <3> QED
      BY <3>1, <3>2
  <2> QED
    BY <1>1, <1>3, <2>1 DEF Answers, IdentityBeforeDial
<1>8. ~again' /\ reports' /\ phase' = "booting" => line' > 18
  <2>1. InitScript[line] = "reports" => line > 18
    BY <1>2, ScriptLines
  <2>2. ~again /\ reports => line > 18
    BY <1>1 DEF AppIInv, ReportsLate
  <2>3. line > 18 => line' > 18
    BY <1>1, <1>2
  <2>4. reports' => reports \/ InitScript[line] = "reports"
    BY <1>1
  <2> QED
    BY <1>1, <2>1, <2>2, <2>3, <2>4, Zenon
<1>9. IdentityIsTheModems'
  BY <1>1, <1>4 DEF AppIInv, ReportsLate, IdentityIsTheModems
<1> QED
  BY <1>5, <1>6, <1>7, <1>8, <1>9 DEF AppIInv, ReportsLate

(* A registration report, also one that is taken for an answer. *)
LEMMA ReportKeeps ==
  ASSUME AppIInv, NEW domain, NEW s \in Statuses, Report(domain, s)
  PROVE  AppIInv'
<1>1. /\ sent' = sent + 1 /\ sent < MaxReports /\ reports
      /\ UNCHANGED <<phase, pm, token, pending, app, listening, powered, reports,
                     shown, again>>
  BY DEF Report, power, Kept
<1>2. sent' \in 0 .. MaxReports
  <2>1. sent \in 0 .. MaxReports
    BY DEF AppIInv, AppTypeOK
  <2>2. sent' = sent + 1 /\ sent < MaxReports
    BY <1>1
  <2>3. MaxReports \in Nat
    BY ReportAssumption
  <2> QED
    BY <2>1, <2>2, <2>3
<1>3. Ordered' /\ BroughtUpInOrder'
  BY <1>1 DEF AppIInv, Ordered, BroughtUpInOrder
<1>4. CASE TakenForAnswer
  <2>1. /\ phase = "booting" /\ InitScript[line] \in AnyLine
        /\ line \in 1 .. 22
    BY <1>4, ScriptLines DEF TakenForAnswer, ScriptDone, AppIInv, AppTypeOK
  <2>2. InitScript[line] \in Fields
    BY <2>1, FieldNames DEF AnyLine
  <2>3. /\ StoreInfo(InitScript[line], "report") /\ line' = line + 1
        /\ status' = status
    BY <1>4 DEF Report
  <2>4. /\ identity' \in [Fields -> {"none", "own", "report"}]
        /\ identity'[InitScript[line]] = "report"
        /\ \A f \in Fields : identity[f] # "none" => identity'[f] # "none"
        /\ flags' \subseteq {"info", "reg"}
    BY <2>2, <2>3, StoreInfoFacts
  <2>5. line' \in 1 .. 23 /\ line' - 1 = line
    BY <2>1, <2>3
  <2>6. AppTypeOK' /\ ShownOK'
    BY <1>1, <1>2, <2>3, <2>4, <2>5, ScriptLines DEF AppIInv, AppTypeOK, ShownOK
  <2>7. ASSUME NEW i \in 1 .. line, InitScript[i] \in Fields
        PROVE  identity'[InitScript[i]] # "none"
    <3>1. CASE i = line
      BY <2>4, <3>1
    <3>2. CASE i # line
      <4>1. i \in 1 .. (line - 1)
        BY <2>1, <3>2
      <4>2. identity[InitScript[i]] # "none"
        BY <2>1, <2>7, <4>1 DEF AppIInv, Answers
      <4> QED
        BY <2>4, <2>7, <4>2
    <3> QED
      BY <3>1, <3>2
  <2>8. Answers'
    BY <1>1, <2>1, <2>5, <2>7 DEF Answers, IdentityBeforeDial
  <2>9. again
    <3>1. ~(line > 18)
      BY <2>1, ScriptLines
    <3> QED
      BY <1>1, <2>1, <3>1 DEF AppIInv, ReportsLate
  <2>10. ReportsLate'
    BY <1>1, <2>9 DEF ReportsLate, IdentityIsTheModems
  <2> QED
    BY <1>3, <2>6, <2>8, <2>10 DEF AppIInv
<1>5. CASE ~TakenForAnswer
  <2>1. /\ status' \in Statuses /\ flags' \subseteq {"info", "reg"}
        /\ UNCHANGED <<identity, line>>
    <3>1. /\ status' = IF domain = "lte" THEN s ELSE status
          /\ flags' = IF listening THEN flags \cup {"reg"} ELSE flags
          /\ UNCHANGED <<identity, line>>
      BY <1>5 DEF Report, Emit
    <3> QED
      BY <3>1 DEF AppIInv, AppTypeOK
  <2>2. AppTypeOK' /\ ShownOK'
    BY <1>1, <1>2, <2>1 DEF AppIInv, AppTypeOK, ShownOK
  <2>3. Answers' /\ ReportsLate'
    BY <1>1, <2>1 DEF AppIInv, Answers, IdentityBeforeDial, ReportsLate,
                      IdentityIsTheModems
  <2> QED
    BY <1>3, <2>2, <2>3 DEF AppIInv
<1> QED
  BY <1>4, <1>5

(* A session starts, moves on, stops or starts again. *)
LEMMA DriverTypes ==
  ASSUME AppIInv, DriverStep
  PROVE  /\ phase' \in Phases /\ token' \in 0 .. 1 /\ pending' \in BOOLEAN
         /\ pm' \in {"suspended", "active", "requesting", "waiting"}
<1>1. /\ phase \in Phases /\ token \in 0 .. 1 /\ pending \in BOOLEAN
      /\ pm \in {"suspended", "active", "requesting", "waiting"}
  BY DEF AppIInv, AppTypeOK
<1>2. Give => /\ token' \in 0 .. 1
              /\ pm' \in {"suspended", "active", "requesting", "waiting"}
  BY <1>1 DEF Give
<1>3. CASE Start
  BY <1>1, <1>3, PhaseNames DEF Start
<1>4. ASSUME NEW next \in Phases, Advance(next)
      PROVE  /\ phase' \in Phases
             /\ UNCHANGED <<pm, token, pending>>
  BY <1>4 DEF Advance
<1>5. CASE Stop
  BY <1>1, <1>2, <1>5, PhaseNames DEF Stop
<1>6. CASE Recover
  BY <1>1, <1>2, <1>6, PhaseNames DEF Recover
<1>7. CASE GiveAgain
  BY <1>1, <1>2, <1>7 DEF GiveAgain
<1>8. CASE Forget
  BY <1>1, <1>8 DEF Forget
<1> QED
  BY <1>1, <1>3, <1>4, <1>5, <1>6, <1>7, <1>8 DEF DriverStep

LEMMA DriverStepKeeps == AppIInv /\ DriverStep => AppIInv'
<1> SUFFICES ASSUME AppIInv, DriverStep
             PROVE  AppIInv'
  OBVIOUS
<1>1. UNCHANGED <<app, listening, powered, flags, reports, identity, status,
                  shown, sent>>
  BY DEF DriverStep
<1>2. CASE Start /\ line' = 1 /\ again' = (again \/ reports)
  <2>1. phase' = "booting" /\ pending
    BY <1>2 DEF Start
  <2>2. AppTypeOK' /\ ShownOK'
    BY <1>1, <1>2, ScriptLines, DriverTypes DEF AppIInv, AppTypeOK, ShownOK
  <2>3. Ordered' /\ BroughtUpInOrder'
    BY <1>1, <2>1 DEF AppIInv, Ordered, BroughtUpInOrder
  <2>4. Answers'
    <3>1. 1 .. (line' - 1) = {}
      BY <1>2
    <3> QED
      BY <2>1, <3>1 DEF Answers, IdentityBeforeDial
  <2>5. ~(~again' /\ reports')
    BY <1>1, <1>2
  <2>6. IdentityIsTheModems'
    BY <1>1, <1>2 DEF AppIInv, ReportsLate, IdentityIsTheModems
  <2> QED
    BY <2>2, <2>3, <2>4, <2>5, <2>6 DEF AppIInv, ReportsLate
<1>3. ASSUME NEW next \in Phases, Advance(next), phase = "booting" => ScriptDone,
             UNCHANGED <<line, again>>
      PROVE  AppIInv'
  <2>1. /\ phase' = next /\ next \in Phases \ {"off", "booting"}
        /\ phase # "off" /\ pending' = pending
    BY <1>3, PhaseNames DEF Advance, Moves, AppIInv, AppTypeOK
  <2>2. AppTypeOK' /\ ShownOK'
    BY <1>1, <1>3, DriverTypes DEF AppIInv, AppTypeOK, ShownOK
  <2>3. Ordered' /\ BroughtUpInOrder'
    BY <1>1, <2>1 DEF AppIInv, Ordered, BroughtUpInOrder
  <2>4. \A f \in Fields : identity[f] # "none"
    <3>1. CASE phase = "booting"
      <4>1. line = 23
        BY <1>3, <3>1, ScriptLines DEF ScriptDone, AppIInv, AppTypeOK
      <4>2. \A i \in 1 .. 22 :
              InitScript[i] \in Fields => identity[InitScript[i]] # "none"
        BY <3>1, <4>1 DEF AppIInv, Answers
      <4> QED
        BY <4>2, ScriptLines
    <3>2. CASE phase # "booting"
      BY <2>1, <3>2 DEF AppIInv, Answers, IdentityBeforeDial
    <3> QED
      BY <3>1, <3>2
  <2>5. Answers'
    BY <1>1, <2>1, <2>4 DEF Answers, IdentityBeforeDial
  <2>6. ReportsLate'
    BY <1>1, <1>3, <2>1 DEF AppIInv, ReportsLate, IdentityIsTheModems
  <2> QED
    BY <2>2, <2>3, <2>5, <2>6 DEF AppIInv
<1>4. ASSUME Stop \/ Recover \/ GiveAgain \/ Forget, UNCHANGED <<line, again>>
      PROVE  AppIInv'
  <2>1. \/ phase' = "off" /\ (pending' \/ phase' # "off" => pending \/ phase # "off")
        \/ phase' = phase /\ pending' = FALSE
    BY <1>4 DEF Stop, Recover, GiveAgain, Forget
  <2>2. AppTypeOK' /\ ShownOK'
    BY <1>1, <1>4, DriverTypes DEF AppIInv, AppTypeOK, ShownOK
  <2>3. Ordered' /\ BroughtUpInOrder'
    BY <1>1, <2>1 DEF AppIInv, Ordered, BroughtUpInOrder
  <2>4. phase' \in {"off", phase}
    BY <2>1
  <2>5. Answers'
    BY <1>1, <1>4, <2>4 DEF AppIInv, Answers, IdentityBeforeDial
  <2>6. ReportsLate'
    BY <1>1, <1>4, <2>4 DEF AppIInv, ReportsLate, IdentityIsTheModems
  <2> QED
    BY <2>2, <2>3, <2>5, <2>6 DEF AppIInv
<1> QED
  BY <1>2, <1>3, <1>4 DEF DriverStep

LEMMA AppInitially == AppInit => AppIInv
<1> SUFFICES ASSUME AppInit
             PROVE  AppIInv
  OBVIOUS
<1>1. phase = "off" /\ pm = "suspended" /\ token = 0 /\ pending = FALSE
  BY DEF AppInit, PowerInit
<1>2. listening = FALSE /\ powered = FALSE /\ reports = FALSE /\ again = FALSE
  BY DEF AppInit
<1>3. app = "check" /\ flags = {} /\ line = 1 /\ sent = 0
  BY DEF AppInit
<1>4. identity = [f \in Fields |-> "none"] /\ status = "not registered"
  BY DEF AppInit
<1>5. shown = [identity |-> [f \in Fields |-> "none"], status |-> "none"]
  BY DEF AppInit
<1>6. [f \in Fields |-> "none"] \in [Fields -> {"none", "own", "report"}]
  OBVIOUS
<1>7. ShownOK
  BY <1>5, <1>6 DEF ShownOK
<1>8. AppTypeOK
  <2>1. phase \in Phases
    BY <1>1, PhaseNames
  <2>2. app \in {Steps[i] : i \in DOMAIN Steps}
    <3>1. DOMAIN Steps = 1 .. 15 /\ Steps[1] = "check"
      BY StepNames
    <3>2. 1 \in 1 .. 15
      OBVIOUS
    <3> QED
      BY <1>3, <3>1, <3>2
  <2>3. /\ token \in 0 .. 1 /\ pending \in BOOLEAN
        /\ pm \in {"suspended", "active", "requesting", "waiting"}
    <3>1. token \in 0 .. 1
      BY <1>1
    <3>2. pending \in BOOLEAN
      BY <1>1
    <3>3. pm \in {"suspended", "active", "requesting", "waiting"}
      BY <1>1
    <3> QED
      BY <3>1, <3>2, <3>3
  <2>4. {listening, powered, reports, again} \subseteq BOOLEAN
    BY <1>2
  <2>5. flags \subseteq {"info", "reg"}
    BY <1>3
  <2>6. line \in 1 .. (Len(InitScript) + 1)
    BY <1>3, ScriptLines
  <2>7. sent \in 0 .. MaxReports
    <3>1. MaxReports \in Nat
      BY ReportAssumption
    <3> QED
      BY <1>3, <3>1
  <2>8. status \in Statuses
    BY <1>4, ReportAssumption
  <2>9. /\ identity \in [Fields -> {"none", "own", "report"}]
        /\ shown.identity \in [Fields -> {"none", "own", "report"}]
        /\ shown.status \in Statuses \cup {"none"}
    BY <1>4, <1>5, <1>6
  <2> QED
    BY <2>1, <2>2, <2>3, <2>4, <2>5, <2>6, <2>7, <2>8, <2>9 DEF AppTypeOK
<1>9. Ordered /\ BroughtUpInOrder
  BY <1>1, <1>3 DEF Ordered, BroughtUpInOrder
<1>10. Answers
  BY <1>1 DEF Answers, IdentityBeforeDial
<1>11. ReportsLate
  BY <1>1, <1>4 DEF ReportsLate, IdentityIsTheModems
<1> QED
  BY <1>7, <1>8, <1>9, <1>10, <1>11 DEF AppIInv

LEMMA AppStep == AppIInv /\ [AppNext]_appVars => AppIInv'
<1> SUFFICES ASSUME AppIInv, [AppNext]_appVars
             PROVE  AppIInv'
  OBVIOUS
<1>1. CASE CheckDevices \/ GiveUpStart \/ Settle \/ GetSignal
             \/ SignalScriptEnds \/ WaitEnds
  BY <1>1, QuietMain
<1>2. CASE SetCallback \/ AssertPower \/ RunResume
  BY <1>2, BringUp
<1>3. CASE ShowStatus \/ (\E field \in Fields : ShowInfo(field)) \/ EnterWait
  BY <1>3, Showing
<1>4. CASE DriverStep \/ ScriptLine
  BY <1>4, DriverStepKeeps, ScriptLineKeeps
<1>5. ASSUME NEW domain \in {"gsm", "gprs", "lte"}, NEW s \in Statuses,
             Report(domain, s)
      PROVE  AppIInv'
  BY <1>5, ReportKeeps
<1>6. CASE UNCHANGED appVars
  BY ZenonT(60), <1>6 DEF appVars, power, AppIInv, AppTypeOK, ShownOK, Ordered,
              BroughtUpInOrder, Answers, IdentityBeforeDial, ReportsLate,
              IdentityIsTheModems
<1> QED
  BY <1>1, <1>2, <1>3, <1>4, <1>5, <1>6 DEF AppNext, Main

(* The inductive invariant of the application holds throughout. *)
THEOREM AppInvariance == AppSpec => []AppIInv
BY AppInitially, AppStep, PTL DEF AppSpec

(* The application's variables keep their types. *)
THEOREM AppTypeCorrect == AppSpec => []AppTypeOK
<1>1. AppIInv => AppTypeOK
  BY DEF AppIInv
<1> QED
  BY <1>1, AppInvariance, PTL

(* The modem runs only under an installed callback and an asserted power. *)
THEOREM InOrder == AppSpec => []BroughtUpInOrder
<1>1. AppIInv => BroughtUpInOrder
  BY DEF AppIInv
<1> QED
  BY <1>1, AppInvariance, PTL

(* Every session that dials has fetched all six identity fields. *)
THEOREM IdentityIsKnown == AppSpec => []IdentityBeforeDial
<1>1. AppIInv => IdentityBeforeDial
  BY DEF AppIInv, Answers
<1> QED
  BY <1>1, AppInvariance, PTL

(* No registration report is stored as an identity field, unless a session  *)
(* begins with a modem that already sends reports.                          *)
THEOREM IdentityIsOwn == AppSpec => []IdentityIsTheModems
<1>1. AppIInv => IdentityIsTheModems
  BY DEF AppIInv, ReportsLate
<1> QED
  BY <1>1, AppInvariance, PTL
=============================================================================
