----------------------------- MODULE MeterProofs -----------------------------
(***************************************************************************)
(* Proofs about the meter and sensor drivers, for every number of calls:   *)
(* what a caller gets was stored by one call, register by register, though *)
(* any request may fail or be refused; a call that took a late answer has  *)
(* values of other requests, but still only what it stored itself.         *)
(***************************************************************************)
EXTENDS MeterPoll, TLAPS

(* What the running call has stored so far, in the order of its registers,  *)
(* and that main's struct holds it.                                         *)
Reported ==
  call # "none" =>
    /\ count \in 1 .. MaxCalls
    /\ \A i \in DOMAIN got :
         /\ OfCall(got[i], Registers[call][i], count)
         /\ got[i].kind \in Kinds(Registers[call][i])
Copied ==
  call = "poll" => \A i \in DOMAIN got : meter[Pd195z[i]] = got[i]
PollIInv ==
  PollTypeOK /\ Reported /\ Copied
    /\ ReportIsOneCall /\ PairIsOneCall /\ ValidMeansUsable

(* The register lists. *)
LEMMA PdRegisters ==
  /\ Len(Pd195z) = 5 /\ DOMAIN Pd195z = 1 .. 5
  /\ Pd195z[1] = "dc_voltage" /\ Pd195z[2] = "dc_current"
  /\ Pd195z[3] = "dc_power" /\ Pd195z[4] = "dc_energy_out"
  /\ Pd195z[5] = "dc_energy_in"
BY DEF Pd195z

LEMMA SensorRegisters ==
  /\ Len(Sht20) = 2 /\ DOMAIN Sht20 = 1 .. 2
  /\ Sht20[1] = "temperature" /\ Sht20[2] = "humidity"
  /\ Len(Level) = 1 /\ DOMAIN Level = 1 .. 1 /\ Level[1] = "level"
BY DEF Sht20, Level

LEMMA CallRegisters ==
  /\ \A c \in Calls : Registers[c] \in {Pd195z, Sht20, Level} /\ c # "none"
  /\ Calls = {"poll", "pd195z_e31_get_data", "sht20_read_data",
              "sht20_get_data", "level_sensor_get_data",
              "level_sensor_get_level"}
  /\ Registers["poll"] = Pd195z /\ Registers["pd195z_e31_get_data"] = Pd195z
  /\ Registers["sht20_read_data"] = Sht20
  /\ Registers["sht20_get_data"] = Sht20
BY DEF Registers, Calls

LEMMA RegisterNames ==
  /\ \A f \in FieldsOf(Pd195z) :
       /\ \E i \in 1 .. 5 : f = Pd195z[i]
       /\ f # "nothing"
  /\ \A i \in 1 .. 5, j \in 1 .. 5 : Pd195z[i] = Pd195z[j] => i = j
  /\ \A i \in 1 .. 5 : Pd195z[i] \in FieldsOf(Pd195z)
  /\ FieldsOf(Sht20) = {"temperature", "humidity"}
<1>1. \A f \in FieldsOf(Pd195z) : \E i \in 1 .. 5 : f = Pd195z[i]
  BY PdRegisters DEF FieldsOf
<1>2. \A i \in 1 .. 5, j \in 1 .. 5 : Pd195z[i] = Pd195z[j] => i = j
  BY PdRegisters
<1>3. \A i \in 1 .. 5 : Pd195z[i] \in FieldsOf(Pd195z)
  BY PdRegisters DEF FieldsOf
<1>4. FieldsOf(Sht20) = {"temperature", "humidity"}
  BY SensorRegisters DEF FieldsOf
<1>5. \A i \in 1 .. 5 : Pd195z[i] # "nothing"
  BY PdRegisters
<1> QED
  BY <1>1, <1>2, <1>3, <1>4, <1>5

(* What is asked for next is a register of the running call. *)
LEMMA WantedIsRegister ==
  ASSUME PollIInv, Reads
  PROVE  /\ call \in Calls /\ Wanted \in Fields
         /\ Wanted = Registers[call][Len(got) + 1]
         /\ Len(got) + 1 \in DOMAIN Registers[call]
         /\ [field |-> Wanted, call |-> count] \in Requests
         /\ count \in 1 .. MaxCalls
<1>1. /\ call \in Calls /\ Len(got) \in Nat /\ Len(got) < Len(Registers[call])
      /\ count \in 1 .. MaxCalls
  BY DEF PollIInv, PollTypeOK, Reported, Reads
<1>2. Len(got) + 1 \in DOMAIN Registers[call]
  BY <1>1, PdRegisters, SensorRegisters, CallRegisters
<1>3. Wanted \in FieldsOf(Registers[call])
  BY <1>2 DEF Wanted, FieldsOf
<1>4. Wanted \in Fields
  BY <1>1, <1>3 DEF Fields
<1>5. Wanted = Registers[call][Len(got) + 1]
  BY DEF Wanted
<1>6. [field |-> Wanted, call |-> count] \in Requests
  BY <1>1, <1>4 DEF Requests
<1> QED
  BY <1>1, <1>2, <1>4, <1>5, <1>6

(* What a driver holds is among what its register may be thought to have    *)
(* measured, and every kind is a kind of reading.                           *)
LEMMA HeldIsKind ==
  \A f : /\ HeldKinds(f) \subseteq Kinds(f)
         /\ Kinds(f) \subseteq {"plain", "negative", "large", "not finite"}
<1>1. \A f, k : k \in Kinds(f) => Held(f, k) \in Kinds(f)
  BY DEF Kinds, Held
<1>2. \A f : Kinds(f) \subseteq {"plain", "negative", "large", "not finite"}
  BY DEF Kinds
<1> QED
  BY <1>1, <1>2 DEF HeldKinds

(* What was stored stays so when more calls have taken late answers.        *)
LEMMA ReportsStay ==
  ASSUME PollIInv, mixed \subseteq mixed'
  PROVE  /\ report' = report => ReportIsOneCall'
         /\ ambient' = ambient => PairIsOneCall'
         /\ answer' = answer /\ count' = count => ValidMeansUsable'
<1>1. ASSUME report' = report, report # Empty(Pd195z)
      PROVE  ReportIsOneCall'
  <2>1. PICK n \in 1 .. MaxCalls :
          \A f \in FieldsOf(Pd195z) : OfCall(report[f], f, n)
    BY <1>1 DEF PollIInv, ReportIsOneCall
  <2>2. \A f \in FieldsOf(Pd195z) : OfCall(report[f], f, n)'
    BY <1>1, <2>1 DEF OfCall
  <2> QED
    BY <2>2 DEF ReportIsOneCall
<1>2. ASSUME ambient' = ambient, ambient # Empty(Sht20)
      PROVE  PairIsOneCall'
  <2>1. PICK n \in 1 .. MaxCalls :
          \A f \in FieldsOf(Sht20) : OfCall(ambient[f], f, n)
    BY <1>2 DEF PollIInv, PairIsOneCall
  <2>2. \A f \in FieldsOf(Sht20) : OfCall(ambient[f], f, n)'
    BY <1>2, <2>1 DEF OfCall
  <2> QED
    BY <2>2 DEF PairIsOneCall
<1>3. ASSUME answer' = answer, count' = count
      PROVE  ValidMeansUsable'
  <2> SUFFICES ASSUME answer.ret = "valid"
               PROVE  ValidMeansUsable'
    BY <1>3 DEF ValidMeansUsable
  <2>1. PICK registers \in {Pd195z, Sht20} :
          /\ Len(answer.data) = Len(registers)
          /\ \A i \in DOMAIN registers :
               /\ OfCall(answer.data[i], registers[i], count)
               /\ ~OutOfRange(registers[i], answer.data[i].kind)
          /\ registers = Pd195z => answer.text # "none"
    BY DEF PollIInv, ValidMeansUsable
  <2>2. \A i \in DOMAIN registers :
          OfCall(answer.data[i], registers[i], count)'
    BY <1>3, <2>1 DEF OfCall
  <2> QED
    BY <1>3, <2>1, <2>2 DEF ValidMeansUsable, OutOfRange
<1>4. report' = report /\ report = Empty(Pd195z) => ReportIsOneCall'
  BY DEF ReportIsOneCall, Empty
<1>5. ambient' = ambient /\ ambient = Empty(Sht20) => PairIsOneCall'
  BY DEF PairIsOneCall, Empty
<1> QED
  BY <1>1, <1>2, <1>3, <1>4, <1>5

(* Appending a reading. *)
LEMMA GotAppend ==
  ASSUME got \in Seq(Readings), NEW r \in Readings, got' = Append(got, r)
  PROVE  /\ got' \in Seq(Readings) /\ Len(got') = Len(got) + 1
         /\ Len(got) \in Nat
         /\ DOMAIN got = 1 .. Len(got) /\ DOMAIN got' = 1 .. (Len(got) + 1)
         /\ \A i \in 1 .. Len(got) : got'[i] = got[i]
         /\ got'[Len(got) + 1] = r
OBVIOUS

(* A value that is stored: of this request, of a refused or of a late one.  *)
LEMMA StoreKeeps ==
  ASSUME PollIInv, Reads, NEW r \in Readings, Store(r),
         UNCHANGED <<client, call, count, report, answer>>,
         late' \in Requests \cup {NoRequest},
         r.by = count, r.kind \in Kinds(Wanted),
         \/ mixed' = mixed /\ r.field \in {Wanted, "unread"} /\ r.call = count
         \/ mixed' = mixed \cup {count}
  PROVE  PollIInv'
<1>1. /\ call \in Calls /\ Wanted = Registers[call][Len(got) + 1]
      /\ Len(got) + 1 \in DOMAIN Registers[call]
  BY WantedIsRegister
<1>2. /\ got' \in Seq(Readings) /\ Len(got') = Len(got) + 1
      /\ Len(got) \in Nat
      /\ DOMAIN got = 1 .. Len(got) /\ DOMAIN got' = 1 .. (Len(got) + 1)
      /\ \A i \in 1 .. Len(got) : got'[i] = got[i]
      /\ got'[Len(got) + 1] = r
  <2>1. got \in Seq(Readings)
    BY DEF PollIInv, PollTypeOK
  <2>2. got' = Append(got, r)
    BY DEF Store
  <2> QED
    BY <2>1, <2>2, GotAppend
<1>3. mixed' \in SUBSET (1 .. MaxCalls) /\ mixed \subseteq mixed'
  BY WantedIsRegister DEF PollIInv, PollTypeOK
<1>4. /\ meter' = IF call = "poll" THEN [meter EXCEPT ![Wanted] = r] ELSE meter
      /\ UNCHANGED ambient
  BY DEF Store
<1>5. meter' \in [FieldsOf(Pd195z) -> Readings \cup {Nothing}]
  BY <1>4 DEF PollIInv, PollTypeOK
<1>6. PollTypeOK'
  BY <1>2, <1>3, <1>4, <1>5 DEF PollIInv, PollTypeOK, Reads
<1>7. Reported'
  <2> SUFFICES ASSUME NEW i \in 1 .. (Len(got) + 1)
               PROVE  /\ OfCall(got[i], Registers[call][i], count)'
                      /\ got'[i].kind \in Kinds(Registers[call][i])
    BY <1>1, <1>2 DEF PollIInv, Reported, Reads, OfCall
  <2>1. CASE i \in DOMAIN got
    <3>1. /\ OfCall(got[i], Registers[call][i], count)
          /\ got[i].kind \in Kinds(Registers[call][i])
      BY <2>1 DEF PollIInv, Reported, Reads
    <3>2. got'[i] = got[i] /\ count' = count /\ call' = call
      BY <1>2, <2>1
    <3> QED
      BY <1>3, <3>1, <3>2 DEF OfCall
  <2>2. CASE i = Len(got) + 1
    <3>1. got'[i] = r /\ Registers[call][i] = Wanted
      BY <1>1, <1>2, <2>2
    <3>2. r.by = count' /\ call' = call
      OBVIOUS
    <3>3. CASE mixed' = mixed /\ r.field \in {Wanted, "unread"} /\ r.call = count
      BY <3>1, <3>2, <3>3 DEF OfCall
    <3>4. CASE mixed' = mixed \cup {count}
      BY <3>1, <3>2, <3>4 DEF OfCall
    <3> QED
      BY <3>3, <3>4
  <2> QED
    BY <1>2, <2>1, <2>2
<1>8. Copied'
  <2> SUFFICES ASSUME call = "poll", NEW i \in DOMAIN got'
               PROVE  meter'[Pd195z[i]] = got'[i]
    BY DEF Copied
  <2>1. Registers[call] = Pd195z /\ DOMAIN Pd195z = 1 .. 5
    BY CallRegisters, PdRegisters
  <2>2. Len(got) + 1 \in 1 .. 5 /\ i \in 1 .. 5
    BY <1>1, <1>2, <2>1
  <2>3. /\ meter \in [FieldsOf(Pd195z) -> Readings \cup {Nothing}]
        /\ Pd195z[i] \in FieldsOf(Pd195z)
    BY <2>2, RegisterNames DEF PollIInv, PollTypeOK
  <2>4. meter' = [meter EXCEPT ![Pd195z[Len(got) + 1]] = r]
    BY <1>1, <1>4, <2>1
  <2>5. CASE i = Len(got) + 1
    BY <1>2, <2>3, <2>4, <2>5
  <2>6. CASE i \in DOMAIN got
    <3>1. Pd195z[i] # Pd195z[Len(got) + 1]
      BY <1>2, <2>2, <2>6, RegisterNames
    <3>2. meter[Pd195z[i]] = got[i]
      BY <2>6 DEF PollIInv, Copied
    <3> QED
      BY <1>2, <2>3, <2>4, <2>6, <3>1, <3>2
  <2> QED
    BY <1>2, <2>5, <2>6
<1>9. ReportIsOneCall' /\ PairIsOneCall' /\ ValidMeansUsable'
  BY <1>3, <1>4, ReportsStay
<1> QED
  BY <1>6, <1>7, <1>8, <1>9 DEF PollIInv

(* Requests: answered in time, refused, answered by a late answer, or not   *)
(* answered at all.                                                         *)
LEMMA ReadingTyped ==
  ASSUME PollIInv, Reads, NEW f \in Fields \cup {"unread"},
         NEW n \in 1 .. MaxCalls, NEW k \in Kinds(Wanted)
  PROVE  /\ Reading(f, n, k) \in Readings
         /\ Reading(f, n, k).field = f /\ Reading(f, n, k).call = n
         /\ Reading(f, n, k).kind = k /\ Reading(f, n, k).by = count
<1>1. k \in {"plain", "negative", "large", "not finite"}
  BY HeldIsKind
<1> QED
  BY <1>1, WantedIsRegister DEF Reading, Readings

LEMMA AnsweredKeeps == PollIInv /\ (Answered \/ Refused) => PollIInv'
<1> SUFFICES ASSUME PollIInv, Answered \/ Refused
             PROVE  PollIInv'
  OBVIOUS
<1>1. Reads
  BY DEF Answered, Refused
<1>2. PICK f \in {Wanted, "unread"}, k \in Kinds(Wanted) :
        Store(Reading(f, count, k))
  BY HeldIsKind DEF Answered, Refused
<1>3. count \in 1 .. MaxCalls /\ f \in Fields \cup {"unread"}
  BY <1>1, WantedIsRegister
<1>4. /\ UNCHANGED <<client, call, count, report, answer>>
      /\ late' \in Requests \cup {NoRequest} /\ mixed' = mixed
  BY DEF Answered, Refused, PollIInv, PollTypeOK
<1> QED
  BY <1>1, <1>2, <1>3, <1>4, ReadingTyped, StoreKeeps

LEMMA TakeLateKeeps == PollIInv /\ TakeLate => PollIInv'
<1> SUFFICES ASSUME PollIInv, TakeLate
             PROVE  PollIInv'
  OBVIOUS
<1>1. Reads /\ late \in Requests
  BY DEF TakeLate, PollIInv, PollTypeOK
<1>2. PICK f \in {late.field, "unread"}, k \in Kinds(Wanted) :
        Store(Reading(f, late.call, k))
  BY HeldIsKind DEF TakeLate
<1>3. late.call \in 1 .. MaxCalls /\ f \in Fields \cup {"unread"}
  BY <1>1 DEF Requests
<1>4. /\ UNCHANGED <<client, call, count, report, answer>>
      /\ late' \in Requests \cup {NoRequest} /\ mixed' = mixed \cup {count}
  BY <1>1, WantedIsRegister DEF TakeLate
<1> QED
  BY <1>1, <1>2, <1>3, <1>4, ReadingTyped, StoreKeeps

LEMMA FailedKeeps == PollIInv /\ Failed => PollIInv'
<1> SUFFICES ASSUME PollIInv, Failed
             PROVE  PollIInv'
  OBVIOUS
<1>1. [field |-> Wanted, call |-> count] \in Requests
  BY WantedIsRegister DEF Failed
<1>2. late' \in Requests \cup {NoRequest}
  BY <1>1 DEF Failed, PollIInv, PollTypeOK
<1>3. /\ call' = "none"
      /\ UNCHANGED <<client, count, got, meter, ambient, report, mixed>>
      /\ answer' = answer \/ answer'.ret = "error"
  BY DEF Failed, Ends
<1>4. PollTypeOK' /\ Reported' /\ Copied'
  BY <1>2, <1>3 DEF PollIInv, PollTypeOK, Reported, Copied
<1>5. ReportIsOneCall' /\ PairIsOneCall'
  BY <1>3, ReportsStay
<1>6. ValidMeansUsable'
  BY <1>3, ReportsStay DEF ValidMeansUsable
<1> QED
  BY <1>4, <1>5, <1>6 DEF PollIInv

(* Calls begin. *)
LEMMA BeginKeeps ==
  PollIInv /\ (ClientInit \/ \E c \in Calls : Begin(c)) => PollIInv'
<1>1. ASSUME PollIInv, ClientInit
      PROVE  PollIInv'
  <2>1. client' = TRUE
        /\ UNCHANGED <<call, count, got, meter, ambient, report, answer, late,
                       mixed>>
    BY <1>1 DEF ClientInit
  <2> QED
    BY <1>1, <2>1, ReportsStay DEF PollIInv, PollTypeOK, Reported, Copied, OfCall
<1>2. ASSUME PollIInv, NEW c \in Calls, Begin(c)
      PROVE  PollIInv'
  <2>1. /\ count < MaxCalls /\ call' = c /\ count' = count + 1 /\ got' = <<>>
        /\ answer' = NoAnswer
        /\ UNCHANGED <<client, meter, ambient, report, late, mixed>>
    BY <1>2 DEF Begin
  <2>2. got' \in Seq(Readings) /\ Len(got') = 0 /\ DOMAIN got' = {}
    BY <2>1
  <2>3. count' \in 1 .. MaxCalls
    BY <1>2, <2>1, CallsAssumption DEF PollIInv, PollTypeOK
  <2>4. 0 <= Len(Registers[c])
    BY CallRegisters, PdRegisters, SensorRegisters
  <2>5. PollTypeOK' /\ Reported' /\ Copied'
    BY <1>2, <2>1, <2>2, <2>3, <2>4 DEF PollIInv, PollTypeOK, Reported, Copied
  <2>6. ReportIsOneCall' /\ PairIsOneCall'
    BY <1>2, <2>1, ReportsStay
  <2>7. ValidMeansUsable'
    BY <2>1 DEF ValidMeansUsable, NoAnswer
  <2> QED
    BY <2>5, <2>6, <2>7 DEF PollIInv
<1> QED
  BY <1>1, <1>2

(* What a finished list of readings holds. *)
LEMMA FullMeter ==
  ASSUME PollIInv, call \in Calls, Registers[call] = Pd195z,
         Len(got) = Len(Registers[call])
  PROVE  /\ DOMAIN got = 1 .. 5 /\ Len(got) = 5 /\ count \in 1 .. MaxCalls
         /\ \A i \in 1 .. 5 : /\ got[i] \in Readings
                               /\ OfCall(got[i], Pd195z[i], count)
<1>1. got \in Seq(Readings) /\ Len(got) = 5
  BY PdRegisters DEF PollIInv, PollTypeOK
<1>2. DOMAIN got = 1 .. 5 /\ \A i \in 1 .. 5 : got[i] \in Readings
  BY SMTT(30), <1>1
<1> QED
  BY <1>1, <1>2, CallRegisters DEF PollIInv, Reported

LEMMA FullSensor ==
  ASSUME PollIInv, call \in Calls, Registers[call] = Sht20,
         Len(got) = Len(Registers[call])
  PROVE  /\ DOMAIN got = 1 .. 2 /\ Len(got) = 2 /\ count \in 1 .. MaxCalls
         /\ \A i \in 1 .. 2 : /\ got[i] \in Readings
                               /\ OfCall(got[i], Sht20[i], count)
                               /\ got[i].kind \in {"plain", "negative", "large"}
<1>1. got \in Seq(Readings) /\ Len(got) = 2
  BY SensorRegisters DEF PollIInv, PollTypeOK
<1>2. DOMAIN got = 1 .. 2 /\ \A i \in 1 .. 2 : got[i] \in Readings
  <2>1. DOMAIN got = 1 .. Len(got)
    BY <1>1
  <2>2. \A i \in 1 .. Len(got) : got[i] \in Readings
    BY <1>1
  <2> QED
    BY <1>1, <2>1, <2>2
<1>3. \A i \in 1 .. 2 : Kinds(Sht20[i]) \subseteq {"plain", "negative", "large"}
  <2>1. /\ "temperature" \notin FieldsOf(Pd195z)
        /\ "humidity" \notin FieldsOf(Pd195z)
    BY PdRegisters DEF FieldsOf
  <2>2. \A i \in 1 .. 2 : Sht20[i] \in {"temperature", "humidity"}
    BY SensorRegisters
  <2> QED
    BY <2>1, <2>2 DEF Kinds
<1>4. call # "none"
  BY CallRegisters
<1>5. count \in 1 .. MaxCalls
  BY <1>4 DEF PollIInv, Reported
<1>6. \A i \in 1 .. 2 : /\ OfCall(got[i], Sht20[i], count)
                        /\ got[i].kind \in Kinds(Sht20[i])
  BY <1>2, <1>4 DEF PollIInv, Reported
<1> QED
  BY <1>1, <1>2, <1>3, <1>5, <1>6

(* A call that ends with its readings. *)
LEMMA ReturnsKeeps ==
  ASSUME PollIInv, NEW ret, NEW text, Returns(ret, text),
         ambient' \in [FieldsOf(Sht20) -> Readings \cup {Nothing}],
         PairIsOneCall', ValidMeansUsable'
  PROVE  PollIInv'
<1>1. call' = "none" /\ UNCHANGED <<client, count, got, meter, report, late, mixed>>
  BY DEF Returns
<1>2. PollTypeOK' /\ Reported' /\ Copied'
  BY <1>1 DEF PollIInv, PollTypeOK, Reported, Copied
<1>3. ReportIsOneCall'
  BY <1>1, ReportsStay
<1> QED
  BY <1>2, <1>3 DEF PollIInv

LEMMA PrintKeeps == PollIInv /\ PrintMeter => PollIInv'
<1> SUFFICES ASSUME PollIInv, PrintMeter
             PROVE  PollIInv'
  OBVIOUS
<1>1. /\ call = "poll" /\ Len(got) = Len(Registers[call])
      /\ call' = "none" /\ report' = meter
      /\ UNCHANGED <<client, count, got, meter, ambient, answer, late, mixed>>
  BY DEF PrintMeter, ReadsDone
<1>2. /\ DOMAIN got = 1 .. 5 /\ count \in 1 .. MaxCalls
      /\ \A i \in 1 .. 5 : OfCall(got[i], Pd195z[i], count)
  BY <1>1, FullMeter, CallRegisters
<1>3. PollTypeOK' /\ Reported' /\ Copied'
  BY <1>1 DEF PollIInv, PollTypeOK, Reported, Copied
<1>4. ReportIsOneCall'
  <2> SUFFICES \A f \in FieldsOf(Pd195z) : OfCall(meter[f], f, count)
    BY <1>1, <1>2 DEF ReportIsOneCall, OfCall
  <2> TAKE f \in FieldsOf(Pd195z)
  <2>1. PICK i \in 1 .. 5 : f = Pd195z[i]
    BY RegisterNames
  <2>2. meter[f] = got[i]
    BY <1>1, <1>2, <2>1 DEF PollIInv, Copied
  <2> QED
    BY <1>2, <2>1, <2>2
<1>5. PairIsOneCall' /\ ValidMeansUsable'
  BY <1>1, ReportsStay
<1> QED
  BY <1>3, <1>4, <1>5 DEF PollIInv

LEMMA PdGetDataKeeps ==
  ASSUME PollIInv, NEW text \in Texts, PdGetData(text)
  PROVE  PollIInv'
<1>1. /\ call = "pd195z_e31_get_data" /\ Len(got) = Len(Registers[call])
      /\ UNCHANGED <<ambient, count, mixed>>
  BY DEF PdGetData, ReadsDone, Returns
<1>2. /\ DOMAIN got = 1 .. 5 /\ Len(got) = 5
      /\ \A i \in 1 .. 5 : OfCall(got[i], Pd195z[i], count)
  BY <1>1, FullMeter, CallRegisters
<1>3. PairIsOneCall'
  BY <1>1, ReportsStay
<1>4. ambient' \in [FieldsOf(Sht20) -> Readings \cup {Nothing}]
  BY <1>1 DEF PollIInv, PollTypeOK
<1>5. PICK ret : Returns(ret, text) /\ (ret = "valid" => text # "none" /\ PdValid(got))
  BY DEF PdGetData
<1>6. answer'.ret = ret /\ answer'.text = text /\ answer'.data = got
  BY <1>5 DEF Returns
<1>7. ASSUME PdValid(got), NEW i \in 1 .. 5
      PROVE  ~OutOfRange(Pd195z[i], got[i].kind)
  <2>1. got[i].kind # "not finite"
    BY <1>2, <1>7 DEF PdValid
  <2>2. CASE i = 1
    BY <1>7, <2>1, <2>2, PdRegisters DEF PdValid, OutOfRange
  <2>3. CASE i \in {2, 3}
    BY <2>1, <2>3, PdRegisters DEF OutOfRange
  <2>4. CASE i \in {4, 5}
    BY <1>7, <2>1, <2>4, PdRegisters DEF PdValid, OutOfRange
  <2> QED
    BY <2>2, <2>3, <2>4
<1>8. ValidMeansUsable'
  <2> SUFFICES ASSUME answer'.ret = "valid"
               PROVE  ValidMeansUsable'
    BY DEF ValidMeansUsable
  <2>1. text # "none" /\ PdValid(got)
    BY <1>5, <1>6
  <2>2. \A i \in DOMAIN Pd195z : /\ OfCall(answer.data[i], Pd195z[i], count)'
                                /\ ~OutOfRange(Pd195z[i], answer'.data[i].kind)
    BY <1>1, <1>2, <1>6, <1>7, <2>1, PdRegisters DEF OfCall
  <2>3. Len(answer'.data) = Len(Pd195z) /\ answer'.text # "none"
    BY <1>2, <1>6, <2>1, PdRegisters
  <2> QED
    BY <2>2, <2>3 DEF ValidMeansUsable, OutOfRange
<1> QED
  BY <1>3, <1>4, <1>5, <1>8, ReturnsKeeps

LEMMA ShtReadDataKeeps == PollIInv /\ ShtReadData => PollIInv'
<1> SUFFICES ASSUME PollIInv, ShtReadData
             PROVE  PollIInv'
  OBVIOUS
<1>1. /\ call = "sht20_read_data" /\ Len(got) = Len(Registers[call])
      /\ ambient' = [f \in FieldsOf(Sht20) |->
                       IF f = "temperature" THEN got[1] ELSE got[2]]
      /\ Returns("ok", "none") /\ mixed' = mixed /\ count' = count
  BY DEF ShtReadData, ReadsDone, Returns
<1>2. /\ count \in 1 .. MaxCalls /\ got[1] \in Readings /\ got[2] \in Readings
      /\ OfCall(got[1], Sht20[1], count) /\ OfCall(got[2], Sht20[2], count)
  BY <1>1, FullSensor, CallRegisters
<1>3. ambient' \in [FieldsOf(Sht20) -> Readings \cup {Nothing}]
  BY <1>1, <1>2
<1>4. PairIsOneCall'
  <2> SUFFICES \A f \in FieldsOf(Sht20) : OfCall(ambient'[f], f, count)
    BY <1>1, <1>2 DEF PairIsOneCall, OfCall
  <2> TAKE f \in FieldsOf(Sht20)
  <2>1. f \in {"temperature", "humidity"}
    BY RegisterNames
  <2>2. ambient'[f] = IF f = "temperature" THEN got[1] ELSE got[2]
    BY <1>1
  <2> QED
    BY <1>2, <2>1, <2>2, SensorRegisters
<1>5. ValidMeansUsable'
  BY <1>1 DEF Returns, ValidMeansUsable
<1> QED
  BY <1>1, <1>3, <1>4, <1>5, ReturnsKeeps

LEMMA ShtGetDataKeeps ==
  ASSUME PollIInv, NEW text \in Texts, ShtGetData(text)
  PROVE  PollIInv'
<1>1. /\ call = "sht20_get_data" /\ Len(got) = Len(Registers[call])
      /\ Returns(IF ShtValid(got) THEN "valid" ELSE "invalid", text)
      /\ UNCHANGED <<ambient, count, mixed>>
  BY DEF ShtGetData, ReadsDone, Returns
<1>2. /\ DOMAIN got = 1 .. 2 /\ Len(got) = 2
      /\ \A i \in 1 .. 2 : /\ OfCall(got[i], Sht20[i], count)
                            /\ got[i].kind \in {"plain", "negative", "large"}
  BY <1>1, FullSensor, CallRegisters
<1>3. PairIsOneCall'
  BY <1>1, ReportsStay
<1>4. ambient' \in [FieldsOf(Sht20) -> Readings \cup {Nothing}]
  BY <1>1 DEF PollIInv, PollTypeOK
<1>5. /\ answer'.ret = IF ShtValid(got) THEN "valid" ELSE "invalid"
      /\ answer'.data = got
  BY <1>1 DEF Returns
<1>6. ASSUME ShtValid(got), NEW i \in 1 .. 2
      PROVE  ~OutOfRange(Sht20[i], got[i].kind)
  <2>1. Sht20[i] \in FieldsOf(Sht20) /\ Sht20[i] \in {"temperature", "humidity"}
    BY SensorRegisters, RegisterNames
  <2>2. got[i].kind = "plain"
    BY <1>2, <1>6, <2>1 DEF ShtValid, Held
  <2> QED
    BY <2>1, <2>2 DEF OutOfRange
<1>7. ValidMeansUsable'
  <2> SUFFICES ASSUME answer'.ret = "valid"
               PROVE  ValidMeansUsable'
    BY DEF ValidMeansUsable
  <2>1. ShtValid(got)
    BY <1>5
  <2>2. \A i \in DOMAIN Sht20 : /\ OfCall(answer.data[i], Sht20[i], count)'
                               /\ ~OutOfRange(Sht20[i], answer'.data[i].kind)
    BY <1>1, <1>2, <1>5, <1>6, <2>1, SensorRegisters DEF OfCall
  <2>3. Len(answer'.data) = Len(Sht20) /\ Sht20 # Pd195z
    BY <1>2, <1>5, SensorRegisters, PdRegisters
  <2> QED
    BY <2>2, <2>3 DEF ValidMeansUsable, OutOfRange
<1> QED
  BY <1>1, <1>3, <1>4, <1>7, ReturnsKeeps

LEMMA LevelKeeps ==
  PollIInv /\ (LevelGetLevel \/ \E text \in Texts : LevelGetData(text))
    => PollIInv'
<1> SUFFICES ASSUME PollIInv,
                    NEW ret \in {"ok", "length", "error"}, NEW text,
                    Returns(ret, text), UNCHANGED ambient
             PROVE  PollIInv'
  BY DEF LevelGetLevel, LevelGetData
<1>1. mixed' = mixed /\ answer'.ret # "valid"
  BY DEF Returns
<1>2. PairIsOneCall' /\ ValidMeansUsable'
  BY <1>1, ReportsStay DEF ValidMeansUsable
<1>3. ambient' \in [FieldsOf(Sht20) -> Readings \cup {Nothing}]
  BY DEF PollIInv, PollTypeOK
<1> QED
  BY <1>2, <1>3, ReturnsKeeps

LEMMA PollInitially == PollInit => PollIInv
<1> SUFFICES ASSUME PollInit
             PROVE  PollIInv
  OBVIOUS
<1>1. /\ meter \in [FieldsOf(Pd195z) -> Readings \cup {Nothing}]
      /\ report \in [FieldsOf(Pd195z) -> Readings \cup {Nothing}]
      /\ ambient \in [FieldsOf(Sht20) -> Readings \cup {Nothing}]
  BY DEF PollInit, Empty
<1>2. PollTypeOK
  <2>1. 0 \in 0 .. MaxCalls /\ <<>> \in Seq(Readings)
    BY CallsAssumption
  <2>2. client \in BOOLEAN /\ mixed \in SUBSET (1 .. MaxCalls)
    BY DEF PollInit
  <2> QED
    BY <1>1, <2>1, <2>2 DEF PollInit, PollTypeOK
<1>3. Reported /\ Copied
  BY DEF PollInit, Reported, Copied
<1>4. ReportIsOneCall /\ PairIsOneCall /\ ValidMeansUsable
  BY DEF PollInit, ReportIsOneCall, PairIsOneCall, ValidMeansUsable, NoAnswer
<1> QED
  BY <1>2, <1>3, <1>4 DEF PollIInv

LEMMA PollStep == PollIInv /\ [PollNext]_pollVars => PollIInv'
<1> SUFFICES ASSUME PollIInv, [PollNext]_pollVars
             PROVE  PollIInv'
  OBVIOUS
<1>1. CASE ClientInit \/ \E c \in Calls : Begin(c)
  BY <1>1, BeginKeeps
<1>2. CASE Answered \/ Refused \/ TakeLate \/ Failed
  BY <1>2, AnsweredKeeps, TakeLateKeeps, FailedKeeps
<1>3. CASE PrintMeter \/ ShtReadData
  BY <1>3, PrintKeeps, ShtReadDataKeeps
<1>4. CASE LevelGetLevel \/ \E text \in Texts : LevelGetData(text)
  BY <1>4, LevelKeeps
<1>5. CASE \E text \in Texts : PdGetData(text) \/ ShtGetData(text)
  BY <1>5, PdGetDataKeeps, ShtGetDataKeeps
<1>6. CASE UNCHANGED pollVars
  <2>1. UNCHANGED <<client, call, count, got, meter, ambient, report, answer,
                    late, mixed>>
    BY <1>6 DEF pollVars
  <2>2. ReportIsOneCall' /\ PairIsOneCall' /\ ValidMeansUsable'
    BY <2>1, ReportsStay
  <2>3. PollTypeOK' /\ Reported' /\ Copied'
    BY <2>1 DEF PollIInv, PollTypeOK, Reported, Copied, OfCall
  <2> QED
    BY <2>2, <2>3 DEF PollIInv
<1> QED
  BY <1>1, <1>2, <1>3, <1>4, <1>5, <1>6 DEF PollNext

(* The inductive invariant of the drivers holds throughout. *)
THEOREM PollInvariance == PollSpec => []PollIInv
BY PollInitially, PollStep, PTL DEF PollSpec

(* The drivers' variables keep their types. *)
THEOREM PollTypeCorrect == PollSpec => []PollTypeOK
<1>1. PollIInv => PollTypeOK
  BY DEF PollIInv
<1> QED
  BY <1>1, PollInvariance, PTL

(* What main prints was stored by one call, register by register: no value   *)
(* of an earlier call is left in the struct, whatever fails, is refused or   *)
(* comes late in between.  A refused request's value is not a reading; only  *)
(* a call that took a late answer has another request's value.               *)
THEOREM PrintedTogether == PollSpec => []ReportIsOneCall
<1>1. PollIInv => ReportIsOneCall
  BY DEF PollIInv
<1> QED
  BY <1>1, PollInvariance, PTL

(* A temperature and a humidity in a caller's struct were stored by one call, *)
(* with the same two exceptions.                                              *)
THEOREM ReadTogether == PollSpec => []PairIsOneCall
<1>1. PollIInv => PairIsOneCall
  BY DEF PollIInv
<1> QED
  BY <1>1, PollInvariance, PTL

(* A call that says its data are valid has a value of its own, as above, for *)
(* each of its registers, none out of its register's range.                  *)
THEOREM ValidIsUsable == PollSpec => []ValidMeansUsable
<1>1. PollIInv => ValidMeansUsable
  BY DEF PollIInv
<1> QED
  BY <1>1, PollInvariance, PTL
=============================================================================
