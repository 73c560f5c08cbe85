------------------------- MODULE RegisterMapProofs -------------------------
(***************************************************************************)
(* Proofs about the register map, for every word size, number of slots and *)
(* set of handlers.                                                        *)
(***************************************************************************)
EXTENDS RegisterMap, TLAPS

(* The inductive invariant: every registered handler is usable, and no two  *)
(* answer the same address.                                                 *)
AllUsable == \A i \in DOMAIN handlers : ~Unusable(handlers[i])
MapIInv == MapTypeOK /\ AllUsable /\ OneOwner

(* A range end is the sum, less one word where it wraps. *)
LEMMA EndValue ==
  ASSUME NEW h \in Handlers
  PROVE  /\ End(h) \in Addresses
         /\ h.start + h.count < Word => End(h) = h.start + h.count
         /\ h.start + h.count >= Word => End(h) = h.start + h.count - Word
BY MapAssumption DEF End, Handlers, Addresses

(* The overlap test, made on wrapped ends, finds every address that two     *)
(* handlers would both answer...                                            *)
LEMMA OverlapIsFound ==
  ASSUME NEW h \in Handlers, NEW g \in Handlers, NEW addr \in Addresses,
         Answers(h, addr), Answers(g, addr)
  PROVE  Overlaps(h, g)
BY EndValue, MapAssumption DEF Answers, Overlaps, Handlers, Addresses

(* ... and finds no other: ranges it calls overlapping share a register.    *)
LEMMA OverlapIsReal ==
  ASSUME NEW h \in Handlers, NEW g \in Handlers, Overlaps(h, g),
         h.count # 0, g.count # 0
  PROVE  Claim(h) \cap Claim(g) # {}
<1> DEFINE shared == IF h.start < g.start THEN g.start ELSE h.start
<1>1. /\ h.start \in Nat /\ h.count \in Nat /\ g.start \in Nat /\ g.count \in Nat
      /\ h.start < Word /\ g.start < Word
  BY MapAssumption DEF Handlers, Addresses
<1>2. End(h) <= h.start + h.count /\ End(g) <= g.start + g.count
  BY <1>1, EndValue, MapAssumption
<1>3. End(h) \in Nat /\ End(g) \in Nat
  BY EndValue, MapAssumption DEF Addresses
<1>4. h.start < g.start + g.count /\ g.start < h.start + h.count
  BY <1>1, <1>2, <1>3 DEF Overlaps
<1>5. shared \in Claim(h) /\ shared \in Claim(g)
  BY <1>1, <1>4 DEF Claim
<1> QED BY <1>5

(* A handler that answers an address claims it, and claims every address it *)
(* answers unless its end wraps.                                            *)
LEMMA AnswersClaim ==
  ASSUME NEW h \in Handlers, NEW addr \in Addresses
  PROVE  /\ Answers(h, addr) => addr \in Claim(h) /\ addr - h.start < h.count
         /\ Fits(h) /\ addr \in Claim(h) => Answers(h, addr)
<1>1. h.start \in Nat /\ h.count \in Nat /\ addr \in Nat /\ h.start < Word /\ Word \in Nat
  BY MapAssumption DEF Handlers, Addresses
<1>2. End(h) \in Nat /\ End(h) <= h.start + h.count
  BY <1>1, EndValue, MapAssumption DEF Addresses
<1>3. ASSUME Answers(h, addr)
      PROVE  addr \in Claim(h) /\ addr - h.start < h.count
  BY <1>1, <1>2, <1>3 DEF Answers, Claim
<1>4. ASSUME Fits(h), addr \in Claim(h)
      PROVE  Answers(h, addr)
  BY <1>1, <1>4, EndValue DEF Answers, Claim, Fits
<1> QED BY <1>3, <1>4

(* The handler found is one that answers. *)
LEMMA FindAnswers ==
  ASSUME MapIInv, NEW i \in DOMAIN handlers, NEW addr \in Addresses
  PROVE  Answers(handlers[i], addr) <=> Find(addr) = i
<1> DEFINE First(k) == /\ Answers(handlers[k], addr)
                       /\ \A j \in 1 .. (k - 1) : ~Answers(handlers[j], addr)
<1>1. DOMAIN handlers = 1 .. Len(handlers) /\ Len(handlers) \in Nat
  BY DEF MapIInv, MapTypeOK
<1>2. ASSUME Answers(handlers[i], addr)
      PROVE  Find(addr) = i
  <2>1. \A j \in DOMAIN handlers : Answers(handlers[j], addr) => j = i
    BY <1>2 DEF MapIInv, OneOwner
  <2>2. First(i)
    <3>1. \A j \in 1 .. (i - 1) : j \in DOMAIN handlers /\ j # i
      BY <1>1
    <3> QED BY <1>2, <2>1, <3>1
  <2>3. \A k \in DOMAIN handlers : First(k) => k = i
    BY <2>1
  <2> HIDE DEF First
  <2>4. i = CHOOSE k \in DOMAIN handlers : First(k)
    BY <2>2, <2>3
  <2> QED BY <1>2, <2>4 DEF Find, First
<1>3. ASSUME Find(addr) = i
      PROVE  Answers(handlers[i], addr)
  <2>1. i # 0
    BY <1>1
  <2>2. PICK k \in DOMAIN handlers : Answers(handlers[k], addr)
    BY <1>3, <2>1 DEF Find
  <2>3. \A j \in DOMAIN handlers : Answers(handlers[j], addr) => j = k
    BY <2>2 DEF MapIInv, OneOwner
  <2>4. First(k)
    <3>1. \A j \in 1 .. (k - 1) : j \in DOMAIN handlers /\ j # k
      BY <1>1
    <3> QED BY <2>2, <2>3, <3>1
  <2>5. \A m \in DOMAIN handlers : First(m) => m = k
    BY <2>3
  <2> HIDE DEF First
  <2>6. k = CHOOSE m \in DOMAIN handlers : First(m)
    BY <2>4, <2>5
  <2>7. Find(addr) = k
    BY <2>2, <2>6 DEF Find, First
  <2> QED BY <1>3, <2>2, <2>7
<1> QED BY <1>2, <1>3

----------------------------------------------------------------------------
(* The invariant is inductive. *)
LEMMA RegisterKeepsInv ==
  ASSUME MapIInv, NEW h \in Offered, RegisterHandler(h)
  PROVE  MapIInv'
<1>1. h \in Handlers /\ Offered \subseteq Handlers
  BY MapAssumption
<1>2. CASE UNCHANGED handlers /\ result' \in Results
  BY <1>2 DEF MapIInv, MapTypeOK, AllUsable, OneOwner
<1>3. CASE ~Unusable(h) /\ ~Full /\ ~Taken(h)
           /\ handlers' = Append(handlers, h) /\ result' = "OK"
  <2>1. /\ handlers \in Seq(Offered) /\ Len(handlers) \in Nat /\ MaxHandlers \in Nat
        /\ DOMAIN handlers = 1 .. Len(handlers)
    BY MapAssumption DEF MapIInv, MapTypeOK
  <2>2. handlers' \in Seq(Offered) /\ Len(handlers') = Len(handlers) + 1
    BY <1>3, <2>1
  <2>3. /\ DOMAIN handlers' = 1 .. (Len(handlers) + 1)
        /\ \A i \in DOMAIN handlers : handlers'[i] = handlers[i]
        /\ handlers'[Len(handlers) + 1] = h
    BY <1>3, <2>1
  <2>4. \A i \in DOMAIN handlers' : i = Len(handlers) + 1 \/ i \in DOMAIN handlers
    BY <2>1, <2>3
  <2>5. MapTypeOK'
    BY <1>3, <2>1, <2>2 DEF MapIInv, MapTypeOK, Full, Results
  <2>6. AllUsable'
    BY <1>3, <2>3, <2>4 DEF MapIInv, AllUsable
  <2>7. ASSUME NEW i \in DOMAIN handlers, NEW addr \in Addresses,
               Answers(handlers[i], addr), Answers(h, addr)
        PROVE  FALSE
    <3>1. handlers[i] \in Handlers
      BY <1>1, <2>1
    <3>2. Overlaps(h, handlers[i])
      BY <1>1, <3>1, <2>7, OverlapIsFound
    <3> QED BY <1>3, <3>2 DEF Taken
  <2>8. OneOwner'
    <3> SUFFICES ASSUME NEW i \in DOMAIN handlers', NEW j \in DOMAIN handlers',
                        NEW addr \in Addresses,
                        Answers(handlers'[i], addr), Answers(handlers'[j], addr)
                 PROVE  i = j
      BY DEF OneOwner, Answers, End
    <3>1. CASE i \in DOMAIN handlers /\ j \in DOMAIN handlers
      BY <3>1, <2>3 DEF MapIInv, OneOwner
    <3>2. CASE i \in DOMAIN handlers /\ j = Len(handlers) + 1
      BY <3>2, <2>3, <2>7
    <3>3. CASE i = Len(handlers) + 1 /\ j \in DOMAIN handlers
      BY <3>3, <2>3, <2>7
    <3> QED BY <2>4, <3>1, <3>2, <3>3
  <2> QED BY <2>5, <2>6, <2>8 DEF MapIInv
<1> QED BY <1>2, <1>3 DEF RegisterHandler, Refuse, Results

LEMMA MapInitInv == MapInit => MapIInv
BY MapAssumption DEF MapInit, MapIInv, MapTypeOK, AllUsable, OneOwner, Results

LEMMA MapInvariance == MapSpec => []MapIInv
<1>1. MapIInv /\ [MapNext]_mapVars => MapIInv'
  <2> SUFFICES ASSUME MapIInv, [MapNext]_mapVars
               PROVE  MapIInv'
    OBVIOUS
  <2>1. CASE MapNext
    BY <2>1, RegisterKeepsInv DEF MapNext
  <2>2. CASE UNCHANGED mapVars
    BY <2>2 DEF mapVars, MapIInv, MapTypeOK, AllUsable, OneOwner
  <2> QED BY <2>1, <2>2
<1> QED BY MapInitInv, <1>1, PTL DEF MapSpec

(* The map never holds more handlers than slots, all of them offered.       *)
THEOREM MapTypeCorrect == MapSpec => []MapTypeOK
<1>1. MapIInv => MapTypeOK
  BY DEF MapIInv
<1> QED BY <1>1, MapInvariance, PTL

(* No address is ever answered by two of the handlers that                  *)
(* modbus_server_register_handler accepted.                                 *)
THEOREM OwnersAreUnique == MapSpec => []OneOwner
<1>1. MapIInv => OneOwner
  BY DEF MapIInv
<1> QED BY <1>1, MapInvariance, PTL

(* find_register_handler gives every accepted handler its whole range, and  *)
(* nothing but its range.                                                   *)
THEOREM ClaimsAreServed == MapSpec => []ServesItsClaim
<1>1. MapIInv => ServesItsClaim
  <2> SUFFICES ASSUME MapIInv, NEW i \in DOMAIN handlers, NEW addr \in Addresses
               PROVE  /\ Find(addr) = i => /\ addr \in Claim(handlers[i])
                                           /\ Offset(addr) < handlers[i].count
                      /\ Fits(handlers[i]) /\ addr \in Claim(handlers[i])
                           => Find(addr) = i
    BY DEF ServesItsClaim
  <2>1. handlers[i] \in Handlers
    BY MapAssumption DEF MapIInv, MapTypeOK
  <2> QED BY <2>1, FindAnswers, AnswersClaim DEF Offset
<1> QED BY <1>1, MapInvariance, PTL

(* modbus_server_register_handler never refuses a range because of a        *)
(* wrapped end.                                                             *)
THEOREM RefusalsAreJust == MapSpec => []RefusedForCause
<1>1. MapIInv => RefusedForCause
  <2> SUFFICES ASSUME MapIInv, NEW h \in Offered, ~Unusable(h), Taken(h)
               PROVE  \E i \in DOMAIN handlers : Claim(h) \cap Claim(handlers[i]) # {}
    BY DEF RefusedForCause
  <2>1. PICK i \in DOMAIN handlers : Overlaps(h, handlers[i])
    BY DEF Taken
  <2>2. h \in Handlers /\ handlers[i] \in Handlers
    BY MapAssumption DEF MapIInv, MapTypeOK
  <2>3. h.count # 0 /\ handlers[i].count # 0
    BY DEF MapIInv, AllUsable, Unusable
  <2> QED BY <2>1, <2>2, <2>3, OverlapIsReal
<1> QED BY <1>1, MapInvariance, PTL
=============================================================================
