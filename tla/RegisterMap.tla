---------------------------- MODULE RegisterMap ----------------------------
(***************************************************************************)
(* The register map of the Modbus server of P2                             *)
(* (modbus/src/modbus_server.c): modules register handlers for ranges of   *)
(* holding registers, and a request is given to the first handler whose    *)
(* range has the address.  Addresses and range ends are 16-bit words.      *)
(***************************************************************************)
EXTENDS Naturals, Sequences

CONSTANTS
  Word,          \* number of values of uint16_t
  MaxHandlers,   \* MODBUS_MAX_REGISTER_HANDLERS
  Offered        \* the handlers that modules try to register

Addresses == 0 .. (Word - 1)
Handlers ==
  [start: Addresses, count: Addresses, read: BOOLEAN, write: BOOLEAN]
Results == {"none", "OK", "EINVAL", "ENOMEM", "EADDRINUSE"}

ASSUME MapAssumption ==
  /\ Word \in Nat \ {0}
  /\ MaxHandlers \in Nat
  /\ Offered \subseteq Handlers

VARIABLES
  handlers,      \* register_handlers[0 .. register_handler_count - 1]
  result         \* what the last registration returned

mapVars == <<handlers, result>>

----------------------------------------------------------------------------
\* end addresses are stored in a uint16_t
MutEnd(h) == h.start + h.count - 1
End(h) == (h.start + h.count) % Word
Answers(h, addr) == h.start <= addr /\ addr < End(h)

\* find_register_handler: the first that answers, 0 for none
Find(addr) ==
  IF \E i \in DOMAIN handlers : Answers(handlers[i], addr)
  THEN CHOOSE i \in DOMAIN handlers :
         /\ Answers(handlers[i], addr)
         /\ \A j \in 1 .. (i - 1) : ~Answers(handlers[j], addr)
  ELSE 0

Offset(addr) == addr - handlers[Find(addr)].start
CanRead(addr)  == Find(addr) # 0 /\ handlers[Find(addr)].read
CanWrite(addr) == Find(addr) # 0 /\ handlers[Find(addr)].write

Unusable(h) == h.count = 0 \/ (~h.read /\ ~h.write)
MutFull == Len(handlers) > MaxHandlers
Full == Len(handlers) >= MaxHandlers
MutOverlaps(h, g) == h.start <= End(g) /\ End(h) > g.start   \* adjacent too
MutOverlapsStart(h, g) == g.start <= h.start /\ h.start < End(g)
Overlaps(h, g) == h.start < End(g) /\ End(h) > g.start
Taken(h) == \E i \in DOMAIN handlers : Overlaps(h, handlers[i])

Refuse(h, why) == result' = why /\ UNCHANGED handlers
RegisterHandler(h) ==
  \/ Unusable(h) /\ Refuse(h, "EINVAL")
  \/ ~Unusable(h) /\ Full /\ Refuse(h, "ENOMEM")
  \/ ~Unusable(h) /\ ~Full /\ Taken(h) /\ Refuse(h, "EADDRINUSE")
  \/ /\ ~Unusable(h) /\ ~Full /\ ~Taken(h)
     /\ handlers' = Append(handlers, h)
     /\ result' = "OK"

MapInit == handlers = <<>> /\ result = "none"
MapNext == \E h \in Offered : RegisterHandler(h)
MapSpec == MapInit /\ [][MapNext]_mapVars

----------------------------------------------------------------------------
(* The registers a handler means to serve, and whether they all exist.      *)
Claim(h) == h.start .. (h.start + h.count - 1)
Fits(h)  == h.start + h.count < Word

(* The map holds at most as many usable handlers as there are slots.        *)
MapTypeOK ==
  /\ handlers \in Seq(Offered) /\ Len(handlers) <= MaxHandlers
  /\ result \in Results

(* No request is answered by two handlers, so the order of registration     *)
(* does not matter, whatever 16-bit range ends the overlap test has seen.   *)
OneOwner ==
  \A i, j \in DOMAIN handlers :
    (\E addr \in Addresses :
       Answers(handlers[i], addr) /\ Answers(handlers[j], addr)) => i = j

(* A handler is given exactly the registers it claims, with offsets below   *)
(* its count, when its range ends below the last address.                   *)
ServesItsClaim ==
  \A i \in DOMAIN handlers : \A addr \in Addresses :
    /\ Find(addr) = i => addr \in Claim(handlers[i]) /\ Offset(addr) < handlers[i].count
    /\ Fits(handlers[i]) /\ addr \in Claim(handlers[i]) => Find(addr) = i

(* A usable handler finds its range taken only if it shares a register with *)
(* one already there: adjacent ranges are accepted, and no wrapped range    *)
(* end makes up an overlap.                                                 *)
RefusedForCause ==
  \A h \in Offered : ~Unusable(h) /\ Taken(h) =>
    \E i \in DOMAIN handlers : Claim(h) \cap Claim(handlers[i]) # {}
=============================================================================
