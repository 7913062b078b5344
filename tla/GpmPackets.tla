----------------------------- MODULE GpmPackets -----------------------------
(***************************************************************************)
(* Quote-guidance packets of one tenant.  Several instances of the server  *)
(* serve them; each keeps the packets it has seen in memory and writes     *)
(* through to giraffe-db.  Handlers block their instance, so that an       *)
(* instance handles one request at a time; other instances act between any *)
(* two of its HTTP calls.                                                  *)
(*                                                                         *)
(* giraffe-db may answer a call with an HTTP error, or not at all (refused *)
(* connection, timeout).  In both cases a write may have been made, and a  *)
(* write that timed out may be made later.                                 *)
(***************************************************************************)
EXTENDS Naturals, FiniteSets

CONSTANTS
  Instances,
  Packets,     \* packet ids
  NoPacket, NoRequest,
  MaxCalls     \* bound: requests and restarts in a behaviour

ASSUME CallsBound == MaxCalls \in Nat

Verdicts == {"approved", "rejected"}
Statuses == Verdicts \cup {"pending"}

VARIABLES
  created,   \* packet ids given out
  db,        \* giraffe-db: the approval_status of each packet
  late,      \* writes that timed out and may still be made
  mem,       \* _mem of each instance's GPMPacketStore
  durable,   \* _durable of each instance
  request,   \* the decision an instance is about to write to giraffe-db
  verdicts,  \* verdicts on a packet that were answered with success
  doubtful,  \* packets a write of which was not acknowledged
  crossed,   \* packets decided while another instance took them for pending
  raised,    \* some request ended in an exception that nothing handles
  calls      \* requests and restarts so far

history == <<verdicts, doubtful, crossed, raised>>
vars == <<created, db, late, mem, durable, request, history, calls>>

Requests == [packet : Packets, verdict : Verdicts]

ASSUME Nulls == NoPacket \notin Statuses /\ NoRequest \notin Requests

TypeOK ==
  /\ created \subseteq Packets
  /\ db \in [Packets -> Statuses \cup {NoPacket}]
  /\ late \subseteq Packets \X Statuses
  /\ mem \in [Instances -> [Packets -> Statuses \cup {NoPacket}]]
  /\ durable \in [Instances -> BOOLEAN]
  /\ request \in [Instances -> Requests \cup {NoRequest}]
  /\ verdicts \in [Packets -> SUBSET Verdicts]
  /\ doubtful \subseteq Packets
  /\ crossed \subseteq Packets
  /\ raised \in BOOLEAN
  /\ calls \in 0..MaxCalls

Init ==
  /\ created = {}
  /\ db = [p \in Packets |-> NoPacket]
  /\ late = {}
  /\ mem = [i \in Instances |-> [p \in Packets |-> NoPacket]]
  /\ durable \in [Instances -> BOOLEAN]
  /\ request = [i \in Instances |-> NoRequest]
  /\ verdicts = [p \in Packets |-> {}]
  /\ doubtful = {} /\ crossed = {}
  /\ raised = FALSE
  /\ calls = 0

Call(i) == request[i] = NoRequest /\ calls < MaxCalls /\ calls' = calls + 1

Remember(i, p, status) == mem' = [mem EXCEPT ![i][p] = status]

-----------------------------------------------------------------------------
(* giraffe-db's side of a write, and the ways a call may end.              *)
Writes(p, status) == db' = [db EXCEPT ![p] = status]

(* A write answered with an HTTP error was made or not.                    *)
MayWrite(p, status) ==
  /\ Writes(p, status) \/ UNCHANGED db
  /\ doubtful' = doubtful \cup {p}

(* A write without an answer was made, is made later, or is never made.    *)
TimesOut(p, status) ==
  /\ \/ Writes(p, status) /\ UNCHANGED late
     \/ late' = late \cup {<<p, status>>} /\ UNCHANGED db
     \/ UNCHANGED <<db, late>>
  /\ doubtful' = doubtful \cup {p}

LateWrite ==
  /\ \E w \in late : /\ late' = late \ {w}
                     /\ Writes(w[1], w[2])
  /\ UNCHANGED <<created, mem, durable, request, history, calls>>

-----------------------------------------------------------------------------
(* create_quote_guidance: save of a packet with a fresh id.                *)
SaveThrough(i, p) ==
  /\ durable[i]
  /\ Writes(p, "pending") /\ Remember(i, p, "pending")
  /\ UNCHANGED <<late, doubtful, raised>>

(* Mutant: a packet that is in memory only is marked.                      *)
SaveMarked(i, p) ==
  /\ IF durable[i] THEN MayWrite(p, "pending") ELSE UNCHANGED <<db, doubtful>>
  /\ Remember(i, p, "in_memory_only")
  /\ UNCHANGED <<late, raised>>

(* Only HTTP errors become a GiraffeDBClientError, which save catches.     *)
SaveInMemory(i, p) ==
  /\ IF durable[i] THEN MayWrite(p, "pending") ELSE UNCHANGED <<db, doubtful>>
  /\ Remember(i, p, "pending")
  /\ UNCHANGED <<late, raised>>

SaveRaises(i, p) ==
  /\ durable[i]
  /\ TimesOut(p, "pending")
  /\ raised' = TRUE
  /\ UNCHANGED mem

CreateQuoteGuidance(i, p) ==
  /\ Call(i)
  /\ p \notin created /\ created' = created \cup {p}
  /\ SaveThrough(i, p) \/ SaveInMemory(i, p) \/ SaveRaises(i, p)
  /\ UNCHANGED <<durable, request, verdicts, crossed>>

-----------------------------------------------------------------------------
(* GPMPacketStore.get: memory answers if it can; else giraffe-db is asked, *)
(* and what it answers is remembered.                                      *)

Known(i, p) == IF mem[i][p] = NoPacket /\ durable[i] THEN db[p] ELSE mem[i][p]

GetQuoteGuidance(i, p) ==
  /\ Call(i)
  /\ Known(i, p) # NoPacket
  /\ Remember(i, p, Known(i, p))
  /\ UNCHANGED <<created, db, late, durable, request, history>>

(* list_by_tenant, of fifty packets at most: GET /packets of an instance.  *)
Listed(i, p) == IF durable[i] THEN db[p] ELSE mem[i][p]

(* giraffe-db does not answer a read of what memory has not.               *)
GetRaises(i, p) ==
  /\ Call(i)
  /\ mem[i][p] = NoPacket /\ durable[i]
  /\ raised' = TRUE
  /\ UNCHANGED <<created, db, late, mem, durable, request, verdicts, doubtful, crossed>>

(* Mutant: the status is not asked for.                                    *)
DecideAnyStatus(i, p, verdict) ==
  /\ Call(i)
  /\ Known(i, p) # NoPacket
  /\ Remember(i, p, Known(i, p))
  /\ request' = [request EXCEPT ![i] = [packet |-> p, verdict |-> verdict]]
  /\ UNCHANGED <<created, db, late, durable, history>>

(* approve_packet and reject_packet: a packet that is known as decided is  *)
(* answered with 409.                                                      *)
Decide(i, p, verdict) ==
  /\ Call(i)
  /\ Known(i, p) = "pending"
  /\ Remember(i, p, Known(i, p))
  /\ request' = [request EXCEPT ![i] = [packet |-> p, verdict |-> verdict]]
  /\ UNCHANGED <<created, db, late, durable, history>>

(* The instance answers that the decision is made.                         *)
Decided(i, p, verdict) ==
  /\ verdicts' = [verdicts EXCEPT ![p] = @ \cup {verdict}]
  /\ crossed' = IF \E j \in Instances \ {i} : mem[j][p] = "pending" THEN crossed \cup {p} ELSE crossed
  /\ request' = [request EXCEPT ![i] = NoRequest]

(* Mutant: the status is written to memory only.                           *)
UpdateMemoryOnly(i, p, verdict) ==
  /\ Remember(i, p, verdict)
  /\ Decided(i, p, verdict)
  /\ UNCHANGED <<db, late, doubtful, raised>>

(* Mutant: the packet in memory stays as it was.                           *)
UpdateDbOnly(i, p, verdict) ==
  /\ durable[i] /\ db[p] # NoPacket
  /\ Writes(p, verdict)
  /\ Decided(i, p, verdict)
  /\ UNCHANGED <<late, mem, doubtful, raised>>

(* update_status of a packet giraffe-db has.  Memory is what giraffe-db    *)
(* answers.                                                                *)
UpdateThrough(i, p, verdict) ==
  /\ durable[i] /\ db[p] # NoPacket
  /\ Writes(p, verdict) /\ Remember(i, p, verdict)
  /\ Decided(i, p, verdict)
  /\ UNCHANGED <<late, doubtful, raised>>

(* ... of one it has not (404), an HTTP error, or a store without it.      *)
UpdateInMemory(i, p, verdict) ==
  /\ IF ~durable[i] THEN UNCHANGED <<db, doubtful>>
     ELSE IF db[p] = NoPacket THEN UNCHANGED db /\ doubtful' = doubtful \cup {p}
     ELSE MayWrite(p, verdict)
  /\ Remember(i, p, verdict)
  /\ Decided(i, p, verdict)
  /\ UNCHANGED <<late, raised>>

(* Memory still has the packet pending.                                    *)
UpdateRaises(i, p, verdict) ==
  /\ durable[i]
  /\ IF db[p] = NoPacket THEN UNCHANGED <<db, late, doubtful>> ELSE TimesOut(p, verdict)
  /\ raised' = TRUE
  /\ request' = [request EXCEPT ![i] = NoRequest]
  /\ UNCHANGED <<mem, verdicts, crossed>>

UpdateStatus(i) ==
  /\ request[i] # NoRequest
  /\ LET p == request[i].packet
         verdict == request[i].verdict
     IN  UpdateThrough(i, p, verdict) \/ UpdateInMemory(i, p, verdict) \/ UpdateRaises(i, p, verdict)
  /\ UNCHANGED <<created, durable, calls>>

(* A new store: durable if giraffe-db answers the probe then.  A write     *)
(* that was under way is not acknowledged.                                 *)
Restart(i) ==
  /\ calls < MaxCalls /\ calls' = calls + 1
  /\ mem' = [mem EXCEPT ![i] = [p \in Packets |-> NoPacket]]
  /\ request' = [request EXCEPT ![i] = NoRequest]
  /\ \E probe \in BOOLEAN : durable' = [durable EXCEPT ![i] = probe]
  /\ IF request[i] # NoRequest /\ durable[i] /\ db[request[i].packet] # NoPacket
     THEN TimesOut(request[i].packet, request[i].verdict)
     ELSE UNCHANGED <<db, late, doubtful>>
  /\ UNCHANGED <<created, verdicts, crossed, raised>>

Next ==
  \/ \E i \in Instances :
       \/ \E p \in Packets : \/ CreateQuoteGuidance(i, p)
                             \/ GetQuoteGuidance(i, p) \/ GetRaises(i, p)
                             \/ \E verdict \in Verdicts : Decide(i, p, verdict)
       \/ UpdateStatus(i)
       \/ Restart(i)
  \/ LateWrite

Spec == Init /\ [][Next]_vars

-----------------------------------------------------------------------------
(* What a durable instance has in memory its list shows too, and decided   *)
(* if memory has it decided, but for packets a write of which was not      *)
(* acknowledged: GET /packets, which asks giraffe-db, agrees with          *)
(* GET /quote-guidance, which asks memory first, and a restart loses       *)
(* nothing.                                                                *)
MemoryBacked ==
  \A i \in Instances, p \in Packets \ doubtful :
    durable[i] /\ mem[i][p] # NoPacket =>
      Listed(i, p) # NoPacket /\ (mem[i][p] \in Verdicts => Listed(i, p) \in Verdicts)

(* A packet is answered as approved and as rejected only if two instances  *)
(* took it for pending at the same time, or giraffe-db left an earlier     *)
(* verdict unacknowledged (approve_packet and reject_packet check memory). *)
OneVerdict ==
  \A p \in Packets \ (doubtful \cup crossed) : Cardinality(verdicts[p]) <= 1

(* A decision in giraffe-db is overwritten only for an instance that still *)
(* has the packet pending in memory, or by a write that had timed out, and *)
(* by another decision only.                                               *)
DecisionStands ==
  [][\A p \in Packets : db[p] \in Verdicts /\ db'[p] # db[p] =>
       /\ db'[p] \in Verdicts
       /\ \/ \E w \in late : w[1] = p /\ w \notin late'
          \/ \E i \in Instances : mem[i][p] = "pending"]_vars

(* What the module texts say: a failure of giraffe-db, of whatever kind,   *)
(* leaves the packet in memory and the request answered.                   *)
FailureDegrades == ~raised
=============================================================================
