-------------------------- MODULE GiraffeDb_proofs --------------------------
(***************************************************************************)
(* Safety of what is kept in giraffe-db: of quote-guidance packets, for    *)
(* every number of server instances, packets and requests, and of the      *)
(* transaction database, for every number of sessions, programs that run   *)
(* at a time, crashes and repetitions.                                     *)
(*                                                                         *)
(* Packets.  A packet that was never created is nowhere (FreshInv); an     *)
(* instance that is about to write a decision has the packet pending in    *)
(* memory (RequestInv); what is still to be written is of a packet that is *)
(* doubtful, and a creation still to be written is of a packet nobody has  *)
(* (LateInv).  A packet that is not doubtful is in giraffe-db exactly if   *)
(* the instances that have it in memory are durable (PlaceInv), decided    *)
(* there when memory says so (BackedInv); and once a verdict on it was     *)
(* answered nobody takes it for pending any more, unless it was crossed    *)
(* (VerdictInv).                                                           *)
(*                                                                         *)
(* Transactions.  The committed tables refer to rows that are there, and   *)
(* edges to their own inquiries and responses (StoredInv).  Whoever has    *)
(* the write lock has come to a call of a submission it has not committed, *)
(* all others have only looked rows up since they committed (LockInv).     *)
(* The tables of the writer (WriterInv) extend what is committed by rows   *)
(* of its own, as many in each table as the calls before have inserted,    *)
(* whose links are what those calls have made and no later one undone: an  *)
(* edge inserted and still bare, an inquiry and a response on it.  So the  *)
(* update that links an edge finds it bare, or linked to the inquiry that  *)
(* the response answers, and the commit adds every row of the submission.  *)
(* A lookup that missed has seen all that was committed when the           *)
(* submission began (KnownInv, MissedInv).                                 *)
(***************************************************************************)
EXTENDS GpmPackets, ProcurementGraph, SequenceTheorems, FiniteSetTheorems, TLAPS
Has(i, p) == mem[i][p] # NoPacket

(* A packet that was never created is nowhere.                             *)
FreshInv ==
  \A p \in Packets \ created :
    /\ db[p] = NoPacket
    /\ \A i \in Instances : ~Has(i, p)
    /\ verdicts[p] = {}

(* An instance decides on a packet that it has pending.                    *)
RequestInv ==
  \A i \in Instances : request[i] # NoRequest => mem[i][request[i].packet] = "pending"

(* What may still be written.                                              *)
LateInv ==
  \A w \in late :
    /\ w[1] \in doubtful \cap created
    /\ w[2] = "pending" =>
         /\ db[w[1]] = NoPacket
         /\ \A i \in Instances : ~Has(i, w[1])
         /\ \A x \in late : x[1] = w[1] => x = w

(* Who has a packet that is not doubtful is durable if giraffe-db has it.  *)
PlaceInv ==
  \A p \in Packets \ doubtful, i \in Instances :
    Has(i, p) => (durable[i] <=> db[p] # NoPacket)

(* A durable instance that has such a packet decided agrees with it.       *)
BackedInv ==
  \A p \in Packets \ doubtful, i \in Instances :
    durable[i] /\ mem[i][p] \in Verdicts => db[p] \in Verdicts

(* After a verdict nobody finds the packet pending.                        *)
VerdictInv ==
  \A p \in Packets \ (doubtful \cup crossed) :
    /\ \A v, w \in verdicts[p] : v = w
    /\ verdicts[p] # {} => db[p] # "pending" /\ \A i \in Instances : mem[i][p] # "pending"

IInv == /\ TypeOK
        /\ FreshInv
        /\ RequestInv
        /\ LateInv
        /\ PlaceInv
        /\ BackedInv
        /\ VerdictInv

-----------------------------------------------------------------------------
(* A step is a late write, a restart, or a part of a request of one        *)
(* instance; the proofs below split on these cases.                        *)
Creates(i, p) == CreateQuoteGuidance(i, p)
Reads(i, p) == GetQuoteGuidance(i, p) \/ GetRaises(i, p) \/ \E v \in Verdicts : Decide(i, p, v)

(* Next is the disjunction of these cases.                                 *)
LEMMA NextSteps ==
  Next => \/ LateWrite
          \/ \E i \in Instances : \/ UpdateStatus(i) \/ Restart(i)
                                  \/ \E p \in Packets : Creates(i, p) \/ Reads(i, p)
  BY DEF Next, Creates, Reads

(* What is known of a packet is a status, or that there is none.           *)
LEMMA KnownType ==
  ASSUME TypeOK, NEW i \in Instances, NEW p \in Packets
  PROVE  Known(i, p) \in Statuses \cup {NoPacket}
  BY DEF TypeOK, Known

(* A decision that is under way is of a packet and one of the verdicts.    *)
LEMMA RequestType ==
  ASSUME TypeOK, NEW i \in Instances, request[i] # NoRequest
  PROVE  request[i].packet \in Packets /\ request[i].verdict \in Verdicts
  BY DEF TypeOK, Requests

-----------------------------------------------------------------------------
(* Types.                                                                  *)

(* Initial values have their types.                                        *)
LEMMA TypeInit == Init => TypeOK
<1> SUFFICES ASSUME Init PROVE TypeOK
  OBVIOUS
<1> USE DEF Init
<1>1. db \in [Packets -> Statuses \cup {NoPacket}]
  OBVIOUS
<1>2. mem \in [Instances -> [Packets -> Statuses \cup {NoPacket}]]
  OBVIOUS
<1>3. request \in [Instances -> Requests \cup {NoRequest}]
  OBVIOUS
<1>4. verdicts \in [Packets -> SUBSET Verdicts]
  OBVIOUS
<1>5. calls \in 0..MaxCalls
  BY CallsBound
<1>6. QED
  BY <1>1, <1>2, <1>3, <1>4, <1>5 DEF TypeOK

(* Every step keeps the types.                                             *)
LEMMA TypeStep == TypeOK /\ [Next]_vars => TypeOK'
<1> SUFFICES ASSUME TypeOK, [Next]_vars PROVE TypeOK'
  OBVIOUS
<1> USE Nulls, CallsBound DEF TypeOK, Statuses, Verdicts, Requests, history
<1>1. CASE LateWrite
  BY <1>1 DEF LateWrite, Writes, history
<1>2. ASSUME NEW i \in Instances, NEW p \in Packets, Creates(i, p) PROVE TypeOK'
  <2> USE <1>2 DEF Creates, CreateQuoteGuidance, Call
  <2>1. CASE SaveThrough(i, p)
    BY <2>1 DEF SaveThrough, Writes, Remember
  <2>2. CASE SaveInMemory(i, p)
    BY <2>2 DEF SaveInMemory, MayWrite, Writes, Remember
  <2>3. CASE SaveRaises(i, p)
    BY <2>3 DEF SaveRaises, TimesOut, Writes
  <2>4. QED
    BY <2>1, <2>2, <2>3
<1>3. ASSUME NEW i \in Instances, NEW p \in Packets, Reads(i, p) PROVE TypeOK'
  <2>1. CASE GetQuoteGuidance(i, p)
    BY <2>1, KnownType DEF GetQuoteGuidance, Call, Remember, Known, history
  <2>2. CASE GetRaises(i, p)
    BY <2>2 DEF GetRaises, Call, history
  <2>3. ASSUME NEW v \in Verdicts, Decide(i, p, v) PROVE TypeOK'
    BY <2>3, KnownType DEF Decide, Call, Remember, Known, Requests, history
  <2>4. QED
    BY <1>3, <2>1, <2>2, <2>3 DEF Reads
<1>4. ASSUME NEW i \in Instances, UpdateStatus(i) PROVE TypeOK'
  <2> DEFINE p == request[i].packet
             v == request[i].verdict
  <2>0. request[i] # NoRequest /\ p \in Packets /\ v \in Verdicts
    BY <1>4, RequestType DEF UpdateStatus
  <2> USE <1>4, <2>0 DEF UpdateStatus, Decided
  <2>1. CASE UpdateThrough(i, p, v)
    BY <2>1 DEF UpdateThrough, Writes, Remember
  <2>2. CASE UpdateInMemory(i, p, v)
    BY <2>2 DEF UpdateInMemory, MayWrite, Writes, Remember
  <2>3. CASE UpdateRaises(i, p, v)
    BY <2>3 DEF UpdateRaises, TimesOut, Writes
  <2>4. QED
    BY <2>1, <2>2, <2>3
<1>5. ASSUME NEW i \in Instances, Restart(i) PROVE TypeOK'
  BY <1>5, RequestType DEF Restart, TimesOut, Writes
<1>6. CASE UNCHANGED vars
  BY <1>6 DEF vars, history
<1>7. QED
  BY <1>1, <1>2, <1>3, <1>4, <1>5, <1>6, NextSteps

(* The variables keep to their types.                                      *)
THEOREM TypeCorrect == Spec => []TypeOK
  BY TypeInit, TypeStep, PTL DEF Spec

-----------------------------------------------------------------------------
(* The parts of the inductive invariant.                                   *)

(* Nothing is created at the start.                                        *)
LEMMA InvInit == Init => IInv
  BY TypeInit, Nulls
  DEF Init, IInv, FreshInv, RequestInv, LateInv, PlaceInv, BackedInv, VerdictInv, Has, Statuses, Verdicts

(* Only a created packet is written, remembered or decided.                *)
LEMMA FreshStep == TypeOK /\ RequestInv /\ LateInv /\ FreshInv /\ [Next]_vars => FreshInv'
<1> SUFFICES ASSUME TypeOK, RequestInv, LateInv, FreshInv, [Next]_vars PROVE FreshInv'
  OBVIOUS
<1> USE Nulls DEF TypeOK, RequestInv, LateInv, FreshInv, Has, Statuses, Verdicts
<1>1. CASE LateWrite
  BY <1>1 DEF LateWrite, Writes, history
<1>2. ASSUME NEW i \in Instances, NEW p \in Packets, Creates(i, p) PROVE FreshInv'
  <2> USE <1>2 DEF Creates, CreateQuoteGuidance, Call
  <2>1. CASE SaveThrough(i, p)
    BY <2>1 DEF SaveThrough, Writes, Remember
  <2>2. CASE SaveInMemory(i, p)
    BY <2>2 DEF SaveInMemory, MayWrite, Writes, Remember
  <2>3. CASE SaveRaises(i, p)
    BY <2>3 DEF SaveRaises, TimesOut, Writes
  <2>4. QED
    BY <2>1, <2>2, <2>3
<1>3. ASSUME NEW i \in Instances, NEW p \in Packets, Reads(i, p) PROVE FreshInv'
  <2>1. CASE GetQuoteGuidance(i, p)
    BY <2>1, KnownType DEF GetQuoteGuidance, Call, Remember, Known, history
  <2>2. CASE GetRaises(i, p)
    BY <2>2 DEF GetRaises, Call, history
  <2>3. ASSUME NEW v \in Verdicts, Decide(i, p, v) PROVE FreshInv'
    BY <2>3, KnownType DEF Decide, Call, Remember, Known, Requests, history
  <2>4. QED
    BY <1>3, <2>1, <2>2, <2>3 DEF Reads
<1>4. ASSUME NEW i \in Instances, UpdateStatus(i) PROVE FreshInv'
  <2> DEFINE p == request[i].packet
             v == request[i].verdict
  <2>0. request[i] # NoRequest /\ p \in Packets /\ v \in Verdicts
    BY <1>4, RequestType DEF UpdateStatus
  <2> USE <1>4, <2>0 DEF UpdateStatus, Decided
  <2>1. CASE UpdateThrough(i, p, v)
    BY <2>1 DEF UpdateThrough, Writes, Remember
  <2>2. CASE UpdateInMemory(i, p, v)
    BY <2>2 DEF UpdateInMemory, MayWrite, Writes, Remember
  <2>3. CASE UpdateRaises(i, p, v)
    BY <2>3 DEF UpdateRaises, TimesOut, Writes
  <2>4. QED
    BY <2>1, <2>2, <2>3
<1>5. ASSUME NEW i \in Instances, Restart(i) PROVE FreshInv'
  BY <1>5, RequestType DEF Restart, TimesOut, Writes
<1>6. CASE UNCHANGED vars
  BY <1>6 DEF vars, history
<1>7. QED
  BY <1>1, <1>2, <1>3, <1>4, <1>5, <1>6, NextSteps

(* An instance that decides does nothing else.                             *)
LEMMA RequestStep == TypeOK /\ FreshInv /\ RequestInv /\ [Next]_vars => RequestInv'
<1> SUFFICES ASSUME TypeOK, FreshInv, RequestInv, [Next]_vars PROVE RequestInv'
  OBVIOUS
<1> USE Nulls DEF TypeOK, FreshInv, RequestInv, Requests, Has, Statuses, Verdicts
<1>1. CASE LateWrite
  BY <1>1 DEF LateWrite, Writes, history
<1>2. ASSUME NEW i \in Instances, NEW p \in Packets, Creates(i, p) PROVE RequestInv'
  <2> USE <1>2 DEF Creates, CreateQuoteGuidance, Call
  <2>1. CASE SaveThrough(i, p)
    BY <2>1 DEF SaveThrough, Writes, Remember
  <2>2. CASE SaveInMemory(i, p)
    BY <2>2 DEF SaveInMemory, MayWrite, Writes, Remember
  <2>3. CASE SaveRaises(i, p)
    BY <2>3 DEF SaveRaises, TimesOut, Writes
  <2>4. QED
    BY <2>1, <2>2, <2>3
<1>3. ASSUME NEW i \in Instances, NEW p \in Packets, Reads(i, p) PROVE RequestInv'
  <2>1. CASE GetQuoteGuidance(i, p)
    BY <2>1, KnownType DEF GetQuoteGuidance, Call, Remember, Known, history
  <2>2. CASE GetRaises(i, p)
    BY <2>2 DEF GetRaises, Call, history
  <2>3. ASSUME NEW v \in Verdicts, Decide(i, p, v) PROVE RequestInv'
    BY <2>3, KnownType DEF Decide, Call, Remember, Known, Requests, history
  <2>4. QED
    BY <1>3, <2>1, <2>2, <2>3 DEF Reads
<1>4. ASSUME NEW i \in Instances, UpdateStatus(i) PROVE RequestInv'
  <2> DEFINE p == request[i].packet
             v == request[i].verdict
  <2>0. request[i] # NoRequest /\ p \in Packets /\ v \in Verdicts
    BY <1>4, RequestType DEF UpdateStatus
  <2> USE <1>4, <2>0 DEF UpdateStatus, Decided
  <2>1. CASE UpdateThrough(i, p, v)
    BY <2>1 DEF UpdateThrough, Writes, Remember
  <2>2. CASE UpdateInMemory(i, p, v)
    BY <2>2 DEF UpdateInMemory, MayWrite, Writes, Remember
  <2>3. CASE UpdateRaises(i, p, v)
    BY <2>3 DEF UpdateRaises, TimesOut, Writes
  <2>4. QED
    BY <2>1, <2>2, <2>3
<1>5. ASSUME NEW i \in Instances, Restart(i) PROVE RequestInv'
  BY <1>5, RequestType DEF Restart, TimesOut, Writes
<1>6. CASE UNCHANGED vars
  BY <1>6 DEF vars, history
<1>7. QED
  BY <1>1, <1>2, <1>3, <1>4, <1>5, <1>6, NextSteps

(* A late creation is of a packet nobody gets to know.                     *)
LEMMA LateStep == TypeOK /\ FreshInv /\ RequestInv /\ LateInv /\ [Next]_vars => LateInv'
<1> SUFFICES ASSUME TypeOK, FreshInv, RequestInv, LateInv, [Next]_vars PROVE LateInv'
  OBVIOUS
<1> USE Nulls DEF TypeOK, FreshInv, RequestInv, LateInv, Has, Statuses, Verdicts
<1>1. CASE LateWrite
  BY <1>1 DEF LateWrite, Writes, history
<1>2. ASSUME NEW i \in Instances, NEW p \in Packets, Creates(i, p) PROVE LateInv'
  <2> USE <1>2 DEF Creates, CreateQuoteGuidance, Call
  <2>1. CASE SaveThrough(i, p)
    BY <2>1 DEF SaveThrough, Writes, Remember
  <2>2. CASE SaveInMemory(i, p)
    BY <2>2 DEF SaveInMemory, MayWrite, Writes, Remember
  <2>3. CASE SaveRaises(i, p)
    BY <2>3 DEF SaveRaises, TimesOut, Writes
  <2>4. QED
    BY <2>1, <2>2, <2>3
<1>3. ASSUME NEW i \in Instances, NEW p \in Packets, Reads(i, p) PROVE LateInv'
  <2>1. CASE GetQuoteGuidance(i, p)
    BY <2>1, KnownType DEF GetQuoteGuidance, Call, Remember, Known, history
  <2>2. CASE GetRaises(i, p)
    BY <2>2 DEF GetRaises, Call, history
  <2>3. ASSUME NEW v \in Verdicts, Decide(i, p, v) PROVE LateInv'
    BY <2>3, KnownType DEF Decide, Call, Remember, Known, Requests, history
  <2>4. QED
    BY <1>3, <2>1, <2>2, <2>3 DEF Reads
<1>4. ASSUME NEW i \in Instances, UpdateStatus(i) PROVE LateInv'
  <2> DEFINE p == request[i].packet
             v == request[i].verdict
  <2>0. request[i] # NoRequest /\ p \in Packets /\ v \in Verdicts
    BY <1>4, RequestType DEF UpdateStatus
  <2> USE <1>4, <2>0 DEF UpdateStatus, Decided
  <2>1. CASE UpdateThrough(i, p, v)
    BY <2>1 DEF UpdateThrough, Writes, Remember
  <2>2. CASE UpdateInMemory(i, p, v)
    BY <2>2 DEF UpdateInMemory, MayWrite, Writes, Remember
  <2>3. CASE UpdateRaises(i, p, v)
    BY <2>3 DEF UpdateRaises, TimesOut, Writes
  <2>4. QED
    BY <2>1, <2>2, <2>3
<1>5. ASSUME NEW i \in Instances, Restart(i) PROVE LateInv'
  BY <1>5, RequestType DEF Restart, TimesOut, Writes
<1>6. CASE UNCHANGED vars
  BY <1>6 DEF vars, history
<1>7. QED
  BY <1>1, <1>2, <1>3, <1>4, <1>5, <1>6, NextSteps

(* Only durable instances get to know a packet of giraffe-db.              *)
LEMMA PlaceStep == TypeOK /\ FreshInv /\ RequestInv /\ LateInv /\ PlaceInv /\ [Next]_vars => PlaceInv'
<1> SUFFICES ASSUME TypeOK, FreshInv, RequestInv, LateInv, PlaceInv, [Next]_vars PROVE PlaceInv'
  OBVIOUS
<1> USE Nulls DEF TypeOK, FreshInv, RequestInv, LateInv, PlaceInv, Has, Statuses, Verdicts
<1>1. CASE LateWrite
  BY <1>1 DEF LateWrite, Writes, history
<1>2. ASSUME NEW i \in Instances, NEW p \in Packets, Creates(i, p) PROVE PlaceInv'
  <2> USE <1>2 DEF Creates, CreateQuoteGuidance, Call
  <2>1. CASE SaveThrough(i, p)
    BY <2>1 DEF SaveThrough, Writes, Remember
  <2>2. CASE SaveInMemory(i, p)
    BY <2>2 DEF SaveInMemory, MayWrite, Writes, Remember
  <2>3. CASE SaveRaises(i, p)
    BY <2>3 DEF SaveRaises, TimesOut, Writes
  <2>4. QED
    BY <2>1, <2>2, <2>3
<1>3. ASSUME NEW i \in Instances, NEW p \in Packets, Reads(i, p) PROVE PlaceInv'
  <2>1. CASE GetQuoteGuidance(i, p)
    BY <2>1, KnownType DEF GetQuoteGuidance, Call, Remember, Known, history
  <2>2. CASE GetRaises(i, p)
    BY <2>2 DEF GetRaises, Call, history
  <2>3. ASSUME NEW v \in Verdicts, Decide(i, p, v) PROVE PlaceInv'
    BY <2>3, KnownType DEF Decide, Call, Remember, Known, Requests, history
  <2>4. QED
    BY <1>3, <2>1, <2>2, <2>3 DEF Reads
<1>4. ASSUME NEW i \in Instances, UpdateStatus(i) PROVE PlaceInv'
  <2> DEFINE p == request[i].packet
             v == request[i].verdict
  <2>0. request[i] # NoRequest /\ p \in Packets /\ v \in Verdicts
    BY <1>4, RequestType DEF UpdateStatus
  <2> USE <1>4, <2>0 DEF UpdateStatus, Decided
  <2>1. CASE UpdateThrough(i, p, v)
    BY <2>1 DEF UpdateThrough, Writes, Remember
  <2>2. CASE UpdateInMemory(i, p, v)
    BY <2>2 DEF UpdateInMemory, MayWrite, Writes, Remember
  <2>3. CASE UpdateRaises(i, p, v)
    BY <2>3 DEF UpdateRaises, TimesOut, Writes
  <2>4. QED
    BY <2>1, <2>2, <2>3
<1>5. ASSUME NEW i \in Instances, Restart(i) PROVE PlaceInv'
  BY <1>5, RequestType DEF Restart, TimesOut, Writes
<1>6. CASE UNCHANGED vars
  BY <1>6 DEF vars, history
<1>7. QED
  BY <1>1, <1>2, <1>3, <1>4, <1>5, <1>6, NextSteps

(* What a durable instance decides giraffe-db has decided.                 *)
LEMMA BackedStep == TypeOK /\ FreshInv /\ RequestInv /\ LateInv /\ BackedInv /\ [Next]_vars => BackedInv'
<1> SUFFICES ASSUME TypeOK, FreshInv, RequestInv, LateInv, BackedInv, [Next]_vars PROVE BackedInv'
  OBVIOUS
<1> USE Nulls DEF TypeOK, FreshInv, RequestInv, LateInv, BackedInv, Has, Statuses, Verdicts
<1>1. CASE LateWrite
  BY <1>1 DEF LateWrite, Writes, history
<1>2. ASSUME NEW i \in Instances, NEW p \in Packets, Creates(i, p) PROVE BackedInv'
  <2> USE <1>2 DEF Creates, CreateQuoteGuidance, Call
  <2>1. CASE SaveThrough(i, p)
    BY <2>1 DEF SaveThrough, Writes, Remember
  <2>2. CASE SaveInMemory(i, p)
    BY <2>2 DEF SaveInMemory, MayWrite, Writes, Remember
  <2>3. CASE SaveRaises(i, p)
    BY <2>3 DEF SaveRaises, TimesOut, Writes
  <2>4. QED
    BY <2>1, <2>2, <2>3
<1>3. ASSUME NEW i \in Instances, NEW p \in Packets, Reads(i, p) PROVE BackedInv'
  <2>1. CASE GetQuoteGuidance(i, p)
    BY <2>1, KnownType DEF GetQuoteGuidance, Call, Remember, Known, history
  <2>2. CASE GetRaises(i, p)
    BY <2>2 DEF GetRaises, Call, history
  <2>3. ASSUME NEW v \in Verdicts, Decide(i, p, v) PROVE BackedInv'
    BY <2>3, KnownType DEF Decide, Call, Remember, Known, Requests, history
  <2>4. QED
    BY <1>3, <2>1, <2>2, <2>3 DEF Reads
<1>4. ASSUME NEW i \in Instances, UpdateStatus(i) PROVE BackedInv'
  <2> DEFINE p == request[i].packet
             v == request[i].verdict
  <2>0. request[i] # NoRequest /\ p \in Packets /\ v \in Verdicts
    BY <1>4, RequestType DEF UpdateStatus
  <2> USE <1>4, <2>0 DEF UpdateStatus, Decided
  <2>1. CASE UpdateThrough(i, p, v)
    BY <2>1 DEF UpdateThrough, Writes, Remember
  <2>2. CASE UpdateInMemory(i, p, v)
    BY <2>2 DEF UpdateInMemory, MayWrite, Writes, Remember
  <2>3. CASE UpdateRaises(i, p, v)
    BY <2>3 DEF UpdateRaises, TimesOut, Writes
  <2>4. QED
    BY <2>1, <2>2, <2>3
<1>5. ASSUME NEW i \in Instances, Restart(i) PROVE BackedInv'
  BY <1>5, RequestType DEF Restart, TimesOut, Writes
<1>6. CASE UNCHANGED vars
  BY <1>6 DEF vars, history
<1>7. QED
  BY <1>1, <1>2, <1>3, <1>4, <1>5, <1>6, NextSteps

(* A packet that was decided and not crossed is pending nowhere.           *)
LEMMA VerdictStep == TypeOK /\ FreshInv /\ RequestInv /\ LateInv /\ PlaceInv /\ VerdictInv /\ [Next]_vars => VerdictInv'
<1> SUFFICES ASSUME TypeOK, FreshInv, RequestInv, LateInv, PlaceInv, VerdictInv, [Next]_vars PROVE VerdictInv'
  OBVIOUS
<1> USE Nulls DEF TypeOK, FreshInv, RequestInv, LateInv, PlaceInv, VerdictInv, Has, Statuses, Verdicts
<1>1. CASE LateWrite
  BY <1>1 DEF LateWrite, Writes, history
<1>2. ASSUME NEW i \in Instances, NEW p \in Packets, Creates(i, p) PROVE VerdictInv'
  <2> USE <1>2 DEF Creates, CreateQuoteGuidance, Call
  <2>1. CASE SaveThrough(i, p)
    BY <2>1 DEF SaveThrough, Writes, Remember
  <2>2. CASE SaveInMemory(i, p)
    BY <2>2 DEF SaveInMemory, MayWrite, Writes, Remember
  <2>3. CASE SaveRaises(i, p)
    BY <2>3 DEF SaveRaises, TimesOut, Writes
  <2>4. QED
    BY <2>1, <2>2, <2>3
<1>3. ASSUME NEW i \in Instances, NEW p \in Packets, Reads(i, p) PROVE VerdictInv'
  <2>1. CASE GetQuoteGuidance(i, p)
    BY <2>1, KnownType DEF GetQuoteGuidance, Call, Remember, Known, history
  <2>2. CASE GetRaises(i, p)
    BY <2>2 DEF GetRaises, Call, history
  <2>3. ASSUME NEW v \in Verdicts, Decide(i, p, v) PROVE VerdictInv'
    BY <2>3, KnownType DEF Decide, Call, Remember, Known, Requests, history
  <2>4. QED
    BY <1>3, <2>1, <2>2, <2>3 DEF Reads
<1>4. ASSUME NEW i \in Instances, UpdateStatus(i) PROVE VerdictInv'
  <2> DEFINE p == request[i].packet
             v == request[i].verdict
  <2>0. request[i] # NoRequest /\ p \in Packets /\ v \in Verdicts
    BY <1>4, RequestType DEF UpdateStatus
  <2> USE <1>4, <2>0 DEF UpdateStatus, Decided
  <2>1. CASE UpdateThrough(i, p, v)
    BY <2>1 DEF UpdateThrough, Writes, Remember
  <2>2. CASE UpdateInMemory(i, p, v)
    BY <2>2 DEF UpdateInMemory, MayWrite, Writes, Remember
  <2>3. CASE UpdateRaises(i, p, v)
    BY <2>3 DEF UpdateRaises, TimesOut, Writes
  <2>4. QED
    BY <2>1, <2>2, <2>3
<1>5. ASSUME NEW i \in Instances, Restart(i) PROVE VerdictInv'
  BY <1>5, RequestType DEF Restart, TimesOut, Writes
<1>6. CASE UNCHANGED vars
  BY <1>6 DEF vars, history
<1>7. QED
  BY <1>1, <1>2, <1>3, <1>4, <1>5, <1>6, NextSteps

(* The invariant is inductive.                                             *)
LEMMA InvStep == IInv /\ [Next]_vars => IInv'
  BY TypeStep, FreshStep, RequestStep, LateStep, PlaceStep, BackedStep, VerdictStep DEF IInv

(* It holds throughout.                                                    *)
THEOREM Invariance == Spec => []IInv
  BY InvInit, InvStep, PTL DEF Spec

-----------------------------------------------------------------------------
(* The properties of the runs.                                             *)

(* Memory and giraffe-db agree on what is not doubtful: what a durable     *)
(* instance answers from memory its list shows, and decided if it is.      *)
THEOREM MemoryIsBacked == Spec => []MemoryBacked
<1>1. IInv => MemoryBacked
  BY Nulls DEF IInv, PlaceInv, BackedInv, MemoryBacked, Listed, Has, Statuses
<1>2. QED
  BY <1>1, Invariance, PTL

(* A set of verdicts of which any two are equal has at most one element.   *)
LEMMA AtMostOne ==
  ASSUME NEW S, \A v, w \in S : v = w
  PROVE  Cardinality(S) <= 1
<1>1. CASE S = {}
  BY <1>1, FS_EmptySet
<1>2. CASE S # {}
  <2> PICK v \in S : TRUE
    BY <1>2
  <2>1. S = {v}
    OBVIOUS
  <2>2. QED
    BY <2>1, FS_Singleton
<1>3. QED
  BY <1>1, <1>2

(* One verdict is answered on a packet that is neither doubtful nor        *)
(* crossed (approve_packet, reject_packet).                                *)
THEOREM VerdictIsOne == Spec => []OneVerdict
<1>1. IInv => OneVerdict
  BY AtMostOne DEF IInv, VerdictInv, OneVerdict
<1>2. QED
  BY <1>1, Invariance, PTL

(* A decision of giraffe-db is overwritten by a decision only, late or of  *)
(* an instance that still has the packet pending.                          *)
THEOREM DecisionsStand == Spec => DecisionStands
<1> DEFINE Stands == \A p \in Packets : db[p] \in Verdicts /\ db'[p] # db[p] =>
                       /\ db'[p] \in Verdicts
                       /\ \/ \E w \in late : w[1] = p /\ w \notin late'
                          \/ \E i \in Instances : mem[i][p] = "pending"
<1>1. IInv /\ [Next]_vars => Stands
  <2> SUFFICES ASSUME IInv, Next, NEW p \in Packets, db[p] \in Verdicts, db'[p] # db[p]
               PROVE  /\ db'[p] \in Verdicts
                      /\ \/ \E w \in late : w[1] = p /\ w \notin late'
                         \/ \E i \in Instances : mem[i][p] = "pending"
    BY DEF vars
  <2> USE Nulls DEF IInv, TypeOK, Statuses, Verdicts
  <2>1. CASE LateWrite
    BY <2>1 DEF LateWrite, Writes, LateInv
  <2>2. ASSUME NEW i \in Instances, NEW q \in Packets, Creates(i, q) PROVE FALSE
    BY <2>2 DEF Creates, CreateQuoteGuidance, SaveThrough, SaveInMemory, SaveRaises, Writes,
                MayWrite, TimesOut, FreshInv
  <2>3. ASSUME NEW i \in Instances, NEW q \in Packets, Reads(i, q) PROVE FALSE
    BY <2>3 DEF Reads, GetQuoteGuidance, GetRaises, Decide
  <2>4. ASSUME NEW i \in Instances, UpdateStatus(i)
        PROVE  db'[p] \in Verdicts /\ mem[i][p] = "pending"
    <3>1. request[i] # NoRequest /\ request[i].packet \in Packets /\ request[i].verdict \in Verdicts
      BY <2>4, RequestType DEF UpdateStatus
    <3>2. QED
      BY <2>4, <3>1 DEF UpdateStatus, UpdateThrough, UpdateInMemory, UpdateRaises, Writes,
                        MayWrite, TimesOut, RequestInv
  <2>5. ASSUME NEW i \in Instances, Restart(i)
        PROVE  db'[p] \in Verdicts /\ mem[i][p] = "pending"
    BY <2>5, RequestType DEF Restart, TimesOut, Writes, RequestInv
  <2>6. QED
    BY <2>1, <2>2, <2>3, <2>4, <2>5, NextSteps
<1>2. IInv /\ [Next]_vars => [Stands]_vars
  BY <1>1
<1>3. QED
  BY <1>2, Invariance, PTL DEF Spec, DecisionStands

-----------------------------------------------------------------------------
(* The transaction database.                                               *)

(* A row of table t, which refers to rows that are there.                  *)
RowOK(W, t, row) ==
  /\ DOMAIN row = {"ref", "key", "status", "by"}
  /\ DOMAIN ForeignKeys[t] \subseteq DOMAIN row.ref
  /\ t = "edges" => {"inquiry", "response"} \subseteq DOMAIN row.ref
  /\ \A f \in DOMAIN ForeignKeys[t] : row.ref[f] \in 0 .. Len(W[ForeignKeys[t][f]])

TablesOK(W) ==
  /\ DOMAIN W = Tables
  /\ \A t \in Tables : IsList(W[t]) /\ \A i \in 1 .. Len(W[t]) : RowOK(W, t, W[t][i])

(* Edge e is linked to an inquiry asked and a response given on it.        *)
LinksOK(W, e, ref) ==
  /\ ref["inquiry"] # 0 => /\ ref["inquiry"] \in 1 .. Len(W["inquiries"])
                           /\ W["inquiries"][ref["inquiry"]].ref["edge"] = e
  /\ ref["response"] # 0 => /\ ref["response"] \in 1 .. Len(W["responses"])
                            /\ W["responses"][ref["response"]].ref["edge"] = e
                            /\ W["responses"][ref["response"]].ref["inquiry"] = ref["inquiry"]

EdgesOK(W) == \A e \in 1 .. Len(W["edges"]) : LinksOK(W, e, W["edges"][e].ref)

(* A transaction adds rows, all by the same submission; of those there     *)
(* were it keeps origin, key and foreign keys.                             *)
SameRow(t, row, new) ==
  /\ new.by = row.by /\ new.key = row.key
  /\ \A f \in DOMAIN ForeignKeys[t] : new.ref[f] = row.ref[f]

Extends(old, W, by) ==
  \A t \in Tables :
    /\ Len(old[t]) <= Len(W[t])
    /\ \A i \in 1 .. Len(old[t]) : SameRow(t, old[t][i], W[t][i])
    /\ \A i \in Len(old[t]) + 1 .. Len(W[t]) : W[t][i].by = by

-----------------------------------------------------------------------------
(* Where a program is.                                                     *)
CommittedAt(submission, call) == \E j \in 1 .. call - 1 : submission[j].op = "commit"

PlaceOK(programme, at, done) ==
  /\ at.submission \in 1 .. Len(programme) + 1
  /\ at.submission <= Len(programme) =>
       LET submission == programme[at.submission] IN
       /\ at.call \in 1 .. Len(submission)
       /\ at.missed \in BOOLEAN
       /\ at.missed => submission[at.call].op = "find"
       /\ done = IF CommittedAt(submission, at.call) THEN at.submission ELSE at.submission - 1
  /\ at.submission > Len(programme) => done = at.submission - 1

(* A session that runs, or not, some program from some place.              *)
SessionOK(runs, p, m, at, L, done) ==
  /\ m \in {"on", "off"} /\ done \in Nat
  /\ DOMAIN at = {"submission", "call", "missed"} /\ DOMAIN L = Names
  /\ p = "" => ~runs /\ done = 0
  /\ runs => p \in DOMAIN ProgramOf /\ PlaceOK(ProgramOf[p], at, done)
  /\ ~runs => L = Unset

SessionInv ==
  /\ open \subseteq Sessions
  /\ DOMAIN program = Sessions /\ DOMAIN mode = Sessions /\ DOMAIN place = Sessions
  /\ DOMAIN local = Sessions /\ DOMAIN commits = Sessions /\ DOMAIN known = Sessions
  /\ \A s \in Sessions :
       SessionOK(s \in open, program[s], mode[s], place[s], local[s], commits[s])

(* The transaction of a session that writes is under way; one that does    *)
(* not write has only looked up.                                           *)
Pending(s) == s \in open /\ ~Ended(s) /\ ~CommittedAt(Submitting(s), place[s].call)

OnlyFinds(submission, call) == \A j \in 1 .. call - 1 : submission[j].op = "find"

LockInv ==
  /\ writer # NoSession => Pending(writer) /\ mode[writer] = "on"
  /\ \A s \in open : mode[s] = "on" /\ s # writer /\ Pending(s) =>
       OnlyFinds(Submitting(s), place[s].call)

(* The tables that a session in on mode sees.                              *)
Seen(s) == IF s = writer THEN work ELSE stored

NamesOK(L, W) == \A n \in Names : L[n] \in 0 .. Len(W[TableOf[n]])

LocalInv == \A s \in open : mode[s] = "on" => NamesOK(local[s], Seen(s))

-----------------------------------------------------------------------------
(* What the calls of a submission have done, as long as it stands.         *)
RowOf(L, name) == IF name = "" THEN 0 ELSE L[name]

Fact(W, L, c) ==
  /\ Inserts(c, "edges") => /\ L[c.as] \in 1 .. Len(W["edges"])
                            /\ W["edges"][L[c.as]].ref["inquiry"] = 0
                            /\ W["edges"][L[c.as]].ref["response"] = 0
  /\ Inserts(c, "inquiries") =>
       /\ L[c.as] \in 1 .. Len(W["inquiries"])
       /\ W["inquiries"][L[c.as]].ref["edge"] = RowOf(L, c.ref["edge"])
  /\ Inserts(c, "responses") =>
       /\ L[c.as] \in 1 .. Len(W["responses"])
       /\ W["responses"][L[c.as]].ref["edge"] = RowOf(L, c.ref["edge"])
       /\ W["responses"][L[c.as]].ref["inquiry"] = RowOf(L, c.ref["inquiry"])
  /\ LinksEdge(c, "inquiry") =>
       /\ L[c.as] \in 1 .. Len(W["edges"])
       /\ W["edges"][L[c.as]].ref["inquiry"] = L[c.ref["inquiry"]]

FactsOK(submission, call, W, L) ==
  \A j \in 1 .. call - 1 : Lasts(submission, j, call) => Fact(W, L, submission[j])

-----------------------------------------------------------------------------
(* Counting rows.                                                          *)
MadeBefore(submission, call, t) ==
  Cardinality({i \in 1 .. call - 1 : Inserts(submission[i], t)})

CountsOK(old, W, submission, call) ==
  \A t \in Tables \ Shared : Len(W[t]) = Len(old[t]) + MadeBefore(submission, call, t)

(* A committed row is by a submission that was committed.                  *)
OriginInv ==
  \A t \in Tables : \A i \in 1 .. Len(stored[t]) :
    \E s \in Sessions : \E k \in 1 .. commits[s] :
      stored[t][i].by = <<s, k>> /\ mode[s] = "on" /\ program[s] # ""

-----------------------------------------------------------------------------
(* Identities.                                                             *)
HasIdentities(W, identities) ==
  /\ \A x \in identities.actors : \E i \in 1 .. Len(W["actors"]) : W["actors"][i].key = x
  /\ \A x \in identities.projects : \E i \in 1 .. Len(W["projects"]) :
       x = <<W["projects"][i].ref["buyer"], W["projects"][i].key>>

KnownInv == \A s \in open : mode[s] = "on" => HasIdentities(stored, known[s])

Unknown(identities, L, c) ==
  /\ c.table = "actors" => c.key \notin identities.actors
  /\ c.table = "projects" => <<L["buyer"], c.key>> \notin identities.projects

MissedInv ==
  \A s \in open : mode[s] = "on" /\ ~Ended(s) /\ place[s].missed =>
    Unknown(known[s], local[s], Calling(s))

AddsUnknown(old, W, identities) ==
  /\ \A i \in Len(old["actors"]) + 1 .. Len(W["actors"]) :
       W["actors"][i].key \notin identities.actors
  /\ \A i \in Len(old["projects"]) + 1 .. Len(W["projects"]) :
       <<W["projects"][i].ref["buyer"], W["projects"][i].key>> \notin identities.projects

-----------------------------------------------------------------------------
(* A transaction that has come to a call of its submission.                *)
Transaction(old, W, L, submission, call, by, identities, looksUp) ==
  /\ TablesOK(W) /\ EdgesOK(W) /\ Extends(old, W, by) /\ NamesOK(L, W)
  /\ FactsOK(submission, call, W, L)
  /\ CountsOK(old, W, submission, call)
  /\ looksUp => AddsUnknown(old, W, identities)

StoredInv == TablesOK(stored) /\ EdgesOK(stored)

WriterInv ==
  writer # NoSession =>
    Transaction(stored, work, local[writer], Submitting(writer), place[writer].call,
                <<writer, commits[writer] + 1>>, known[writer], LooksUp(writer))

GraphInv ==
  /\ SessionInv /\ LockInv /\ LocalInv /\ StoredInv /\ WriterInv /\ OriginInv
  /\ KnownInv /\ MissedInv /\ SubmissionsWhole

Formed(submission) ==
  /\ IsList(submission) /\ CommitsOnce(submission) /\ LinksInOrder(submission)
  /\ \A i \in 1 .. Len(submission) : TypedCall(submission[i])

-----------------------------------------------------------------------------
(* Sequences and tables.                                                   *)
LEMMA Appended ==
  ASSUME NEW s, IsList(s), NEW e
  PROVE  /\ IsList(Append(s, e)) /\ Len(Append(s, e)) = Len(s) + 1
         /\ \A i \in 1 .. Len(s) : Append(s, e)[i] = s[i]
         /\ Append(s, e)[Len(s) + 1] = e
  <1> DEFINE T == {s[i] : i \in 1 .. Len(s)} \cup {e}
  <1>1. s \in Seq(T)
    <2>1. s \in [1 .. Len(s) -> T] /\ Len(s) \in Nat
      BY DEF IsList
    <2> QED  BY <2>1
  <1>2. e \in T
    OBVIOUS
  <1> HIDE DEF T
  <1>3. /\ Append(s, e) \in Seq(T) /\ Len(Append(s, e)) = Len(s) + 1
        /\ \A i \in 1 .. Len(s) : Append(s, e)[i] = s[i]
        /\ Append(s, e)[Len(s) + 1] = e
    BY <1>1, <1>2, AppendProperties
  <1> DEFINE q == Append(s, e)
  <1>4. q \in Seq(T) /\ Len(q) = Len(s) + 1
    BY <1>3
  <1> HIDE DEF q
  <1>5. PICK n \in Nat : q \in [1 .. n -> T]
    BY <1>4, SeqDef
  <1>6. DOMAIN q = 1 .. Len(q) /\ Len(q) \in Nat
    BY <1>4
  <1>7. q = [i \in 1 .. Len(q) |-> q[i]]
    BY <1>5, <1>6
  <1>8. IsList(q)
    BY <1>6, <1>7 DEF IsList
  <1> QED  BY <1>3, <1>8 DEF q

LEMMA Replaced ==
  ASSUME NEW s, IsList(s), NEW k \in 1 .. Len(s), NEW e
  PROVE  /\ IsList([s EXCEPT ![k] = e]) /\ Len([s EXCEPT ![k] = e]) = Len(s)
         /\ \A i \in 1 .. Len(s) : [s EXCEPT ![k] = e][i] = IF i = k THEN e ELSE s[i]
  <1> DEFINE T == {s[i] : i \in 1 .. Len(s)} \cup {e}
             q == [s EXCEPT ![k] = e]
  <1>1. q \in [1 .. Len(s) -> T] /\ Len(s) \in Nat
    BY DEF IsList
  <1>2. \A i \in 1 .. Len(s) : q[i] = IF i = k THEN e ELSE s[i]
    BY DEF IsList
  <1> HIDE DEF T, q
  <1>3. q \in Seq(T)
    BY <1>1
  <1>4. Len(q) = Len(s)
    BY <1>1, <1>3, LenProperties
  <1>5. IsList(q)
    BY <1>1, <1>4 DEF IsList
  <1> QED  BY <1>2, <1>4, <1>5 DEF q

LEMMA KeyTables ==
  /\ {"edges", "inquiries", "responses", "actors", "projects"} \subseteq Tables
  /\ "edge" \in DOMAIN ForeignKeys["inquiries"]
  /\ {"edge", "inquiry"} \subseteq DOMAIN ForeignKeys["responses"]
  /\ "buyer" \in DOMAIN ForeignKeys["projects"]
  BY DEF Tables, ForeignKeys, InquiryKeys, ResponseKeys, ProjectKeys

LEMMA KeysReferToTables ==
  ASSUME NEW t \in Tables, NEW f \in DOMAIN ForeignKeys[t]
  PROVE  ForeignKeys[t][f] \in Tables
  <1> DEFINE Referred == {"actors", "projects", "requirements", "edges", "inquiries", "needs",
                          "upstream_inquiries", "artifacts", "cad_packets", "shop_profiles",
                          "matches", "schemas", "proposals", "fields", "messages"}
             In(keys) == \A g \in DOMAIN keys : keys[g] \in Referred
  <1>1. Referred \subseteq Tables
    BY DEF Tables, ForeignKeys
  <1>2. In(NoRef) /\ In(ProjectKeys) /\ In(RequirementKeys) /\ In(EdgeKeys) /\ In(InquiryKeys)
    BY DEF NoRef, ProjectKeys, RequirementKeys, EdgeKeys, InquiryKeys
  <1>3. In(ResponseKeys) /\ In(RollupKeys) /\ In(EventKeys) /\ In(RoleKeys) /\ In(NeedKeys)
    BY DEF ResponseKeys, RollupKeys, EventKeys, RoleKeys, NeedKeys
  <1>4. /\ In(UpstreamInquiryKeys) /\ In(UpstreamResponseKeys) /\ In(UpstreamOptionKeys)
        /\ In(ApprovalKeys) /\ In(ArtifactKeys)
    BY DEF UpstreamInquiryKeys, UpstreamResponseKeys, UpstreamOptionKeys, ApprovalKeys,
       ArtifactKeys
  <1>5. In(CadPacketKeys) /\ In(ShopProfileKeys) /\ In(MatchKeys) /\ In(FitReportKeys)
    BY DEF CadPacketKeys, ShopProfileKeys, MatchKeys, FitReportKeys
  <1>6. In(SchemaKeys) /\ In(ObservedKeys) /\ In(DecisionKeys) /\ In(ValueKeys) /\ In(MessageKeys)
    BY DEF SchemaKeys, ObservedKeys, DecisionKeys, ValueKeys, MessageKeys
  <1> HIDE DEF In
  <1>7. In(ForeignKeys[t])
    BY <1>2, <1>3, <1>4, <1>5, <1>6 DEF Tables, ForeignKeys
  <1> QED  BY <1>1, <1>7 DEF In

LEMMA NamedTables ==
  \A n \in Names : TableOf[n] \in Tables
  BY DEF Names, TableOf, Tables, ForeignKeys

LEMMA Lengths ==
  ASSUME NEW W, TablesOK(W), NEW t \in Tables
  PROVE  Len(W[t]) \in Nat
  BY DEF TablesOK, IsList

(* A row is appended.                                                      *)
LEMMA InsertedTables ==
  ASSUME NEW W, TablesOK(W), NEW t \in Tables, NEW row, RowOK(W, t, row),
         NEW V, DOMAIN V = Tables, V[t] = Append(W[t], row),
         \A u \in Tables : u # t => V[u] = W[u]
  PROVE  /\ TablesOK(V)
         /\ \A u \in Tables : Len(V[u]) = IF u = t THEN Len(W[u]) + 1 ELSE Len(W[u])
         /\ \A u \in Tables : \A i \in 1 .. Len(W[u]) : V[u][i] = W[u][i]
         /\ V[t][Len(W[t]) + 1] = row
  <1>1. /\ DOMAIN V = Tables /\ V[t] = Append(W[t], row)
        /\ \A u \in Tables : u # t => V[u] = W[u]
    OBVIOUS
  <1>2. /\ IsList(V[t]) /\ Len(V[t]) = Len(W[t]) + 1
        /\ \A i \in 1 .. Len(W[t]) : V[t][i] = W[t][i]
        /\ V[t][Len(W[t]) + 1] = row
    BY <1>1, Appended DEF TablesOK
  <1>3. ASSUME NEW u \in Tables
        PROVE  /\ IsList(V[u]) /\ Len(W[u]) \in Nat /\ Len(V[u]) \in Nat
               /\ Len(W[u]) <= Len(V[u])
    <2>1. IsList(W[u]) /\ Len(W[u]) \in Nat
      BY DEF TablesOK, IsList
    <2>2. CASE u = t
      <3>1. IsList(V[t]) /\ Len(W[t]) \in Nat /\ Len(V[t]) = Len(W[t]) + 1
        BY <1>2, <2>1, <2>2
      <3>2. Len(V[t]) \in Nat /\ Len(W[t]) <= Len(V[t])
        BY <3>1
      <3> QED  BY <2>2, <3>1, <3>2
    <2>3. CASE u # t
      <3>1. V[u] = W[u]
        BY <1>1, <2>3
      <3> QED  BY <2>1, <3>1
    <2> QED  BY <2>2, <2>3
  <1>4. ASSUME NEW u \in Tables, NEW r, RowOK(W, u, r)
        PROVE  RowOK(V, u, r)
    <2>1. ASSUME NEW f \in DOMAIN ForeignKeys[u]
          PROVE  r.ref[f] \in 0 .. Len(V[ForeignKeys[u][f]])
      <3>1. ForeignKeys[u][f] \in Tables /\ r.ref[f] \in 0 .. Len(W[ForeignKeys[u][f]])
        BY <1>4, KeysReferToTables DEF RowOK
      <3> QED  BY <1>3, <3>1
    <2> QED  BY <1>4, <2>1 DEF RowOK
  <1>5. ASSUME NEW u \in Tables, NEW i \in 1 .. Len(V[u])
        PROVE  RowOK(V, u, V[u][i])
    <2>1. CASE u = t /\ i = Len(W[t]) + 1
      BY <1>2, <1>4, <2>1
    <2>2. CASE i \in 1 .. Len(W[u])
      <3>1. V[u][i] = W[u][i]
        BY <1>1, <1>2, <2>2
      <3> QED  BY <1>4, <2>2, <3>1 DEF TablesOK
    <2> QED  BY <1>1, <1>2, <1>3, <2>1, <2>2
  <1> QED  BY <1>1, <1>2, <1>3, <1>5 DEF TablesOK

(* A row is replaced.                                                      *)
Replaces(W, V, t, k, new) ==
  /\ DOMAIN V = Tables /\ V[t] = [W[t] EXCEPT ![k] = new]
  /\ \A u \in Tables : u # t => V[u] = W[u]

ReplacedRow(W, V, t, k, new) ==
  \A u \in Tables :
    /\ Len(V[u]) = Len(W[u])
    /\ \A i \in 1 .. Len(W[u]) : V[u][i] = IF u = t /\ i = k THEN new ELSE W[u][i]

LEMMA UpdatedTables ==
  ASSUME NEW W, TablesOK(W), NEW t \in Tables, NEW k \in 1 .. Len(W[t]), NEW new,
         SameRow(t, W[t][k], new), DOMAIN new = DOMAIN W[t][k],
         DOMAIN new.ref = DOMAIN W[t][k].ref,
         NEW V, Replaces(W, V, t, k, new)
  PROVE  TablesOK(V) /\ ReplacedRow(W, V, t, k, new)
  <1>1. /\ DOMAIN V = Tables /\ V[t] = [W[t] EXCEPT ![k] = new]
        /\ \A u \in Tables : u # t => V[u] = W[u]
    BY DEF Replaces
  <1>2. /\ IsList(V[t]) /\ Len(V[t]) = Len(W[t])
        /\ \A i \in 1 .. Len(W[t]) : V[t][i] = IF i = k THEN new ELSE W[t][i]
    <2>1. IsList(W[t])
      BY DEF TablesOK
    <2> DEFINE q == W[t]
    <2> HIDE DEF q
    <2>2. /\ IsList([q EXCEPT ![k] = new]) /\ Len([q EXCEPT ![k] = new]) = Len(q)
          /\ \A i \in 1 .. Len(q) : [q EXCEPT ![k] = new][i] = IF i = k THEN new ELSE q[i]
      BY <2>1, Replaced DEF q
    <2> QED  BY <1>1, <2>2 DEF q
  <1>3. \A u \in Tables : IsList(V[u]) /\ Len(V[u]) = Len(W[u])
    BY <1>1, <1>2 DEF TablesOK
  <1>4. \A u \in Tables : \A i \in 1 .. Len(W[u]) :
          V[u][i] = IF u = t /\ i = k THEN new ELSE W[u][i]
    BY <1>1, <1>2
  <1>5. ASSUME NEW u \in Tables, NEW r, RowOK(W, u, r)
        PROVE  RowOK(V, u, r)
    <2>1. ASSUME NEW f \in DOMAIN ForeignKeys[u]
          PROVE  r.ref[f] \in 0 .. Len(V[ForeignKeys[u][f]])
      <3>1. ForeignKeys[u][f] \in Tables /\ r.ref[f] \in 0 .. Len(W[ForeignKeys[u][f]])
        BY <1>5, KeysReferToTables DEF RowOK
      <3> QED  BY <1>3, <3>1
    <2> QED  BY <1>5, <2>1 DEF RowOK
  <1>6. RowOK(W, t, new)
    <2>1. RowOK(W, t, W[t][k])
      BY DEF TablesOK
    <2> QED  BY <2>1 DEF RowOK, SameRow
  <1>7. ASSUME NEW u \in Tables, NEW i \in 1 .. Len(V[u])
        PROVE  RowOK(V, u, V[u][i])
    <2>1. i \in 1 .. Len(W[u])
      BY <1>3
    <2>2. RowOK(W, u, V[u][i])
      <3>1. RowOK(W, u, W[u][i])
        BY <2>1 DEF TablesOK
      <3> QED  BY <1>4, <1>6, <2>1, <3>1
    <2> QED  BY <1>5, <2>2
  <1> QED  BY <1>1, <1>3, <1>4, <1>7 DEF TablesOK, ReplacedRow

LEMMA ExtendsItself ==
  ASSUME NEW W, TablesOK(W), NEW by
  PROVE  Extends(W, W, by)
  <1>1. \A t \in Tables : Len(W[t]) \in Nat
    BY Lengths
  <1> QED  BY <1>1 DEF Extends, SameRow

LEMMA ExtendsFurther ==
  ASSUME NEW old, NEW W, NEW V, NEW by, TablesOK(old), TablesOK(W), TablesOK(V),
         Extends(old, W, by), Extends(W, V, by)
  PROVE  Extends(old, V, by)
  <1> SUFFICES ASSUME NEW t \in Tables
               PROVE  /\ Len(old[t]) <= Len(V[t])
                      /\ \A i \in 1 .. Len(old[t]) : SameRow(t, old[t][i], V[t][i])
                      /\ \A i \in Len(old[t]) + 1 .. Len(V[t]) : V[t][i].by = by
    BY DEF Extends
  <1>1. /\ Len(old[t]) \in Nat /\ Len(W[t]) \in Nat /\ Len(V[t]) \in Nat
        /\ Len(old[t]) <= Len(W[t]) /\ Len(W[t]) <= Len(V[t])
    BY Lengths DEF Extends
  <1>2. ASSUME NEW i \in 1 .. Len(old[t])
        PROVE  SameRow(t, old[t][i], V[t][i])
    <2>1. SameRow(t, old[t][i], W[t][i]) /\ SameRow(t, W[t][i], V[t][i])
      BY <1>1 DEF Extends
    <2> QED  BY <2>1 DEF SameRow
  <1>3. ASSUME NEW i \in Len(old[t]) + 1 .. Len(V[t])
        PROVE  V[t][i].by = by
    <2>1. CASE i <= Len(W[t])
      <3>1. i \in 1 .. Len(W[t]) /\ i \in Len(old[t]) + 1 .. Len(W[t])
        BY <1>1, <2>1
      <3>2. SameRow(t, W[t][i], V[t][i]) /\ W[t][i].by = by
        BY <3>1 DEF Extends
      <3> QED  BY <3>2 DEF SameRow
    <2>2. CASE i > Len(W[t])
      <3>1. i \in Len(W[t]) + 1 .. Len(V[t])
        BY <1>1, <2>2
      <3> QED  BY <3>1 DEF Extends
    <2> QED  BY <1>1, <2>1, <2>2
  <1> QED  BY <1>1, <1>2, <1>3

(* What refers to a row still does when rows were added or updated.        *)
LEMMA LinksStay ==
  ASSUME NEW W, NEW V, NEW by, TablesOK(W), TablesOK(V), Extends(W, V, by),
         NEW e, NEW ref, LinksOK(W, e, ref)
  PROVE  LinksOK(V, e, ref)
  <1>1. \A t \in {"inquiries", "responses"} :
          /\ Len(W[t]) \in Nat /\ Len(V[t]) \in Nat /\ Len(W[t]) <= Len(V[t])
          /\ \A i \in 1 .. Len(W[t]) : SameRow(t, W[t][i], V[t][i])
    BY KeyTables, Lengths DEF Extends
  <1>2. \A i \in 1 .. Len(W["inquiries"]) :
          V["inquiries"][i].ref["edge"] = W["inquiries"][i].ref["edge"]
    BY <1>1, KeyTables DEF SameRow
  <1>3. \A i \in 1 .. Len(W["responses"]) :
          /\ V["responses"][i].ref["edge"] = W["responses"][i].ref["edge"]
          /\ V["responses"][i].ref["inquiry"] = W["responses"][i].ref["inquiry"]
    BY <1>1, KeyTables DEF SameRow
  <1>4. ASSUME ref["inquiry"] # 0
        PROVE  /\ ref["inquiry"] \in 1 .. Len(V["inquiries"])
               /\ V["inquiries"][ref["inquiry"]].ref["edge"] = e
    <2>1. /\ ref["inquiry"] \in 1 .. Len(W["inquiries"])
          /\ W["inquiries"][ref["inquiry"]].ref["edge"] = e
      BY <1>4 DEF LinksOK
    <2> QED  BY <1>1, <1>2, <2>1
  <1>5. ASSUME ref["response"] # 0
        PROVE  /\ ref["response"] \in 1 .. Len(V["responses"])
               /\ V["responses"][ref["response"]].ref["edge"] = e
               /\ V["responses"][ref["response"]].ref["inquiry"] = ref["inquiry"]
    <2>1. /\ ref["response"] \in 1 .. Len(W["responses"])
          /\ W["responses"][ref["response"]].ref["edge"] = e
          /\ W["responses"][ref["response"]].ref["inquiry"] = ref["inquiry"]
      BY <1>5 DEF LinksOK
    <2> QED  BY <1>1, <1>3, <2>1
  <1> QED  BY <1>4, <1>5 DEF LinksOK

LEMMA NamesStay ==
  ASSUME NEW W, NEW V, NEW by, TablesOK(W), TablesOK(V), Extends(W, V, by),
         NEW L, NamesOK(L, W)
  PROVE  NamesOK(L, V)
  <1> SUFFICES ASSUME NEW n \in Names
               PROVE  L[n] \in 0 .. Len(V[TableOf[n]])
    BY DEF NamesOK
  <1>1. TableOf[n] \in Tables
    BY NamedTables
  <1>2. /\ Len(W[TableOf[n]]) \in Nat /\ Len(V[TableOf[n]]) \in Nat
        /\ Len(W[TableOf[n]]) <= Len(V[TableOf[n]])
    BY <1>1, Lengths DEF Extends
  <1> QED  BY <1>2 DEF NamesOK

LEMMA IdentitiesStay ==
  ASSUME NEW W, NEW V, NEW by, TablesOK(W), TablesOK(V), Extends(W, V, by),
         NEW ids, HasIdentities(W, ids)
  PROVE  HasIdentities(V, ids)
  <1>1. \A t \in {"actors", "projects"} :
          /\ Len(W[t]) \in Nat /\ Len(V[t]) \in Nat /\ Len(W[t]) <= Len(V[t])
          /\ \A i \in 1 .. Len(W[t]) : SameRow(t, W[t][i], V[t][i])
    BY KeyTables, Lengths DEF Extends
  <1>2. \A i \in 1 .. Len(W["actors"]) : V["actors"][i].key = W["actors"][i].key
    BY <1>1 DEF SameRow
  <1>3. \A i \in 1 .. Len(W["projects"]) :
          /\ V["projects"][i].key = W["projects"][i].key
          /\ V["projects"][i].ref["buyer"] = W["projects"][i].ref["buyer"]
    BY <1>1, KeyTables DEF SameRow
  <1>4. \A t \in {"actors", "projects"} : \A i \in 1 .. Len(W[t]) : i \in 1 .. Len(V[t])
    BY <1>1
  <1>5. ASSUME NEW x \in ids.actors
        PROVE  \E i \in 1 .. Len(V["actors"]) : V["actors"][i].key = x
    <2>1. PICK i \in 1 .. Len(W["actors"]) : W["actors"][i].key = x
      BY DEF HasIdentities
    <2> QED  BY <1>2, <1>4, <2>1
  <1>6. ASSUME NEW x \in ids.projects
        PROVE  \E i \in 1 .. Len(V["projects"]) :
                 x = <<V["projects"][i].ref["buyer"], V["projects"][i].key>>
    <2>1. PICK i \in 1 .. Len(W["projects"]) :
            x = <<W["projects"][i].ref["buyer"], W["projects"][i].key>>
      BY DEF HasIdentities
    <2> QED  BY <1>3, <1>4, <2>1
  <1> QED  BY <1>5, <1>6 DEF HasIdentities
-----------------------------------------------------------------------------
(* A fact stays one while its names and links are left alone.              *)
Named(x) == {x.as} \cup {x.ref[f] : f \in DOMAIN x.ref}

LEMMA FactKept ==
  ASSUME NEW W, NEW V, NEW by, TablesOK(W), TablesOK(V), Extends(W, V, by),
         NEW L, NEW M, NEW x, TypedCall(x), Fact(W, L, x),
         \A n \in Named(x) \cap Names : M[n] = L[n],
         Inserts(x, "edges") =>
           /\ V["edges"][L[x.as]].ref["inquiry"] = W["edges"][L[x.as]].ref["inquiry"]
           /\ V["edges"][L[x.as]].ref["response"] = W["edges"][L[x.as]].ref["response"],
         LinksEdge(x, "inquiry") =>
           /\ x.ref["inquiry"] \in Names
           /\ V["edges"][L[x.as]].ref["inquiry"] = W["edges"][L[x.as]].ref["inquiry"]
  PROVE  Fact(V, M, x)
  <1>1. \A t \in {"edges", "inquiries", "responses"} :
          /\ Len(W[t]) \in Nat /\ Len(V[t]) \in Nat /\ Len(W[t]) <= Len(V[t])
          /\ \A i \in 1 .. Len(W[t]) : SameRow(t, W[t][i], V[t][i])
    BY KeyTables, Lengths DEF Extends
  <1>2. x.op \in {"insert", "update"} => M[x.as] = L[x.as]
    BY DEF TypedCall, Named
  <1>3. ASSUME x.op = "insert", NEW f \in DOMAIN x.ref
        PROVE  RowOf(M, x.ref[f]) = RowOf(L, x.ref[f])
    BY <1>3 DEF TypedCall, Named, RowOf
  <1>4. ASSUME Inserts(x, "edges")
        PROVE  /\ M[x.as] \in 1 .. Len(V["edges"])
               /\ V["edges"][M[x.as]].ref["inquiry"] = 0
               /\ V["edges"][M[x.as]].ref["response"] = 0
    <2>1. /\ L[x.as] \in 1 .. Len(W["edges"])
          /\ W["edges"][L[x.as]].ref["inquiry"] = 0
          /\ W["edges"][L[x.as]].ref["response"] = 0
      BY <1>4 DEF Fact
    <2>2. M[x.as] = L[x.as]
      BY <1>2, <1>4 DEF Inserts
    <2> QED  BY <1>1, <1>4, <2>1, <2>2
  <1>5. ASSUME Inserts(x, "inquiries")
        PROVE  /\ M[x.as] \in 1 .. Len(V["inquiries"])
               /\ V["inquiries"][M[x.as]].ref["edge"] = RowOf(M, x.ref["edge"])
    <2>1. /\ L[x.as] \in 1 .. Len(W["inquiries"])
          /\ W["inquiries"][L[x.as]].ref["edge"] = RowOf(L, x.ref["edge"])
      BY <1>5 DEF Fact
    <2>2. M[x.as] = L[x.as] /\ "edge" \in DOMAIN x.ref /\ x.op = "insert"
      BY <1>2, <1>5, KeyTables DEF Inserts, TypedCall
    <2>3. V["inquiries"][L[x.as]].ref["edge"] = W["inquiries"][L[x.as]].ref["edge"]
      BY <1>1, <2>1, KeyTables DEF SameRow
    <2> QED  BY <1>1, <1>3, <2>1, <2>2, <2>3
  <1>6. ASSUME Inserts(x, "responses")
        PROVE  /\ M[x.as] \in 1 .. Len(V["responses"])
               /\ V["responses"][M[x.as]].ref["edge"] = RowOf(M, x.ref["edge"])
               /\ V["responses"][M[x.as]].ref["inquiry"] = RowOf(M, x.ref["inquiry"])
    <2>1. /\ L[x.as] \in 1 .. Len(W["responses"])
          /\ W["responses"][L[x.as]].ref["edge"] = RowOf(L, x.ref["edge"])
          /\ W["responses"][L[x.as]].ref["inquiry"] = RowOf(L, x.ref["inquiry"])
      BY <1>6 DEF Fact
    <2>2. /\ M[x.as] = L[x.as] /\ x.op = "insert"
          /\ "edge" \in DOMAIN x.ref /\ "inquiry" \in DOMAIN x.ref
      BY <1>2, <1>6, KeyTables DEF Inserts, TypedCall
    <2>3. /\ V["responses"][L[x.as]].ref["edge"] = W["responses"][L[x.as]].ref["edge"]
          /\ V["responses"][L[x.as]].ref["inquiry"] = W["responses"][L[x.as]].ref["inquiry"]
      BY <1>1, <2>1, KeyTables DEF SameRow
    <2> QED  BY <1>1, <1>3, <2>1, <2>2, <2>3
  <1>7. ASSUME LinksEdge(x, "inquiry")
        PROVE  /\ M[x.as] \in 1 .. Len(V["edges"])
               /\ V["edges"][M[x.as]].ref["inquiry"] = M[x.ref["inquiry"]]
    <2>1. /\ L[x.as] \in 1 .. Len(W["edges"])
          /\ W["edges"][L[x.as]].ref["inquiry"] = L[x.ref["inquiry"]]
      BY <1>7 DEF Fact
    <2>2. M[x.as] = L[x.as]
      BY <1>2, <1>7 DEF LinksEdge
    <2>3. M[x.ref["inquiry"]] = L[x.ref["inquiry"]]
      BY <1>7 DEF LinksEdge, Named
    <2> QED  BY <1>1, <1>7, <2>1, <2>2, <2>3
  <1> QED  BY <1>4, <1>5, <1>6, <1>7 DEF Fact

(* An edge is linked to an inquiry that has a name.                        *)
LEMMA LinkNamed ==
  ASSUME NEW submission, Formed(submission), NEW j \in 1 .. Len(submission),
         LinksEdge(submission[j], "inquiry")
  PROVE  submission[j].ref["inquiry"] \in Names
  <1>1. DOMAIN submission = 1 .. Len(submission)
    BY DEF Formed, IsList
  <1>2. PICK k \in DOMAIN submission :
          /\ Inserts(submission[k], "inquiries")
          /\ submission[k].as = submission[j].ref["inquiry"]
    BY <1>1 DEF Formed, LinksInOrder, LinksEdge
  <1> QED  BY <1>1, <1>2 DEF Formed, TypedCall, Inserts

(* The facts at the next call.                                             *)
LEMMA FactsGo ==
  ASSUME NEW submission, Formed(submission), NEW call \in 1 .. Len(submission),
         NEW W, NEW V, NEW by, TablesOK(W), TablesOK(V), Extends(W, V, by),
         NEW L, NEW M, FactsOK(submission, call, W, L),
         \A x : Leaves(submission[call], x) =>
           /\ \A n \in Named(x) \cap Names : M[n] = L[n]
           /\ Inserts(x, "edges") /\ L[x.as] \in 1 .. Len(W["edges"]) =>
                /\ V["edges"][L[x.as]].ref["inquiry"] = W["edges"][L[x.as]].ref["inquiry"]
                /\ V["edges"][L[x.as]].ref["response"] = W["edges"][L[x.as]].ref["response"]
           /\ LinksEdge(x, "inquiry") /\ L[x.as] \in 1 .. Len(W["edges"]) =>
                V["edges"][L[x.as]].ref["inquiry"] = W["edges"][L[x.as]].ref["inquiry"],
         Fact(V, M, submission[call])
  PROVE  FactsOK(submission, call + 1, V, M)
  <1>1. call \in Nat /\ Len(submission) \in Nat
    BY DEF Formed, IsList
  <1> SUFFICES ASSUME NEW j \in 1 .. call, Lasts(submission, j, call + 1)
               PROVE  Fact(V, M, submission[j])
    BY <1>1 DEF FactsOK
  <1>2. CASE j = call
    BY <1>2
  <1>3. CASE j # call
    <2>1. j \in 1 .. call - 1 /\ j \in 1 .. Len(submission)
      BY <1>1, <1>3
    <2>2. Lasts(submission, j, call) /\ Leaves(submission[call], submission[j])
      BY <1>1, <2>1 DEF Lasts
    <2>3. Fact(W, L, submission[j]) /\ TypedCall(submission[j])
      BY <2>1, <2>2 DEF FactsOK, Formed
    <2> DEFINE x == submission[j]
    <2>4. LinksEdge(x, "inquiry") => x.ref["inquiry"] \in Names
      BY <2>1, LinkNamed
    <2>5. /\ Fact(W, L, x) /\ TypedCall(x)
          /\ \A n \in Named(x) \cap Names : M[n] = L[n]
          /\ Inserts(x, "edges") /\ L[x.as] \in 1 .. Len(W["edges"]) =>
               /\ V["edges"][L[x.as]].ref["inquiry"] = W["edges"][L[x.as]].ref["inquiry"]
               /\ V["edges"][L[x.as]].ref["response"] = W["edges"][L[x.as]].ref["response"]
          /\ LinksEdge(x, "inquiry") /\ L[x.as] \in 1 .. Len(W["edges"]) =>
               V["edges"][L[x.as]].ref["inquiry"] = W["edges"][L[x.as]].ref["inquiry"]
      BY <2>2, <2>3
    <2> HIDE DEF x
    <2>6. /\ Inserts(x, "edges") => L[x.as] \in 1 .. Len(W["edges"])
          /\ LinksEdge(x, "inquiry") => L[x.as] \in 1 .. Len(W["edges"])
      BY <2>5 DEF Fact
    <2>7. Fact(V, M, x)
      BY <2>4, <2>5, <2>6, FactKept
    <2> QED  BY <2>7 DEF x
  <1> QED  BY <1>2, <1>3

(* Rows made by one more call.                                             *)
LEMMA MadeMore ==
  ASSUME NEW submission, NEW call \in Nat, call >= 1, NEW t
  PROVE  /\ MadeBefore(submission, call, t) \in Nat
         /\ MadeBefore(submission, call + 1, t) =
              MadeBefore(submission, call, t) + (IF Inserts(submission[call], t) THEN 1 ELSE 0)
  <1> DEFINE S == {i \in 1 .. call - 1 : Inserts(submission[i], t)}
             T == {i \in 1 .. call + 1 - 1 : Inserts(submission[i], t)}
  <1>1. IsFiniteSet(S)
    <2>1. IsFiniteSet(1 .. call - 1)
      BY FS_Interval
    <2>2. S \in SUBSET (1 .. call - 1)
      OBVIOUS
    <2> HIDE DEF S
    <2> QED  BY <2>1, <2>2, FS_Subset
  <1>2. call \notin S
    OBVIOUS
  <1>3. T = IF Inserts(submission[call], t) THEN S \cup {call} ELSE S
    OBVIOUS
  <1> HIDE DEF S, T
  <1>4. /\ Cardinality(S) \in Nat
        /\ Cardinality(T) = Cardinality(S) + (IF Inserts(submission[call], t) THEN 1 ELSE 0)
    <2>1. Cardinality(S) \in Nat
      BY <1>1, FS_CardinalityType
    <2>2. Cardinality(S \cup {call}) = Cardinality(S) + 1
      BY <1>1, <1>2, FS_AddElement
    <2> QED  BY <1>3, <2>1, <2>2
  <1> QED  BY <1>4 DEF MadeBefore, S, T

LEMMA CountsGo ==
  ASSUME NEW submission, NEW call \in Nat, call >= 1, NEW old, NEW W, NEW V,
         TablesOK(old), TablesOK(W), CountsOK(old, W, submission, call),
         \A t \in Tables \ Shared :
           Len(V[t]) = Len(W[t]) + (IF Inserts(submission[call], t) THEN 1 ELSE 0)
  PROVE  CountsOK(old, V, submission, call + 1)
  <1> SUFFICES ASSUME NEW t \in Tables \ Shared
               PROVE  Len(V[t]) = Len(old[t]) + MadeBefore(submission, call + 1, t)
    BY DEF CountsOK
  <1>1. /\ Len(old[t]) \in Nat
        /\ Len(W[t]) = Len(old[t]) + MadeBefore(submission, call, t)
    BY Lengths DEF CountsOK
  <1>2. /\ MadeBefore(submission, call, t) \in Nat
        /\ MadeBefore(submission, call + 1, t) =
             MadeBefore(submission, call, t) + (IF Inserts(submission[call], t) THEN 1 ELSE 0)
    BY MadeMore
  <1>3. Len(V[t]) = Len(W[t]) + (IF Inserts(submission[call], t) THEN 1 ELSE 0)
    OBVIOUS
  <1> QED  BY <1>1, <1>2, <1>3

LEMMA AddedGo ==
  ASSUME NEW old, NEW W, NEW V, NEW by, TablesOK(old), TablesOK(W), TablesOK(V),
         Extends(old, W, by), Extends(W, V, by), NEW ids, AddsUnknown(old, W, ids),
         AddsUnknown(W, V, ids)
  PROVE  AddsUnknown(old, V, ids)
  <1>1. \A t \in {"actors", "projects"} :
          /\ Len(old[t]) \in Nat /\ Len(W[t]) \in Nat /\ Len(V[t]) \in Nat
          /\ Len(old[t]) <= Len(W[t]) /\ Len(W[t]) <= Len(V[t])
          /\ \A i \in 1 .. Len(W[t]) : SameRow(t, W[t][i], V[t][i])
    BY KeyTables, Lengths DEF Extends
  <1>2. ASSUME NEW i \in Len(old["actors"]) + 1 .. Len(V["actors"])
        PROVE  V["actors"][i].key \notin ids.actors
    <2>1. CASE i <= Len(W["actors"])
      <3>1. i \in Len(old["actors"]) + 1 .. Len(W["actors"]) /\ i \in 1 .. Len(W["actors"])
        BY <1>1, <2>1
      <3>2. W["actors"][i].key \notin ids.actors /\ V["actors"][i].key = W["actors"][i].key
        BY <1>1, <3>1 DEF AddsUnknown, SameRow
      <3> QED  BY <3>2
    <2>2. CASE i > Len(W["actors"])
      <3>1. i \in Len(W["actors"]) + 1 .. Len(V["actors"])
        BY <1>1, <2>2
      <3> QED  BY <3>1 DEF AddsUnknown
    <2> QED  BY <1>1, <2>1, <2>2
  <1>3. ASSUME NEW i \in Len(old["projects"]) + 1 .. Len(V["projects"])
        PROVE  <<V["projects"][i].ref["buyer"], V["projects"][i].key>> \notin ids.projects
    <2>1. CASE i <= Len(W["projects"])
      <3>1. i \in Len(old["projects"]) + 1 .. Len(W["projects"]) /\ i \in 1 .. Len(W["projects"])
        BY <1>1, <2>1
      <3>2. <<W["projects"][i].ref["buyer"], W["projects"][i].key>> \notin ids.projects
        BY <3>1 DEF AddsUnknown
      <3>3. /\ V["projects"][i].key = W["projects"][i].key
            /\ V["projects"][i].ref["buyer"] = W["projects"][i].ref["buyer"]
        BY <1>1, <3>1, KeyTables DEF SameRow
      <3> QED  BY <3>2, <3>3
    <2>2. CASE i > Len(W["projects"])
      <3>1. i \in Len(W["projects"]) + 1 .. Len(V["projects"])
        BY <1>1, <2>2
      <3> QED  BY <3>1 DEF AddsUnknown
    <2> QED  BY <1>1, <2>1, <2>2
  <1> QED  BY <1>2, <1>3 DEF AddsUnknown

LEMMA AddsNothing ==
  ASSUME NEW W, NEW V, NEW ids, TablesOK(W),
         \A t \in {"actors", "projects"} : Len(V[t]) = Len(W[t])
  PROVE  AddsUnknown(W, V, ids)
  <1>1. \A t \in {"actors", "projects"} : Len(W[t]) \in Nat
    BY KeyTables, Lengths
  <1> QED  BY <1>1 DEF AddsUnknown

-----------------------------------------------------------------------------
(* The calls of a transaction.                                             *)
LEMMA TransactionFinds ==
  ASSUME NEW submission, Formed(submission), NEW call \in 1 .. Len(submission),
         NEW c, c = submission[call],
         NEW old, TablesOK(old), NEW W, NEW L, DOMAIN L = Names, NEW by, NEW ids, NEW looks,
         Transaction(old, W, L, submission, call, by, ids, looks),
         c.op = "find", NEW i \in 1 .. Len(W[c.table]),
         NEW M, M = [L EXCEPT ![c.as] = i]
  PROVE  Transaction(old, W, M, submission, call + 1, by, ids, looks)
  <1>1. /\ TablesOK(W) /\ EdgesOK(W) /\ Extends(old, W, by) /\ NamesOK(L, W)
        /\ FactsOK(submission, call, W, L) /\ CountsOK(old, W, submission, call)
        /\ looks => AddsUnknown(old, W, ids)
    BY DEF Transaction
  <1>2. call \in Nat /\ call >= 1 /\ TypedCall(c) /\ c.op = "find"
    BY DEF Formed
  <1>3. Len(W[TableOf[c.as]]) \in Nat /\ c.as \in Names /\ TableOf[c.as] = c.table
    BY <1>1, <1>2, Lengths DEF TypedCall
  <1>4. NamesOK(M, W)
    BY <1>1, <1>3 DEF NamesOK
  <1>5. FactsOK(submission, call + 1, W, M)
    <2>1. Extends(W, W, by)
      BY <1>1, ExtendsItself
    <2>2. Fact(W, M, c)
      BY <1>2 DEF Fact, Inserts, LinksEdge
    <2>3. \A x : Leaves(c, x) => \A n \in Named(x) \cap Names : M[n] = L[n]
      BY <1>2 DEF Leaves, Named
    <2> QED  BY <1>1, <2>1, <2>2, <2>3, FactsGo
  <1>6. CountsOK(old, W, submission, call + 1)
    <2>1. \A t \in Tables \ Shared :
            Len(W[t]) = Len(W[t]) + (IF Inserts(submission[call], t) THEN 1 ELSE 0)
      BY <1>1, <1>2, Lengths DEF Inserts
    <2> QED  BY <1>1, <1>2, <2>1, CountsGo
  <1> QED  BY <1>1, <1>4, <1>5, <1>6 DEF Transaction

(* What a call that looks up or inserts says of its table.                 *)
LEMMA RowCalls ==
  ASSUME NEW c, TypedCall(c), c.op \in {"find", "insert"}
  PROVE  /\ c.table \in Tables /\ c.as \in Names /\ TableOf[c.as] = c.table
         /\ \A f \in DOMAIN c.ref : c.ref[f] \in Names \cup {""}
         /\ \A f \in DOMAIN ForeignKeys[c.table] :
              /\ f \in DOMAIN c.ref
              /\ c.ref[f] # "" => TableOf[c.ref[f]] = ForeignKeys[c.table][f]
         /\ c.table = "edges" =>
              /\ "inquiry" \in DOMAIN c.ref /\ "response" \in DOMAIN c.ref
              /\ c.ref["inquiry"] = "" /\ c.ref["response"] = ""
         /\ c.op = "find" => c.table \in Shared
  BY DEF TypedCall

(* A row that a call makes, found missing or not.                          *)
NewRow(L, c, by) ==
  [ref |-> [f \in DOMAIN c.ref |-> RowOf(L, c.ref[f])], key |-> c.key, status |-> c.status,
   by |-> by]

LEMMA NamedOrNone ==
  ASSUME NEW n, NEW L, NEW S, 0 \in S, n # "" => L[n] \in S
  PROVE  RowOf(L, n) \in S
  BY DEF RowOf

LEMMA ZeroToLength ==
  ASSUME NEW k \in Nat
  PROVE  0 \in 0 .. k
  OBVIOUS

LEMMA NewRowRefers ==
  ASSUME NEW W, NEW L, NamesOK(L, W), NEW c, TypedCall(c), c.op \in {"find", "insert"},
         NEW by, TablesOK(W)
  PROVE  RowOK(W, c.table, NewRow(L, c, by))
  <1> DEFINE t == c.table
             row == NewRow(L, c, by)
  <1>1. /\ DOMAIN row = {"ref", "key", "status", "by"}
        /\ DOMAIN row.ref = DOMAIN c.ref
        /\ \A f \in DOMAIN c.ref : row.ref[f] = RowOf(L, c.ref[f])
    BY DEF NewRow
  <1>2. /\ DOMAIN ForeignKeys[t] \subseteq DOMAIN c.ref /\ t \in Tables
        /\ t = "edges" => {"inquiry", "response"} \subseteq DOMAIN c.ref
    BY RowCalls
  <1>3. ASSUME NEW f \in DOMAIN ForeignKeys[t]
        PROVE  /\ f \in DOMAIN c.ref
               /\ c.ref[f] \in Names \cup {""}
               /\ c.ref[f] # "" => TableOf[c.ref[f]] = ForeignKeys[t][f]
    BY <1>2, RowCalls
  <1> HIDE DEF row, t
  <1>4. ASSUME NEW f \in DOMAIN ForeignKeys[t]
        PROVE  row.ref[f] \in 0 .. Len(W[ForeignKeys[t][f]])
    <2> DEFINE n == c.ref[f]
               u == ForeignKeys[t][f]
    <2>1. row.ref[f] = RowOf(L, n) /\ n \in Names \cup {""} /\ (n # "" => TableOf[n] = u)
      BY <1>1, <1>3
    <2>2. Len(W[u]) \in Nat
      BY <1>2, KeysReferToTables, Lengths
    <2> HIDE DEF n, u
    <2>3. RowOf(L, n) \in 0 .. Len(W[u])
      <3>1. 0 \in 0 .. Len(W[u])
        BY <2>2, ZeroToLength, Zenon
      <3>2. n # "" => L[n] \in 0 .. Len(W[u])
        BY <2>1 DEF NamesOK
      <3> QED  BY <3>1, <3>2, NamedOrNone
    <2> QED  BY <2>1, <2>3 DEF u
  <1>5. t = "edges" => {"inquiry", "response"} \subseteq DOMAIN row.ref
    BY <1>1, <1>2
  <1>6. DOMAIN ForeignKeys[t] \subseteq DOMAIN row.ref
    BY <1>1, <1>2
  <1>7. RowOK(W, t, row)
    BY <1>1, <1>4, <1>5, <1>6 DEF RowOK
  <1> QED  BY <1>7 DEF t, row

LEMMA TransactionInserts ==
  ASSUME NEW submission, Formed(submission), NEW call \in 1 .. Len(submission),
         NEW c, c = submission[call],
         NEW old, TablesOK(old), NEW W, NEW L, DOMAIN L = Names, NEW by, NEW ids, NEW looks,
         Transaction(old, W, L, submission, call, by, ids, looks),
         c.op \in {"find", "insert"},
         looks /\ c.table \in Shared =>
           /\ Unknown(ids, L, c)
           /\ c.table = "projects" => c.ref["buyer"] = "buyer",
         NEW V, V = [W EXCEPT ![c.table] = Append(@, NewRow(L, c, by))],
         NEW M, M = [L EXCEPT ![c.as] = Len(W[c.table]) + 1]
  PROVE  Transaction(old, V, M, submission, call + 1, by, ids, looks)
  <1> DEFINE t == c.table
             row == NewRow(L, c, by)
  <1>1. /\ TablesOK(W) /\ EdgesOK(W) /\ Extends(old, W, by) /\ NamesOK(L, W)
        /\ FactsOK(submission, call, W, L) /\ CountsOK(old, W, submission, call)
        /\ looks => AddsUnknown(old, W, ids)
    BY DEF Transaction
  <1>2. /\ call \in Nat /\ call >= 1 /\ TypedCall(c) /\ c.op \in {"find", "insert"}
        /\ t \in Tables /\ c.as \in Names /\ TableOf[c.as] = t
    <2>1. TypedCall(c)
      BY DEF Formed
    <2>2. t \in Tables /\ c.as \in Names /\ TableOf[c.as] = t
      BY <2>1, RowCalls
    <2> QED  BY <2>1, <2>2
  <1>3. /\ RowOK(W, t, row) /\ row.by = by /\ row.key = c.key /\ DOMAIN row.ref = DOMAIN c.ref
        /\ \A f \in DOMAIN c.ref : row.ref[f] = RowOf(L, c.ref[f])
    <2>1. RowOK(W, t, row)
      BY <1>1, <1>2, NewRowRefers
    <2> QED  BY <2>1 DEF NewRow
  <1>. M = [L EXCEPT ![c.as] = Len(W[t]) + 1]
    OBVIOUS
  <1>4. V = [W EXCEPT ![t] = Append(@, row)]
    OBVIOUS
  <1> HIDE DEF row, t
  <1>5. /\ TablesOK(V)
        /\ \A u \in Tables : Len(V[u]) = IF u = t THEN Len(W[u]) + 1 ELSE Len(W[u])
        /\ \A u \in Tables : \A i \in 1 .. Len(W[u]) : V[u][i] = W[u][i]
        /\ V[t][Len(W[t]) + 1] = row
    <2>1. TablesOK(W) /\ t \in Tables /\ RowOK(W, t, row)
      BY <1>1, <1>2, <1>3
    <2>2. DOMAIN V = Tables /\ V[t] = Append(W[t], row) /\ \A u \in Tables : u # t => V[u] = W[u]
      BY <1>4, <2>1 DEF TablesOK
    <2> QED  BY ONLY <2>1, <2>2, InsertedTables
  <1>6. \A u \in Tables : Len(W[u]) \in Nat
    BY <1>1, Lengths
  <1>7. Extends(W, V, by)
    <2> SUFFICES ASSUME NEW u \in Tables
                 PROVE  /\ Len(W[u]) <= Len(V[u])
                        /\ \A i \in 1 .. Len(W[u]) : SameRow(u, W[u][i], V[u][i])
                        /\ \A i \in Len(W[u]) + 1 .. Len(V[u]) : V[u][i].by = by
      BY DEF Extends
    <2>1. Len(W[u]) <= Len(V[u])
      BY <1>5, <1>6
    <2>2. \A i \in 1 .. Len(W[u]) : SameRow(u, W[u][i], V[u][i])
      BY <1>5 DEF SameRow
    <2>3. ASSUME NEW i \in Len(W[u]) + 1 .. Len(V[u])
          PROVE  V[u][i].by = by
      <3>1. u = t /\ i = Len(W[t]) + 1
        BY <1>5, <1>6
      <3> QED  BY <1>3, <1>5, <3>1
    <2> QED  BY <2>1, <2>2, <2>3
  <1>8. Extends(old, V, by)
    BY <1>1, <1>5, <1>7, ExtendsFurther
  <1>9. /\ M[c.as] = Len(W[t]) + 1 /\ \A n \in Names : n # c.as => M[n] = L[n]
        /\ M[c.as] \in 1 .. Len(V[t]) /\ V[t][M[c.as]] = row
    <2>1. M[c.as] = Len(W[t]) + 1 /\ \A n \in Names : n # c.as => M[n] = L[n]
      BY <1>2 DEF t
    <2>2. Len(W[t]) \in Nat /\ Len(V[t]) = Len(W[t]) + 1
      BY <1>2, <1>5, <1>6
    <2>3. M[c.as] \in 1 .. Len(V[t])
      BY <2>1, <2>2
    <2> QED  BY <1>5, <2>1, <2>3
  <1>10. NamesOK(M, V)
    <2> SUFFICES ASSUME NEW n \in Names
                 PROVE  M[n] \in 0 .. Len(V[TableOf[n]])
      BY DEF NamesOK
    <2>1. NamesOK(L, V)
      BY <1>1, <1>5, <1>7, NamesStay
    <2>2. CASE n = c.as
      BY <1>2, <1>5, <1>6, <1>9, <2>2
    <2>3. CASE n # c.as
      BY <1>9, <2>1, <2>3 DEF NamesOK
    <2> QED  BY <2>2, <2>3
  <1>11. EdgesOK(V)
    <2> SUFFICES ASSUME NEW e \in 1 .. Len(V["edges"])
                 PROVE  LinksOK(V, e, V["edges"][e].ref)
      BY DEF EdgesOK
    <2>1. CASE e \in 1 .. Len(W["edges"])
      <3>1. V["edges"][e] = W["edges"][e] /\ LinksOK(W, e, W["edges"][e].ref)
        BY <1>1, <1>5, <2>1, KeyTables DEF EdgesOK
      <3> QED  BY <1>1, <1>5, <1>7, <3>1, LinksStay
    <2>2. CASE e \notin 1 .. Len(W["edges"])
      <3>1. t = "edges" /\ e = Len(W["edges"]) + 1
        BY <1>5, <1>6, <2>2, KeyTables
      <3>2. /\ "inquiry" \in DOMAIN c.ref /\ "response" \in DOMAIN c.ref
            /\ c.ref["inquiry"] = "" /\ c.ref["response"] = ""
        BY <1>2, <3>1, RowCalls DEF t
      <3>3. row.ref["inquiry"] = 0 /\ row.ref["response"] = 0
        BY <1>3, <3>2 DEF RowOf
      <3>4. V["edges"][e] = row
        BY <1>5, <3>1
      <3> QED  BY <3>3, <3>4 DEF LinksOK
    <2> QED  BY <2>1, <2>2
  <1>12. Fact(V, M, c)
    <2>1. ASSUME Inserts(c, "edges")
          PROVE  /\ M[c.as] \in 1 .. Len(V["edges"])
                 /\ V["edges"][M[c.as]].ref["inquiry"] = 0
                 /\ V["edges"][M[c.as]].ref["response"] = 0
      <3>1. /\ "inquiry" \in DOMAIN c.ref /\ "response" \in DOMAIN c.ref
            /\ c.ref["inquiry"] = "" /\ c.ref["response"] = "" /\ t = "edges"
        BY <1>2, <2>1, RowCalls DEF Inserts, t
      <3>2. row.ref["inquiry"] = 0 /\ row.ref["response"] = 0
        BY <1>3, <3>1 DEF RowOf
      <3> QED  BY <1>9, <3>1, <3>2
    <2>2. ASSUME NEW f \in DOMAIN ForeignKeys[t], ForeignKeys[t][f] # t
          PROVE  /\ V[t][M[c.as]].ref[f] = RowOf(M, c.ref[f])
                 /\ M[c.as] \in 1 .. Len(V[t])
      <3>1. /\ f \in DOMAIN c.ref /\ c.ref[f] \in Names \cup {""}
            /\ c.ref[f] # "" => TableOf[c.ref[f]] = ForeignKeys[t][f]
        BY <1>2, RowCalls DEF t
      <3>2. RowOf(M, c.ref[f]) = RowOf(L, c.ref[f])
        BY <1>2, <1>9, <2>2, <3>1 DEF RowOf
      <3> QED  BY <1>3, <1>9, <3>1, <3>2
    <2>3. /\ ForeignKeys["inquiries"]["edge"] = "edges"
          /\ ForeignKeys["responses"]["edge"] = "edges"
          /\ ForeignKeys["responses"]["inquiry"] = "inquiries"
      BY DEF ForeignKeys, InquiryKeys, ResponseKeys
    <2>4. ASSUME Inserts(c, "inquiries")
          PROVE  /\ M[c.as] \in 1 .. Len(V["inquiries"])
                 /\ V["inquiries"][M[c.as]].ref["edge"] = RowOf(M, c.ref["edge"])
      <3>1. t = "inquiries"
        BY <2>4 DEF Inserts, t
      <3> QED  BY <2>2, <2>3, <3>1, KeyTables
    <2>5. ASSUME Inserts(c, "responses")
          PROVE  /\ M[c.as] \in 1 .. Len(V["responses"])
                 /\ V["responses"][M[c.as]].ref["edge"] = RowOf(M, c.ref["edge"])
                 /\ V["responses"][M[c.as]].ref["inquiry"] = RowOf(M, c.ref["inquiry"])
      <3>1. t = "responses"
        BY <2>5 DEF Inserts, t
      <3> QED  BY <2>2, <2>3, <3>1, KeyTables
    <2>6. ~LinksEdge(c, "inquiry")
      BY <1>2 DEF LinksEdge
    <2> QED  BY <2>1, <2>4, <2>5, <2>6 DEF Fact
  <1>13. FactsOK(submission, call + 1, V, M)
    <2>1. ASSUME NEW x, Leaves(c, x)
          PROVE  \A n \in Named(x) \cap Names : M[n] = L[n]
      <3>1. \A n \in Named(x) \cap Names : n # c.as
        BY <1>2, <2>1 DEF Leaves, Named
      <3> QED  BY <1>9, <3>1
    <2>2. \A i \in 1 .. Len(W["edges"]) : V["edges"][i] = W["edges"][i]
      BY <1>5, KeyTables
    <2>3. \A x : Leaves(submission[call], x) =>
           /\ \A n \in Named(x) \cap Names : M[n] = L[n]
           /\ Inserts(x, "edges") /\ L[x.as] \in 1 .. Len(W["edges"]) =>
                /\ V["edges"][L[x.as]].ref["inquiry"] = W["edges"][L[x.as]].ref["inquiry"]
                /\ V["edges"][L[x.as]].ref["response"] = W["edges"][L[x.as]].ref["response"]
           /\ LinksEdge(x, "inquiry") /\ L[x.as] \in 1 .. Len(W["edges"]) =>
                V["edges"][L[x.as]].ref["inquiry"] = W["edges"][L[x.as]].ref["inquiry"]
      BY <2>1, <2>2
    <2> QED  BY <1>1, <1>5, <1>7, <1>12, <2>3, FactsGo
  <1>14. CountsOK(old, V, submission, call + 1)
    <2>1. ASSUME NEW u \in Tables \ Shared
          PROVE  Len(V[u]) = Len(W[u]) + (IF Inserts(c, u) THEN 1 ELSE 0)
      <3>1. c.op = "find" => u # t
        BY <1>2, RowCalls DEF t
      <3>2. Len(W[u]) \in Nat
        BY <1>6
      <3>3. CASE u # t
        <4>1. ~Inserts(c, u) /\ Len(V[u]) = Len(W[u])
          BY <1>5, <3>3 DEF Inserts, t
        <4> QED  BY <3>2, <4>1
      <3>4. CASE u = t
        BY <1>2, <1>5, <3>1, <3>2, <3>4 DEF Inserts, t
      <3> QED  BY <3>3, <3>4
    <2>2. \A u \in Tables \ Shared :
            Len(V[u]) = Len(W[u]) + (IF Inserts(submission[call], u) THEN 1 ELSE 0)
      BY <2>1
    <2> QED  BY <1>1, <1>2, <2>2, CountsGo
  <1>15. ASSUME looks
         PROVE  AddsUnknown(old, V, ids)
    <2>1. AddsUnknown(W, V, ids)
      <3>1. ASSUME NEW i \in Len(W["actors"]) + 1 .. Len(V["actors"])
            PROVE  V["actors"][i].key \notin ids.actors
        <4>1. t = "actors" /\ i = Len(W["actors"]) + 1
          BY <1>5, <1>6, KeyTables
        <4>2. V["actors"][i].key = c.key
          BY <1>3, <1>5, <4>1
        <4> QED  BY <1>15, <4>1, <4>2 DEF Unknown, Shared, t
      <3>2. ASSUME NEW i \in Len(W["projects"]) + 1 .. Len(V["projects"])
            PROVE  <<V["projects"][i].ref["buyer"], V["projects"][i].key>> \notin ids.projects
        <4>1. t = "projects" /\ i = Len(W["projects"]) + 1
          BY <1>5, <1>6, KeyTables
        <4>2. V["projects"][i] = row
          BY <1>5, <4>1
        <4>3. "buyer" \in DOMAIN c.ref /\ c.ref["buyer"] = "buyer" /\ Unknown(ids, L, c)
          BY <1>2, <1>15, <4>1, KeyTables DEF TypedCall, Shared, t
        <4>4. row.ref["buyer"] = L["buyer"] /\ row.key = c.key
          BY <1>3, <4>3 DEF RowOf
        <4> QED  BY <4>1, <4>2, <4>3, <4>4 DEF Unknown, t
      <3> QED  BY <3>1, <3>2 DEF AddsUnknown
    <2> QED  BY <1>1, <1>5, <1>7, <1>15, <2>1, AddedGo
  <1> QED  BY <1>5, <1>8, <1>10, <1>11, <1>13, <1>14, <1>15 DEF Transaction

LEMMA NoNameless == "" \notin Names
  BY DEF Names, TableOf

(* A call that links edge e, to what its names stand for.                  *)
LinkOK(W, L, c, e) ==
  /\ DOMAIN c.ref \in {{}, {"inquiry"}, {"response"}}
  /\ LinksEdge(c, "inquiry") =>
       /\ c.ref["inquiry"] \in Names
       /\ e \in 1 .. Len(W["edges"])
       /\ W["edges"][e].ref["inquiry"] = 0
       /\ W["edges"][e].ref["response"] = 0
       /\ L[c.ref["inquiry"]] \in 1 .. Len(W["inquiries"])
       /\ W["inquiries"][L[c.ref["inquiry"]]].ref["edge"] = e
  /\ LinksEdge(c, "response") =>
       /\ c.ref["response"] \in Names
       /\ L[c.ref["response"]] \in 1 .. Len(W["responses"])
       /\ W["responses"][L[c.ref["response"]]].ref["edge"] = e
       /\ W["responses"][L[c.ref["response"]]].ref["inquiry"]
            = W["edges"][e].ref["inquiry"]

(* What the facts say of the edge that a call links.                       *)
LEMMA LinkFacts ==
  ASSUME NEW submission, Formed(submission), NEW call \in 1 .. Len(submission),
         NEW c, c = submission[call], c.op = "update", c.table = "edges",
         NEW W, NEW L, FactsOK(submission, call, W, L), NEW e, e = L[c.as]
  PROVE  LinkOK(W, L, c, e)
  <1>1. DOMAIN submission = 1 .. Len(submission) /\ Len(submission) \in Nat
    BY DEF Formed, IsList
  <1>2. ASSUME NEW j \in DOMAIN submission, Lasts(submission, j, call)
        PROVE  Fact(W, L, submission[j]) /\ TypedCall(submission[j])
    <2>1. j \in 1 .. call - 1
      BY <1>1, <1>2 DEF Lasts
    <2> QED  BY <1>1, <1>2, <2>1 DEF FactsOK, Formed
  <1>3. TypedCall(c) /\ c.as \in Names /\ RowOf(L, c.as) = L[c.as]
    <2>1. TypedCall(c)
      BY DEF Formed
    <2>2. c.as \in Names
      BY <2>1 DEF TypedCall
    <2> QED  BY <2>1, <2>2, NoNameless DEF RowOf
  <1>4. /\ DOMAIN c.ref \in {{}, {"inquiry"}, {"response"}}
        /\ LinksEdge(c, "inquiry") =>
             /\ \E j \in DOMAIN submission :
                  /\ Lasts(submission, j, call)
                  /\ Inserts(submission[j], "edges") /\ submission[j].as = c.as
             /\ \E j \in DOMAIN submission :
                  /\ Lasts(submission, j, call)
                  /\ Inserts(submission[j], "inquiries")
                  /\ submission[j].as = c.ref["inquiry"]
                  /\ submission[j].ref["edge"] = c.as
        /\ LinksEdge(c, "response") => \E j, k \in DOMAIN submission :
             /\ Lasts(submission, j, call) /\ Lasts(submission, k, call)
             /\ Inserts(submission[j], "responses") /\ submission[j].as = c.ref["response"]
             /\ submission[j].ref["edge"] = c.as
             /\ LinksEdge(submission[k], "inquiry") /\ submission[k].as = c.as
             /\ submission[k].ref["inquiry"] = submission[j].ref["inquiry"]
    BY <1>1 DEF Formed, LinksInOrder
  <1>5. ASSUME LinksEdge(c, "inquiry")
        PROVE  /\ c.ref["inquiry"] \in Names
               /\ L[c.as] \in 1 .. Len(W["edges"])
               /\ W["edges"][L[c.as]].ref["inquiry"] = 0
               /\ W["edges"][L[c.as]].ref["response"] = 0
               /\ L[c.ref["inquiry"]] \in 1 .. Len(W["inquiries"])
               /\ W["inquiries"][L[c.ref["inquiry"]]].ref["edge"] = L[c.as]
    <2>1. PICK j \in DOMAIN submission :
            /\ Lasts(submission, j, call)
            /\ Inserts(submission[j], "edges") /\ submission[j].as = c.as
      BY <1>4, <1>5
    <2>2. PICK i \in DOMAIN submission :
            /\ Lasts(submission, i, call)
            /\ Inserts(submission[i], "inquiries")
            /\ submission[i].as = c.ref["inquiry"]
            /\ submission[i].ref["edge"] = c.as
      BY <1>4, <1>5
    <2>3. /\ L[c.as] \in 1 .. Len(W["edges"])
          /\ W["edges"][L[c.as]].ref["inquiry"] = 0
          /\ W["edges"][L[c.as]].ref["response"] = 0
      BY <1>2, <2>1 DEF Fact
    <2>4. /\ L[c.ref["inquiry"]] \in 1 .. Len(W["inquiries"])
          /\ W["inquiries"][L[c.ref["inquiry"]]].ref["edge"] = RowOf(L, c.as)
      BY <1>2, <2>2 DEF Fact
    <2>5. c.ref["inquiry"] \in Names
      BY <1>2, <2>2, RowCalls DEF Inserts
    <2> QED  BY <1>3, <2>3, <2>4, <2>5
  <1>6. ASSUME LinksEdge(c, "response")
        PROVE  /\ c.ref["response"] \in Names
               /\ L[c.ref["response"]] \in 1 .. Len(W["responses"])
               /\ W["responses"][L[c.ref["response"]]].ref["edge"] = L[c.as]
               /\ W["responses"][L[c.ref["response"]]].ref["inquiry"]
                    = W["edges"][L[c.as]].ref["inquiry"]
    <2>1. PICK j \in DOMAIN submission, k \in DOMAIN submission :
            /\ Lasts(submission, j, call) /\ Lasts(submission, k, call)
            /\ Inserts(submission[j], "responses") /\ submission[j].as = c.ref["response"]
            /\ submission[j].ref["edge"] = c.as
            /\ LinksEdge(submission[k], "inquiry") /\ submission[k].as = c.as
            /\ submission[k].ref["inquiry"] = submission[j].ref["inquiry"]
      BY <1>4, <1>6
    <2> DEFINE n == submission[k].ref["inquiry"]
    <2>2. /\ L[c.ref["response"]] \in 1 .. Len(W["responses"])
          /\ W["responses"][L[c.ref["response"]]].ref["edge"] = RowOf(L, c.as)
          /\ W["responses"][L[c.ref["response"]]].ref["inquiry"] = RowOf(L, n)
      BY <1>2, <2>1 DEF Fact
    <2>3. c.ref["response"] \in Names
      BY <1>2, <2>1, RowCalls DEF Inserts
    <2>4. W["edges"][L[c.as]].ref["inquiry"] = L[n]
      BY <1>2, <2>1 DEF Fact
    <2>5. n \in Names
      BY <1>1, <2>1, LinkNamed
    <2>6. RowOf(L, n) = L[n]
      BY <2>5, NoNameless DEF RowOf
    <2> QED  BY <1>3, <2>2, <2>3, <2>4, <2>6
  <1> QED  BY <1>4, <1>5, <1>6 DEF LinkOK

(* The row that an update leaves.                                          *)
Changed(L, c, row) ==
  [row EXCEPT !.ref = [f \in DOMAIN @ |-> IF f \in DOMAIN c.ref THEN RowOf(L, c.ref[f])
                                                                ELSE @[f]],
              !.status = IF c.status = "" THEN @ ELSE c.status]

ChangesRow(L, c, row, new) ==
  /\ DOMAIN new = DOMAIN row /\ new.by = row.by /\ new.key = row.key
  /\ DOMAIN new.ref = DOMAIN row.ref
  /\ \A f \in DOMAIN row.ref :
       new.ref[f] = IF f \in DOMAIN c.ref THEN RowOf(L, c.ref[f]) ELSE row.ref[f]

LEMMA ChangedRow ==
  ASSUME NEW L, NEW c, NEW row, DOMAIN row = {"ref", "key", "status", "by"}
  PROVE  ChangesRow(L, c, row, Changed(L, c, row))
  BY DEF Changed, ChangesRow

(* Tables whose rows are in place, with names, keys and origins kept.      *)
LEMMA KeptRowsExtend ==
  ASSUME NEW W, NEW V, NEW by, TablesOK(W),
         \A u \in Tables : /\ Len(V[u]) = Len(W[u])
                           /\ \A i \in 1 .. Len(W[u]) : SameRow(u, W[u][i], V[u][i])
  PROVE  Extends(W, V, by)
  <1>1. \A u \in Tables : Len(W[u]) \in Nat
    BY Lengths
  <1> QED  BY <1>1 DEF Extends

LEMMA TransactionUpdates ==
  ASSUME NEW submission, Formed(submission), NEW call \in 1 .. Len(submission),
         NEW c, c = submission[call],
         NEW old, TablesOK(old), NEW W, NEW L, NEW by, NEW ids, NEW looks,
         Transaction(old, W, L, submission, call, by, ids, looks),
         c.op = "update", NEW t, t = c.table, NEW k, k = L[c.as],
         NEW V, DOMAIN V = Tables, V[t] = [W[t] EXCEPT ![k] = Changed(L, c, W[t][k])],
         \A u \in Tables : u # t => V[u] = W[u]
  PROVE  Transaction(old, V, L, submission, call + 1, by, ids, looks)
  <1>1. /\ TablesOK(W) /\ EdgesOK(W) /\ Extends(old, W, by) /\ NamesOK(L, W)
        /\ FactsOK(submission, call, W, L) /\ CountsOK(old, W, submission, call)
        /\ looks => AddsUnknown(old, W, ids)
    BY DEF Transaction
  <1>2. /\ call \in Nat /\ call >= 1
        /\ t \in Tables /\ c.as \in Names /\ TableOf[c.as] = t
        /\ DOMAIN c.ref \cap DOMAIN ForeignKeys[t] = {}
    <2>1. TypedCall(c)
      BY DEF Formed
    <2>2. /\ t \in Tables /\ c.as \in Names /\ TableOf[c.as] = t
          /\ DOMAIN c.ref \cap DOMAIN ForeignKeys[t] = {}
      BY <2>1 DEF TypedCall
    <2> QED  BY <2>2
  <1>3. k \in 0 .. Len(W[t]) /\ Len(W[t]) \in Nat
    BY <1>1, <1>2, Lengths DEF NamesOK
  <1> DEFINE new == Changed(L, c, W[t][k])
  <1>4. ASSUME k \in 1 .. Len(W[t])
        PROVE  /\ SameRow(t, W[t][k], new)
               /\ DOMAIN new = DOMAIN W[t][k] /\ DOMAIN new.ref = DOMAIN W[t][k].ref
               /\ \A f \in DOMAIN W[t][k].ref :
                    new.ref[f] = IF f \in DOMAIN c.ref THEN RowOf(L, c.ref[f])
                                                       ELSE W[t][k].ref[f]
    <2>1. RowOK(W, t, W[t][k])
      BY <1>1, <1>2, <1>4 DEF TablesOK
    <2>2. /\ DOMAIN W[t][k] = {"ref", "key", "status", "by"}
          /\ DOMAIN ForeignKeys[t] \subseteq DOMAIN W[t][k].ref
      BY <2>1 DEF RowOK
    <2>3. ChangesRow(L, c, W[t][k], new)
      BY ONLY <2>2, ChangedRow
    <2> HIDE DEF new
    <2>4. /\ DOMAIN new = DOMAIN W[t][k]
          /\ new.by = W[t][k].by /\ new.key = W[t][k].key
          /\ DOMAIN new.ref = DOMAIN W[t][k].ref
          /\ \A f \in DOMAIN W[t][k].ref :
               new.ref[f] = IF f \in DOMAIN c.ref THEN RowOf(L, c.ref[f])
                                                  ELSE W[t][k].ref[f]
      BY <2>3 DEF ChangesRow
    <2>5. \A f \in DOMAIN ForeignKeys[t] : new.ref[f] = W[t][k].ref[f]
      BY <1>2, <2>2, <2>4
    <2> QED  BY <2>4, <2>5 DEF SameRow
  <1>. V[t] = [W[t] EXCEPT ![k] = new]
    OBVIOUS
  <1> HIDE DEF new
  <1>5. /\ TablesOK(V)
        /\ \A u \in Tables : Len(V[u]) = Len(W[u])
        /\ \A u \in Tables : \A i \in 1 .. Len(W[u]) :
             V[u][i] = IF u = t /\ i = k THEN new ELSE W[u][i]
    <2>1. CASE k \in 1 .. Len(W[t])
      <3>1. /\ TablesOK(W) /\ t \in Tables /\ k \in 1 .. Len(W[t])
            /\ SameRow(t, W[t][k], new) /\ DOMAIN new = DOMAIN W[t][k]
            /\ DOMAIN new.ref = DOMAIN W[t][k].ref
        BY <1>1, <1>2, <1>4, <2>1
      <3>2. Replaces(W, V, t, k, new)
        BY DEF Replaces
      <3>3. TablesOK(V) /\ ReplacedRow(W, V, t, k, new)
        BY ONLY <3>1, <3>2, UpdatedTables
      <3> QED  BY <3>3 DEF ReplacedRow
    <2>2. CASE k = 0
      <3>1. DOMAIN W = Tables /\ IsList(W[t])
        BY <1>1, <1>2 DEF TablesOK
      <3> DEFINE n == Len(W[t])
      <3>2. n \in Nat /\ DOMAIN W[t] = 1 .. n /\ W[t] = [i \in 1 .. n |-> W[t][i]]
        BY <3>1 DEF IsList
      <3> HIDE DEF n
      <3>3. \A i \in 1 .. n : i # k
        BY <2>2, <3>2
      <3>4. [W[t] EXCEPT ![k] = new] = W[t]
        BY <3>2, <3>3
      <3>5. \A u \in Tables : V[u] = W[u]
        BY <3>4
      <3>6. \A u \in Tables : \A i \in 1 .. Len(W[u]) : ~ (u = t /\ i = k)
        BY <2>2
      <3>7. TablesOK(V)
        <4>1. ASSUME NEW u \in Tables, NEW row, RowOK(W, u, row)
              PROVE  RowOK(V, u, row)
          <5>1. \A f \in DOMAIN ForeignKeys[u] : V[ForeignKeys[u][f]] = W[ForeignKeys[u][f]]
            BY <3>5, KeysReferToTables
          <5> QED  BY <4>1, <5>1 DEF RowOK
        <4> QED  BY <1>1, <3>5, <4>1 DEF TablesOK
      <3> QED  BY <3>5, <3>6, <3>7
    <2> QED  BY <1>3, <2>1, <2>2
  <1>6. \A u \in Tables : \A i \in 1 .. Len(W[u]) : SameRow(u, W[u][i], V[u][i])
    <2> SUFFICES ASSUME NEW u \in Tables, NEW i \in 1 .. Len(W[u])
                 PROVE  SameRow(u, W[u][i], V[u][i])
      OBVIOUS
    <2>1. CASE u = t /\ i = k
      BY <1>4, <1>5, <2>1
    <2>2. CASE ~ (u = t /\ i = k)
      <3>1. V[u][i] = W[u][i]
        BY <1>5, <2>2
      <3> QED  BY <3>1 DEF SameRow
    <2> QED  BY <2>1, <2>2
  <1>7. Extends(W, V, by)
    BY <1>1, <1>5, <1>6, KeptRowsExtend
  <1>8. Extends(old, V, by)
    BY <1>1, <1>5, <1>7, ExtendsFurther
  <1>9. NamesOK(L, V)
    BY <1>1, <1>5, <1>7, NamesStay
  <1>10. t = "edges" => LinkOK(W, L, c, k)
    BY <1>1, LinkFacts
  <1>11. ASSUME NEW e \in 1 .. Len(W["edges"])
         PROVE  {"inquiry", "response"} \subseteq DOMAIN W["edges"][e].ref
    <2>1. RowOK(W, "edges", W["edges"][e])
      BY <1>1, KeyTables DEF TablesOK
    <2> QED  BY <2>1 DEF RowOK
  <1>12. ASSUME NEW column \in {"inquiry", "response"}, NEW e \in 1 .. Len(W["edges"])
         PROVE  V["edges"][e].ref[column] =
                  IF t = "edges" /\ e = k /\ LinksEdge(c, column)
                    THEN RowOf(L, c.ref[column]) ELSE W["edges"][e].ref[column]
    <2>1. CASE ~ (t = "edges" /\ e = k)
      <3>1. V["edges"][e] = W["edges"][e]
        BY <1>5, <2>1, KeyTables
      <3> QED  BY <2>1, <3>1
    <2>2. CASE t = "edges" /\ e = k
      <3>1. V["edges"][e] = new /\ column \in DOMAIN W[t][k].ref
        BY <1>5, <1>11, <2>2, KeyTables
      <3>2. LinksEdge(c, column) <=> column \in DOMAIN c.ref
        BY <2>2 DEF LinksEdge
      <3> QED  BY <1>4, <2>2, <3>1, <3>2
    <2> QED  BY <2>1, <2>2
  <1>13. EdgesOK(V)
    <2> SUFFICES ASSUME NEW e \in 1 .. Len(V["edges"])
                 PROVE  LinksOK(V, e, V["edges"][e].ref)
      BY DEF EdgesOK
    <2> DEFINE ref == W["edges"][e].ref
               now == V["edges"][e].ref
    <2>1. e \in 1 .. Len(W["edges"])
      BY <1>5, KeyTables
    <2>2. LinksOK(W, e, ref)
      BY <1>1, <2>1 DEF EdgesOK
    <2>3. \A column \in {"inquiry", "response"} :
            now[column] = IF t = "edges" /\ e = k /\ LinksEdge(c, column)
                            THEN RowOf(L, c.ref[column]) ELSE ref[column]
      BY <1>12, <2>1
    <2>4. t = "edges" => ~LinksEdge(c, "inquiry") \/ ~LinksEdge(c, "response")
      BY <1>10 DEF LinkOK, LinksEdge
    <2> HIDE DEF ref, now
    <2>5. LinksOK(W, e, now)
      <3>1. CASE t = "edges" /\ e = k /\ LinksEdge(c, "inquiry")
        <4> DEFINE q == L[c.ref["inquiry"]]
        <4>1. q \in 1 .. Len(W["inquiries"]) /\ W["inquiries"][q].ref["edge"] = e
          BY <1>10, <3>1 DEF LinkOK
        <4>2. now["inquiry"] = q
          <5>1. RowOf(L, c.ref["inquiry"]) = q
            BY <1>10, <3>1, NoNameless DEF LinkOK, RowOf
          <5> QED  BY <2>3, <3>1, <5>1
        <4>3. now["response"] = 0
          BY <1>10, <2>3, <2>4, <3>1 DEF LinkOK, ref
        <4> QED  BY <4>1, <4>2, <4>3 DEF LinksOK
      <3>2. CASE t = "edges" /\ e = k /\ LinksEdge(c, "response")
        <4> DEFINE r == L[c.ref["response"]]
        <4>1. /\ r \in 1 .. Len(W["responses"]) /\ W["responses"][r].ref["edge"] = e
              /\ W["responses"][r].ref["inquiry"] = ref["inquiry"]
          BY <1>10, <3>2 DEF LinkOK, ref
        <4>2. now["response"] = r
          <5>1. RowOf(L, c.ref["response"]) = r
            BY <1>10, <3>2, NoNameless DEF LinkOK, RowOf
          <5> QED  BY <2>3, <3>2, <5>1
        <4>3. now["inquiry"] = ref["inquiry"]
          BY <2>3, <2>4, <3>2
        <4> QED  BY <2>2, <4>1, <4>2, <4>3 DEF LinksOK
      <3>3. CASE \A column \in {"inquiry", "response"} :
                   ~ (t = "edges" /\ e = k /\ LinksEdge(c, column))
        <4>1. now["inquiry"] = ref["inquiry"] /\ now["response"] = ref["response"]
          BY <2>3, <3>3
        <4> QED  BY <2>2, <4>1 DEF LinksOK
      <3> QED  BY <3>1, <3>2, <3>3
    <2>6. LinksOK(V, e, now)
      BY <1>1, <1>5, <1>7, <2>5, LinksStay
    <2> QED  BY <2>6 DEF now
  <1>14. Fact(V, L, c)
    <2>1. ASSUME LinksEdge(c, "inquiry")
          PROVE  /\ k \in 1 .. Len(V["edges"])
                 /\ V["edges"][k].ref["inquiry"] = L[c.ref["inquiry"]]
      <3>1. t = "edges"
        BY <2>1 DEF LinksEdge
      <3>2. k \in 1 .. Len(W["edges"]) /\ c.ref["inquiry"] \in Names
        BY <1>10, <2>1, <3>1 DEF LinkOK
      <3>3. V["edges"][k].ref["inquiry"] = RowOf(L, c.ref["inquiry"])
        BY <1>12, <2>1, <3>1, <3>2
      <3>4. RowOf(L, c.ref["inquiry"]) = L[c.ref["inquiry"]]
        BY <3>2, NoNameless DEF RowOf
      <3> QED  BY <1>5, <3>2, <3>3, <3>4, KeyTables
    <2> QED  BY <2>1 DEF Fact, Inserts
  <1>15. FactsOK(submission, call + 1, V, L)
    <2>1. ASSUME NEW x, Leaves(c, x)
          PROVE  /\ Inserts(x, "edges") /\ L[x.as] \in 1 .. Len(W["edges"]) =>
                      /\ V["edges"][L[x.as]].ref["inquiry"] = W["edges"][L[x.as]].ref["inquiry"]
                      /\ V["edges"][L[x.as]].ref["response"]
                           = W["edges"][L[x.as]].ref["response"]
                 /\ LinksEdge(x, "inquiry") /\ L[x.as] \in 1 .. Len(W["edges"]) =>
                      V["edges"][L[x.as]].ref["inquiry"] = W["edges"][L[x.as]].ref["inquiry"]
      <3>1. Inserts(x, "edges") => ~LinksEdge(c, "inquiry") /\ ~LinksEdge(c, "response")
        BY <2>1 DEF Leaves
      <3>2. LinksEdge(x, "inquiry") => ~LinksEdge(c, "inquiry")
        BY <2>1 DEF Leaves
      <3> QED  BY <1>12, <3>1, <3>2
    <2> QED  BY <1>1, <1>5, <1>7, <1>14, <2>1, FactsGo
  <1>16. CountsOK(old, V, submission, call + 1)
    <2>1. \A u \in Tables \ Shared :
            Len(V[u]) = Len(W[u]) + (IF Inserts(submission[call], u) THEN 1 ELSE 0)
      <3>1. \A u \in Tables : Len(W[u]) \in Nat
        BY <1>1, Lengths
      <3> QED  BY <1>5, <3>1 DEF Inserts
    <2> QED  BY <1>1, <1>2, <2>1, CountsGo
  <1>17. looks => AddsUnknown(old, V, ids)
    <2>1. AddsUnknown(W, V, ids)
      BY <1>1, <1>5, AddsNothing, KeyTables
    <2> QED  BY <1>1, <1>5, <1>7, <2>1, AddedGo
  <1> QED  BY <1>5, <1>8, <1>9, <1>13, <1>15, <1>16, <1>17 DEF Transaction

-----------------------------------------------------------------------------
(* What the programs are written like.                                     *)
LEMMA Programme ==
  ASSUME NEW p \in DOMAIN ProgramOf
  PROVE  /\ IsList(ProgramOf[p]) /\ Len(ProgramOf[p]) \in Nat
         /\ \A k \in 1 .. Len(ProgramOf[p]) :
              /\ Formed(ProgramOf[p][k])
              /\ \A i \in 1 .. Len(ProgramOf[p][k]) :
                   ProgramOf[p][k][i].op = "insert" /\ ProgramOf[p][k][i].table \in Shared =>
                     p \in CreatesAnyway
  <1> DEFINE programme == ProgramOf[p]
  <1>1. /\ IsList(programme)
        /\ \A k \in DOMAIN programme :
             /\ IsList(programme[k])
             /\ CommitsOnce(programme[k]) /\ LinksInOrder(programme[k])
             /\ \A i \in DOMAIN programme[k] :
                  /\ TypedCall(programme[k][i])
                  /\ programme[k][i].op = "insert" /\ programme[k][i].table \in Shared =>
                       p \in CreatesAnyway
    BY ProgramsFormed
  <1> HIDE DEF programme
  <1>2. DOMAIN programme = 1 .. Len(programme) /\ Len(programme) \in Nat
    BY <1>1 DEF IsList
  <1>3. ASSUME NEW k \in 1 .. Len(programme)
        PROVE  /\ Formed(programme[k])
               /\ \A i \in 1 .. Len(programme[k]) :
                    programme[k][i].op = "insert" /\ programme[k][i].table \in Shared =>
                      p \in CreatesAnyway
    <2> DEFINE submission == programme[k]
    <2>1. /\ IsList(submission) /\ CommitsOnce(submission) /\ LinksInOrder(submission)
          /\ \A i \in DOMAIN submission :
               /\ TypedCall(submission[i])
               /\ submission[i].op = "insert" /\ submission[i].table \in Shared =>
                    p \in CreatesAnyway
      BY <1>1, <1>2
    <2> HIDE DEF submission
    <2>2. DOMAIN submission = 1 .. Len(submission)
      BY <2>1 DEF IsList
    <2>3. /\ Formed(submission)
          /\ \A i \in 1 .. Len(submission) :
               submission[i].op = "insert" /\ submission[i].table \in Shared =>
                 p \in CreatesAnyway
      BY <2>1, <2>2 DEF Formed
    <2> QED  BY <2>3 DEF submission
  <1>4. /\ IsList(programme) /\ Len(programme) \in Nat
        /\ \A k \in 1 .. Len(programme) :
             /\ Formed(programme[k])
             /\ \A i \in 1 .. Len(programme[k]) :
                  programme[k][i].op = "insert" /\ programme[k][i].table \in Shared =>
                    p \in CreatesAnyway
    BY <1>1, <1>2, <1>3
  <1> QED  BY <1>4 DEF programme

(* The commit of a submission, with what may come before and after it.     *)
LEMMA CommitPlace ==
  ASSUME NEW submission, Formed(submission), NEW call \in 1 .. Len(submission)
  PROVE  /\ Len(submission) \in Nat
         /\ submission[call].op \in {"find", "insert", "update", "commit", "check"}
         /\ submission[call].op \in {"find", "insert", "update"} =>
              /\ call < Len(submission)
              /\ ~CommittedAt(submission, call) /\ ~CommittedAt(submission, call + 1)
         /\ submission[call].op = "commit" =>
              /\ ~CommittedAt(submission, call) /\ CommittedAt(submission, call + 1)
              /\ \A i \in 1 .. Len(submission) : i > call => submission[i].op = "check"
         /\ submission[call].op = "check" =>
              CommittedAt(submission, call) /\ CommittedAt(submission, call + 1)
  <1>1. Len(submission) \in Nat /\ DOMAIN submission = 1 .. Len(submission)
    BY DEF Formed, IsList
  <1>2. PICK m \in 1 .. Len(submission) :
          /\ submission[m].op = "commit"
          /\ \A i \in 1 .. m - 1 : submission[i].op \in {"find", "insert", "update"}
          /\ \A i \in m + 1 .. Len(submission) : submission[i].op = "check"
    BY <1>1 DEF Formed, CommitsOnce
  <1>3. CASE call < m
    <2>1. submission[call].op \in {"find", "insert", "update"}
      BY <1>1, <1>2, <1>3
    <2>2. ASSUME NEW j \in 1 .. call
          PROVE  submission[j].op # "commit"
      <3>1. j \in 1 .. m - 1
        BY <1>1, <1>2, <1>3
      <3> QED  BY <1>2, <3>1
    <2>3. ~CommittedAt(submission, call) /\ ~CommittedAt(submission, call + 1)
      BY <1>1, <2>2 DEF CommittedAt
    <2> QED  BY <1>1, <1>3, <2>1, <2>3
  <1>4. CASE call = m
    <2>1. ASSUME NEW j \in 1 .. call - 1
          PROVE  submission[j].op # "commit"
      BY <1>2, <1>4
    <2>2. ~CommittedAt(submission, call) /\ CommittedAt(submission, call + 1)
      BY <1>1, <1>2, <1>4, <2>1 DEF CommittedAt
    <2>3. \A i \in 1 .. Len(submission) : i > call => submission[i].op = "check"
      BY <1>1, <1>2, <1>4
    <2> QED  BY <1>1, <1>2, <1>4, <2>2, <2>3
  <1>5. CASE call > m
    <2>1. submission[call].op = "check"
      BY <1>1, <1>2, <1>5
    <2>2. m \in 1 .. call - 1 /\ m \in 1 .. call + 1 - 1
      BY <1>1, <1>5
    <2>3. CommittedAt(submission, call) /\ CommittedAt(submission, call + 1)
      BY <1>2, <2>2 DEF CommittedAt
    <2> QED  BY <1>1, <2>1, <2>3
  <1> QED  BY <1>1, <1>3, <1>4, <1>5

LEMMA NothingCommittedFirst ==
  ASSUME NEW submission
  PROVE  ~CommittedAt(submission, 1)
  BY DEF CommittedAt

LEMMA SubmissionsCall ==
  ASSUME NEW submission, Formed(submission)
  PROVE  1 \in 1 .. Len(submission)
  <1>1. Len(submission) \in Nat /\ \E m \in 1 .. Len(submission) : TRUE
    BY DEF Formed, IsList, CommitsOnce
  <1> QED  BY <1>1

(* From one call to the next.                                              *)
NextPlace(programme, at) ==
  IF at.call < Len(programme[at.submission])
    THEN CallOf(at.submission, at.call + 1)
    ELSE CallOf(at.submission + 1, 1)

LEMMA StartsAt ==
  ASSUME NEW programme, Len(programme) \in Nat,
         \A k \in 1 .. Len(programme) : Formed(programme[k]),
         NEW k \in 1 .. Len(programme) + 1
  PROVE  /\ PlaceOK(programme, CallOf(k, 1), k - 1)
         /\ DOMAIN CallOf(k, 1) = {"submission", "call", "missed"}
  <1>1. /\ CallOf(k, 1).submission = k /\ CallOf(k, 1).call = 1 /\ CallOf(k, 1).missed = FALSE
        /\ DOMAIN CallOf(k, 1) = {"submission", "call", "missed"}
    BY DEF CallOf
  <1> DEFINE at == CallOf(k, 1)
  <1> HIDE DEF at
  <1>2. at.submission = k /\ at.call = 1 /\ at.missed = FALSE
    BY <1>1 DEF at
  <1>3. ASSUME k <= Len(programme)
        PROVE  1 \in 1 .. Len(programme[k]) /\ ~CommittedAt(programme[k], 1)
    BY <1>3, SubmissionsCall, NothingCommittedFirst
  <1>4. PlaceOK(programme, at, k - 1)
    BY <1>2, <1>3 DEF PlaceOK
  <1> QED  BY <1>1, <1>4 DEF at

LEMMA PlaceGoes ==
  ASSUME NEW programme, Len(programme) \in Nat,
         \A k \in 1 .. Len(programme) : Formed(programme[k]),
         NEW at, DOMAIN at = {"submission", "call", "missed"}, NEW done \in Nat,
         PlaceOK(programme, at, done), at.submission <= Len(programme),
         NEW after,
         after = IF programme[at.submission][at.call].op = "commit" THEN done + 1 ELSE done
  PROVE  /\ PlaceOK(programme, NextPlace(programme, at), after)
         /\ DOMAIN NextPlace(programme, at) = {"submission", "call", "missed"}
         /\ after \in Nat
  <1> DEFINE k == at.submission
             call == at.call
             submission == programme[k]
             now == NextPlace(programme, at)
  <1>1. /\ k \in 1 .. Len(programme) /\ Formed(submission) /\ call \in 1 .. Len(submission)
        /\ done = IF CommittedAt(submission, call) THEN k ELSE k - 1
    BY DEF PlaceOK
  <1>2. /\ Len(submission) \in Nat
        /\ submission[call].op \in {"find", "insert", "update", "commit", "check"}
        /\ submission[call].op \in {"find", "insert", "update"} =>
             /\ call < Len(submission)
             /\ ~CommittedAt(submission, call) /\ ~CommittedAt(submission, call + 1)
        /\ submission[call].op = "commit" =>
             ~CommittedAt(submission, call) /\ CommittedAt(submission, call + 1)
        /\ submission[call].op = "check" =>
             CommittedAt(submission, call) /\ CommittedAt(submission, call + 1)
    BY <1>1, CommitPlace
  <1>3. after = IF CommittedAt(submission, call + 1) THEN k ELSE k - 1
    BY <1>1, <1>2
  <1>4. CASE call < Len(submission)
    <2>1. now = CallOf(k, call + 1)
      BY <1>4 DEF NextPlace
    <2>2. /\ DOMAIN now = {"submission", "call", "missed"}
          /\ now.submission = k /\ now.call = call + 1 /\ now.missed = FALSE
      BY <2>1 DEF CallOf
    <2> HIDE DEF now
    <2>3. call + 1 \in 1 .. Len(submission)
      BY <1>1, <1>2, <1>4
    <2>4. PlaceOK(programme, now, after)
      <3>1. now.submission \in 1 .. Len(programme) + 1 /\ now.submission <= Len(programme)
        BY <1>1, <2>2
      <3>2. now.call \in 1 .. Len(programme[now.submission]) /\ now.missed = FALSE
        BY <2>2, <2>3
      <3>3. after = IF CommittedAt(programme[now.submission], now.call)
                      THEN now.submission ELSE now.submission - 1
        BY <1>3, <2>2
      <3>4. ~(now.submission > Len(programme))
        BY <3>1
      <3> QED  BY <3>1, <3>2, <3>3, <3>4 DEF PlaceOK
    <2>5. after \in Nat
      BY <1>1, <1>3
    <2> QED  BY <2>2, <2>4, <2>5 DEF now
  <1>5. CASE ~(call < Len(submission))
    <2>1. now = CallOf(k + 1, 1)
      BY <1>5 DEF NextPlace
    <2>2. CommittedAt(submission, call + 1)
      BY <1>2, <1>5
    <2>3. after = k /\ k + 1 \in 1 .. Len(programme) + 1 /\ after = (k + 1) - 1 /\ after \in Nat
      BY <1>1, <1>3, <2>2
    <2>4. /\ PlaceOK(programme, CallOf(k + 1, 1), (k + 1) - 1)
          /\ DOMAIN CallOf(k + 1, 1) = {"submission", "call", "missed"}
      BY <2>3, StartsAt
    <2> QED  BY <2>1, <2>3, <2>4
  <1> QED  BY <1>4, <1>5

-----------------------------------------------------------------------------
(* A program that runs, at the call it has come to.                        *)
LEMMA Running ==
  ASSUME SessionInv, NEW s \in open, ~Ended(s)
  PROVE  /\ s \in Sessions /\ program[s] \in DOMAIN ProgramOf /\ program[s] # ""
         /\ Len(ProgramOf[program[s]]) \in Nat
         /\ place[s].submission \in 1 .. Len(ProgramOf[program[s]])
         /\ Formed(Submitting(s))
         /\ place[s].call \in 1 .. Len(Submitting(s)) /\ Len(Submitting(s)) \in Nat
         /\ place[s].missed \in BOOLEAN /\ (place[s].missed => Calling(s).op = "find")
         /\ commits[s] = IF CommittedAt(Submitting(s), place[s].call)
                           THEN place[s].submission ELSE place[s].submission - 1
         /\ Calling(s).op = "insert" /\ Calling(s).table \in Shared => ~LooksUp(s)
         /\ TypedCall(Calling(s))
  <1> DEFINE programme == ProgramOf[program[s]]
             k == place[s].submission
             call == place[s].call
  <1>1. /\ s \in Sessions
        /\ SessionOK(TRUE, program[s], mode[s], place[s], local[s], commits[s])
    BY DEF SessionInv
  <1>2. /\ program[s] \in DOMAIN ProgramOf /\ program[s] # ""
        /\ PlaceOK(programme, place[s], commits[s])
    BY <1>1 DEF SessionOK
  <1>3. /\ Len(programme) \in Nat
        /\ \A j \in 1 .. Len(programme) :
             /\ Formed(programme[j])
             /\ \A i \in 1 .. Len(programme[j]) :
                  programme[j][i].op = "insert" /\ programme[j][i].table \in Shared =>
                    program[s] \in CreatesAnyway
    BY <1>2, Programme
  <1>4. k <= Len(programme)
    <2>1. k \in 1 .. Len(programme) + 1
      BY <1>2 DEF PlaceOK
    <2>2. ~(k > Len(programme))
      BY DEF Ended
    <2> QED  BY <1>3, <2>1, <2>2
  <1>5. /\ k \in 1 .. Len(programme) /\ call \in 1 .. Len(programme[k])
        /\ place[s].missed \in BOOLEAN
        /\ place[s].missed => programme[k][call].op = "find"
        /\ commits[s] = IF CommittedAt(programme[k], call) THEN k ELSE k - 1
    <2> DEFINE at == place[s]
               q == ProgramOf[program[s]]
    <2>1. PlaceOK(q, at, commits[s]) /\ at.submission <= Len(q) /\ Len(q) \in Nat
      BY <1>2, <1>3, <1>4
    <2> HIDE DEF at, q
    <2>2. at.submission \in 1 .. Len(q)
      BY <2>1 DEF PlaceOK
    <2>3. /\ at.call \in 1 .. Len(q[at.submission]) /\ at.missed \in BOOLEAN
          /\ at.missed => q[at.submission][at.call].op = "find"
          /\ commits[s] = IF CommittedAt(q[at.submission], at.call)
                            THEN at.submission ELSE at.submission - 1
      BY <2>1 DEF PlaceOK
    <2> QED  BY <2>2, <2>3 DEF at, q
  <1>6. Submitting(s) = programme[k] /\ Calling(s) = programme[k][call]
    BY DEF Submitting, Calling
  <1>7. Formed(programme[k]) /\ Len(programme[k]) \in Nat /\ TypedCall(programme[k][call])
    BY <1>3, <1>5 DEF Formed, IsList
  <1>8. Calling(s).op = "insert" /\ Calling(s).table \in Shared => ~LooksUp(s)
    BY <1>3, <1>5, <1>6 DEF LooksUp
  <1> QED  BY <1>1, <1>2, <1>3, <1>5, <1>6, <1>7, <1>8

(* One session does something, and the others stay where they are.         *)
OnlyOf(s) ==
  /\ open' \subseteq Sessions
  /\ DOMAIN program' = Sessions /\ DOMAIN mode' = Sessions /\ DOMAIN place' = Sessions
  /\ DOMAIN local' = Sessions /\ DOMAIN commits' = Sessions /\ DOMAIN known' = Sessions
  /\ \A r \in Sessions \ {s} :
       /\ r \in open' <=> r \in open
       /\ program'[r] = program[r] /\ mode'[r] = mode[r] /\ place'[r] = place[r]
       /\ local'[r] = local[r] /\ commits'[r] = commits[r] /\ known'[r] = known[r]

LEMMA SessionSteps ==
  ASSUME SessionInv, NEW s \in Sessions, OnlyOf(s),
         SessionOK(s \in open', program'[s], mode'[s], place'[s], local'[s], commits'[s])
  PROVE  SessionInv'
  <1>1. ASSUME NEW r \in Sessions
        PROVE  SessionOK(r \in open', program'[r], mode'[r], place'[r], local'[r], commits'[r])
    <2>1. CASE r = s
      BY <2>1
    <2>2. CASE r # s
      <3>1. SessionOK(r \in open, program[r], mode[r], place[r], local[r], commits[r])
        BY DEF SessionInv
      <3> QED  BY <2>2, <3>1 DEF OnlyOf
    <2> QED  BY <2>1, <2>2
  <1> QED  BY <1>1 DEF SessionInv, OnlyOf

LEMMA Elsewhere ==
  ASSUME NEW r, program'[r] = program[r], place'[r] = place[r]
  PROVE  /\ Ended(r)' = Ended(r) /\ Submitting(r)' = Submitting(r)
         /\ Calling(r)' = Calling(r) /\ LooksUp(r)' = LooksUp(r)
  BY DEF Ended, Submitting, Calling, LooksUp

LEMMA ElsewherePending ==
  ASSUME NEW s, OnlyOf(s), NEW r \in Sessions, r # s
  PROVE  /\ Pending(r)' = Pending(r) /\ Ended(r)' = Ended(r)
         /\ Submitting(r)' = Submitting(r) /\ Calling(r)' = Calling(r)
         /\ LooksUp(r)' = LooksUp(r) /\ (r \in open' <=> r \in open)
  <1>1. /\ program'[r] = program[r] /\ place'[r] = place[r] /\ (r \in open' <=> r \in open)
    BY DEF OnlyOf
  <1>2. /\ Ended(r)' = Ended(r) /\ Submitting(r)' = Submitting(r)
        /\ Calling(r)' = Calling(r) /\ LooksUp(r)' = LooksUp(r)
    BY <1>1, Elsewhere
  <1> QED  BY <1>1, <1>2 DEF Pending

LEMMA NobodyElse ==
  ASSUME SessionInv, LockInv, NEW s, writer = s, s \in open
  PROVE  writer # NoSession
  BY NoSessionOutside DEF SessionInv

(* A transaction that is under way, and one that has not written.          *)
LEMMA Based ==
  ASSUME SessionInv, LockInv, LocalInv, StoredInv, WriterInv,
         NEW s \in open, mode[s] = "on", Pending(s)
  PROVE  /\ Transaction(stored, Seen(s), local[s], Submitting(s), place[s].call,
                        <<s, commits[s] + 1>>, known[s], LooksUp(s))
         /\ TablesOK(stored) /\ DOMAIN local[s] = Names
  <1>1. TablesOK(stored) /\ EdgesOK(stored) /\ DOMAIN local[s] = Names
    BY DEF StoredInv, SessionInv, SessionOK
  <1>2. CASE s = writer
    BY <1>1, <1>2, NobodyElse DEF WriterInv, Seen
  <1>3. CASE s # writer
    <2> DEFINE submission == Submitting(s)
               call == place[s].call
    <2>1. OnlyFinds(submission, call)
      BY <1>3 DEF LockInv
    <2>2. NamesOK(local[s], stored) /\ Seen(s) = stored
      BY <1>3 DEF LocalInv, Seen
    <2>3. call \in 1 .. Len(submission) /\ Len(submission) \in Nat
      BY Running DEF Pending
    <2> HIDE DEF submission, call
    <2>4. Extends(stored, stored, <<s, commits[s] + 1>>)
      BY <1>1, ExtendsItself
    <2>5. FactsOK(submission, call, stored, local[s])
      <3>1. ASSUME NEW j \in 1 .. call - 1
            PROVE  Fact(stored, local[s], submission[j])
        BY <2>1 DEF OnlyFinds, Fact, Inserts, LinksEdge
      <3> QED  BY <3>1 DEF FactsOK
    <2>6. CountsOK(stored, stored, submission, call)
      <3>1. ASSUME NEW t \in Tables \ Shared
            PROVE  Len(stored[t]) = Len(stored[t]) + MadeBefore(submission, call, t)
        <4>1. {i \in 1 .. call - 1 : Inserts(submission[i], t)} = {}
          BY <2>1 DEF OnlyFinds, Inserts
        <4>2. MadeBefore(submission, call, t) = 0
          BY <4>1, FS_EmptySet DEF MadeBefore
        <4>3. Len(stored[t]) \in Nat
          BY <1>1, Lengths
        <4> QED  BY <4>2, <4>3
      <3> QED  BY <3>1 DEF CountsOK
    <2>7. AddsUnknown(stored, stored, known[s])
      BY <1>1, AddsNothing
    <2>8. Transaction(stored, stored, local[s], submission, call, <<s, commits[s] + 1>>,
                      known[s], LooksUp(s))
      BY <1>1, <2>2, <2>4, <2>5, <2>6, <2>7 DEF Transaction
    <2> QED  BY <1>1, <2>2, <2>8 DEF submission, call
  <1> QED  BY <1>2, <1>3

(* A session goes on to its next call.                                     *)
LEMMA Continues ==
  ASSUME SessionInv, NEW s \in open, ~Ended(s), Continue(s), OnlyOf(s), UNCHANGED started,
         DOMAIN local'[s] = Names,
         commits'[s] = IF Calling(s).op = "commit" THEN commits[s] + 1 ELSE commits[s]
  PROVE  /\ SessionInv' /\ ~(~Ended(s)' /\ place'[s].missed)
         /\ Calling(s).op \in {"find", "insert", "update"} =>
              /\ ~Ended(s)' /\ Pending(s) /\ Pending(s)' /\ Submitting(s)' = Submitting(s)
              /\ place'[s].call = place[s].call + 1
         /\ Calling(s).op = "commit" => Pending(s)
         /\ Calling(s).op = "check" => ~Pending(s)
         /\ Calling(s).op \in {"commit", "check"} => (Pending(s)' => place'[s].call = 1)
  <1> DEFINE q == ProgramOf[program[s]]
             k == place[s].submission
             call == place[s].call
             submission == Submitting(s)
             c == Calling(s)
             next == NextPlace(q, place[s])
  <1>1. /\ s \in Sessions /\ program[s] \in DOMAIN ProgramOf /\ program[s] # ""
        /\ Len(q) \in Nat /\ k \in 1 .. Len(q) /\ Formed(submission)
        /\ call \in 1 .. Len(submission) /\ Len(submission) \in Nat
        /\ commits[s] = IF CommittedAt(submission, call) THEN k ELSE k - 1
    BY Running
  <1>2. /\ submission = q[k] /\ c = q[k][call] /\ c = submission[call]
    BY DEF Submitting, Calling
  <1>3. place'[s] = next /\ program'[s] = program[s] /\ s \in open' /\ mode'[s] = mode[s]
    <2>1. s \in DOMAIN place /\ program' = program /\ open' = open /\ mode' = mode
      BY <1>1 DEF SessionInv, started
    <2>2. place'[s] = IF place[s].call < Len(Submitting(s))
                        THEN CallOf(place[s].submission, place[s].call + 1)
                        ELSE CallOf(place[s].submission + 1, 1)
      BY <2>1 DEF Continue
    <2>3. place'[s] = next
      BY <1>2, <2>2 DEF NextPlace
    <2> QED  BY <2>1, <2>3
  <1>4. /\ SessionOK(TRUE, program[s], mode[s], place[s], local[s], commits[s])
    BY <1>1 DEF SessionInv
  <1>5. /\ PlaceOK(q, next, commits'[s])
        /\ DOMAIN next = {"submission", "call", "missed"} /\ commits'[s] \in Nat
    <2>1. /\ PlaceOK(q, place[s], commits[s]) /\ commits[s] \in Nat
          /\ DOMAIN place[s] = {"submission", "call", "missed"}
      BY <1>1, <1>4 DEF SessionOK
    <2>2. \A j \in 1 .. Len(q) : Formed(q[j])
      BY <1>1, Programme
    <2>3. place[s].submission <= Len(q)
      <3>1. Len(q) \in Nat /\ k \in 1 .. Len(q) /\ k = place[s].submission
        BY <1>1
      <3> HIDE DEF q, k
      <3> QED  BY <3>1
    <2>4. commits'[s] = IF q[place[s].submission][place[s].call].op = "commit"
                          THEN commits[s] + 1 ELSE commits[s]
      BY <1>2
    <2> DEFINE at == place[s]
               done == commits[s]
               after == commits'[s]
    <2> HIDE DEF q, at, done, after, next
    <2>5. /\ Len(q) \in Nat /\ (\A j \in 1 .. Len(q) : Formed(q[j]))
          /\ DOMAIN at = {"submission", "call", "missed"} /\ done \in Nat
          /\ PlaceOK(q, at, done) /\ at.submission <= Len(q)
          /\ after = IF q[at.submission][at.call].op = "commit" THEN done + 1 ELSE done
      BY <1>1, <2>1, <2>2, <2>3, <2>4 DEF at, done, after
    <2>6. /\ PlaceOK(q, NextPlace(q, at), after)
          /\ DOMAIN NextPlace(q, at) = {"submission", "call", "missed"} /\ after \in Nat
      BY ONLY <2>5, PlaceGoes
    <2> QED  BY <2>6 DEF at, after, next
  <1>6. SessionOK(s \in open', program'[s], mode'[s], place'[s], local'[s], commits'[s])
    BY <1>1, <1>3, <1>4, <1>5 DEF SessionOK
  <1>7. SessionInv'
    BY <1>1, <1>6, SessionSteps
  <1>8. /\ c.op \in {"find", "insert", "update"} =>
             /\ call < Len(submission)
             /\ ~CommittedAt(submission, call) /\ ~CommittedAt(submission, call + 1)
        /\ c.op = "commit" =>
             ~CommittedAt(submission, call) /\ CommittedAt(submission, call + 1)
        /\ c.op = "check" => CommittedAt(submission, call) /\ CommittedAt(submission, call + 1)
    BY <1>1, <1>2, CommitPlace
  <1>9. CASE call < Len(submission)
    <2>1. /\ place'[s].submission = k /\ place'[s].call = call + 1 /\ place'[s].missed = FALSE
      <3>1. next = CallOf(k, call + 1)
        BY <1>2, <1>9 DEF NextPlace
      <3> QED  BY <1>3, <3>1 DEF CallOf
    <2>2. Submitting(s)' = submission /\ ~Ended(s)'
      BY <1>1, <1>3, <2>1 DEF Submitting, Ended
    <2>3. Pending(s)' <=> ~CommittedAt(submission, call + 1)
      BY <1>3, <2>1, <2>2 DEF Pending
    <2>4. Pending(s) <=> ~CommittedAt(submission, call)
      BY DEF Pending
    <2> HIDE DEF submission, call, c, next, k, q
    <2>5. /\ place'[s].call = call + 1 /\ place'[s].missed = FALSE
          /\ Calling(s).op = c.op
      BY <2>1 DEF c
    <2>6. /\ ~(~Ended(s)' /\ place'[s].missed)
          /\ c.op \in {"find", "insert", "update"} =>
               /\ ~Ended(s)' /\ Pending(s) /\ Pending(s)' /\ Submitting(s)' = submission
               /\ place'[s].call = call + 1
          /\ c.op = "commit" => Pending(s)
          /\ c.op = "check" => ~Pending(s)
          /\ c.op \in {"commit", "check"} => (Pending(s)' => place'[s].call = 1)
      BY <1>8, <2>2, <2>3, <2>4, <2>5
    <2> QED  BY <1>7, <2>6 DEF c, submission, call
  <1>10. CASE ~(call < Len(submission))
    <2>1. next = CallOf(k + 1, 1)
      BY <1>2, <1>10 DEF NextPlace
    <2>2. place'[s].call = 1 /\ place'[s].missed = FALSE
      BY <1>3, <2>1 DEF CallOf
    <2>3. Pending(s) <=> ~CommittedAt(submission, call)
      BY DEF Pending
    <2> HIDE DEF submission, call, c, next, k, q
    <2>4. /\ ~(~Ended(s)' /\ place'[s].missed)
          /\ c.op \notin {"find", "insert", "update"}
          /\ c.op = "commit" => Pending(s)
          /\ c.op = "check" => ~Pending(s)
          /\ c.op \in {"commit", "check"} => (Pending(s)' => place'[s].call = 1)
      BY <1>8, <1>10, <2>2, <2>3
    <2> QED  BY <1>7, <2>4 DEF c
  <1> QED  BY <1>9, <1>10

(* What depends on the committed tables, and on nothing that a session     *)
(* does before it commits.                                                 *)
WholeOf(tables, s, p, m, done) ==
  p # "" => \A k \in DOMAIN ProgramOf[p], t \in Tables \ Shared :
    Cardinality({i \in DOMAIN tables[t] : tables[t][i].by = <<s, k>>})
      = IF m = "on" /\ k <= done THEN Made(ProgramOf[p][k], t) ELSE 0

LEMMA WholeEach ==
  SubmissionsWhole <=> \A s \in Sessions : WholeOf(stored, s, program[s], mode[s], commits[s])
  BY DEF SubmissionsWhole, WholeOf

LEMMA WholeNext ==
  SubmissionsWhole' <=>
    \A s \in Sessions : WholeOf(stored', s, program'[s], mode'[s], commits'[s])
  BY DEF SubmissionsWhole, WholeOf

LEMMA NothingCommitted ==
  ASSUME GraphInv, UNCHANGED <<stored, program, mode, commits>>
  PROVE  StoredInv' /\ OriginInv' /\ SubmissionsWhole'
  <1>1. StoredInv'
    BY DEF GraphInv, StoredInv
  <1>2. OriginInv'
    BY DEF GraphInv, OriginInv
  <1>3. SubmissionsWhole'
    BY WholeEach, WholeNext DEF GraphInv
  <1> QED  BY <1>1, <1>2, <1>3

(* A transaction comes to its next call.                                   *)
LEMMA Advances ==
  ASSUME GraphInv, NEW s \in open, ~Ended(s), Continue(s), OnlyOf(s),
         UNCHANGED <<stored, started, commits, known>>,
         DOMAIN local'[s] = Names, Calling(s).op \in {"find", "insert", "update"},
         mode[s] = "on" =>
           /\ Transaction(stored, Seen(s)', local'[s], Submitting(s), place[s].call + 1,
                          <<s, commits[s] + 1>>, known[s], LooksUp(s))
           /\ \/ writer \in {s, NoSession} /\ writer' = s
              \/ UNCHANGED <<writer, work>> /\ Calling(s).op = "find",
         mode[s] = "off" => UNCHANGED <<writer, work>>
  PROVE  GraphInv'
  <1>1. /\ SessionInv /\ LockInv /\ LocalInv /\ StoredInv /\ WriterInv /\ OriginInv
        /\ KnownInv /\ MissedInv /\ SubmissionsWhole
    BY DEF GraphInv
  <1>2. UNCHANGED <<stored, open, program, mode, commits, known>>
    BY DEF started
  <1>3. /\ SessionInv' /\ ~(~Ended(s)' /\ place'[s].missed)
        /\ ~Ended(s)' /\ Pending(s) /\ Pending(s)' /\ Submitting(s)' = Submitting(s)
        /\ place'[s].call = place[s].call + 1
    <2>1. commits'[s] = IF Calling(s).op = "commit" THEN commits[s] + 1 ELSE commits[s]
      BY <1>2
    <2> QED  BY <1>1, <2>1, Continues
  <1>4. s \in Sessions /\ mode[s] \in {"on", "off"} /\ open \subseteq Sessions
    BY <1>1 DEF SessionInv, SessionOK
  <1>5. /\ place[s].call \in 1 .. Len(Submitting(s)) /\ Len(Submitting(s)) \in Nat
        /\ Calling(s) = Submitting(s)[place[s].call]
    BY <1>1, Running DEF Calling
  <1>6. /\ writer' # s => UNCHANGED <<writer, work>> /\ (mode[s] = "on" => Calling(s).op = "find")
        /\ writer' = s => mode[s] = "on" /\ writer \in {s, NoSession}
    <2>1. writer = s => mode[s] = "on"
      BY <1>1, <1>4, NoSessionOutside DEF LockInv
    <2> QED  BY <1>4, <2>1
  <1>7. \A r \in Sessions \ {s} :
          /\ Pending(r)' = Pending(r) /\ Ended(r)' = Ended(r)
          /\ Submitting(r)' = Submitting(r) /\ Calling(r)' = Calling(r)
          /\ LooksUp(r)' = LooksUp(r)
          /\ place'[r] = place[r] /\ local'[r] = local[r]
    BY ElsewherePending DEF OnlyOf
  <1>8. LooksUp(s)' = LooksUp(s)
    BY <1>2 DEF LooksUp
  <1>9. LockInv'
    <2>1. ASSUME writer' # NoSession
          PROVE  Pending(writer)' /\ mode'[writer'] = "on"
      <3>1. CASE writer' = s
        BY <1>2, <1>3, <1>6, <3>1
      <3>2. CASE writer' # s
        <4>1. writer' = writer /\ Pending(writer) /\ mode[writer] = "on"
          BY <1>1, <1>6, <2>1, <3>2 DEF LockInv
        <4>2. writer \in Sessions \ {s}
          BY <1>4, <3>2, <4>1 DEF Pending
        <4>3. Pending(writer)' = Pending(writer)
          BY <1>7, <4>1, <4>2
        <4> QED  BY <1>2, <4>1, <4>3
      <3> QED  BY <3>1, <3>2
    <2>2. ASSUME NEW r \in open, mode[r] = "on", r # writer', Pending(r)'
          PROVE  OnlyFinds(Submitting(r)', place'[r].call)
      <3>1. CASE r # s
        <4>1. r \in Sessions \ {s} /\ r # writer
          BY <1>4, <1>6, <2>2, <3>1, NoSessionOutside
        <4>2. OnlyFinds(Submitting(r), place[r].call)
          BY <1>1, <1>7, <2>2, <4>1 DEF LockInv
        <4> QED  BY <1>7, <4>1, <4>2
      <3>2. CASE r = s
        <4>1. s # writer /\ Calling(s).op = "find"
          BY <1>6, <2>2, <3>2
        <4>2. OnlyFinds(Submitting(s), place[s].call)
          BY <1>1, <1>3, <2>2, <3>2, <4>1 DEF LockInv
        <4>3. OnlyFinds(Submitting(s), place[s].call + 1)
          BY <1>5, <4>1, <4>2 DEF OnlyFinds
        <4> QED  BY <1>3, <3>2, <4>3
      <3> QED  BY <3>1, <3>2
    <2> QED  BY <1>2, <2>1, <2>2 DEF LockInv
  <1>10. LocalInv'
    <2> SUFFICES ASSUME NEW r \in open, mode[r] = "on"
                 PROVE  NamesOK(local'[r], Seen(r)')
      BY <1>2 DEF LocalInv
    <2>1. CASE r = s
      BY <2>1 DEF Transaction
    <2>2. CASE r # s
      <3>1. r \in Sessions \ {s} /\ r \in Sessions
        BY <1>4, <2>2
      <3>2. Seen(r)' = Seen(r)
        BY <1>2, <1>6, <2>2, <3>1, NoSessionOutside DEF Seen
      <3>3. NamesOK(local[r], Seen(r))
        BY <1>1 DEF LocalInv
      <3> QED  BY <1>7, <3>1, <3>2, <3>3
    <2> QED  BY <2>1, <2>2
  <1>11. WriterInv'
    <2> SUFFICES ASSUME writer' # NoSession
                 PROVE  Transaction(stored, work', local'[writer'], Submitting(writer)',
                                    place'[writer'].call, <<writer', commits[writer'] + 1>>,
                                    known[writer'], LooksUp(writer)')
      BY <1>2 DEF WriterInv
    <2>1. CASE writer' = s
      <3>1. Seen(s)' = work'
        BY <2>1 DEF Seen
      <3>2. /\ Submitting(writer)' = Submitting(s)
            /\ LooksUp(writer)' = LooksUp(s)
        <4>1. Submitting(writer)' = Submitting(s)' /\ LooksUp(writer)' = LooksUp(s)'
          BY <2>1 DEF Submitting, LooksUp
        <4> QED  BY <1>3, <1>8, <4>1
      <3>3. Transaction(stored, work', local'[s], Submitting(s), place[s].call + 1,
                        <<s, commits[s] + 1>>, known[s], LooksUp(s))
        BY <1>6, <2>1, <3>1
      <3> QED  BY <1>3, <2>1, <3>2, <3>3
    <2>2. CASE writer' # s
      <3>1. writer' = writer /\ work' = work /\ writer \in Sessions \ {s}
        BY <1>1, <1>4, <1>6, <2>2 DEF LockInv, Pending
      <3>2. Transaction(stored, work, local[writer], Submitting(writer), place[writer].call,
                        <<writer, commits[writer] + 1>>, known[writer], LooksUp(writer))
        BY <1>1, <3>1 DEF WriterInv
      <3>3. /\ Submitting(writer)' = Submitting(writer) /\ LooksUp(writer)' = LooksUp(writer)
            /\ place'[writer] = place[writer] /\ local'[writer] = local[writer]
        BY <1>7, <3>1
      <3> QED  BY <3>1, <3>2, <3>3
    <2> QED  BY <2>1, <2>2
  <1>12. KnownInv'
    BY <1>1, <1>2 DEF KnownInv
  <1>13. MissedInv'
    <2> SUFFICES ASSUME NEW r \in open, mode[r] = "on", ~Ended(r)', place'[r].missed
                 PROVE  Unknown(known[r], local'[r], Calling(r)')
      BY <1>2 DEF MissedInv
    <2>1. r # s
      BY <1>3
    <2>2. r \in Sessions \ {s}
      BY <1>4, <2>1
    <2>3. Unknown(known[r], local[r], Calling(r))
      BY <1>1, <1>7, <2>2 DEF MissedInv
    <2> QED  BY <1>7, <2>2, <2>3
  <1>14. StoredInv' /\ OriginInv' /\ SubmissionsWhole'
    BY <1>2, NothingCommitted
  <1> QED  BY <1>3, <1>9, <1>10, <1>11, <1>12, <1>13, <1>14 DEF GraphInv

-----------------------------------------------------------------------------
(* The calls of a program that writes or looks up.                         *)
LEMMA Viewed ==
  ASSUME SessionInv, NEW s \in Sessions
  PROVE  /\ mode[s] \in {"on", "off"}
         /\ mode[s] = "on" => View(s) = Seen(s)
  <1>1. mode[s] \in {"on", "off"}
    BY DEF SessionInv, SessionOK
  <1> QED  BY <1>1 DEF View, Seen

LEMMA FindStep ==
  ASSUME GraphInv, NEW s \in Sessions, Find(s)
  PROVE  GraphInv'
  <1> DEFINE c == Calling(s)
             submission == Submitting(s)
             call == place[s].call
  <1>1. /\ SessionInv /\ LockInv /\ LocalInv /\ StoredInv /\ WriterInv /\ OriginInv
        /\ KnownInv /\ MissedInv /\ SubmissionsWhole
    BY DEF GraphInv
  <1>2. /\ s \in open /\ ~Ended(s) /\ c.op = "find" /\ ~place[s].missed
        /\ UNCHANGED <<stored, work, writer, memory, started, commits, known, crashes>>
    BY DEF Find, Calls
  <1>3. UNCHANGED <<stored, work, writer, open, program, mode, commits, known>>
    BY <1>2 DEF started
  <1>4. /\ Formed(submission) /\ call \in 1 .. Len(submission) /\ c = submission[call]
        /\ TypedCall(c) /\ c.table \in Tables /\ c.as \in Names
    <2>1. /\ Formed(submission) /\ call \in 1 .. Len(submission) /\ TypedCall(c)
      BY <1>1, <1>2, Running
    <2> QED  BY <1>2, <2>1, RowCalls DEF Calling
  <1>5. DOMAIN local = Sessions /\ DOMAIN place = Sessions /\ DOMAIN local[s] = Names
        /\ DOMAIN place[s] = {"submission", "call", "missed"}
    BY <1>1 DEF SessionInv, SessionOK
  <1>6. Pending(s)
    <2>1. ~CommittedAt(submission, call)
      BY <1>2, <1>4, CommitPlace
    <2> QED  BY <1>2, <2>1 DEF Pending
  <1>7. mode[s] = "on" =>
          /\ Transaction(stored, Seen(s), local[s], submission, call,
                         <<s, commits[s] + 1>>, known[s], LooksUp(s))
          /\ TablesOK(stored) /\ View(s) = Seen(s)
    BY <1>1, <1>2, <1>6, Based, Viewed
  <1>8. CASE Found(s, c) # {}
    <2>1. PICK i \in Found(s, c) : local' = [local EXCEPT ![s][c.as] = i]
      BY <1>8 DEF Find, Assign
    <2>2. Continue(s)
      BY <1>8 DEF Find
    <2> DEFINE M == [local[s] EXCEPT ![c.as] = i]
    <2>3. /\ local'[s] = M /\ DOMAIN local' = Sessions /\ DOMAIN M = Names
          /\ \A r \in Sessions \ {s} : local'[r] = local[r]
      BY <1>5, <2>1
    <2>4. /\ DOMAIN place' = Sessions /\ \A r \in Sessions \ {s} : place'[r] = place[r]
      BY <1>5, <2>2 DEF Continue
    <2>5. OnlyOf(s)
      BY <1>1, <1>3, <2>3, <2>4 DEF OnlyOf, SessionInv
    <2>6. ASSUME mode[s] = "on"
          PROVE  Transaction(stored, Seen(s)', local'[s], submission, call + 1,
                             <<s, commits[s] + 1>>, known[s], LooksUp(s))
      <3>1. Seen(s)' = Seen(s)
        BY <1>3 DEF Seen
      <3>2. TablesOK(Seen(s))
        BY <1>7, <2>6 DEF Transaction
      <3>3. i \in 1 .. Len(Seen(s)[c.table])
        BY <1>4, <1>7, <2>1, <2>6, <3>2 DEF Found, TablesOK, IsList
      <3>4. Transaction(stored, Seen(s), local[s], submission, call,
                         <<s, commits[s] + 1>>, known[s], LooksUp(s)) /\ TablesOK(stored)
        BY <1>7, <2>6
      <3> HIDE DEF c, submission, call
      <3>5. Transaction(stored, Seen(s), M, submission, call + 1,
                        <<s, commits[s] + 1>>, known[s], LooksUp(s))
        BY <1>2, <1>4, <1>5, <3>3, <3>4, TransactionFinds
      <3> QED  BY <2>3, <3>1, <3>5
    <2> QED  BY <1>2, <1>3, <2>2, <2>3, <2>5, <2>6, Advances
  <1>9. CASE Found(s, c) = {}
    <2>1. place' = [place EXCEPT ![s].missed = TRUE] /\ local' = local
      BY <1>9 DEF Find
    <2>2. /\ DOMAIN place' = Sessions /\ \A r \in Sessions \ {s} : place'[r] = place[r]
          /\ place'[s] = [place[s] EXCEPT !.missed = TRUE]
      BY <1>5, <2>1
    <2>3. /\ DOMAIN place'[s] = {"submission", "call", "missed"} /\ place'[s].missed = TRUE
          /\ place'[s].submission = place[s].submission /\ place'[s].call = place[s].call
      BY <1>5, <2>2
    <2>4. /\ Submitting(s)' = submission /\ Calling(s)' = c /\ Ended(s)' = Ended(s)
          /\ LooksUp(s)' = LooksUp(s) /\ Pending(s)' = Pending(s)
      BY <1>3, <2>3 DEF Submitting, Calling, Ended, LooksUp, Pending
    <2>5. OnlyOf(s)
      BY <1>1, <1>3, <2>1, <2>2 DEF OnlyOf, SessionInv
    <2>6. SessionInv'
      <3>1. SessionOK(TRUE, program[s], mode[s], place[s], local[s], commits[s])
        BY <1>1, <1>2 DEF SessionInv
      <3>2. PlaceOK(ProgramOf[program[s]], place'[s], commits[s])
        <4>1. PlaceOK(ProgramOf[program[s]], place[s], commits[s])
          BY <3>1 DEF SessionOK
        <4>2. ProgramOf[program[s]][place[s].submission][place[s].call].op = "find"
          BY <1>2 DEF Calling, Submitting
        <4> DEFINE q == ProgramOf[program[s]]
                   at == place[s]
                   now == place'[s]
        <4> HIDE DEF q, at, now
        <4>3. /\ PlaceOK(q, at, commits[s]) /\ q[at.submission][at.call].op = "find"
              /\ now.submission = at.submission /\ now.call = at.call /\ now.missed = TRUE
          BY <2>3, <4>1, <4>2 DEF q, at, now
        <4>4. PlaceOK(q, now, commits[s])
          BY <4>3 DEF PlaceOK
        <4> QED  BY <4>4 DEF q, now
      <3>3. SessionOK(TRUE, program[s], mode[s], place'[s], local[s], commits[s])
        BY <2>3, <3>1, <3>2 DEF SessionOK
      <3>4. SessionOK(s \in open', program'[s], mode'[s], place'[s], local'[s], commits'[s])
        BY <1>2, <1>3, <2>1, <3>3
      <3> QED  BY <1>1, <2>5, <3>4, SessionSteps
    <2>7. \A r \in Sessions : /\ Pending(r)' = Pending(r) /\ Ended(r)' = Ended(r)
                              /\ Submitting(r)' = Submitting(r) /\ Calling(r)' = Calling(r)
                              /\ LooksUp(r)' = LooksUp(r) /\ place'[r].call = place[r].call
                              /\ r # s => place'[r] = place[r]
      BY <2>2, <2>3, <2>4, <2>5, ElsewherePending
    <2>8. open \subseteq Sessions
      BY <1>1 DEF SessionInv
    <2>9. LockInv'
      <3>1. ASSUME writer # NoSession
            PROVE  Pending(writer)' /\ mode[writer] = "on"
        <4>1. Pending(writer) /\ mode[writer] = "on"
          BY <1>1, <3>1 DEF LockInv
        <4>2. Pending(writer)' = Pending(writer)
          BY <1>3, <2>7, <2>8, <4>1 DEF Pending
        <4> QED  BY <4>1, <4>2
      <3>2. ASSUME NEW r \in open, mode[r] = "on", r # writer, Pending(r)'
            PROVE  OnlyFinds(Submitting(r)', place'[r].call)
        BY <1>1, <2>7, <2>8, <3>2 DEF LockInv
      <3> QED  BY <1>3, <3>1, <3>2 DEF LockInv
    <2>10. LocalInv'
      <3>1. \A r \in open : Seen(r)' = Seen(r)
        BY <1>3 DEF Seen
      <3> QED  BY <1>1, <1>3, <2>1, <3>1 DEF LocalInv
    <2>11. WriterInv'
      <3> SUFFICES ASSUME writer # NoSession
                   PROVE  Transaction(stored, work, local[writer], Submitting(writer)',
                                      place'[writer].call, <<writer, commits[writer] + 1>>,
                                      known[writer], LooksUp(writer)')
        BY <1>3, <2>1 DEF WriterInv
      <3>1. writer \in Sessions
        BY <1>1, <2>8 DEF LockInv, Pending
      <3>2. Transaction(stored, work, local[writer], Submitting(writer), place[writer].call,
                        <<writer, commits[writer] + 1>>, known[writer], LooksUp(writer))
        BY <1>1 DEF WriterInv
      <3>3. /\ Submitting(writer)' = Submitting(writer) /\ LooksUp(writer)' = LooksUp(writer)
            /\ place'[writer].call = place[writer].call
        BY <1>3, <2>7, <3>1
      <3> QED  BY <3>2, <3>3
    <2>12. KnownInv'
      BY <1>1, <1>3 DEF KnownInv
    <2>13. MissedInv'
      <3> SUFFICES ASSUME NEW r \in open, mode[r] = "on", ~Ended(r)', place'[r].missed
                   PROVE  Unknown(known[r], local[r], Calling(r)')
        BY <1>3, <2>1 DEF MissedInv
      <3>1. CASE r # s
        BY <1>1, <2>7, <2>8, <3>1 DEF MissedInv
      <3>2. CASE r = s
        <4>1. HasIdentities(Seen(s), known[s])
          <5>1. HasIdentities(stored, known[s]) /\ TablesOK(stored) /\ TablesOK(Seen(s))
                /\ Extends(stored, Seen(s), <<s, commits[s] + 1>>)
            BY <1>1, <1>2, <1>7, <3>2 DEF KnownInv, Transaction
          <5> QED  BY <5>1, IdentitiesStay
        <4>2. /\ View(s) = Seen(s) /\ TablesOK(Seen(s))
          BY <1>7, <3>2 DEF Transaction
        <4>3. \A t \in Tables : DOMAIN Seen(s)[t] = 1 .. Len(Seen(s)[t])
          BY <4>2 DEF TablesOK, IsList
        <4>4. \A i \in DOMAIN Seen(s)[c.table] :
                Seen(s)[c.table][i].key = c.key =>
                  c.table = "projects" /\ Seen(s)[c.table][i].ref.buyer # local[s]["buyer"]
          BY <1>9, <4>2 DEF Found
        <4>5. ASSUME c.table = "actors"
              PROVE  c.key \notin known[s].actors
          BY <4>1, <4>3, <4>4, <4>5, KeyTables DEF HasIdentities
        <4>6. ASSUME c.table = "projects"
              PROVE  <<local[s]["buyer"], c.key>> \notin known[s].projects
          <5>1. SUFFICES ASSUME <<local[s]["buyer"], c.key>> \in known[s].projects
                         PROVE  FALSE
            OBVIOUS
          <5>2. PICK i \in 1 .. Len(Seen(s)["projects"]) :
                  <<local[s]["buyer"], c.key>> = <<Seen(s)["projects"][i].ref["buyer"],
                                                   Seen(s)["projects"][i].key>>
            BY <4>1, <5>1 DEF HasIdentities
          <5>3. /\ Seen(s)["projects"][i].ref["buyer"] = local[s]["buyer"]
                /\ Seen(s)["projects"][i].key = c.key
            BY <5>2
          <5> QED  BY <4>3, <4>4, <4>6, <5>3, KeyTables
        <4> QED  BY <2>4, <3>2, <4>5, <4>6 DEF Unknown
      <3> QED  BY <3>1, <3>2
    <2>14. StoredInv' /\ OriginInv' /\ SubmissionsWhole'
      BY <1>3, NothingCommitted
    <2> QED  BY <2>6, <2>9, <2>10, <2>11, <2>12, <2>13, <2>14 DEF GraphInv
  <1> QED  BY <1>8, <1>9

LEMMA InsertStep ==
  ASSUME GraphInv, NEW s \in Sessions, InsertRow(s)
  PROVE  GraphInv'
  <1> DEFINE c == Calling(s)
             submission == Submitting(s)
             call == place[s].call
             by == <<s, commits[s] + 1>>
             L == local[s]
             W == Seen(s)
             row == [ref |-> Rows(s, c.ref), key |-> c.key, status |-> c.status, by |-> by]
             V == [View(s) EXCEPT ![c.table] = Append(@, row)]
             M == [L EXCEPT ![c.as] = Len(View(s)[c.table]) + 1]
  <1>1. /\ SessionInv /\ LockInv /\ LocalInv /\ StoredInv /\ WriterInv /\ MissedInv
    BY DEF GraphInv
  <1>2. /\ s \in open /\ ~Ended(s) /\ "insert" = IF place[s].missed THEN "insert" ELSE c.op
        /\ UNCHANGED <<stored, started, commits, known>> /\ Continue(s)
        /\ Write(s, V) /\ local' = [local EXCEPT ![s][c.as] = Len(View(s)[c.table]) + 1]
    BY DEF InsertRow, Calls, Assign
  <1>3. UNCHANGED <<open, program, mode>>
    BY <1>2 DEF started
  <1>4. /\ Formed(submission) /\ call \in 1 .. Len(submission) /\ c = submission[call]
        /\ TypedCall(c) /\ c.op \in {"find", "insert"} /\ c.table \in Tables /\ c.as \in Names
        /\ c.op = "find" => place[s].missed
        /\ c.op = "insert" /\ c.table \in Shared => ~LooksUp(s)
    <2>1. /\ Formed(submission) /\ call \in 1 .. Len(submission) /\ TypedCall(c)
          /\ place[s].missed \in BOOLEAN /\ (place[s].missed => c.op = "find")
          /\ c.op = "insert" /\ c.table \in Shared => ~LooksUp(s)
      BY <1>1, <1>2, Running
    <2>2. c.op \in {"find", "insert"} /\ (c.op = "find" => place[s].missed)
      BY <1>2, <2>1
    <2> QED  BY <2>1, <2>2, RowCalls DEF Calling
  <1>5. DOMAIN local = Sessions /\ DOMAIN place = Sessions /\ DOMAIN L = Names
    BY <1>1 DEF SessionInv, SessionOK
  <1>6. Pending(s)
    <2>1. ~CommittedAt(submission, call)
      BY <1>4, CommitPlace
    <2> QED  BY <1>2, <2>1 DEF Pending
  <1>7. mode[s] \in {"on", "off"} /\ (mode[s] = "on" => View(s) = W)
    BY <1>1, Viewed
  <1>8. /\ local'[s] = M /\ DOMAIN local' = Sessions /\ DOMAIN M = Names
        /\ \A r \in Sessions \ {s} : local'[r] = local[r]
    BY <1>2, <1>5
  <1>9. /\ DOMAIN place' = Sessions /\ \A r \in Sessions \ {s} : place'[r] = place[r]
    BY <1>2, <1>5 DEF Continue
  <1>10. OnlyOf(s)
    BY <1>1, <1>2, <1>3, <1>8, <1>9 DEF OnlyOf, SessionInv
  <1>11. mode[s] = "off" => UNCHANGED <<writer, work>>
    BY <1>2 DEF Write
  <1>12. ASSUME mode[s] = "on"
         PROVE  /\ Transaction(stored, Seen(s)', local'[s], submission, call + 1, by,
                               known[s], LooksUp(s))
                /\ writer \in {s, NoSession} /\ writer' = s
    <2>1. writer \in {s, NoSession} /\ writer' = s /\ work' = V
      BY <1>2, <1>12 DEF Write
    <2>2. Seen(s)' = V
      BY <2>1 DEF Seen
    <2>3. Transaction(stored, W, L, submission, call, by, known[s], LooksUp(s))
          /\ TablesOK(stored)
      BY <1>1, <1>2, <1>6, <1>12, Based
    <2>4. row = NewRow(L, c, by)
      BY DEF Rows, NewRow, RowOf
    <2>5. V = [W EXCEPT ![c.table] = Append(@, NewRow(L, c, by))]
      BY <1>7, <1>12, <2>4
    <2>6. M = [L EXCEPT ![c.as] = Len(W[c.table]) + 1]
      BY <1>7, <1>12
    <2>7. LooksUp(s) /\ c.table \in Shared =>
            /\ Unknown(known[s], L, c)
            /\ c.table = "projects" => c.ref["buyer"] = "buyer"
      <3>1. ASSUME LooksUp(s), c.table \in Shared
            PROVE  c.op = "find" /\ place[s].missed
        BY <1>4, <3>1
      <3>2. ASSUME c.op = "find", place[s].missed
            PROVE  /\ Unknown(known[s], L, c)
                   /\ c.table = "projects" => c.ref["buyer"] = "buyer"
        BY <1>1, <1>2, <1>4, <1>12, <3>2 DEF MissedInv, TypedCall
      <3> QED  BY <3>1, <3>2
    <2> HIDE DEF c, submission, call, by, L, W, V, M, row
    <2>8. Transaction(stored, V, M, submission, call + 1, by, known[s], LooksUp(s))
      BY <1>4, <1>5, <2>3, <2>5, <2>6, <2>7, TransactionInserts
    <2> QED  BY <1>8, <2>1, <2>2, <2>8
  <1> QED  BY <1>2, <1>4, <1>8, <1>10, <1>11, <1>12, Advances

LEMMA UpdateStep ==
  ASSUME GraphInv, NEW s \in Sessions, UpdateRow(s)
  PROVE  GraphInv'
  <1> DEFINE c == Calling(s)
             submission == Submitting(s)
             call == place[s].call
             by == <<s, commits[s] + 1>>
             L == local[s]
             W == Seen(s)
             k == L[c.as]
             t == c.table
             V == [View(s) EXCEPT ![c.table][local[s][c.as]] = Updated(s, c, @)]
  <1>1. /\ SessionInv /\ LockInv /\ LocalInv /\ StoredInv /\ WriterInv
    BY DEF GraphInv
  <1>2. /\ s \in open /\ ~Ended(s) /\ c.op = "update"
        /\ UNCHANGED <<stored, started, commits, known, local>> /\ Continue(s) /\ Write(s, V)
    BY DEF UpdateRow, Calls
  <1>3. UNCHANGED <<open, program, mode>>
    BY <1>2 DEF started
  <1>4. /\ Formed(submission) /\ call \in 1 .. Len(submission) /\ c = submission[call]
        /\ TypedCall(c) /\ t \in Tables
    <2>1. /\ Formed(submission) /\ call \in 1 .. Len(submission) /\ TypedCall(c)
      BY <1>1, <1>2, Running
    <2>2. t \in Tables
      BY <1>2, <2>1 DEF TypedCall
    <2> QED  BY <2>1, <2>2 DEF Calling
  <1>5. DOMAIN local = Sessions /\ DOMAIN place = Sessions /\ DOMAIN L = Names
    BY <1>1 DEF SessionInv, SessionOK
  <1>6. Pending(s)
    <2>1. ~CommittedAt(submission, call)
      BY <1>2, <1>4, CommitPlace
    <2> QED  BY <1>2, <2>1 DEF Pending
  <1>7. mode[s] \in {"on", "off"} /\ (mode[s] = "on" => View(s) = W)
    BY <1>1, Viewed
  <1>8. /\ DOMAIN place' = Sessions /\ \A r \in Sessions \ {s} : place'[r] = place[r]
    BY <1>2, <1>5 DEF Continue
  <1>9. OnlyOf(s) /\ local'[s] = L /\ DOMAIN local'[s] = Names
    BY <1>1, <1>2, <1>3, <1>5, <1>8 DEF OnlyOf, SessionInv
  <1>10. mode[s] = "off" => UNCHANGED <<writer, work>>
    BY <1>2 DEF Write
  <1>11. ASSUME mode[s] = "on"
         PROVE  /\ Transaction(stored, Seen(s)', local'[s], submission, call + 1, by,
                               known[s], LooksUp(s))
                /\ writer \in {s, NoSession} /\ writer' = s
    <2>1. writer \in {s, NoSession} /\ writer' = s /\ work' = V
      BY <1>2, <1>11 DEF Write
    <2>2. Seen(s)' = V
      BY <2>1 DEF Seen
    <2>3. Transaction(stored, W, L, submission, call, by, known[s], LooksUp(s))
          /\ TablesOK(stored)
      BY <1>1, <1>2, <1>6, <1>11, Based
    <2>4. \A row : Updated(s, c, row) = Changed(L, c, row)
      BY DEF Updated, Changed, Rows, RowOf
    <2>5. DOMAIN W = Tables
      BY <2>3 DEF Transaction, TablesOK
    <2>6. V = [W EXCEPT ![t] = [W[t] EXCEPT ![k] = Updated(s, c, W[t][k])]]
      BY <1>7, <1>11
    <2>7. Updated(s, c, W[t][k]) = Changed(L, c, W[t][k])
      BY <2>4
    <2> HIDE DEF c, submission, call, by, L, W, V, k, t
    <2>8. /\ DOMAIN V = Tables /\ V[t] = [W[t] EXCEPT ![k] = Changed(L, c, W[t][k])]
          /\ \A u \in Tables : u # t => V[u] = W[u]
      BY <1>4, <2>5, <2>6, <2>7
    <2>9. t = c.table /\ k = L[c.as]
      BY DEF t, k
    <2>10. Transaction(stored, V, L, submission, call + 1, by, known[s], LooksUp(s))
      BY <1>2, <1>4, <2>3, <2>8, <2>9, TransactionUpdates
    <2> QED  BY <1>9, <2>1, <2>2, <2>10
  <1> QED  BY <1>2, <1>9, <1>10, <1>11, Advances

-----------------------------------------------------------------------------
(* What a commit adds.                                                     *)
LEMMA KnowsItself ==
  ASSUME NEW W, TablesOK(W)
  PROVE  HasIdentities(W, Identities(W))
  <1>1. DOMAIN W["actors"] = 1 .. Len(W["actors"]) /\ DOMAIN W["projects"] = 1 .. Len(W["projects"])
    BY KeyTables DEF TablesOK, IsList
  <1> QED  BY <1>1 DEF HasIdentities, Identities

Counted(old, W, by, t) ==
  /\ Cardinality({i \in DOMAIN W[t] : W[t][i].by = by}) = Len(W[t]) - Len(old[t])
  /\ \A b : b # by => {i \in DOMAIN W[t] : W[t][i].by = b}
                        = {i \in DOMAIN old[t] : old[t][i].by = b}

LEMMA CommitCounts ==
  ASSUME NEW old, NEW W, NEW by, TablesOK(old), TablesOK(W), Extends(old, W, by),
         NEW t \in Tables, \A i \in 1 .. Len(old[t]) : old[t][i].by # by
  PROVE  Counted(old, W, by, t)
  <1> DEFINE m == Len(old[t])
             n == Len(W[t])
  <1>1. /\ m \in Nat /\ n \in Nat /\ m <= n
        /\ DOMAIN old[t] = 1 .. m /\ DOMAIN W[t] = 1 .. n
    BY Lengths DEF Extends, TablesOK, IsList
  <1>2. \A i \in 1 .. m : W[t][i].by = old[t][i].by
    BY DEF Extends, SameRow
  <1>3. \A i \in m + 1 .. n : W[t][i].by = by
    BY DEF Extends
  <1>4. \A i \in 1 .. m : old[t][i].by # by
    OBVIOUS
  <1> HIDE DEF m, n
  <1>5. {i \in 1 .. n : W[t][i].by = by} = m + 1 .. n
    <2>1. ASSUME NEW i \in 1 .. n
          PROVE  W[t][i].by = by <=> i \in m + 1 .. n
      <3>1. CASE i \in 1 .. m
        BY <1>1, <1>2, <1>4, <3>1
      <3>2. CASE i \in m + 1 .. n
        BY <1>3, <3>2
      <3> QED  BY <1>1, <3>1, <3>2
    <2>2. m + 1 .. n \subseteq 1 .. n
      BY <1>1
    <2> QED  BY <2>1, <2>2
  <1>6. Cardinality(m + 1 .. n) = n - m
    <2>1. m + 1 \in Int /\ n \in Int
      BY <1>1
    <2>2. Cardinality(m + 1 .. n) = IF m + 1 > n THEN 0 ELSE n - (m + 1) + 1
      BY <2>1, FS_Interval
    <2> QED  BY <1>1, <2>2
  <1>7. ASSUME NEW b, b # by
        PROVE  {i \in 1 .. n : W[t][i].by = b} = {i \in 1 .. m : old[t][i].by = b}
    <2>1. ASSUME NEW i \in 1 .. n, W[t][i].by = b
          PROVE  i \in 1 .. m /\ old[t][i].by = b
      <3>1. i \notin m + 1 .. n
        BY <1>3, <1>7, <2>1
      <3>2. i \in 1 .. m
        BY <1>1, <3>1
      <3> QED  BY <1>2, <2>1, <3>2
    <2>2. ASSUME NEW i \in 1 .. m, old[t][i].by = b
          PROVE  i \in 1 .. n /\ W[t][i].by = b
      BY <1>1, <1>2, <2>2
    <2> QED  BY <2>1, <2>2
  <1> QED  BY <1>1, <1>5, <1>6, <1>7 DEF m, n, Counted

(* All that a submission makes is made before its commit.                  *)
LEMMA MadeAtCommit ==
  ASSUME NEW submission, Formed(submission), NEW call \in 1 .. Len(submission),
         submission[call].op = "commit", NEW t
  PROVE  Made(submission, t) = MadeBefore(submission, call, t)
  <1>1. DOMAIN submission = 1 .. Len(submission) /\ Len(submission) \in Nat
    BY DEF Formed, IsList
  <1>2. \A i \in 1 .. Len(submission) : i > call => submission[i].op = "check"
    BY CommitPlace
  <1>3. ASSUME NEW i \in 1 .. Len(submission), submission[i].op = "insert"
        PROVE  i \in 1 .. call - 1
    BY <1>1, <1>2, <1>3
  <1>4. 1 .. call - 1 \subseteq 1 .. Len(submission)
    BY <1>1
  <1>5. {i \in DOMAIN submission : submission[i].op = "insert" /\ submission[i].table = t}
          = {i \in 1 .. call - 1 : Inserts(submission[i], t)}
    BY <1>1, <1>3, <1>4 DEF Inserts
  <1> QED  BY <1>5 DEF Made, MadeBefore

LEMMA CommittedTables ==
  ASSUME GraphInv, NEW s \in Sessions, CommitSubmission(s)
  PROVE  /\ s \in open /\ ~Ended(s) /\ Calling(s).op = "commit" /\ Pending(s)
         /\ TablesOK(stored) /\ TablesOK(stored') /\ EdgesOK(stored')
         /\ Extends(stored, stored', <<s, commits[s] + 1>>)
         /\ mode[s] \in {"on", "off"}
         /\ mode[s] = "off" => stored' = stored
         /\ mode[s] = "on" =>
              /\ stored' = Seen(s)
              /\ CountsOK(stored, stored', Submitting(s), place[s].call)
              /\ LooksUp(s) => AddsUnknown(stored, stored', known[s])
         /\ writer = s => stored' = work /\ writer' = NoSession /\ mode[s] = "on"
         /\ writer # s => UNCHANGED <<stored, work, writer>>
  <1>1. SessionInv /\ LockInv /\ LocalInv /\ StoredInv /\ WriterInv
    BY DEF GraphInv
  <1>2. /\ s \in open /\ ~Ended(s) /\ "commit" = IF place[s].missed THEN "insert" ELSE Calling(s).op
    BY DEF CommitSubmission, Calls
  <1>3. /\ Calling(s).op = "commit" /\ Formed(Submitting(s))
        /\ place[s].call \in 1 .. Len(Submitting(s))
    BY <1>1, <1>2, Running
  <1>4. Pending(s)
    <2>1. ~CommittedAt(Submitting(s), place[s].call)
      BY <1>3, CommitPlace DEF Calling
    <2> QED  BY <1>2, <2>1 DEF Pending
  <1>5. /\ writer = s => stored' = work /\ writer' = NoSession
        /\ writer # s => UNCHANGED <<stored, work, writer>>
    BY DEF CommitSubmission
  <1>6. mode[s] \in {"on", "off"}
    BY <1>1, Viewed
  <1>7. writer = s => mode[s] = "on"
    BY <1>1, NoSessionOutside DEF LockInv
  <1>8. TablesOK(stored) /\ EdgesOK(stored)
    BY <1>1 DEF StoredInv
  <1>9. CASE mode[s] = "on"
    <2>1. Transaction(stored, Seen(s), local[s], Submitting(s), place[s].call,
                      <<s, commits[s] + 1>>, known[s], LooksUp(s))
      BY <1>1, <1>2, <1>4, <1>9, Based
    <2>2. stored' = Seen(s)
      BY <1>5 DEF Seen
    <2>3. /\ TablesOK(stored') /\ EdgesOK(stored')
          /\ Extends(stored, stored', <<s, commits[s] + 1>>)
          /\ CountsOK(stored, stored', Submitting(s), place[s].call)
          /\ LooksUp(s) => AddsUnknown(stored, stored', known[s])
      BY <2>1, <2>2 DEF Transaction
    <2> QED  BY <1>2, <1>3, <1>4, <1>5, <1>7, <1>8, <1>9, <2>2, <2>3
  <1>10. CASE mode[s] = "off"
    <2>1. stored' = stored /\ writer # s
      BY <1>5, <1>7, <1>10
    <2>2. Extends(stored, stored', <<s, commits[s] + 1>>)
      BY <1>8, <2>1, ExtendsItself
    <2> QED  BY <1>2, <1>3, <1>4, <1>5, <1>8, <1>10, <2>1, <2>2
  <1> QED  BY <1>6, <1>9, <1>10

(* The commit counts, for every session.                                   *)
LEMMA CommitWhole ==
  ASSUME GraphInv, NEW s \in Sessions, CommitSubmission(s)
  PROVE  SubmissionsWhole' /\ OriginInv'
  <1> DEFINE by == <<s, commits[s] + 1>>
             call == place[s].call
             submission == Submitting(s)
  <1>1. /\ s \in open /\ ~Ended(s) /\ Calling(s).op = "commit" /\ Pending(s)
        /\ TablesOK(stored) /\ TablesOK(stored')
        /\ Extends(stored, stored', by) /\ mode[s] \in {"on", "off"}
        /\ mode[s] = "off" => stored' = stored
        /\ mode[s] = "on" => CountsOK(stored, stored', submission, call)
    BY CommittedTables
  <1>2. /\ UNCHANGED <<program, mode>> /\ commits'[s] = commits[s] + 1 /\ commits[s] \in Nat
        /\ \A r \in Sessions \ {s} : commits'[r] = commits[r]
        /\ \A r \in Sessions : commits[r] \in Nat
    BY DEF CommitSubmission, GraphInv, SessionInv, SessionOK, started
  <1>3. \A t \in Tables : \A i \in 1 .. Len(stored[t]) :
          \E r \in Sessions : \E k \in 1 .. commits[r] :
            stored[t][i].by = <<r, k>> /\ mode[r] = "on" /\ program[r] # ""
    BY DEF GraphInv, OriginInv
  <1>4. \A t \in Tables : \A i \in 1 .. Len(stored[t]) : stored[t][i].by # by
    <2> SUFFICES ASSUME NEW t \in Tables, NEW i \in 1 .. Len(stored[t]), stored[t][i].by = by
                 PROVE  FALSE
      OBVIOUS
    <2>1. PICK r \in Sessions : \E k \in 1 .. commits[r] : stored[t][i].by = <<r, k>>
      BY <1>3
    <2>2. PICK k \in 1 .. commits[r] : stored[t][i].by = <<r, k>>
      BY <2>1
    <2>3. r = s /\ k = commits[s] + 1
      BY <2>2
    <2> DEFINE n == commits[s]
    <2> HIDE DEF n
    <2>4. n \in Nat /\ n + 1 \in 1 .. n
      BY <1>2, <2>2, <2>3 DEF n
    <2> QED  BY <2>4
  <1>5. /\ program[s] # "" /\ commits[s] + 1 = place[s].submission
        /\ Formed(submission) /\ call \in 1 .. Len(submission)
        /\ submission[call].op = "commit"
        /\ submission = ProgramOf[program[s]][commits[s] + 1]
    <2>1. SessionInv
      BY DEF GraphInv
    <2>2. /\ program[s] # "" /\ Formed(submission) /\ call \in 1 .. Len(submission)
          /\ commits[s] = IF CommittedAt(submission, call)
                            THEN place[s].submission ELSE place[s].submission - 1
          /\ place[s].submission \in 1 .. Len(ProgramOf[program[s]])
          /\ Len(ProgramOf[program[s]]) \in Nat
      BY <1>1, <2>1, Running
    <2>3. ~CommittedAt(submission, call)
      BY <1>1 DEF Pending
    <2>4. commits[s] + 1 = place[s].submission
      <3> DEFINE n == commits[s]
                 at == place[s].submission
                 last == Len(ProgramOf[program[s]])
      <3>1. n = at - 1 /\ at \in 1 .. last
        BY <2>2, <2>3
      <3> HIDE DEF n, at, last
      <3>2. n + 1 = at
        BY <3>1
      <3> QED  BY <3>2 DEF n, at
    <2> QED  BY <1>1, <2>2, <2>4 DEF Calling, Submitting
  <1>6. ASSUME NEW t \in Tables
        PROVE  /\ Cardinality({i \in DOMAIN stored'[t] : stored'[t][i].by = by})
                    = Len(stored'[t]) - Len(stored[t])
               /\ \A b : b # by => {i \in DOMAIN stored'[t] : stored'[t][i].by = b}
                                     = {i \in DOMAIN stored[t] : stored[t][i].by = b}
    <2> DEFINE W == stored'
    <2>1. /\ TablesOK(stored) /\ TablesOK(W) /\ Extends(stored, W, by) /\ t \in Tables
      BY <1>1
    <2>2. \A i \in 1 .. Len(stored[t]) : stored[t][i].by # by
      BY <1>4
    <2> HIDE DEF W, by
    <2>3. Counted(stored, W, by, t)
      BY ONLY <2>1, <2>2, CommitCounts
    <2> QED  BY <2>3 DEF W, Counted
  <1>7. ASSUME NEW r \in Sessions
        PROVE  WholeOf(stored', r, program[r], mode[r], commits'[r])
    <2> SUFFICES ASSUME program[r] # "", NEW k \in DOMAIN ProgramOf[program[r]],
                        NEW t \in Tables \ Shared
                 PROVE  Cardinality({i \in DOMAIN stored'[t] : stored'[t][i].by = <<r, k>>})
                          = IF mode[r] = "on" /\ k <= commits'[r]
                              THEN Made(ProgramOf[program[r]][k], t) ELSE 0
      BY DEF WholeOf
    <2>1. Cardinality({i \in DOMAIN stored[t] : stored[t][i].by = <<r, k>>})
            = IF mode[r] = "on" /\ k <= commits[r]
                THEN Made(ProgramOf[program[r]][k], t) ELSE 0
      BY WholeEach DEF GraphInv, WholeOf
    <2>2. CASE r # s
      <3>1. <<r, k>> # by
        BY <2>2
      <3>2. {i \in DOMAIN stored'[t] : stored'[t][i].by = <<r, k>>}
              = {i \in DOMAIN stored[t] : stored[t][i].by = <<r, k>>}
        BY <1>6, <3>1
      <3>3. commits'[r] = commits[r]
        BY <1>2, <2>2
      <3> QED  BY <2>1, <3>2, <3>3
    <2>3. CASE r = s /\ mode[s] = "off"
      <3>1. stored' = stored /\ ~(mode[r] = "on")
        BY <1>1, <2>3
      <3> QED  BY <2>1, <3>1
    <2>4. CASE r = s /\ mode[s] = "on" /\ k # commits[s] + 1
      <3>1. <<r, k>> # by
        BY <2>4
      <3>2. {i \in DOMAIN stored'[t] : stored'[t][i].by = <<r, k>>}
              = {i \in DOMAIN stored[t] : stored[t][i].by = <<r, k>>}
        BY <1>6, <3>1
      <3>3. k \in Nat
        <4>1. SessionInv /\ program[s] \in DOMAIN ProgramOf
          BY <1>1, Running DEF GraphInv
        <4> DEFINE q == ProgramOf[program[s]]
        <4>2. IsList(q) /\ k \in DOMAIN q
          BY <2>4, <4>1, Programme
        <4> HIDE DEF q
        <4>3. DOMAIN q = 1 .. Len(q)
          BY <4>2 DEF IsList
        <4> QED  BY ONLY <4>2, <4>3
      <3>4. k <= commits'[r] <=> k <= commits[r]
        <4> DEFINE n == commits[r]
                   m == commits'[r]
        <4>1. n \in Nat /\ m = n + 1 /\ k # n + 1
          BY <1>2, <2>4
        <4> HIDE DEF n, m
        <4>2. k <= m <=> k <= n
          BY ONLY <3>3, <4>1
        <4> QED  BY <4>2 DEF n, m
      <3> QED  BY <2>1, <3>2, <3>4
    <2>5. CASE r = s /\ mode[s] = "on" /\ k = commits[s] + 1
      <3>1. Len(stored'[t]) = Len(stored[t]) + MadeBefore(submission, call, t)
        BY <1>1, <2>5 DEF CountsOK
      <3>2. Made(submission, t) = MadeBefore(submission, call, t)
        BY <1>5, MadeAtCommit
      <3>3. MadeBefore(submission, call, t) \in Nat
        <4>1. call \in 1 .. Len(submission)
          BY <1>5
        <4> HIDE DEF call, submission
        <4>2. call \in Nat /\ call >= 1
          BY ONLY <4>1
        <4> QED  BY <4>2, MadeMore
      <3>4. Len(stored[t]) \in Nat
        BY <1>1, Lengths
      <3>5. Cardinality({i \in DOMAIN stored'[t] : stored'[t][i].by = by}) = Made(submission, t)
        <4>1. Len(stored'[t]) - Len(stored[t]) = MadeBefore(submission, call, t)
          <5> DEFINE m == Len(stored[t])
                     n == Len(stored'[t])
                     more == MadeBefore(submission, call, t)
          <5>1. n = m + more /\ m \in Nat /\ more \in Nat
            BY <3>1, <3>3, <3>4
          <5> HIDE DEF m, n, more
          <5>2. n - m = more
            BY ONLY <5>1
          <5> QED  BY <5>2 DEF m, n, more
        <4> QED  BY <1>6, <3>2, <4>1
      <3>6. k <= commits'[r] /\ ProgramOf[program[r]][k] = submission /\ <<r, k>> = by
        <4> DEFINE n == commits[s]
                   m == commits'[s]
        <4>1. n \in Nat /\ m = n + 1 /\ k = n + 1
          BY <1>2, <2>5
        <4> HIDE DEF n, m
        <4>2. k <= m
          BY ONLY <4>1
        <4>3. k <= commits'[r]
          BY <2>5, <4>2 DEF m
        <4>4. ProgramOf[program[r]][k] = submission /\ <<r, k>> = by
          BY <1>5, <2>5
        <4> QED  BY <4>3, <4>4
      <3> QED  BY <2>5, <3>5, <3>6
    <2> QED  BY <1>1, <2>2, <2>3, <2>4, <2>5
  <1>8. SubmissionsWhole'
    BY <1>2, <1>7, WholeNext
  <1>9. OriginInv'
    <2> SUFFICES ASSUME NEW t \in Tables, NEW i \in 1 .. Len(stored'[t])
                 PROVE  \E r \in Sessions : \E k \in 1 .. commits'[r] :
                          stored'[t][i].by = <<r, k>> /\ mode[r] = "on" /\ program[r] # ""
      BY <1>2 DEF OriginInv
    <2>1. Len(stored[t]) \in Nat /\ Len(stored'[t]) \in Nat
      <3> DEFINE W == stored'
      <3>1. TablesOK(W)
        BY <1>1
      <3> HIDE DEF W
      <3>2. Len(W[t]) \in Nat
        BY <3>1, Lengths
      <3> QED  BY <1>1, <3>2, Lengths DEF W
    <2>2. CASE i \in 1 .. Len(stored[t])
      <3>1. stored'[t][i].by = stored[t][i].by
        BY <1>1, <2>2 DEF Extends, SameRow
      <3>2. PICK r \in Sessions : \E k \in 1 .. commits[r] :
              stored[t][i].by = <<r, k>> /\ mode[r] = "on" /\ program[r] # ""
        BY <1>3, <2>2
      <3>3. 1 .. commits[r] \subseteq 1 .. commits'[r]
        BY <1>2
      <3> QED  BY <3>1, <3>2, <3>3
    <2>3. CASE i \notin 1 .. Len(stored[t])
      <3>1. i \in Len(stored[t]) + 1 .. Len(stored'[t])
        BY <2>1, <2>3
      <3>2. stored'[t][i].by = by
        BY <1>1, <3>1 DEF Extends
      <3>3. mode[s] = "on"
        BY <1>1, <2>3
      <3>4. commits[s] + 1 \in 1 .. commits'[s]
        BY <1>2
      <3> QED  BY <1>5, <3>2, <3>3, <3>4
    <2> QED  BY <2>2, <2>3
  <1> QED  BY <1>8, <1>9

(* The calls of a program that commits, checks, begins or closes.          *)
LEMMA CommitStep ==
  ASSUME GraphInv, NEW s \in Sessions, CommitSubmission(s)
  PROVE  GraphInv'
  <1>1. /\ SessionInv /\ LockInv /\ LocalInv /\ StoredInv /\ WriterInv
        /\ KnownInv /\ MissedInv
    BY DEF GraphInv
  <1>2. /\ s \in open /\ ~Ended(s) /\ Calling(s).op = "commit" /\ Pending(s)
        /\ TablesOK(stored) /\ TablesOK(stored') /\ EdgesOK(stored')
        /\ Extends(stored, stored', <<s, commits[s] + 1>>)
        /\ mode[s] = "on" => stored' = Seen(s)
        /\ writer = s => stored' = work /\ writer' = NoSession /\ mode[s] = "on"
        /\ writer # s => UNCHANGED <<stored, work, writer>>
    BY CommittedTables
  <1>3. /\ UNCHANGED <<started, local, open, program, mode>> /\ Continue(s)
        /\ commits' = [commits EXCEPT ![s] = @ + 1]
        /\ known' = [known EXCEPT ![s] = Identities(stored')]
    BY DEF CommitSubmission, started
  <1>4. /\ open \subseteq Sessions /\ DOMAIN local = Sessions /\ DOMAIN place = Sessions
        /\ DOMAIN commits = Sessions /\ DOMAIN known = Sessions /\ DOMAIN local[s] = Names
        /\ DOMAIN program = Sessions /\ DOMAIN mode = Sessions
    BY <1>1 DEF SessionInv, SessionOK
  <1>5. /\ commits'[s] = commits[s] + 1 /\ known'[s] = Identities(stored')
        /\ \A r \in Sessions \ {s} : commits'[r] = commits[r] /\ known'[r] = known[r]
        /\ DOMAIN commits' = Sessions /\ DOMAIN known' = Sessions
    BY <1>3, <1>4
  <1>6. DOMAIN place' = Sessions /\ \A r \in Sessions \ {s} : place'[r] = place[r]
    BY <1>3, <1>4 DEF Continue
  <1>7. OnlyOf(s)
    BY <1>3, <1>4, <1>5, <1>6 DEF OnlyOf
  <1>8. /\ SessionInv' /\ ~(~Ended(s)' /\ place'[s].missed)
        /\ Pending(s)' => place'[s].call = 1
    <2>1. commits'[s] = IF Calling(s).op = "commit" THEN commits[s] + 1 ELSE commits[s]
      BY <1>2, <1>5
    <2>2. DOMAIN local'[s] = Names
      BY <1>3, <1>4
    <2> QED  BY <1>1, <1>2, <1>3, <1>7, <2>1, <2>2, Continues
  <1>9. \A r \in Sessions \ {s} :
          /\ Pending(r)' = Pending(r) /\ Ended(r)' = Ended(r)
          /\ Submitting(r)' = Submitting(r) /\ Calling(r)' = Calling(r)
          /\ LooksUp(r)' = LooksUp(r)
          /\ place'[r] = place[r] /\ commits'[r] = commits[r] /\ known'[r] = known[r]
    BY <1>5, <1>6, <1>7, ElsewherePending
  <1>10. LockInv'
    <2>1. ASSUME writer' # NoSession
          PROVE  Pending(writer)' /\ mode'[writer'] = "on"
      <3>1. writer' = writer /\ writer # s
        BY <1>2, <2>1
      <3>2. Pending(writer) /\ mode[writer] = "on"
        BY <1>1, <2>1, <3>1 DEF LockInv
      <3>3. writer \in Sessions \ {s}
        BY <1>4, <3>1, <3>2 DEF Pending
      <3>4. Pending(writer)' = Pending(writer)
        BY <1>9, <3>1, <3>3 DEF Pending
      <3> QED  BY <1>3, <3>1, <3>2, <3>4
    <2>2. ASSUME NEW r \in open, mode[r] = "on", r # writer', Pending(r)'
          PROVE  OnlyFinds(Submitting(r)', place'[r].call)
      <3>1. CASE r # s
        <4>1. r \in Sessions \ {s} /\ r # writer
          BY <1>2, <1>4, <2>2, <3>1
        <4> QED  BY <1>1, <1>9, <2>2, <4>1 DEF LockInv
      <3>2. CASE r = s
        <4>1. place'[r].call = 1
          BY <1>8, <2>2, <3>2
        <4> QED  BY <4>1 DEF OnlyFinds
      <3> QED  BY <3>1, <3>2
    <2> QED  BY <1>3, <2>1, <2>2 DEF LockInv
  <1>11. LocalInv'
    <2> SUFFICES ASSUME NEW r \in open, mode[r] = "on"
                 PROVE  NamesOK(local[r], Seen(r)')
      BY <1>3 DEF LocalInv
    <2>1. NamesOK(local[r], Seen(r))
      BY <1>1 DEF LocalInv
    <2>2. CASE writer # s
      <3>1. Seen(r)' = Seen(r)
        BY <1>2, <2>2 DEF Seen
      <3> QED  BY <2>1, <3>1
    <2>3. CASE writer = s
      <3>1. writer' = NoSession /\ stored' = work /\ r # NoSession
        BY <1>2, <1>4, <2>3, NoSessionOutside
      <3>2. Seen(r)' = stored'
        BY <3>1 DEF Seen
      <3>3. CASE r = s
        BY <2>1, <2>3, <3>1, <3>2, <3>3 DEF Seen
      <3>4. CASE r # s
        <4>1. NamesOK(local[r], stored)
          BY <2>1, <2>3, <3>4 DEF Seen
        <4> DEFINE V == stored'
        <4>2. TablesOK(stored) /\ TablesOK(V) /\ Extends(stored, V, <<s, commits[s] + 1>>)
          BY <1>2
        <4> HIDE DEF V
        <4>3. NamesOK(local[r], V)
          BY <4>1, <4>2, NamesStay
        <4> QED  BY <3>2, <4>3 DEF V
      <3> QED  BY <3>3, <3>4
    <2> QED  BY <2>2, <2>3
  <1>12. StoredInv'
    BY <1>2 DEF StoredInv
  <1>13. WriterInv'
    <2> SUFFICES ASSUME writer' # NoSession
                 PROVE  Transaction(stored', work', local'[writer'], Submitting(writer)',
                                    place'[writer'].call, <<writer', commits'[writer'] + 1>>,
                                    known'[writer'], LooksUp(writer)')
      BY DEF WriterInv
    <2>1. writer' = writer /\ work' = work /\ stored' = stored /\ writer # s
      BY <1>2
    <2>2. writer \in Sessions \ {s}
      BY <1>1, <1>4, <2>1 DEF LockInv, Pending
    <2>3. Transaction(stored, work, local[writer], Submitting(writer), place[writer].call,
                      <<writer, commits[writer] + 1>>, known[writer], LooksUp(writer))
      BY <1>1, <2>1 DEF WriterInv
    <2>4. /\ Submitting(writer)' = Submitting(writer) /\ LooksUp(writer)' = LooksUp(writer)
          /\ place'[writer] = place[writer] /\ commits'[writer] = commits[writer]
          /\ known'[writer] = known[writer]
      BY <1>9, <2>1, <2>2 DEF Submitting, LooksUp
    <2> QED  BY <1>3, <2>1, <2>3, <2>4
  <1>14. KnownInv'
    <2> SUFFICES ASSUME NEW r \in open, mode[r] = "on"
                 PROVE  HasIdentities(stored', known'[r])
      BY <1>3 DEF KnownInv
    <2> DEFINE V == stored'
    <2>1. TablesOK(stored) /\ TablesOK(V) /\ Extends(stored, V, <<s, commits[s] + 1>>)
      BY <1>2
    <2>2. CASE r = s
      <3>1. known'[r] = Identities(V)
        BY <1>5, <2>2
      <3> HIDE DEF V
      <3>2. HasIdentities(V, Identities(V))
        BY <2>1, KnowsItself
      <3> QED  BY <3>1, <3>2 DEF V
    <2>3. CASE r # s
      <3>1. known'[r] = known[r] /\ HasIdentities(stored, known[r])
        BY <1>1, <1>4, <1>9, <2>3 DEF KnownInv
      <3> HIDE DEF V
      <3>2. HasIdentities(V, known[r])
        BY <2>1, <3>1, IdentitiesStay
      <3> QED  BY <3>1, <3>2 DEF V
    <2> QED  BY <2>2, <2>3
  <1>15. MissedInv'
    <2> SUFFICES ASSUME NEW r \in open, mode[r] = "on", ~Ended(r)', place'[r].missed
                 PROVE  Unknown(known'[r], local[r], Calling(r)')
      BY <1>3 DEF MissedInv
    <2>1. r \in Sessions \ {s}
      BY <1>4, <1>8
    <2>2. Unknown(known[r], local[r], Calling(r))
      BY <1>1, <1>9, <2>1 DEF MissedInv
    <2> QED  BY <1>9, <2>1, <2>2
  <1>16. SubmissionsWhole' /\ OriginInv'
    BY CommitWhole
  <1> QED  BY <1>8, <1>10, <1>11, <1>12, <1>13, <1>14, <1>15, <1>16 DEF GraphInv

LEMMA CheckStep ==
  ASSUME GraphInv, NEW s \in Sessions, CheckRows(s)
  PROVE  GraphInv'
  <1>1. /\ SessionInv /\ LockInv /\ LocalInv /\ StoredInv /\ WriterInv
        /\ KnownInv /\ MissedInv
    BY DEF GraphInv
  <1>2. /\ s \in open /\ ~Ended(s) /\ "check" = IF place[s].missed THEN "insert" ELSE Calling(s).op
        /\ UNCHANGED <<stored, work, writer, started, open, program, mode, local, commits, known>>
        /\ Continue(s)
    BY DEF CheckRows, Calls, started
  <1>3. Calling(s).op = "check"
    BY <1>1, <1>2, Running
  <1>4. /\ open \subseteq Sessions /\ DOMAIN local = Sessions /\ DOMAIN place = Sessions
        /\ DOMAIN commits = Sessions /\ DOMAIN known = Sessions /\ DOMAIN local[s] = Names
        /\ DOMAIN program = Sessions /\ DOMAIN mode = Sessions
    BY <1>1 DEF SessionInv, SessionOK
  <1>5. DOMAIN place' = Sessions /\ \A r \in Sessions \ {s} : place'[r] = place[r]
    BY <1>2, <1>4 DEF Continue
  <1>6. OnlyOf(s)
    BY <1>2, <1>4, <1>5 DEF OnlyOf
  <1>7. /\ SessionInv' /\ ~(~Ended(s)' /\ place'[s].missed) /\ ~Pending(s)
        /\ Pending(s)' => place'[s].call = 1
    <2>1. commits'[s] = IF Calling(s).op = "commit" THEN commits[s] + 1 ELSE commits[s]
      BY <1>2, <1>3
    <2>2. DOMAIN local'[s] = Names
      BY <1>2, <1>4
    <2> QED  BY <1>1, <1>2, <1>3, <1>6, <2>1, <2>2, Continues
  <1>8. \A r \in Sessions \ {s} :
          /\ Pending(r)' = Pending(r) /\ Ended(r)' = Ended(r)
          /\ Submitting(r)' = Submitting(r) /\ Calling(r)' = Calling(r)
          /\ LooksUp(r)' = LooksUp(r) /\ place'[r] = place[r]
    BY <1>5, <1>6, ElsewherePending
  <1>9. writer # NoSession => writer \in Sessions \ {s} /\ Pending(writer) /\ mode[writer] = "on"
    BY <1>1, <1>4, <1>7 DEF LockInv, Pending
  <1>10. LockInv'
    <2>1. ASSUME writer # NoSession
          PROVE  Pending(writer)' /\ mode[writer] = "on"
      <3>1. Pending(writer)' = Pending(writer)
        BY <1>2, <1>8, <1>9, <2>1 DEF Pending
      <3> QED  BY <1>9, <2>1, <3>1
    <2>2. ASSUME NEW r \in open, mode[r] = "on", r # writer, Pending(r)'
          PROVE  OnlyFinds(Submitting(r)', place'[r].call)
      <3>1. CASE r # s
        <4>1. r \in Sessions \ {s}
          BY <1>4, <3>1
        <4> QED  BY <1>1, <1>8, <2>2, <4>1 DEF LockInv
      <3>2. CASE r = s
        <4>1. place'[r].call = 1
          BY <1>7, <2>2, <3>2
        <4> QED  BY <4>1 DEF OnlyFinds
      <3> QED  BY <3>1, <3>2
    <2> QED  BY <1>2, <2>1, <2>2 DEF LockInv
  <1>11. LocalInv'
    <2>1. \A r \in open : Seen(r)' = Seen(r)
      BY <1>2 DEF Seen
    <2> QED  BY <1>1, <1>2, <2>1 DEF LocalInv
  <1>12. WriterInv'
    <2> SUFFICES ASSUME writer # NoSession
                 PROVE  Transaction(stored, work, local[writer], Submitting(writer)',
                                    place'[writer].call, <<writer, commits[writer] + 1>>,
                                    known[writer], LooksUp(writer)')
      BY <1>2 DEF WriterInv
    <2>1. Transaction(stored, work, local[writer], Submitting(writer), place[writer].call,
                      <<writer, commits[writer] + 1>>, known[writer], LooksUp(writer))
      BY <1>1 DEF WriterInv
    <2>2. /\ Submitting(writer)' = Submitting(writer) /\ LooksUp(writer)' = LooksUp(writer)
          /\ place'[writer] = place[writer]
      BY <1>2, <1>8, <1>9 DEF Submitting, LooksUp
    <2> QED  BY <2>1, <2>2
  <1>13. KnownInv'
    BY <1>1, <1>2 DEF KnownInv
  <1>14. MissedInv'
    <2> SUFFICES ASSUME NEW r \in open, mode[r] = "on", ~Ended(r)', place'[r].missed
                 PROVE  Unknown(known[r], local[r], Calling(r)')
      BY <1>2 DEF MissedInv
    <2>1. r \in Sessions \ {s}
      BY <1>4, <1>7
    <2>2. Unknown(known[r], local[r], Calling(r))
      BY <1>1, <1>8, <2>1 DEF MissedInv
    <2> QED  BY <1>8, <2>1, <2>2
  <1>15. StoredInv' /\ OriginInv' /\ SubmissionsWhole'
    BY <1>2, NothingCommitted
  <1> QED  BY <1>7, <1>10, <1>11, <1>12, <1>13, <1>14, <1>15 DEF GraphInv

LEMMA NamesUnset ==
  ASSUME NEW W, TablesOK(W)
  PROVE  NamesOK(Unset, W)
  <1> SUFFICES ASSUME NEW n \in Names
               PROVE  Unset[n] \in 0 .. Len(W[TableOf[n]])
    BY DEF NamesOK
  <1>1. Unset[n] = 0
    BY DEF Unset
  <1>2. TableOf[n] \in Tables
    BY NamedTables
  <1> DEFINE m == Len(W[TableOf[n]])
  <1>3. m \in Nat
    BY <1>2, Lengths
  <1> HIDE DEF m
  <1>4. 0 \in 0 .. m
    BY <1>3
  <1> QED  BY <1>1, <1>4 DEF m

LEMMA NamelessProgram == "" \notin DOMAIN ProgramOf
  BY DEF ProgramOf

LEMMA BeginStep ==
  ASSUME GraphInv, NEW s \in Sessions, NEW p \in ProgramNames, NEW m \in ModesOf(p),
         Begin(s, p, m)
  PROVE  GraphInv'
  <1>1. /\ SessionInv /\ LockInv /\ LocalInv /\ StoredInv /\ WriterInv /\ OriginInv
        /\ KnownInv /\ MissedInv /\ SubmissionsWhole
    BY DEF GraphInv
  <1>2. /\ program[s] = "" /\ open' = open \cup {s}
        /\ program' = [program EXCEPT ![s] = p] /\ mode' = [mode EXCEPT ![s] = m]
        /\ place' = [place EXCEPT ![s] = CallOf(1, 1)]
        /\ known' = [known EXCEPT ![s] = Identities(stored)]
        /\ UNCHANGED <<stored, work, writer, local, commits>>
    BY DEF Begin
  <1>3. /\ open \subseteq Sessions /\ DOMAIN local = Sessions /\ DOMAIN place = Sessions
        /\ DOMAIN commits = Sessions /\ DOMAIN known = Sessions
        /\ DOMAIN program = Sessions /\ DOMAIN mode = Sessions
        /\ SessionOK(s \in open, program[s], mode[s], place[s], local[s], commits[s])
    BY <1>1 DEF SessionInv
  <1>4. /\ s \notin open /\ local[s] = Unset /\ commits[s] = 0 /\ DOMAIN local[s] = Names
    BY <1>2, <1>3 DEF SessionOK
  <1>5. p \in DOMAIN ProgramOf /\ p # "" /\ m \in {"on", "off"}
    BY ProgramsExist, NamelessProgram DEF ModesOf
  <1>6. /\ program'[s] = p /\ mode'[s] = m /\ place'[s] = CallOf(1, 1)
        /\ known'[s] = Identities(stored) /\ s \in open'
        /\ \A r \in Sessions \ {s} :
             /\ program'[r] = program[r] /\ mode'[r] = mode[r] /\ place'[r] = place[r]
             /\ known'[r] = known[r] /\ (r \in open' <=> r \in open)
        /\ DOMAIN program' = Sessions /\ DOMAIN mode' = Sessions
        /\ DOMAIN place' = Sessions /\ DOMAIN known' = Sessions /\ open' \subseteq Sessions
    BY <1>2, <1>3
  <1>7. OnlyOf(s)
    BY <1>2, <1>3, <1>6 DEF OnlyOf
  <1>8. SessionInv'
    <2> DEFINE q == ProgramOf[p]
    <2>1. Len(q) \in Nat /\ \A k \in 1 .. Len(q) : Formed(q[k])
      BY <1>5, Programme
    <2> HIDE DEF q
    <2>2. 1 \in 1 .. Len(q) + 1
      BY <2>1
    <2>3. PlaceOK(q, CallOf(1, 1), 1 - 1) /\ DOMAIN CallOf(1, 1) = {"submission", "call", "missed"}
      BY <2>1, <2>2, StartsAt
    <2>4. PlaceOK(q, CallOf(1, 1), 0)
      BY <2>3
    <2>5. SessionOK(TRUE, p, m, CallOf(1, 1), local[s], 0)
      <3> DEFINE at == CallOf(1, 1)
      <3>1. PlaceOK(ProgramOf[p], at, 0) /\ DOMAIN at = {"submission", "call", "missed"}
        BY <2>3, <2>4 DEF q
      <3> HIDE DEF at
      <3>2. SessionOK(TRUE, p, m, at, local[s], 0)
        BY <1>4, <1>5, <3>1 DEF SessionOK
      <3> QED  BY <3>2 DEF at
    <2>6. SessionOK(s \in open', program'[s], mode'[s], place'[s], local'[s], commits'[s])
      <3>1. (s \in open') = TRUE
        BY <1>6
      <3>2. commits'[s] = 0 /\ local'[s] = local[s]
        BY <1>2, <1>4
      <3> QED  BY <1>6, <2>5, <3>1, <3>2
    <2> QED  BY <1>1, <1>7, <2>6, SessionSteps
  <1>9. \A r \in Sessions \ {s} :
          /\ Pending(r)' = Pending(r) /\ Ended(r)' = Ended(r)
          /\ Submitting(r)' = Submitting(r) /\ Calling(r)' = Calling(r)
          /\ LooksUp(r)' = LooksUp(r)
    BY <1>7, ElsewherePending
  <1>10. /\ place'[s].call = 1 /\ place'[s].missed = FALSE
    BY <1>6 DEF CallOf
  <1>11. writer # s /\ (writer # NoSession => writer \in Sessions \ {s})
    BY <1>1, <1>3, <1>4, NoSessionOutside DEF LockInv, Pending
  <1>12. LockInv'
    <2>1. ASSUME writer # NoSession
          PROVE  Pending(writer)' /\ mode'[writer] = "on"
      <3>1. Pending(writer)' = Pending(writer)
        BY <1>2, <1>9, <1>11, <2>1 DEF Pending
      <3> QED  BY <1>1, <1>6, <1>11, <2>1, <3>1 DEF LockInv
    <2>2. ASSUME NEW r \in open', mode'[r] = "on", r # writer, Pending(r)'
          PROVE  OnlyFinds(Submitting(r)', place'[r].call)
      <3>1. CASE r # s
        <4>1. r \in Sessions \ {s} /\ r \in open
          BY <1>2, <1>3, <2>2, <3>1
        <4> QED  BY <1>1, <1>6, <1>9, <2>2, <4>1 DEF LockInv
      <3>2. CASE r = s
        BY <1>10, <3>2 DEF OnlyFinds
      <3> QED  BY <3>1, <3>2
    <2> QED  BY <1>2, <2>1, <2>2 DEF LockInv
  <1>13. \A r \in Sessions : Seen(r)' = Seen(r)
    BY <1>2 DEF Seen
  <1>14. LocalInv'
    <2> SUFFICES ASSUME NEW r \in open', mode'[r] = "on"
                 PROVE  NamesOK(local[r], Seen(r)')
      BY <1>2 DEF LocalInv
    <2>1. CASE r = s
      <3>1. Seen(s)' = stored
        BY <1>2, <1>11 DEF Seen
      <3>2. NamesOK(Unset, stored)
        BY <1>1, NamesUnset DEF StoredInv
      <3> QED  BY <1>4, <2>1, <3>1, <3>2
    <2>2. CASE r # s
      <3>1. r \in open /\ r \in Sessions \ {s} /\ mode[r] = "on"
        BY <1>2, <1>3, <1>6, <2>2
      <3> QED  BY <1>1, <1>13, <3>1 DEF LocalInv
    <2> QED  BY <2>1, <2>2
  <1>15. WriterInv'
    <2> SUFFICES ASSUME writer # NoSession
                 PROVE  Transaction(stored, work, local[writer], Submitting(writer)',
                                    place'[writer].call, <<writer, commits[writer] + 1>>,
                                    known'[writer], LooksUp(writer)')
      BY <1>2 DEF WriterInv
    <2>1. Transaction(stored, work, local[writer], Submitting(writer), place[writer].call,
                      <<writer, commits[writer] + 1>>, known[writer], LooksUp(writer))
      BY <1>1 DEF WriterInv
    <2>2. /\ Submitting(writer)' = Submitting(writer) /\ LooksUp(writer)' = LooksUp(writer)
          /\ place'[writer] = place[writer] /\ known'[writer] = known[writer]
      BY <1>2, <1>6, <1>9, <1>11 DEF Submitting, LooksUp
    <2> QED  BY <2>1, <2>2
  <1>16. KnownInv'
    <2> SUFFICES ASSUME NEW r \in open', mode'[r] = "on"
                 PROVE  HasIdentities(stored, known'[r])
      BY <1>2 DEF KnownInv
    <2>1. CASE r = s
      <3>1. HasIdentities(stored, Identities(stored))
        BY <1>1, KnowsItself DEF StoredInv
      <3> QED  BY <1>6, <2>1, <3>1
    <2>2. CASE r # s
      <3>1. r \in open /\ r \in Sessions \ {s} /\ mode[r] = "on"
        BY <1>2, <1>3, <1>6, <2>2
      <3> QED  BY <1>1, <1>6, <3>1 DEF KnownInv
    <2> QED  BY <2>1, <2>2
  <1>17. MissedInv'
    <2> SUFFICES ASSUME NEW r \in open', mode'[r] = "on", ~Ended(r)', place'[r].missed
                 PROVE  Unknown(known'[r], local[r], Calling(r)')
      BY <1>2 DEF MissedInv
    <2>1. r \in open /\ r \in Sessions \ {s} /\ mode[r] = "on"
      BY <1>2, <1>3, <1>6, <1>10
    <2>2. Unknown(known[r], local[r], Calling(r))
      BY <1>1, <1>6, <1>9, <2>1 DEF MissedInv
    <2> QED  BY <1>6, <1>9, <2>1, <2>2
  <1>18. StoredInv'
    BY <1>1, <1>2 DEF StoredInv
  <1>19. OriginInv'
    <2> SUFFICES ASSUME NEW t \in Tables, NEW i \in 1 .. Len(stored[t])
                 PROVE  \E r \in Sessions : \E k \in 1 .. commits[r] :
                          stored[t][i].by = <<r, k>> /\ mode'[r] = "on" /\ program'[r] # ""
      BY <1>2 DEF OriginInv
    <2>1. PICK r \in Sessions : \E k \in 1 .. commits[r] :
            stored[t][i].by = <<r, k>> /\ mode[r] = "on" /\ program[r] # ""
      BY <1>1 DEF OriginInv
    <2>2. r \in Sessions \ {s}
      BY <1>2, <2>1
    <2> QED  BY <1>6, <2>1, <2>2
  <1>20. SubmissionsWhole'
    <2> SUFFICES ASSUME NEW r \in Sessions
                 PROVE  WholeOf(stored, r, program'[r], mode'[r], commits[r])
      BY <1>2, WholeNext
    <2>1. CASE r # s
      BY <1>1, <1>6, <2>1, WholeEach
    <2>2. CASE r = s
      <3>5. program'[r] = p /\ mode'[r] = m /\ commits[r] = 0
        BY <1>4, <1>6, <2>2
      <3>6. SUFFICES WholeOf(stored, s, p, m, 0)
        BY <2>2, <3>5
      <3> SUFFICES ASSUME NEW k \in DOMAIN ProgramOf[p], NEW t \in Tables \ Shared
                   PROVE  Cardinality({i \in DOMAIN stored[t] : stored[t][i].by = <<s, k>>})
                            = IF m = "on" /\ k <= 0 THEN Made(ProgramOf[p][k], t) ELSE 0
        BY DEF WholeOf
      <3>1. DOMAIN stored[t] = 1 .. Len(stored[t])
        BY <1>1 DEF StoredInv, TablesOK, IsList
      <3>2. ASSUME NEW i \in DOMAIN stored[t]
            PROVE  stored[t][i].by # <<s, k>>
        <4>1. PICK r2 \in Sessions : \E k2 \in 1 .. commits[r2] :
                stored[t][i].by = <<r2, k2>> /\ program[r2] # ""
          BY <1>1, <3>1 DEF OriginInv
        <4>2. PICK k2 \in 1 .. commits[r2] : stored[t][i].by = <<r2, k2>> /\ program[r2] # ""
          BY <4>1
        <4>3. r2 # s
          BY <1>2, <4>2
        <4>4. <<r2, k2>> # <<s, k>>
          BY <4>3
        <4> QED  BY <4>2, <4>4
      <3>3. Cardinality({i \in DOMAIN stored[t] : stored[t][i].by = <<s, k>>}) = 0
        <4>1. {i \in DOMAIN stored[t] : stored[t][i].by = <<s, k>>} = {}
          BY <3>2
        <4> QED  BY <4>1, FS_EmptySet
      <3>4. ~(k <= 0)
        <4> DEFINE q == ProgramOf[p]
        <4>1. IsList(q) /\ k \in DOMAIN q
          BY <1>5, Programme
        <4> HIDE DEF q
        <4>2. k \in 1 .. Len(q)
          BY <4>1 DEF IsList
        <4> QED  BY ONLY <4>2
      <3> QED  BY <3>3, <3>4
    <2> QED  BY <2>1, <2>2
  <1> QED  BY <1>8, <1>12, <1>14, <1>15, <1>16, <1>17, <1>18, <1>19, <1>20 DEF GraphInv

LEMMA CloseStep ==
  ASSUME GraphInv, NEW s \in open, Close(s)
  PROVE  GraphInv'
  <1>1. /\ SessionInv /\ LockInv /\ LocalInv /\ StoredInv /\ WriterInv
        /\ KnownInv /\ MissedInv
    BY DEF GraphInv
  <1>2. /\ open' = open \ {s}
        /\ place' = [place EXCEPT ![s] = Nowhere] /\ local' = [local EXCEPT ![s] = Unset]
        /\ known' = [known EXCEPT ![s] = Identities(Empty)]
        /\ writer = s => writer' = NoSession
        /\ writer # s => UNCHANGED <<writer, work>>
        /\ UNCHANGED <<stored, program, mode, commits>>
    BY DEF Close
  <1>3. /\ open \subseteq Sessions /\ DOMAIN local = Sessions /\ DOMAIN place = Sessions
        /\ DOMAIN commits = Sessions /\ DOMAIN known = Sessions
        /\ DOMAIN program = Sessions /\ DOMAIN mode = Sessions /\ s \in Sessions
        /\ SessionOK(TRUE, program[s], mode[s], place[s], local[s], commits[s])
    BY <1>1 DEF SessionInv
  <1>4. /\ place'[s] = Nowhere /\ local'[s] = Unset /\ s \notin open'
        /\ \A r \in Sessions \ {s} :
             /\ place'[r] = place[r] /\ local'[r] = local[r] /\ known'[r] = known[r]
             /\ (r \in open' <=> r \in open)
        /\ DOMAIN local' = Sessions /\ DOMAIN place' = Sessions /\ DOMAIN known' = Sessions
        /\ open' \subseteq Sessions
    BY <1>2, <1>3
  <1>5. OnlyOf(s)
    BY <1>2, <1>3, <1>4 DEF OnlyOf
  <1>6. SessionInv'
    <2>1. DOMAIN Nowhere = {"submission", "call", "missed"} /\ DOMAIN Unset = Names
      BY DEF Nowhere, Unset
    <2>2. SessionOK(FALSE, program[s], mode[s], Nowhere, Unset, commits[s])
      BY <1>3, <2>1 DEF SessionOK
    <2>3. (s \in open') = FALSE
      BY <1>4
    <2>4. SessionOK(s \in open', program'[s], mode'[s], place'[s], local'[s], commits'[s])
      BY <1>2, <1>4, <2>2, <2>3
    <2> QED  BY <1>1, <1>3, <1>5, <2>4, SessionSteps
  <1>7. \A r \in Sessions \ {s} :
          /\ Pending(r)' = Pending(r) /\ Ended(r)' = Ended(r)
          /\ Submitting(r)' = Submitting(r) /\ Calling(r)' = Calling(r)
          /\ LooksUp(r)' = LooksUp(r)
    BY <1>5, ElsewherePending
  <1>8. \A r \in open' : r \in open /\ r \in Sessions \ {s}
    BY <1>2, <1>3
  <1>9. ASSUME writer' # NoSession
        PROVE  /\ writer' = writer /\ work' = work /\ writer \in Sessions \ {s}
               /\ Pending(writer) /\ mode[writer] = "on"
    <2>1. writer' = writer /\ work' = work /\ writer # s
      BY <1>2, <1>9
    <2>2. Pending(writer) /\ mode[writer] = "on"
      BY <1>1, <1>9, <2>1 DEF LockInv
    <2> QED  BY <1>3, <2>1, <2>2 DEF Pending
  <1>10. \A r \in open' : r # writer' => r # writer
    BY <1>2, <1>8
  <1>11. LockInv'
    <2>1. ASSUME writer' # NoSession
          PROVE  Pending(writer)' /\ mode'[writer'] = "on"
      <3>1. Pending(writer)' = Pending(writer)
        BY <1>7, <1>9, <2>1 DEF Pending
      <3> QED  BY <1>2, <1>9, <2>1, <3>1
    <2>2. ASSUME NEW r \in open', mode'[r] = "on", r # writer', Pending(r)'
          PROVE  OnlyFinds(Submitting(r)', place'[r].call)
      BY <1>1, <1>2, <1>4, <1>7, <1>8, <1>10, <2>2 DEF LockInv
    <2> QED  BY <2>1, <2>2 DEF LockInv
  <1>12. LocalInv'
    <2> SUFFICES ASSUME NEW r \in open', mode'[r] = "on"
                 PROVE  NamesOK(local'[r], Seen(r)')
      BY DEF LocalInv
    <2>1. r \in open /\ r \in Sessions \ {s} /\ mode[r] = "on" /\ local'[r] = local[r]
      BY <1>2, <1>4, <1>8
    <2>2. Seen(r)' = Seen(r)
      BY <1>2, <2>1, NoSessionOutside DEF Seen
    <2> QED  BY <1>1, <2>1, <2>2 DEF LocalInv
  <1>13. WriterInv'
    <2> SUFFICES ASSUME writer' # NoSession
                 PROVE  Transaction(stored', work', local'[writer'], Submitting(writer)',
                                    place'[writer'].call, <<writer', commits'[writer'] + 1>>,
                                    known'[writer'], LooksUp(writer)')
      BY DEF WriterInv
    <2>1. /\ writer' = writer /\ work' = work /\ writer \in Sessions \ {s}
          /\ writer # NoSession
      BY <1>9
    <2>2. Transaction(stored, work, local[writer], Submitting(writer), place[writer].call,
                      <<writer, commits[writer] + 1>>, known[writer], LooksUp(writer))
      BY <1>1, <2>1 DEF WriterInv
    <2>3. /\ Submitting(writer)' = Submitting(writer) /\ LooksUp(writer)' = LooksUp(writer)
          /\ place'[writer] = place[writer] /\ local'[writer] = local[writer]
          /\ known'[writer] = known[writer]
      BY <1>4, <1>7, <2>1 DEF Submitting, LooksUp
    <2> QED  BY <1>2, <2>1, <2>2, <2>3
  <1>14. KnownInv'
    BY <1>1, <1>2, <1>4, <1>8 DEF KnownInv
  <1>15. MissedInv'
    <2> SUFFICES ASSUME NEW r \in open', mode'[r] = "on", ~Ended(r)', place'[r].missed
                 PROVE  Unknown(known'[r], local'[r], Calling(r)')
      BY DEF MissedInv
    <2>1. r \in open /\ r \in Sessions \ {s} /\ mode[r] = "on"
      BY <1>2, <1>8
    <2>2. Unknown(known[r], local[r], Calling(r))
      BY <1>1, <1>4, <1>7, <2>1 DEF MissedInv
    <2> QED  BY <1>4, <1>7, <2>1, <2>2
  <1>16. StoredInv' /\ OriginInv' /\ SubmissionsWhole'
    BY <1>2, NothingCommitted
  <1> QED  BY <1>6, <1>11, <1>12, <1>13, <1>14, <1>15, <1>16 DEF GraphInv

-----------------------------------------------------------------------------
(* The invariant holds at first and is kept.                               *)
LEMMA NothingStored ==
  /\ TablesOK(Empty) /\ EdgesOK(Empty)
  /\ \A t \in Tables : Empty[t] = << >> /\ Len(Empty[t]) = 0
  <1>1. Len(<< >>) = 0 /\ DOMAIN << >> = 1 .. 0
    OBVIOUS
  <1>2. \A t \in Tables : Empty[t] = << >>
    BY DEF Empty
  <1>3. DOMAIN Empty = Tables
    BY DEF Empty
  <1>4. IsList(<< >>)
    BY <1>1 DEF IsList
  <1>5. TablesOK(Empty)
    BY <1>1, <1>2, <1>3, <1>4 DEF TablesOK
  <1>6. EdgesOK(Empty)
    BY <1>1, <1>2, KeyTables DEF EdgesOK
  <1> QED  BY <1>1, <1>2, <1>5, <1>6

LEMMA GraphStarts ==
  ASSUME GraphInit
  PROVE  GraphInv
  <1>1. /\ stored = Empty /\ writer = NoSession /\ open = {}
        /\ program = [s \in Sessions |-> ""] /\ mode = [s \in Sessions |-> "on"]
        /\ place = [s \in Sessions |-> Nowhere] /\ local = [s \in Sessions |-> Unset]
        /\ commits = [s \in Sessions |-> 0]
        /\ known = [s \in Sessions |-> Identities(Empty)]
    BY DEF GraphInit
  <1>2. SessionInv
    <2>1. DOMAIN Nowhere = {"submission", "call", "missed"} /\ DOMAIN Unset = Names
      BY DEF Nowhere, Unset
    <2>2. SessionOK(FALSE, "", "on", Nowhere, Unset, 0)
      BY <2>1 DEF SessionOK
    <2>3. ASSUME NEW s \in Sessions
          PROVE  SessionOK(s \in open, program[s], mode[s], place[s], local[s], commits[s])
      <3>1. (s \in open) = FALSE
        <4>1. open = {}
          BY <1>1
        <4>2. (s \in {}) = FALSE
          OBVIOUS
        <4> QED  BY ONLY <4>1, <4>2
      <3>2. /\ program[s] = "" /\ mode[s] = "on"
            /\ place[s] = Nowhere /\ local[s] = Unset /\ commits[s] = 0
        BY <1>1
      <3> QED  BY <2>2, <3>1, <3>2
    <2> QED  BY <1>1, <2>3 DEF SessionInv
  <1>3. LockInv /\ LocalInv /\ WriterInv /\ KnownInv /\ MissedInv
    BY <1>1 DEF LockInv, LocalInv, WriterInv, KnownInv, MissedInv
  <1>4. StoredInv /\ OriginInv
    <2>1. ASSUME NEW t \in Tables
          PROVE  1 .. Len(stored[t]) = {}
      <3>1. Len(stored[t]) = 0
        BY <1>1, NothingStored
      <3>2. 1 .. 0 = {}
        OBVIOUS
      <3> QED  BY <3>1, <3>2
    <2> QED  BY <1>1, <2>1, NothingStored DEF StoredInv, OriginInv
  <1>5. SubmissionsWhole
    <2>1. \A s \in Sessions : program[s] = ""
      BY <1>1
    <2> QED  BY <2>1 DEF SubmissionsWhole
  <1> QED  BY <1>2, <1>3, <1>4, <1>5 DEF GraphInv

LEMMA GraphSteps ==
  ASSUME GraphInv, [GraphNext]_graphVars
  PROVE  GraphInv'
  <1>1. ASSUME NEW s \in Sessions,
               \/ \E p \in ProgramNames : \E m \in ModesOf(p) : Begin(s, p, m)
               \/ Find(s) \/ InsertRow(s) \/ UpdateRow(s)
               \/ CommitSubmission(s) \/ CheckRows(s) \/ End(s)
               \/ LockTimeout(s) \/ Crash(s)
        PROVE  GraphInv'
    <2>1. ASSUME NEW p \in ProgramNames, NEW m \in ModesOf(p), Begin(s, p, m)
          PROVE  GraphInv'
      BY <2>1, BeginStep
    <2>2. CASE Find(s)
      BY <2>2, FindStep
    <2>3. CASE InsertRow(s)
      BY <2>3, InsertStep
    <2>4. CASE UpdateRow(s)
      BY <2>4, UpdateStep
    <2>5. CASE CommitSubmission(s)
      BY <2>5, CommitStep
    <2>6. CASE CheckRows(s)
      BY <2>6, CheckStep
    <2>7. CASE End(s) \/ LockTimeout(s) \/ Crash(s)
      <3>1. s \in open /\ Close(s)
        BY <2>7 DEF End, LockTimeout, Crash, Calls
      <3> QED  BY <3>1, CloseStep
    <2> QED  BY <1>1, <2>1, <2>2, <2>3, <2>4, <2>5, <2>6, <2>7
  <1>2. CASE UNCHANGED graphVars
    <2>1. UNCHANGED <<stored, work, writer, open, program, mode, place, local, commits, known>>
      BY <1>2 DEF graphVars, started
    <2>2. \A s : /\ Ended(s)' = Ended(s) /\ Submitting(s)' = Submitting(s)
                 /\ Calling(s)' = Calling(s) /\ LooksUp(s)' = LooksUp(s)
                 /\ Pending(s)' = Pending(s) /\ Seen(s)' = Seen(s)
      BY <2>1 DEF Ended, Submitting, Calling, LooksUp, Pending, Seen
    <2>3. SessionInv' /\ KnownInv'
      BY <2>1 DEF GraphInv, SessionInv, KnownInv
    <2>4. LockInv'
      <3>1. Pending(writer)' = Pending(writer)
        BY <2>1 DEF Pending, Ended, Submitting
      <3> QED  BY <2>1, <2>2, <3>1 DEF GraphInv, LockInv
    <2>5. LocalInv'
      BY <2>1, <2>2 DEF GraphInv, LocalInv
    <2>6. WriterInv'
      <3>1. Submitting(writer)' = Submitting(writer) /\ LooksUp(writer)' = LooksUp(writer)
        BY <2>1 DEF Submitting, LooksUp
      <3> QED  BY <2>1, <3>1 DEF GraphInv, WriterInv
    <2>7. MissedInv'
      BY <2>1, <2>2 DEF GraphInv, MissedInv
    <2>8. StoredInv' /\ OriginInv' /\ SubmissionsWhole'
      BY <2>1, NothingCommitted
    <2> QED  BY <2>3, <2>4, <2>5, <2>6, <2>7, <2>8 DEF GraphInv
  <1> QED  BY <1>1, <1>2 DEF GraphNext

(* In every reachable state the committed tables refer to their own rows,  *)
(* the transaction under way extends them by what its calls have done, and *)
(* every other session has only looked up since it last committed.         *)
THEOREM GraphInvariance == GraphSpec => []GraphInv
  <1>1. GraphInit => GraphInv
    BY GraphStarts
  <1>2. GraphInv /\ [GraphNext]_graphVars => GraphInv'
    BY GraphSteps
  <1> QED  BY <1>1, <1>2, PTL DEF GraphSpec

(* Every committed state is a graph: whatever programs overlap, time out   *)
(* on the lock or crash, foreign keys hold, and what an edge names as its  *)
(* inquiry and response was asked and answered on that edge, although no   *)
(* constraint of the database says so.                                     *)
THEOREM GraphStaysWhole == GraphSpec => []GraphWhole
  <1>1. ASSUME GraphInv
        PROVE  GraphWhole
    <2>1. TablesOK(stored) /\ EdgesOK(stored)
      BY <1>1 DEF GraphInv, StoredInv
    <2>2. \A t \in Tables : DOMAIN stored[t] = 1 .. Len(stored[t])
      BY <2>1 DEF TablesOK, IsList
    <2>3. CheckForeignKeys(stored)
      BY <2>1, <2>2 DEF CheckForeignKeys, TablesOK, RowOK
    <2>4. ASSUME NEW e \in DOMAIN stored.edges
          PROVE  LET ref == stored.edges[e].ref IN
                 /\ ref.inquiry # 0 => stored.inquiries[ref.inquiry].ref.edge = e
                 /\ ref.response # 0 => /\ stored.responses[ref.response].ref.edge = e
                                        /\ stored.responses[ref.response].ref.inquiry = ref.inquiry
      <3>1. LinksOK(stored, e, stored["edges"][e].ref)
        BY <2>1, <2>2, KeyTables DEF EdgesOK
      <3> QED  BY <3>1 DEF LinksOK
    <2> QED  BY <2>3, <2>4 DEF GraphWhole
  <1>2. GraphInv => GraphWhole
    BY <1>1
  <1> QED  BY <1>2, GraphInvariance, PTL

(* A submission is in the database with every row it makes, or with none,  *)
(* wherever its program failed, timed out on the lock or crashed.          *)
THEOREM SubmissionsStayWhole == GraphSpec => []SubmissionsWhole
  <1>1. GraphInv => SubmissionsWhole
    BY DEF GraphInv
  <1> QED  BY <1>1, GraphInvariance, PTL

(* Only a commit raises what a session has committed.                      *)
LEMMA OnlyCommits ==
  ASSUME GraphInv, [GraphNext]_graphVars, NEW s \in Sessions, commits'[s] > commits[s]
  PROVE  CommitSubmission(s)
  <1>1. DOMAIN commits = Sessions /\ commits[s] \in Nat
    BY DEF GraphInv, SessionInv, SessionOK
  <1>2. commits'[s] # commits[s]
    <2> DEFINE n == commits[s]
               m == commits'[s]
    <2>1. n \in Nat /\ m > n
      BY <1>1
    <2> HIDE DEF n, m
    <2>2. m # n
      BY ONLY <2>1
    <2> QED  BY <2>2 DEF n, m
  <1>3. GraphNext
    BY <1>2 DEF graphVars
  <1>4. PICK r \in Sessions :
          \/ \E p \in ProgramNames : \E m \in ModesOf(p) : Begin(r, p, m)
          \/ Find(r) \/ InsertRow(r) \/ UpdateRow(r)
          \/ CommitSubmission(r) \/ CheckRows(r) \/ End(r)
          \/ LockTimeout(r) \/ Crash(r)
    BY <1>3 DEF GraphNext
  <1>5. CommitSubmission(r)
    <2>1. commits' # commits
      BY <1>2
    <2>2. ASSUME Close(r)
          PROVE  commits' = commits
      BY <2>2 DEF Close
    <2> QED  BY <1>4, <2>1, <2>2
             DEF Begin, Find, InsertRow, UpdateRow, CheckRows, End, LockTimeout, Crash
  <1>6. commits' = [commits EXCEPT ![r] = @ + 1]
    BY <1>5 DEF CommitSubmission
  <1>7. r = s
    BY <1>1, <1>2, <1>6
  <1> QED  BY <1>5, <1>7

(* get_or_create_*: a submission adds no actor and no project that was     *)
(* committed when it began, unless its program creates without a lookup;   *)
(* the same buyer twice comes from programs that overlapped.               *)
THEOREM IdentitiesAreReused == GraphSpec => IdentitiesReused
  <1>1. ASSUME GraphInv, [GraphNext]_graphVars
        PROVE  [\A s \in Sessions : commits'[s] > commits[s] /\ LooksUp(s) =>
                 /\ \A i \in DOMAIN stored'.actors \ DOMAIN stored.actors :
                      stored'.actors[i].key \notin known[s].actors
                 /\ \A i \in DOMAIN stored'.projects \ DOMAIN stored.projects :
                      <<stored'.projects[i].ref.buyer, stored'.projects[i].key>>
                        \notin known[s].projects]_graphVars
    <2> SUFFICES ASSUME NEW s \in Sessions, commits'[s] > commits[s], LooksUp(s)
                 PROVE  /\ \A i \in DOMAIN stored'.actors \ DOMAIN stored.actors :
                             stored'.actors[i].key \notin known[s].actors
                        /\ \A i \in DOMAIN stored'.projects \ DOMAIN stored.projects :
                             <<stored'.projects[i].ref.buyer, stored'.projects[i].key>>
                               \notin known[s].projects
      OBVIOUS
    <2>1. CommitSubmission(s)
      BY <1>1, OnlyCommits
    <2>2. /\ TablesOK(stored) /\ TablesOK(stored') /\ mode[s] \in {"on", "off"}
          /\ mode[s] = "off" => stored' = stored
          /\ mode[s] = "on" => AddsUnknown(stored, stored', known[s])
      BY <1>1, <2>1, CommittedTables
    <2>3. CASE mode[s] = "off"
      BY <2>2, <2>3
    <2>4. CASE mode[s] = "on"
      <3>1. \A t \in {"actors", "projects"} :
              DOMAIN stored'[t] \ DOMAIN stored[t] = Len(stored[t]) + 1 .. Len(stored'[t])
        <4> SUFFICES ASSUME NEW t \in {"actors", "projects"}
                     PROVE  DOMAIN stored'[t] \ DOMAIN stored[t]
                              = Len(stored[t]) + 1 .. Len(stored'[t])
          OBVIOUS
        <4> DEFINE m == Len(stored[t])
                   n == Len(stored'[t])
        <4>1. m \in Nat /\ n \in Nat /\ DOMAIN stored[t] = 1 .. m /\ DOMAIN stored'[t] = 1 .. n
          BY <2>2, KeyTables DEF TablesOK, IsList
        <4> HIDE DEF m, n
        <4>2. (1 .. n) \ (1 .. m) = m + 1 .. n
          BY ONLY <4>1
        <4> QED  BY <4>1, <4>2 DEF m, n
      <3>2. AddsUnknown(stored, stored', known[s])
        BY <2>2, <2>4
      <3> QED  BY <3>1, <3>2 DEF AddsUnknown
    <2> QED  BY <2>2, <2>3, <2>4
  <1> QED  BY <1>1, GraphInvariance, PTL DEF GraphSpec, IdentitiesReused
=============================================================================
