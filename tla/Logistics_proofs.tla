-------------------------- MODULE Logistics_proofs --------------------------
(***************************************************************************)
(* Safety of shipment tracking for every number of callers, shipments,     *)
(* events and requests.                                                    *)
(*                                                                         *)
(* The argument: shipments are never removed, keep their tracking number,  *)
(* and event files are never removed (StepGrows).  So what a request has   *)
(* read of a shipment stays backed by an event file (Backed), and so does  *)
(* the status it collects (RunOK), which it writes in the end.  Of a       *)
(* shipment that was never raced there is one request at work at most, and *)
(* it has seen all event files of it (SeenInv).                            *)
(***************************************************************************)
EXTENDS Logistics, SequenceTheorems, TLAPS

(* A shipment file is a new one, or has the status of an event file.       *)
FromEvent(ing, s, f, status, time) ==
  f.number = "parcel" /\ \E e \in Events : ing[s][e] > 0 /\ status = e.status /\ time = e.time
Backed(ing, s, f) == f = NewShipment(f.number) \/ FromEvent(ing, s, f, f.status, f.last)

Bound(sh) == {s \in Shipments : sh[s] # NoShipment}

(* The status a run has collected so far is that of the copy it started    *)
(* from, or of an event it stored or found, which is not older.            *)
RunOK(sh, ing, r) ==
  /\ r.of \in Bound(sh)
  /\ r.copy.number = sh[r.of].number
  /\ r.batch # << >> => r.copy.number = "parcel"
  /\ Backed(ing, r.of, r.copy)
  /\ r.time >= r.copy.last
  /\ \/ r.status = r.copy.status /\ r.time = r.copy.last
     \/ FromEvent(ing, r.of, r.copy, r.status, r.time)

(* What a webhook has read of a shipment.                                  *)
CopyOK(sh, ing, s, f) ==
  /\ f \in ShipmentFiles
  /\ f.number = "parcel" /\ sh[s].number = "parcel"
  /\ Backed(ing, s, f)

JobOK(sh, ing, j) ==
  /\ j.todo \subseteq Bound(sh)
  /\ j.kind = "webhook" => \A s \in j.todo : CopyOK(sh, ing, s, j.copies[s])
  /\ j.run # NoRun => RunOK(sh, ing, j.run)

JobInv == \A c \in Callers : job[c] # NoJob => JobOK(shipment, ingested, job[c])

FilesInv == \A s \in Known : Backed(ingested, s, shipment[s])

(* Of a shipment that was never raced.                                     *)
SeenInv ==
  \A s \in Shipments \ raced, c \in Callers : Working(c, s) =>
    /\ ExistingEvents(s) \subseteq job[c].run.seen
    /\ \A d \in Callers : Working(d, s) => d = c

IInv == /\ TypeOK
        /\ FilesInv
        /\ JobInv
        /\ SeenInv
        /\ IngestedOnce

-----------------------------------------------------------------------------
(* What the step of a request does.                                        *)
Opens(c) ==
  \/ \E s \in Shipments : SyncTracking(c, s)
  \/ SyncAllActive(c)
  \/ \E batch \in Batches : Webhook(c, batch)
Ingests(c, s) ==
  IngestTrackingNumber(c, s) \/ \E message \in ImMessages : IngestFromImMessage(c, s, message)

(* Next is the disjunction of these cases.                                 *)
LEMMA NextSteps ==
  Next => \/ Crash
          \/ \E e \in Events : Report(e)
          \/ \E c \in Callers :
               \/ \E s \in Shipments : Ingests(c, s) \/ VisitShipment(c, s) \/ ProviderFails(c, s)
               \/ Opens(c) \/ StoreEvent(c) \/ UpdateShipment(c) \/ Answer(c)
  BY DEF Next, Opens, Ingests

(* A shipment that was raced stays so.                                     *)
LEMMA RacedGrows == ASSUME [Next]_vars PROVE raced \subseteq raced'
<1>1. CASE Crash \/ (\E e \in Events : Report(e)) \/ UNCHANGED vars
  BY <1>1 DEF Crash, Report, vars
<1>2. ASSUME NEW c \in Callers, NEW s \in Shipments,
             Ingests(c, s) \/ VisitShipment(c, s) \/ ProviderFails(c, s)
      PROVE  raced \subseteq raced'
  BY <1>2 DEF Ingests, IngestTrackingNumber, IngestFromImMessage, VisitShipment, ProviderFails
<1>3. ASSUME NEW c \in Callers, Opens(c) PROVE raced \subseteq raced'
  BY <1>3 DEF Opens, SyncTracking, SyncAllActive, Webhook, Begin
<1>4. ASSUME NEW c \in Callers, StoreEvent(c) \/ UpdateShipment(c) \/ Answer(c)
      PROVE  raced \subseteq raced'
  BY <1>4 DEF StoreEvent, UpdateShipment, Answer
<1>5. QED
  BY <1>1, <1>2, <1>3, <1>4, NextSteps

(* A new shipment file is a shipment file.                                 *)
LEMMA NewFile ==
  ASSUME NEW number \in {"parcel", "other"} PROVE NewShipment(number) \in ShipmentFiles
  BY DEF NewShipment, ShipmentFiles, Statuses

(* A known shipment has a file.                                            *)
LEMMA KnownFile ==
  ASSUME TypeOK, NEW s \in Known PROVE s \in Shipments /\ shipment[s] \in ShipmentFiles
  BY DEF TypeOK, Known

(* A busy caller has a job, and one at work a run.                         *)
LEMMA JobType ==
  ASSUME TypeOK, NEW c \in Callers, job[c] # NoJob
  PROVE  /\ job[c] \in Jobs
         /\ job[c].todo \subseteq Shipments
         /\ job[c].run # NoRun => job[c].run \in Runs
  BY DEF TypeOK, Jobs

(* What Start makes of the caller's job.                                   *)
LEMMA StartJob ==
  ASSUME TypeOK, NEW c \in Callers, job[c] # NoJob, NEW s \in Shipments,
         NEW f \in ShipmentFiles, NEW batch \in Seq(Events), Start(c, s, f, batch)
  PROVE  /\ job' \in [Callers -> Jobs \cup {NoJob}]
         /\ job'[c] = [job[c] EXCEPT !.todo = @ \ {s}, !.run =
                         [of |-> s, copy |-> f, batch |-> batch, seen |-> ExistingEvents(s),
                          status |-> f.status, time |-> f.last]]
         /\ \A d \in Callers \ {c} : job'[d] = job[d]
<1> DEFINE run == [of |-> s, copy |-> f, batch |-> batch, seen |-> ExistingEvents(s),
                   status |-> f.status, time |-> f.last]
           j == [job[c] EXCEPT !.todo = @ \ {s}, !.run = run]
<1>1. run \in Runs
  BY DEF Runs, ShipmentFiles, ExistingEvents
<1>2. j \in Jobs
  BY <1>1, JobType DEF Jobs
<1>3. job' = [job EXCEPT ![c] = j]
  BY DEF Start
<1> HIDE DEF j, run
<1>4. QED
  BY <1>2, <1>3 DEF TypeOK, j, run

(* A run starts with what is on disk.                                      *)
LEMMA StartSeen ==
  ASSUME TypeOK, NEW c \in Callers, job[c] # NoJob, NEW s \in Shipments,
         NEW f \in ShipmentFiles, NEW batch \in Seq(Events), Start(c, s, f, batch)
  PROVE  job'[c].run.of = s /\ job'[c].run.seen = ExistingEvents(s)
<1> DEFINE run == [of |-> s, copy |-> f, batch |-> batch, seen |-> ExistingEvents(s),
                   status |-> f.status, time |-> f.last]
           j == [job[c] EXCEPT !.todo = @ \ {s}, !.run = run]
<1>1. j.run = run /\ run.of = s /\ run.seen = ExistingEvents(s)
  BY JobType DEF Jobs
<1>2. job'[c] = j
  BY DEF Start, TypeOK
<1> HIDE DEF j, run
<1>3. QED
  BY <1>1, <1>2

(* The job of a visit.                                                     *)
LEMMA VisitJob ==
  ASSUME TypeOK, JobInv, NEW c \in Callers, NEW s \in Shipments, VisitShipment(c, s)
  PROVE  \/ Skip(c, s)
         \/ \E f \in ShipmentFiles, batch \in Seq(Events) :
              /\ Start(c, s, f, batch)
              /\ f.number = shipment[s].number
              /\ batch # << >> => f.number = "parcel"
              /\ Backed(ingested, s, f) \/ f = shipment[s]
<1> USE DEF VisitShipment
<1>1. JobOK(shipment, ingested, job[c]) /\ s \in Known /\ shipment[s] \in ShipmentFiles
  BY KnownFile DEF JobInv, JobOK, Bound, Known
<1>2. CASE job[c].kind = "webhook"
  <2>1. CopyOK(shipment, ingested, s, job[c].copies[s]) /\ job[c].batch \in Seq(Events)
    BY <1>1, <1>2, JobType DEF JobOK, Jobs
  <2>2. QED
    BY <1>2, <2>1 DEF CopyOK
<1>3. CASE job[c].kind # "webhook" /\ ~Skip(c, s)
  <2>1. Start(c, s, shipment[s], IF s \in Tracked THEN feed ELSE << >>)
    BY <1>3
  <2>2. (IF s \in Tracked THEN feed ELSE << >>) \in Seq(Events)
    BY EmptySeq DEF TypeOK
  <2>3. QED
    BY <1>1, <2>1, <2>2 DEF Tracked
<1>4. QED
  BY <1>2, <1>3

(* What StoreEvent makes of the caller's job.                              *)
LEMMA StoreJob ==
  ASSUME TypeOK, NEW c \in Callers, StoreEvent(c)
  PROVE  LET run == job[c].run
             e == Head(run.batch)
             new == e \notin run.seen
             newer == new /\ e.time > run.time
             after == [run EXCEPT !.batch = Tail(run.batch), !.seen = @ \cup {e},
                         !.status = IF newer THEN e.status ELSE @,
                         !.time = IF newer THEN e.time ELSE @]
         IN  /\ job[c] \in Jobs /\ run \in Runs /\ e \in Events /\ after \in Runs
             /\ job' = [job EXCEPT ![c] = [job[c] EXCEPT !.run = after]]
             /\ job' \in [Callers -> Jobs \cup {NoJob}]
             /\ ingested' = IF new THEN [ingested EXCEPT ![run.of][e] = @ + 1] ELSE ingested
             /\ UNCHANGED <<feed, shipment, raced, calls>>
<1> DEFINE run == job[c].run
           e == Head(run.batch)
           new == e \notin run.seen
           newer == new /\ e.time > run.time
           after == [run EXCEPT !.batch = Tail(run.batch), !.seen = @ \cup {e},
                       !.status = IF newer THEN e.status ELSE @,
                       !.time = IF newer THEN e.time ELSE @]
<1>1. job[c] \in Jobs /\ run \in Runs
  BY JobType DEF StoreEvent
<1>2. e \in Events /\ Tail(run.batch) \in Seq(Events)
  BY <1>1, HeadTailProperties DEF StoreEvent, Runs
<1>3. e.time \in Nat /\ e.status \in Statuses
  BY <1>2, EventRecords
<1>4. after \in Runs
  BY <1>1, <1>2, <1>3 DEF Runs
<1>5. job' = [job EXCEPT ![c] = [job[c] EXCEPT !.run = after]]
  BY DEF StoreEvent
<1>6. [job[c] EXCEPT !.run = after] \in Jobs
  BY <1>1, <1>4 DEF Jobs
<1>7. /\ ingested' = IF new THEN [ingested EXCEPT ![run.of][e] = @ + 1] ELSE ingested
      /\ UNCHANGED <<feed, shipment, raced, calls>>
  BY DEF StoreEvent
<1> HIDE DEF run, e, new, newer, after
<1>8. job' \in [Callers -> Jobs \cup {NoJob}]
  BY <1>5, <1>6 DEF TypeOK
<1>9. QED
  BY <1>1, <1>2, <1>4, <1>5, <1>7, <1>8 DEF run, e, new, newer, after

(* What it makes of the event files: one more, or nothing.                 *)
LEMMA StoreFile ==
  ASSUME TypeOK, NEW c \in Callers, StoreEvent(c)
  PROVE  /\ \E s \in Shipments, e \in Events :
              ingested' = [ingested EXCEPT ![s][e] = @ + 1] \/ UNCHANGED ingested
         /\ UNCHANGED shipment
<1> DEFINE run == job[c].run
           e == Head(run.batch)
<1>1. run.of \in Shipments /\ e \in Events
  <2>1. run \in Runs /\ e \in Events
    BY StoreJob
  <2>2. QED
    BY <2>1 DEF Runs
<1>2. ingested' = [ingested EXCEPT ![run.of][e] = @ + 1] \/ ingested' = ingested
  BY DEF StoreEvent
<1>3. UNCHANGED shipment
  BY DEF StoreEvent
<1> HIDE DEF run, e
<1>4. QED
  BY <1>1, <1>2, <1>3

(* Of the files of events it writes one at most, that its run has not      *)
(* seen.                                                                   *)
LEMMA StoreOne ==
  ASSUME TypeOK, NEW c \in Callers, StoreEvent(c)
  PROVE  \E s \in Shipments, e \in Events :
           /\ s = job[c].run.of
           /\ \/ e \notin job[c].run.seen /\ ingested' = [ingested EXCEPT ![s][e] = @ + 1]
              \/ UNCHANGED ingested
           /\ job'[c].run.seen = job[c].run.seen \cup {e}
           /\ UNCHANGED shipment
<1> DEFINE run == job[c].run
           e == Head(run.batch)
           new == e \notin run.seen
           newer == new /\ e.time > run.time
           after == [run EXCEPT !.batch = Tail(run.batch), !.seen = @ \cup {e},
                       !.status = IF newer THEN e.status ELSE @,
                       !.time = IF newer THEN e.time ELSE @]
           k == [job[c] EXCEPT !.run = after]
<1>1. /\ job[c] \in Jobs /\ run \in Runs /\ e \in Events /\ job' = [job EXCEPT ![c] = k]
      /\ ingested' = IF new THEN [ingested EXCEPT ![run.of][e] = @ + 1] ELSE ingested
      /\ UNCHANGED <<feed, shipment, raced, calls>>
  BY StoreJob
<1>2. k.run = after /\ after.seen = run.seen \cup {e} /\ run.of \in Shipments
  BY <1>1 DEF Jobs, Runs
<1> HIDE DEF k, after
<1>3. job'[c] = k
  BY <1>1 DEF TypeOK
<1> HIDE DEF run, e, new
<1>4. PICK s \in Shipments, x \in Events : s = run.of /\ x = e
  BY <1>1, <1>2
<1>5. ingested' = IF new THEN [ingested EXCEPT ![s][x] = @ + 1] ELSE ingested
  BY <1>1, <1>4
<1>6. s = run.of /\ (x \notin run.seen <=> new) /\ job'[c].run.seen = run.seen \cup {x} /\ UNCHANGED shipment
  BY <1>1, <1>2, <1>3, <1>4 DEF new
<1>7. QED
  BY <1>5, <1>6 DEF run

-----------------------------------------------------------------------------
(* Types.                                                                  *)

(* Initial values have their types.                                        *)
LEMMA TypeInit == Init => TypeOK
<1> SUFFICES ASSUME Init PROVE TypeOK
  OBVIOUS
<1> USE DEF Init
<1>1. feed \in Seq(Events)
  BY EmptySeq
<1>2. shipment \in [Shipments -> ShipmentFiles \cup {NoShipment}]
  OBVIOUS
<1>3. ingested \in [Shipments -> [Events -> Nat]]
  OBVIOUS
<1>4. job \in [Callers -> Jobs \cup {NoJob}]
  OBVIOUS
<1>5. calls \in 0..MaxCalls
  BY CallsBound
<1>6. QED
  BY <1>1, <1>2, <1>3, <1>4, <1>5 DEF TypeOK

(* Every step keeps the types.                                             *)
LEMMA TypeStep == TypeOK /\ JobInv /\ [Next]_vars => TypeOK'
<1> SUFFICES ASSUME TypeOK, JobInv, [Next]_vars PROVE TypeOK'
  OBVIOUS
<1>1. CASE Crash
  BY <1>1 DEF Crash, TypeOK
<1>2. ASSUME NEW e \in Events, Report(e) PROVE TypeOK'
  BY <1>2, AppendProperties DEF Report, TypeOK
<1>3. ASSUME NEW c \in Callers, NEW s \in Shipments, Ingests(c, s) PROVE TypeOK'
  <2>1. \E number \in {"parcel", "other"} :
          shipment' = [shipment EXCEPT ![s] = NewShipment(number)]
    BY <1>3 DEF Ingests, IngestTrackingNumber, IngestFromImMessage
  <2>2. shipment' \in [Shipments -> ShipmentFiles \cup {NoShipment}]
    BY <2>1, NewFile DEF TypeOK
  <2>3. UNCHANGED <<feed, ingested, job, raced>> /\ calls' \in 0..MaxCalls
    BY <1>3, CallsBound DEF Ingests, IngestTrackingNumber, IngestFromImMessage, Call, TypeOK
  <2>4. QED
    BY <2>2, <2>3 DEF TypeOK
<1>4. ASSUME NEW c \in Callers, Opens(c) PROVE TypeOK'
  <2>1. PICK kind \in {"sync", "all", "webhook"}, todo \in SUBSET Shipments, batch \in Seq(Events) :
          Begin(c, kind, todo, batch)
    BY <1>4, EmptySeq, BatchesOfEvents
    DEF Opens, SyncTracking, SyncAllActive, Webhook, Known, Tracked
  <2>2. [kind |-> kind, todo |-> todo, batch |-> batch, copies |-> shipment, run |-> NoRun] \in Jobs
    BY DEF TypeOK, Jobs
  <2>3. job' \in [Callers -> Jobs \cup {NoJob}]
    BY <2>1, <2>2 DEF Begin, TypeOK
  <2>4. UNCHANGED <<feed, shipment, ingested, raced>> /\ calls' \in 0..MaxCalls
    BY <2>1, CallsBound DEF Begin, Call, TypeOK
  <2>5. QED
    BY <2>3, <2>4 DEF TypeOK
<1>5. ASSUME NEW c \in Callers, NEW s \in Shipments, VisitShipment(c, s) PROVE TypeOK'
  <2>1. job' \in [Callers -> Jobs \cup {NoJob}]
    <3>1. CASE Skip(c, s)
      <4>1. job[c] \in Jobs
        BY <1>5, JobType DEF VisitShipment
      <4>2. QED
        BY <3>1, <4>1 DEF Skip, TypeOK, Jobs
    <3>2. QED
      BY <1>5, <3>1, VisitJob, StartJob DEF VisitShipment
  <2>2. QED
    BY <1>5, <2>1 DEF VisitShipment, TypeOK
<1>6. ASSUME NEW c \in Callers, NEW s \in Shipments, ProviderFails(c, s) PROVE TypeOK'
  <2>1. job[c] \in Jobs
    BY <1>6, JobType DEF ProviderFails
  <2>2. job' \in [Callers -> Jobs \cup {NoJob}]
    BY <1>6, <2>1 DEF ProviderFails, Skip, TypeOK, Jobs
  <2>3. QED
    BY <1>6, <2>2 DEF ProviderFails, TypeOK
<1>7. ASSUME NEW c \in Callers, StoreEvent(c) PROVE TypeOK'
  <2>1. job' \in [Callers -> Jobs \cup {NoJob}] /\ UNCHANGED <<feed, shipment, raced, calls>>
    BY <1>7, StoreJob
  <2>2. ingested' \in [Shipments -> [Events -> Nat]]
    <3>1. PICK s \in Shipments, e \in Events :
            ingested' = [ingested EXCEPT ![s][e] = @ + 1] \/ UNCHANGED ingested
      BY <1>7, StoreFile
    <3>2. ingested[s][e] + 1 \in Nat /\ ingested[s] \in [Events -> Nat]
      BY DEF TypeOK
    <3>3. [ingested[s] EXCEPT ![e] = @ + 1] \in [Events -> Nat]
      BY <3>2
    <3>4. QED
      BY <3>1, <3>3 DEF TypeOK
  <2>3. QED
    BY <2>1, <2>2 DEF TypeOK
<1>8. ASSUME NEW c \in Callers, UpdateShipment(c) PROVE TypeOK'
  <2>1. job[c] \in Jobs /\ job[c].run \in Runs
    BY <1>8, JobType DEF UpdateShipment
  <2>2. job' \in [Callers -> Jobs \cup {NoJob}]
    BY <1>8, <2>1 DEF UpdateShipment, TypeOK, Jobs
  <2>3. shipment' \in [Shipments -> ShipmentFiles \cup {NoShipment}]
    BY <1>8, <2>1 DEF UpdateShipment, TypeOK, Runs, ShipmentFiles
  <2>4. QED
    BY <1>8, <2>2, <2>3 DEF UpdateShipment, TypeOK
<1>9. ASSUME NEW c \in Callers, Answer(c) PROVE TypeOK'
  BY <1>9 DEF Answer, TypeOK
<1>10. CASE UNCHANGED vars
  BY <1>10 DEF vars, TypeOK
<1>11. QED
  BY <1>1, <1>2, <1>3, <1>4, <1>5, <1>6, <1>7, <1>8, <1>9, <1>10, NextSteps
-----------------------------------------------------------------------------
(* Shipments stay, with their numbers, and event files stay.               *)
Grows ==
  /\ \A s \in Bound(shipment) : s \in Bound(shipment') /\ shipment'[s].number = shipment[s].number
  /\ \A s \in Shipments, e \in Events : ingested[s][e] > 0 => ingested'[s][e] > 0

(* One event file more.                                                    *)
LEMMA OneMore ==
  ASSUME TypeOK, NEW s \in Shipments, NEW e \in Events,
         ingested' = [ingested EXCEPT ![s][e] = @ + 1]
  PROVE  /\ ingested'[s][e] = ingested[s][e] + 1 /\ ingested[s][e] \in Nat
         /\ \A t \in Shipments, f \in Events :
              (t # s \/ f # e) => ingested'[t][f] = ingested[t][f]
<1>1. ingested \in [Shipments -> [Events -> Nat]] /\ ingested[s] \in [Events -> Nat]
  BY DEF TypeOK
<1> DEFINE row == [ingested[s] EXCEPT ![e] = @ + 1]
<1>2. row[e] = ingested[s][e] + 1 /\ \A f \in Events : f # e => row[f] = ingested[s][f]
  BY <1>1
<1>3. ingested' = [ingested EXCEPT ![s] = row]
  OBVIOUS
<1> HIDE DEF row
<1>4. ingested'[s] = row /\ \A t \in Shipments : t # s => ingested'[t] = ingested[t]
  BY <1>1, <1>3
<1>5. QED
  BY <1>1, <1>2, <1>4

(* No step removes a shipment or an event, or rebinds a shipment.          *)
LEMMA StepGrows == TypeOK /\ JobInv /\ [Next]_vars => Grows
<1> SUFFICES ASSUME TypeOK, JobInv, [Next]_vars PROVE Grows
  OBVIOUS
<1>1. CASE UNCHANGED <<shipment, ingested>>
  BY <1>1 DEF Grows, Bound
<1>2. ASSUME NEW c \in Callers, NEW s \in Shipments, Ingests(c, s) PROVE Grows
  <2>1. PICK number \in {"parcel", "other"} :
          shipment' = [shipment EXCEPT ![s] = NewShipment(number)]
    BY <1>2 DEF Ingests, IngestTrackingNumber, IngestFromImMessage
  <2>2. shipment[s] = NoShipment /\ UNCHANGED ingested
    BY <1>2 DEF Ingests, IngestTrackingNumber, IngestFromImMessage
  <2>3. QED
    BY <2>1, <2>2 DEF Grows, Bound, TypeOK
<1>3. ASSUME NEW c \in Callers, StoreEvent(c) PROVE Grows
  <2>1. PICK s \in Shipments, e \in Events :
          /\ ingested' = [ingested EXCEPT ![s][e] = @ + 1] \/ UNCHANGED ingested
          /\ UNCHANGED shipment
    BY <1>3, StoreFile
  <2>2. CASE ingested' = [ingested EXCEPT ![s][e] = @ + 1]
    BY <2>1, <2>2, OneMore DEF Grows, Bound, TypeOK
  <2>3. QED
    BY <1>1, <2>1, <2>2
<1>4. ASSUME NEW c \in Callers, UpdateShipment(c) PROVE Grows
  <2> DEFINE run == job[c].run
             file == [run.copy EXCEPT !.status = run.status, !.last = run.time]
  <2>1. job[c] \in Jobs /\ run \in Runs /\ RunOK(shipment, ingested, run)
    BY <1>4, JobType DEF UpdateShipment, JobInv, JobOK
  <2>2. file \in ShipmentFiles /\ file.number = shipment[run.of].number
    BY <2>1 DEF Runs, ShipmentFiles, RunOK
  <2>3. shipment' = shipment \/ shipment' = [shipment EXCEPT ![run.of] = file]
    BY <1>4 DEF UpdateShipment
  <2>4. UNCHANGED ingested /\ run.of \in Bound(shipment)
    BY <1>4, <2>1 DEF UpdateShipment, RunOK
  <2> HIDE DEF run, file
  <2>5. QED
    BY <2>2, <2>3, <2>4, Nulls DEF Grows, Bound, TypeOK
<1>5. QED
  BY <1>1, <1>2, <1>3, <1>4, NextSteps
  DEF Crash, Report, Opens, SyncTracking, SyncAllActive, Webhook, Begin, VisitShipment,
      ProviderFails, Answer, vars

(* What was backed stays so.                                               *)
LEMMA FromEventStays ==
  ASSUME Grows, NEW s \in Shipments, NEW f, NEW status, NEW time,
         FromEvent(ingested, s, f, status, time)
  PROVE  FromEvent(ingested', s, f, status, time)
  BY DEF Grows, FromEvent

LEMMA BackedStays ==
  ASSUME Grows, NEW s \in Shipments, NEW f, Backed(ingested, s, f)
  PROVE  Backed(ingested', s, f)
  BY FromEventStays DEF Backed

(* A run that does not move stays sound.                                   *)
LEMMA RunStays ==
  ASSUME Grows, NEW r, RunOK(shipment, ingested, r) PROVE RunOK(shipment', ingested', r)
<1>1. r.of \in Shipments /\ r.of \in Bound(shipment)
  BY DEF RunOK, Bound
<1>2. r.of \in Bound(shipment') /\ shipment'[r.of].number = shipment[r.of].number
  BY <1>1 DEF Grows
<1>3. QED
  BY <1>1, <1>2, BackedStays, FromEventStays DEF RunOK

(* A job that does not move stays sound, and one that gives up a shipment, *)
(* and one whose run is sound.                                             *)
LEMMA JobStays ==
  ASSUME Grows, NEW j, NEW k, JobOK(shipment, ingested, j),
         k.todo \subseteq j.todo, k.kind = j.kind, k.copies = j.copies,
         k.run = j.run \/ k.run = NoRun \/ RunOK(shipment', ingested', k.run)
  PROVE  JobOK(shipment', ingested', k)
<1>1. k.todo \subseteq Bound(shipment')
  BY DEF JobOK, Grows
<1>2. ASSUME k.kind = "webhook", NEW s \in k.todo
      PROVE  CopyOK(shipment', ingested', s, k.copies[s])
  <2>1. CopyOK(shipment, ingested, s, j.copies[s]) /\ s \in Bound(shipment) /\ s \in Shipments
    BY <1>2 DEF JobOK, Bound
  <2>2. QED
    BY <2>1, BackedStays DEF CopyOK, Grows
<1>3. k.run # NoRun => RunOK(shipment', ingested', k.run)
  BY RunStays DEF JobOK
<1>4. QED
  BY <1>1, <1>2, <1>3 DEF JobOK
-----------------------------------------------------------------------------
(* The parts of the inductive invariant.                                   *)

(* Of the jobs, a step moves those that crash or that of its caller.       *)
LEMMA WhoMoves ==
  ASSUME TypeOK, [Next]_vars, NEW d \in Callers
  PROVE  \/ job'[d] = job[d] /\ UNCHANGED ingested
         \/ job'[d] = job[d] /\ \E c \in Callers \ {d} : StoreEvent(c)
         \/ job'[d] = NoJob /\ UNCHANGED <<ingested, shipment, raced>>
         \/ Opens(d) \/ StoreEvent(d) \/ UpdateShipment(d)
         \/ \E s \in Shipments : VisitShipment(d, s) \/ ProviderFails(d, s)
<1>1. CASE Crash
  BY <1>1 DEF Crash
<1>2. ASSUME NEW c \in Callers \ {d}, NEW s \in Shipments, VisitShipment(c, s)
      PROVE  job'[d] = job[d] /\ UNCHANGED ingested
  BY <1>2 DEF VisitShipment, Skip, Start, TypeOK
<1>3. ASSUME NEW c \in Callers \ {d}, Opens(c) PROVE job'[d] = job[d] /\ UNCHANGED ingested
  BY <1>3 DEF Opens, SyncTracking, SyncAllActive, Webhook, Begin, TypeOK
<1>4. ASSUME NEW c \in Callers \ {d}, UpdateShipment(c) \/ Answer(c)
      PROVE  job'[d] = job[d] /\ UNCHANGED ingested
  BY <1>4 DEF UpdateShipment, Answer, TypeOK
<1>5. ASSUME NEW c \in Callers \ {d}, StoreEvent(c) PROVE job'[d] = job[d]
  BY <1>5 DEF StoreEvent, TypeOK
<1>6. CASE Answer(d)
  BY <1>6 DEF Answer, TypeOK
<1>7. ASSUME NEW e \in Events, Report(e) PROVE job'[d] = job[d] /\ UNCHANGED ingested
  BY <1>7 DEF Report
<1>8. ASSUME NEW c \in Callers, NEW s \in Shipments, Ingests(c, s)
      PROVE  job'[d] = job[d] /\ UNCHANGED ingested
  BY <1>8 DEF Ingests, IngestTrackingNumber, IngestFromImMessage
<1>9. CASE UNCHANGED vars
  BY <1>9 DEF vars
<1>10. ASSUME NEW c \in Callers \ {d}, NEW s \in Shipments, ProviderFails(c, s)
       PROVE  job'[d] = job[d] /\ UNCHANGED ingested
  BY <1>10 DEF ProviderFails, Skip, TypeOK
<1>11. CASE Next
  BY <1>1, <1>2, <1>3, <1>4, <1>5, <1>6, <1>7, <1>8, <1>10, <1>11, NextSteps
<1>12. QED
  BY <1>9, <1>11

(* Every run collects a status that is on disk.                            *)
LEMMA JobStep == TypeOK /\ FilesInv /\ JobInv /\ [Next]_vars => JobInv'
<1> SUFFICES ASSUME TypeOK, FilesInv, JobInv, [Next]_vars, NEW d \in Callers, job'[d] # NoJob
             PROVE  JobOK(shipment', ingested', job'[d])
  BY DEF JobInv
<1>0. Grows
  BY StepGrows
<1>1. CASE job'[d] = job[d]
  BY <1>0, <1>1, JobStays DEF JobInv
<1>3. CASE Opens(d)
  <2>1. PICK kind \in {"sync", "all", "webhook"}, todo \in SUBSET Known, batch \in Seq(Events) :
          Begin(d, kind, todo, batch) /\ (kind = "webhook" => todo \subseteq Tracked)
    BY <1>3, EmptySeq, BatchesOfEvents DEF Opens, SyncTracking, SyncAllActive, Webhook, Tracked
  <2> DEFINE k == [kind |-> kind, todo |-> todo, batch |-> batch, copies |-> shipment, run |-> NoRun]
  <2>2. job'[d] = k /\ UNCHANGED <<shipment, ingested>>
    BY <2>1 DEF Begin, TypeOK
  <2>3. ASSUME kind = "webhook", NEW s \in todo
        PROVE  CopyOK(shipment', ingested', s, shipment[s])
    BY <2>1, <2>2, <2>3, KnownFile DEF CopyOK, Tracked, FilesInv
  <2>4. todo \subseteq Bound(shipment')
    BY <2>2 DEF Bound, Known
  <2>5. JobOK(shipment', ingested', k)
    BY <2>3, <2>4 DEF JobOK
  <2>6. QED
    BY <2>2, <2>5
<1>4. ASSUME NEW s \in Shipments, VisitShipment(d, s) PROVE JobOK(shipment', ingested', job'[d])
  <2>1. job[d] # NoJob /\ job[d] \in Jobs /\ JobOK(shipment, ingested, job[d]) /\ s \in Bound(shipment)
    BY <1>4, JobType DEF VisitShipment, JobInv, JobOK
  <2>2. CASE Skip(d, s)
    <3>1. job'[d] = [job[d] EXCEPT !.todo = @ \ {s}]
      BY <2>2 DEF Skip, TypeOK
    <3>2. QED
      BY <1>0, <2>1, <3>1, JobStays DEF Jobs
  <2>3. CASE ~Skip(d, s)
    <3>1. PICK f \in ShipmentFiles, batch \in Seq(Events) :
            /\ Start(d, s, f, batch)
            /\ f.number = shipment[s].number
            /\ batch # << >> => f.number = "parcel"
            /\ Backed(ingested, s, f) \/ f = shipment[s]
      BY <1>4, <2>3, VisitJob
    <3> DEFINE run == [of |-> s, copy |-> f, batch |-> batch, seen |-> ExistingEvents(s),
                       status |-> f.status, time |-> f.last]
               k == [job[d] EXCEPT !.todo = @ \ {s}, !.run = run]
    <3>2. job'[d] = k
      BY <2>1, <3>1, StartJob
    <3>3. Backed(ingested, s, f)
      BY <2>1, <3>1 DEF FilesInv, Bound, Known
    <3>4. run.of = s /\ run.copy = f /\ run.batch = batch /\ run.status = f.status /\ run.time = f.last
      OBVIOUS
    <3>5. f.last \in Nat
      BY DEF ShipmentFiles
    <3>8. k.todo \subseteq job[d].todo /\ k.kind = job[d].kind /\ k.copies = job[d].copies /\ k.run = run
      BY <2>1 DEF Jobs
    <3> HIDE DEF run
    <3>6. RunOK(shipment, ingested, run)
      BY <2>1, <3>1, <3>3, <3>4, <3>5 DEF RunOK
    <3>7. RunOK(shipment', ingested', run)
      BY <1>0, <3>6, RunStays
    <3> HIDE DEF k
    <3>9. QED
      BY <1>0, <2>1, <3>2, <3>7, <3>8, JobStays
  <2>4. QED
    BY <2>2, <2>3
<1>5. ASSUME NEW s \in Shipments, ProviderFails(d, s) PROVE JobOK(shipment', ingested', job'[d])
  <2>1. job[d] # NoJob /\ job[d] \in Jobs /\ JobOK(shipment, ingested, job[d])
    BY <1>5, JobType DEF ProviderFails, JobInv
  <2>2. job'[d] = [job[d] EXCEPT !.todo = @ \ {s}]
    BY <1>5 DEF ProviderFails, Skip, TypeOK
  <2>3. QED
    BY <1>0, <2>1, <2>2, JobStays DEF Jobs
<1>6. CASE StoreEvent(d)
  <2> DEFINE run == job[d].run
             e == Head(run.batch)
             new == e \notin run.seen
             newer == new /\ e.time > run.time
             after == [run EXCEPT !.batch = Tail(run.batch), !.seen = @ \cup {e},
                         !.status = IF newer THEN e.status ELSE @,
                         !.time = IF newer THEN e.time ELSE @]
             k == [job[d] EXCEPT !.run = after]
  <2>1. /\ job[d] \in Jobs /\ run \in Runs /\ e \in Events /\ after \in Runs
        /\ job' = [job EXCEPT ![d] = k]
        /\ ingested' = IF new THEN [ingested EXCEPT ![run.of][e] = @ + 1] ELSE ingested
        /\ UNCHANGED <<feed, shipment, raced, calls>>
    BY <1>6, StoreJob
  <2>2. JobOK(shipment, ingested, job[d]) /\ RunOK(shipment, ingested, run) /\ run.batch # << >>
    BY <1>6 DEF StoreEvent, JobInv, JobOK
  <2>3. after.of = run.of /\ after.copy = run.copy
    BY <2>1 DEF Runs
  <2>4. IF newer THEN after.status = e.status /\ after.time = e.time
        ELSE after.status = run.status /\ after.time = run.time
    BY <2>1 DEF Runs
  <2>7. run.time \in Nat /\ run.copy.last \in Nat /\ e.time \in Nat /\ run.of \in Shipments
    BY <2>1, EventRecords DEF Runs, ShipmentFiles
  <2>8. job'[d] = k /\ k.todo = job[d].todo /\ k.kind = job[d].kind /\ k.copies = job[d].copies
          /\ k.run = after
    BY <2>1 DEF TypeOK, Jobs
  <2> HIDE DEF after, k, run, e, new
  <2>5. RunOK(shipment', ingested', run)
    BY <1>0, <2>2, RunStays
  <2>6. new => ingested'[run.of][e] > 0
    <3>1. PICK r \in Shipments, x \in Events : r = run.of /\ x = e
      BY <2>1, <2>7
    <3>2. new => ingested' = [ingested EXCEPT ![r][x] = @ + 1]
      BY <2>1, <3>1
    <3>3. QED
      BY <3>1, <3>2, OneMore
  <2>9. RunOK(shipment', ingested', after)
    <3>1. CASE newer
      <4>1. FromEvent(ingested', run.of, run.copy, e.status, e.time)
        BY <2>1, <2>2, <2>6, <3>1 DEF FromEvent, RunOK
      <4>2. QED
        BY <2>2, <2>3, <2>4, <2>5, <2>7, <3>1, <4>1 DEF RunOK
    <3>2. CASE ~newer
      BY <2>2, <2>3, <2>4, <2>5, <3>2 DEF RunOK
    <3>3. QED
      BY <3>1, <3>2
  <2>10. QED
    BY <1>0, <2>2, <2>8, <2>9, JobStays
<1>7. CASE UpdateShipment(d)
  <2>1. job[d] # NoJob /\ job[d] \in Jobs /\ JobOK(shipment, ingested, job[d])
    BY <1>7, JobType DEF UpdateShipment, JobInv
  <2>2. job'[d] = [job[d] EXCEPT !.run = NoRun]
    BY <1>7 DEF UpdateShipment, TypeOK
  <2>3. QED
    BY <1>0, <2>1, <2>2, JobStays DEF Jobs
<1>8. QED
  BY <1>1, <1>3, <1>4, <1>5, <1>6, <1>7, WhoMoves

(* Every file has a status that is on disk.                                *)
LEMMA FilesStep == TypeOK /\ FilesInv /\ JobInv /\ [Next]_vars => FilesInv'
<1> SUFFICES ASSUME TypeOK, FilesInv, JobInv, [Next]_vars, NEW t \in Known'
             PROVE  Backed(ingested', t, shipment'[t])
  BY DEF FilesInv
<1>0. Grows /\ t \in Shipments /\ shipment'[t] # NoShipment
  BY StepGrows DEF Known
<1>1. CASE shipment'[t] = shipment[t]
  <2>1. Backed(ingested, t, shipment[t])
    BY <1>0, <1>1 DEF FilesInv, Known
  <2>2. QED
    BY <1>0, <1>1, <2>1, BackedStays
<1>2. ASSUME NEW c \in Callers, NEW s \in Shipments, Ingests(c, s)
      PROVE  Backed(ingested', t, shipment'[t])
  <2>1. PICK number \in {"parcel", "other"} :
          shipment' = [shipment EXCEPT ![s] = NewShipment(number)]
    BY <1>2 DEF Ingests, IngestTrackingNumber, IngestFromImMessage
  <2>2. CASE t = s
    BY <2>1, <2>2 DEF Backed, NewShipment, TypeOK
  <2>3. QED
    BY <1>0, <1>1, <2>1, <2>2 DEF TypeOK
<1>3. ASSUME NEW c \in Callers, UpdateShipment(c), shipment'[t] # shipment[t]
      PROVE  Backed(ingested', t, shipment'[t])
  <2> DEFINE run == job[c].run
             file == [run.copy EXCEPT !.status = run.status, !.last = run.time]
  <2>1. job[c] \in Jobs /\ run \in Runs /\ RunOK(shipment, ingested, run)
    BY <1>3, JobType DEF UpdateShipment, JobInv, JobOK
  <2>2. run.status # run.copy.status /\ shipment' = [shipment EXCEPT ![run.of] = file] /\ UNCHANGED ingested
    BY <1>3 DEF UpdateShipment
  <2>3. t = run.of /\ shipment'[t] = file
    BY <1>0, <1>3, <2>1, <2>2 DEF TypeOK, Runs
  <2>4. FromEvent(ingested, t, run.copy, run.status, run.time)
    BY <2>1, <2>2, <2>3 DEF RunOK
  <2>5. file.number = run.copy.number /\ file.status = run.status /\ file.last = run.time
    BY <2>1 DEF Runs, ShipmentFiles
  <2> HIDE DEF run, file
  <2>6. QED
    BY <2>2, <2>3, <2>4, <2>5 DEF Backed, FromEvent
<1>4. QED
  BY <1>1, <1>2, <1>3, NextSteps
  DEF Crash, Report, Opens, SyncTracking, SyncAllActive, Webhook, Begin, VisitShipment,
      ProviderFails, StoreEvent, Answer, vars

(* No two requests get to work on a shipment that is not raced then, and   *)
(* the one there is has seen every event file of it.                       *)
LEMMA SeenStep == TypeOK /\ JobInv /\ SeenInv /\ [Next]_vars => SeenInv'
<1> DEFINE Works(j, s) == j # NoJob /\ j.run # NoRun /\ j.run.of = s
<1> SUFFICES ASSUME TypeOK, JobInv, SeenInv, [Next]_vars, NEW s \in Shipments, s \notin raced',
                    NEW c \in Callers, Works(job'[c], s)
             PROVE  /\ {e \in Events : ingested'[s][e] > 0} \subseteq job'[c].run.seen
                    /\ \A d \in Callers : Works(job'[d], s) => d = c
  BY DEF SeenInv, Working, ExistingEvents
<1>1. s \notin raced
  BY RacedGrows
<1>2. \A d \in Callers : Works(job[d], s) =>
        /\ {e \in Events : ingested[s][e] > 0} \subseteq job[d].run.seen
        /\ \A a \in Callers : Works(job[a], s) => a = d
  BY <1>1 DEF SeenInv, Working, ExistingEvents
<1>3. ASSUME NEW d \in Callers, Works(job'[d], s) PROVE Works(job[d], s) \/ VisitShipment(d, s)
  <2>1. CASE Opens(d)
    BY <1>3, <2>1 DEF Opens, SyncTracking, SyncAllActive, Webhook, Begin, TypeOK
  <2>2. CASE StoreEvent(d)
    <3>1. job[d] # NoJob /\ job[d].run # NoRun
      BY <2>2 DEF StoreEvent
    <3>2. job[d] \in Jobs /\ job[d].run \in Runs
      BY <3>1, JobType
    <3>3. job'[d].run.of = job[d].run.of
      BY <2>2, <3>2 DEF StoreEvent, TypeOK, Jobs, Runs
    <3>4. QED
      BY <1>3, <3>1, <3>3
  <2>3. CASE UpdateShipment(d)
    <3>1. job[d] \in Jobs
      BY <2>3, JobType DEF UpdateShipment
    <3>2. QED
      BY <1>3, <2>3, <3>1 DEF UpdateShipment, TypeOK, Jobs
  <2>4. ASSUME NEW t \in Shipments, VisitShipment(d, t)
        PROVE  Works(job[d], s) \/ VisitShipment(d, s)
    <3>1. job[d] # NoJob /\ job[d] \in Jobs
      BY <2>4, JobType DEF VisitShipment
    <3>2. CASE Skip(d, t)
      BY <1>3, <3>1, <3>2 DEF Skip, TypeOK, Jobs
    <3>3. CASE ~Skip(d, t)
      <4>1. PICK f \in ShipmentFiles, batch \in Seq(Events) : Start(d, t, f, batch)
        BY <2>4, <3>3, VisitJob
      <4>2. job'[d].run.of = t
        BY <3>1, <4>1, StartSeen
      <4>3. QED
        BY <1>3, <2>4, <4>2
    <3>4. QED
      BY <3>2, <3>3
  <2>5. ASSUME NEW t \in Shipments, ProviderFails(d, t) PROVE Works(job[d], s)
    <3>1. job[d] # NoJob /\ job[d] \in Jobs
      BY <2>5, JobType DEF ProviderFails
    <3>2. QED
      BY <1>3, <2>5, <3>1 DEF ProviderFails, Skip, TypeOK, Jobs
  <2>6. QED
    BY <1>3, <2>1, <2>2, <2>3, <2>4, <2>5, WhoMoves
<1>4. CASE VisitShipment(c, s)
  <2>1. \A d \in Callers : d # c => job'[d] = job[d] /\ ~Works(job[d], s)
    BY <1>4 DEF VisitShipment, Working, Skip, Start, TypeOK
  <2>2. job[c] # NoJob /\ job[c] \in Jobs /\ job[c].run = NoRun /\ UNCHANGED ingested
    BY <1>4, JobType DEF VisitShipment
  <2>3. ~Skip(c, s)
    BY <2>2 DEF Skip, TypeOK, Jobs
  <2>4. PICK f \in ShipmentFiles, batch \in Seq(Events) : Start(c, s, f, batch)
    BY <1>4, <2>3, VisitJob
  <2>5. job'[c].run.seen = ExistingEvents(s)
    BY <2>2, <2>4, StartSeen
  <2>6. QED
    BY <2>1, <2>2, <2>5 DEF ExistingEvents
<1>5. CASE ~VisitShipment(c, s)
  <2>1. Works(job[c], s)
    BY <1>3, <1>5
  <2>2. ASSUME NEW d \in Callers, Works(job'[d], s) PROVE d = c
    <3>1. CASE Works(job[d], s)
      BY <1>2, <2>1, <3>1
    <3>2. CASE VisitShipment(d, s) /\ d # c
      BY <2>1, <3>2 DEF VisitShipment, Working
    <3>3. QED
      BY <1>3, <1>5, <2>2, <3>1, <3>2
  <2>3. {e \in Events : ingested'[s][e] > 0} \subseteq job'[c].run.seen
    <3>1. CASE job'[c] = job[c] /\ UNCHANGED ingested
      BY <1>2, <2>1, <3>1
    <3>2. ASSUME NEW a \in Callers \ {c}, StoreEvent(a), job'[c] = job[c]
          PROVE  {e \in Events : ingested'[s][e] > 0} \subseteq job'[c].run.seen
      <4>1. job[a].run.of # s
        BY <1>2, <2>1, <3>2 DEF StoreEvent
      <4>2. PICK r \in Shipments, x \in Events :
              r # s /\ (ingested' = [ingested EXCEPT ![r][x] = @ + 1] \/ UNCHANGED ingested)
        BY <3>2, <4>1, StoreOne
      <4>3. \A e \in Events : ingested'[s][e] = ingested[s][e]
        BY <4>2, OneMore
      <4>4. QED
        BY <1>2, <2>1, <3>2, <4>3
    <3>3. CASE StoreEvent(c)
      <4>1. PICK x \in Events : job'[c].run.seen = job[c].run.seen \cup {x}
              /\ (ingested' = [ingested EXCEPT ![s][x] = @ + 1] \/ UNCHANGED ingested)
        BY <2>1, <3>3, StoreOne
      <4>2. \A e \in Events : e # x => ingested'[s][e] = ingested[s][e]
        BY <4>1, OneMore
      <4>3. QED
        BY <1>2, <2>1, <4>1, <4>2
    <3>4. ~Opens(c)
      BY <2>1 DEF Opens, SyncTracking, SyncAllActive, Webhook, Begin, Call
    <3>5. ~UpdateShipment(c)
      <4>1. job[c] \in Jobs
        BY <2>1, JobType
      <4>2. QED
        BY <4>1 DEF UpdateShipment, TypeOK, Jobs
    <3>6. \A t \in Shipments : ~VisitShipment(c, t) /\ ~ProviderFails(c, t)
      BY <2>1 DEF VisitShipment, ProviderFails
    <3>7. QED
      BY <3>1, <3>2, <3>3, <3>4, <3>5, <3>6, WhoMoves
  <2>4. QED
    BY <2>2, <2>3
<1>6. QED
  BY <1>4, <1>5

(* A request that has seen every event file stores no event twice.         *)
LEMMA OnceStep == TypeOK /\ SeenInv /\ IngestedOnce /\ [Next]_vars => IngestedOnce'
<1> SUFFICES ASSUME TypeOK, SeenInv, IngestedOnce, [Next]_vars, NEW s \in Shipments, s \notin raced',
                    NEW e \in Events
             PROVE  ingested'[s][e] <= 1
  BY DEF IngestedOnce
<1>1. s \notin raced
  BY RacedGrows
<1>2. CASE UNCHANGED ingested
  BY <1>1, <1>2 DEF IngestedOnce
<1>3. ASSUME NEW c \in Callers, StoreEvent(c) PROVE ingested'[s][e] <= 1
  <2>1. job[c] # NoJob /\ job[c].run # NoRun
    BY <1>3 DEF StoreEvent
  <2>2. PICK r \in Shipments, x \in Events :
          /\ r = job[c].run.of
          /\ \/ x \notin job[c].run.seen /\ ingested' = [ingested EXCEPT ![r][x] = @ + 1]
             \/ UNCHANGED ingested
          /\ job'[c].run.seen = job[c].run.seen \cup {x}
          /\ UNCHANGED shipment
    BY <1>3, StoreOne
  <2>3. CASE r = s /\ x = e /\ ingested' = [ingested EXCEPT ![r][x] = @ + 1] /\ x \notin job[c].run.seen
    <3>1. ~(ingested[s][e] > 0)
      BY <1>1, <2>1, <2>2, <2>3 DEF SeenInv, Working, ExistingEvents
    <3>2. QED
      <4>1. ingested' = [ingested EXCEPT ![s][e] = @ + 1]
        BY <2>3
      <4>2. ingested'[s][e] = ingested[s][e] + 1 /\ ingested[s][e] \in Nat
        BY <4>1, OneMore
      <4>3. QED
        BY <3>1, <4>2
  <2>4. CASE (r # s \/ x # e) /\ ingested' = [ingested EXCEPT ![r][x] = @ + 1]
    BY <1>1, <2>4, OneMore DEF IngestedOnce
  <2>5. QED
    BY <1>2, <2>2, <2>3, <2>4
<1>4. QED
  BY <1>2, <1>3, NextSteps
  DEF Crash, Report, Ingests, IngestTrackingNumber, IngestFromImMessage, Opens, SyncTracking,
      SyncAllActive, Webhook, Begin, VisitShipment, ProviderFails, UpdateShipment, Answer, vars

-----------------------------------------------------------------------------
(* The invariant and what follows from it.                                 *)

(* The invariant holds at first.                                           *)
LEMMA InvInit == Init => IInv
<1> SUFFICES ASSUME Init PROVE IInv
  OBVIOUS
<1>1. FilesInv /\ JobInv /\ SeenInv /\ IngestedOnce
  BY DEF Init, FilesInv, JobInv, SeenInv, IngestedOnce, Known, Working
<1>2. QED
  BY <1>1, TypeInit DEF IInv

(* Every step keeps it.                                                    *)
LEMMA InvStep == IInv /\ [Next]_vars => IInv'
  BY TypeStep, FilesStep, JobStep, SeenStep, OnceStep DEF IInv

(* The invariant holds in every reachable state.                           *)
THEOREM Invariance == Spec => []IInv
  BY InvInit, InvStep, PTL DEF Spec

(* The variables keep their types (shipment.json, the event files and the  *)
(* locals of _normalize_and_store_events).                                 *)
THEOREM TypeCorrect == Spec => []TypeOK
<1>1. IInv => TypeOK
  BY DEF IInv
<1>2. QED
  BY <1>1, Invariance, PTL

(* A shipment's status and time are those of one event that is on disk,    *)
(* for any number of overlapping requests, crashes and late or repeated    *)
(* reports (_normalize_and_store_events writes the event files first).     *)
THEOREM StatusesHaveEvents == Spec => []StatusHasEvent
<1>1. IInv => StatusHasEvent
  BY DEF IInv, FilesInv, StatusHasEvent, Backed, FromEvent, Tracked
<1>2. QED
  BY <1>1, Invariance, PTL

(* One file of an event counts as new, however often it is reported, of a  *)
(* shipment that no two requests worked on at once (existing_hashes).      *)
THEOREM EventsIngestedOnce == Spec => []IngestedOnce
<1>1. IInv => IngestedOnce
  BY DEF IInv
<1>2. QED
  BY <1>1, Invariance, PTL

(* A writer whose copy is what the file holds does not move the shipment   *)
(* back in time (latest_time starts from the copy and only grows).         *)
LEMMA UpdateAdvances ==
  IInv /\ [Next]_vars =>
    \A s \in Known : shipment'[s].last < shipment[s].last =>
      \E c \in Callers : Working(c, s) /\ job[c].run.copy # shipment[s]
<1> SUFFICES ASSUME IInv, [Next]_vars, NEW s \in Known, shipment'[s].last < shipment[s].last
             PROVE  \E c \in Callers : Working(c, s) /\ job[c].run.copy # shipment[s]
  OBVIOUS
<1>1. s \in Shipments /\ shipment[s] \in ShipmentFiles /\ shipment[s] # NoShipment /\ TypeOK
  BY KnownFile DEF IInv, Known
<1>2. shipment'[s] # shipment[s]
  BY <1>1 DEF ShipmentFiles
<1>3. ASSUME NEW c \in Callers, NEW t \in Shipments, Ingests(c, t) PROVE FALSE
  BY <1>1, <1>2, <1>3 DEF Ingests, IngestTrackingNumber, IngestFromImMessage, TypeOK
<1>4. ASSUME NEW c \in Callers, UpdateShipment(c)
      PROVE  Working(c, s) /\ job[c].run.copy # shipment[s]
  <2> DEFINE run == job[c].run
             file == [run.copy EXCEPT !.status = run.status, !.last = run.time]
  <2>1. run \in Runs /\ RunOK(shipment, ingested, run) /\ job[c] # NoJob /\ run # NoRun
    BY <1>1, <1>4, JobType DEF UpdateShipment, JobInv, JobOK, IInv
  <2>2. shipment' = [shipment EXCEPT ![run.of] = file]
    BY <1>2, <1>4 DEF UpdateShipment
  <2>3. run.of = s /\ shipment'[s] = file
    BY <1>1, <1>2, <2>1, <2>2 DEF TypeOK, Runs
  <2>4. file.last = run.time /\ run.time \in Nat /\ run.copy.last \in Nat
    BY <2>1 DEF Runs, ShipmentFiles
  <2>5. run.time >= run.copy.last
    BY <2>1 DEF RunOK
  <2> HIDE DEF file
  <2>6. run.copy # shipment[s]
    BY <1>1, <2>3, <2>4, <2>5 DEF ShipmentFiles
  <2>7. QED
    BY <2>1, <2>3, <2>6 DEF Working
<1>5. QED
  BY <1>2, <1>3, <1>4, NextSteps
  DEF Crash, Report, Opens, SyncTracking, SyncAllActive, Webhook, Begin, VisitShipment,
      ProviderFails, StoreEvent, Answer, vars

(* A late report does not move a shipment back in time.                    *)
THEOREM LastEventsAdvance == Spec => LastEventAdvances
  BY UpdateAdvances, Invariance, PTL DEF Spec, LastEventAdvances
=============================================================================
