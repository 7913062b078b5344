----------------------------- MODULE Logistics -----------------------------
(***************************************************************************)
(* Shipment tracking of one project: shipments bound to tracking numbers,  *)
(* the tracking events a logistics provider reports of them by answering a *)
(* sync or by webhook, and the status that is derived from the events.     *)
(*                                                                         *)
(* A shipment and an event are JSON files.  _normalize_and_store_events    *)
(* works on a copy of the shipment read before; it writes one event file   *)
(* after the other, then the shipment, without a lock.                     *)
(***************************************************************************)
EXTENDS Naturals, Sequences, FiniteSets

CONSTANTS
  Callers,    \* worker threads that serve requests
  Shipments,  \* shipment ids
  Events,     \* what the provider may report: [id, time, status]
  Batches,    \* the sequences of events one webhook may carry
  NoShipment, NoJob, NoRun,
  MaxCalls    \* bound: requests in a behaviour

Statuses == {"label_created", "picked_up", "in_transit", "customs",
             "out_for_delivery", "delivered", "exception", "unknown"}

(* An event's id stands for its hash: of the provider's id of the event if *)
(* there is one, else of its content.  Time 0 is an event without a time.  *)
ASSUME EventRecords == \A e \in Events : e.time \in Nat /\ e.status \in Statuses
ASSUME BatchesOfEvents == Batches \subseteq Seq(Events)
ASSUME CallsBound == MaxCalls \in Nat

VARIABLES
  feed,      \* the provider's events, in the order it reports them
  shipment,  \* the shipment files
  ingested,  \* event files that are not marked as duplicates, by event
  job,       \* the request of each caller
  raced,     \* shipments two requests worked on at the same time
  calls      \* requests begun

vars == <<feed, shipment, ingested, job, raced, calls>>

(* The tracking number, of the one parcel there is or some other string,   *)
(* current_status and last_event_at.                                       *)
ShipmentFiles == [number : {"parcel", "other"}, status : Statuses, last : Nat]

NewShipment(number) == [number |-> number, status |-> "label_created", last |-> 0]

Runs ==
  [of : Shipments, copy : ShipmentFiles,
   batch : Seq(Events),       \* raw events not stored yet
   seen : SUBSET Events,      \* existing_hashes
   status : Statuses, time : Nat]  \* latest_status, latest_time

Jobs ==
  [kind : {"sync", "all", "webhook"},
   todo : SUBSET Shipments,                                  \* to visit
   batch : Seq(Events),                                      \* of a webhook
   copies : [Shipments -> ShipmentFiles \cup {NoShipment}],  \* that a webhook read
   run : Runs \cup {NoRun}]

ASSUME Nulls == NoShipment \notin ShipmentFiles /\ NoRun \notin Runs /\ NoJob \notin Jobs

TypeOK ==
  /\ feed \in Seq(Events)
  /\ shipment \in [Shipments -> ShipmentFiles \cup {NoShipment}]
  /\ ingested \in [Shipments -> [Events -> Nat]]
  /\ job \in [Callers -> Jobs \cup {NoJob}]
  /\ raced \subseteq Shipments
  /\ calls \in 0..MaxCalls

Init ==
  /\ feed = << >>
  /\ shipment = [s \in Shipments |-> NoShipment]
  /\ ingested = [s \in Shipments |-> [e \in Events |-> 0]]
  /\ job = [c \in Callers |-> NoJob]
  /\ raced = {}
  /\ calls = 0

Known == {s \in Shipments : shipment[s] # NoShipment}
Tracked == {s \in Known : shipment[s].number = "parcel"}

(* The carrier moves the parcel; a report may be late, so that the feed is *)
(* not in the order of the events' times.                                  *)
Report(e) ==
  /\ \A i \in DOMAIN feed : feed[i] # e
  /\ feed' = Append(feed, e)
  /\ UNCHANGED <<shipment, ingested, job, raced, calls>>

-----------------------------------------------------------------------------
(* Requests.                                                               *)
Call(c) == job[c] = NoJob /\ calls < MaxCalls /\ calls' = calls + 1

(* ingest_tracking_number: a tracking number that is bound already is      *)
(* bound to another shipment.                                              *)
IngestTrackingNumber(c, s) ==
  /\ Call(c)
  /\ shipment[s] = NoShipment
  /\ shipment' = [shipment EXCEPT ![s] = NewShipment("parcel")]
  /\ UNCHANGED <<feed, ingested, job, raced>>

(* A chat message, by the strings in it that a pattern of                  *)
(* extract_logistics_info_from_im matches: the parcel's number, some other *)
(* number of ten digits, a word of ten letters.  Patterns of numbers come  *)
(* first, and of several matches the longest is taken.                     *)
ImMessages == SUBSET {"parcel", "digits", "word"}

ReadAs(message) ==
  IF message \cap {"parcel", "digits"} # {} THEN message \ {"word"} ELSE message

(* ingest_logistics_from_im_message; a message without a match is refused. *)
IngestFromImMessage(c, s, message) ==
  /\ Call(c)
  /\ shipment[s] = NoShipment
  /\ \E read \in ReadAs(message) :
       shipment' = [shipment EXCEPT ![s] = NewShipment(IF read = "parcel" THEN "parcel" ELSE "other")]
  /\ UNCHANGED <<feed, ingested, job, raced>>

Begin(c, kind, todo, batch) ==
  /\ Call(c)
  /\ job' = [job EXCEPT ![c] =
               [kind |-> kind, todo |-> todo, batch |-> batch, copies |-> shipment, run |-> NoRun]]
  /\ UNCHANGED <<feed, shipment, ingested, raced>>

SyncTracking(c, s) == s \in Known /\ Begin(c, "sync", {s}, << >>)

SyncAllActive(c) == Begin(c, "all", Known, << >>)

(* handle_logistics_webhook: events the provider has reported, again and   *)
(* in any order, for every shipment of the tracking number.                *)
Webhook(c, batch) ==
  /\ \A i \in DOMAIN batch : \E j \in DOMAIN feed : feed[j] = batch[i]
  /\ Begin(c, "webhook", Tracked, batch)

-----------------------------------------------------------------------------
(* _normalize_and_store_events, for one shipment after the other.          *)
ExistingEvents(s) == {e \in Events : ingested[s][e] > 0}

Start(c, s, copy, batch) ==
  job' = [job EXCEPT ![c] =
    [job[c] EXCEPT !.todo = @ \ {s},
       !.run = [of |-> s, copy |-> copy, batch |-> batch,
                seen |-> ExistingEvents(s),
                status |-> copy.status, time |-> copy.last]]]

Working(c, s) == job[c] # NoJob /\ job[c].run # NoRun /\ job[c].run.of = s

Skip(c, s) == job' = [job EXCEPT ![c].todo = @ \ {s}]

(* A sync reads the shipment and asks the provider; sync-active passes     *)
(* over a shipment at its end.  A webhook works on the copies it made.     *)
VisitShipment(c, s) ==
  /\ job[c] # NoJob /\ job[c].run = NoRun /\ s \in job[c].todo
  /\ IF job[c].kind = "webhook" THEN Start(c, s, job[c].copies[s], job[c].batch)
     ELSE IF job[c].kind = "all" /\ shipment[s].status \in {"delivered", "exception"} THEN Skip(c, s)
     ELSE Start(c, s, shipment[s], IF s \in Tracked THEN feed ELSE << >>)
  /\ raced' = IF \E d \in Callers \ {c} : Working(d, s) THEN raced \cup {s} ELSE raced
  /\ UNCHANGED <<feed, shipment, ingested, calls>>

(* The provider raises: sync answers with an error, sync-active counts it. *)
ProviderFails(c, s) ==
  /\ job[c] # NoJob /\ job[c].run = NoRun /\ s \in job[c].todo /\ job[c].kind # "webhook"
  /\ Skip(c, s)
  /\ UNCHANGED <<feed, shipment, ingested, raced, calls>>

(* Mutant: an event is compared with the shipment as it was, not with the  *)
(* events of this turn.                                                    *)
StoreLastEvent(c) ==
  /\ job[c] # NoJob /\ job[c].run # NoRun /\ job[c].run.batch # << >>
  /\ LET run == job[c].run
         e == Head(run.batch)
         new == e \notin run.seen
     IN  /\ ingested' = IF new THEN [ingested EXCEPT ![run.of][e] = @ + 1] ELSE ingested
         /\ job' = [job EXCEPT ![c].run =
                      [run EXCEPT !.batch = Tail(run.batch), !.seen = @ \cup {e},
                         !.status = IF new THEN e.status ELSE @,
                         !.time = IF new THEN e.time ELSE @]]
  /\ UNCHANGED <<feed, shipment, raced, calls>>

(* Mutant: the hash is not added to those that are known.                  *)
StoreEventAgain(c) ==
  /\ job[c] # NoJob /\ job[c].run # NoRun /\ job[c].run.batch # << >>
  /\ LET run == job[c].run
         e == Head(run.batch)
         new == e \notin run.seen
         newer == new /\ e.time > run.time
     IN  /\ ingested' = IF new THEN [ingested EXCEPT ![run.of][e] = @ + 1] ELSE ingested
         /\ job' = [job EXCEPT ![c].run =
                      [run EXCEPT !.batch = Tail(run.batch),
                         !.status = IF newer THEN e.status ELSE @,
                         !.time = IF newer THEN e.time ELSE @]]
  /\ UNCHANGED <<feed, shipment, raced, calls>>

(* One turn of the loop: the event is stored, as a duplicate if its hash   *)
(* is known; else it moves the latest status if it is newer.               *)
StoreEvent(c) ==
  /\ job[c] # NoJob /\ job[c].run # NoRun /\ job[c].run.batch # << >>
  /\ LET run == job[c].run
         e == Head(run.batch)
         new == e \notin run.seen
         newer == new /\ e.time > run.time
     IN  /\ ingested' = IF new THEN [ingested EXCEPT ![run.of][e] = @ + 1] ELSE ingested
         /\ job' = [job EXCEPT ![c].run =
                      [run EXCEPT !.batch = Tail(run.batch), !.seen = @ \cup {e},
                         !.status = IF newer THEN e.status ELSE @,
                         !.time = IF newer THEN e.time ELSE @]]
  /\ UNCHANGED <<feed, shipment, raced, calls>>

(* Mutant: the latest time is not kept with the latest status.             *)
UpdateStatusOnly(c) ==
  /\ job[c] # NoJob /\ job[c].run # NoRun /\ job[c].run.batch = << >>
  /\ LET run == job[c].run
     IN  shipment' = [shipment EXCEPT ![run.of] = [run.copy EXCEPT !.status = run.status]]
  /\ job' = [job EXCEPT ![c].run = NoRun]
  /\ UNCHANGED <<feed, ingested, raced, calls>>

(* The shipment is saved only when its status is another.                  *)
UpdateShipment(c) ==
  /\ job[c] # NoJob /\ job[c].run # NoRun /\ job[c].run.batch = << >>
  /\ LET run == job[c].run
     IN  shipment' = IF run.status = run.copy.status THEN shipment
                     ELSE [shipment EXCEPT ![run.of] =
                             [run.copy EXCEPT !.status = run.status, !.last = run.time]]
  /\ job' = [job EXCEPT ![c].run = NoRun]
  /\ UNCHANGED <<feed, ingested, raced, calls>>

Answer(c) ==
  /\ job[c] # NoJob /\ job[c].run = NoRun /\ job[c].todo = {}
  /\ job' = [job EXCEPT ![c] = NoJob]
  /\ UNCHANGED <<feed, shipment, ingested, raced, calls>>

(* The process stops; or one request fails in the middle of its writes.    *)
Crash ==
  /\ \E lost \in SUBSET Callers : job' = [c \in Callers |-> IF c \in lost THEN NoJob ELSE job[c]]
  /\ UNCHANGED <<feed, shipment, ingested, raced, calls>>

Next ==
  \/ \E e \in Events : Report(e)
  \/ \E c \in Callers :
       \/ \E s \in Shipments : \/ IngestTrackingNumber(c, s) \/ SyncTracking(c, s)
                               \/ \E message \in ImMessages : IngestFromImMessage(c, s, message)
                               \/ VisitShipment(c, s) \/ ProviderFails(c, s)
       \/ SyncAllActive(c)
       \/ \E batch \in Batches : Webhook(c, batch)
       \/ StoreEvent(c) \/ UpdateShipment(c) \/ Answer(c)
  \/ Crash

Spec == Init /\ [][Next]_vars

-----------------------------------------------------------------------------
(* A shipment's status and time are those of one event that is on disk,    *)
(* through crashes, overlapping syncs and late or repeated reports: the    *)
(* shipment is written after the events (_normalize_and_store_events).     *)
StatusHasEvent ==
  \A s \in Known :
    shipment[s] = NewShipment(shipment[s].number)
      \/ \E e \in Events : /\ ingested[s][e] > 0 /\ s \in Tracked
                            /\ shipment[s].status = e.status /\ shipment[s].last = e.time

(* However often an event is reported, one file of it counts as new,       *)
(* unless two requests worked on the shipment at once (existing_hashes is  *)
(* read once, at the start).                                               *)
IngestedOnce == \A s \in Shipments \ raced, e \in Events : ingested[s][e] <= 1

(* A late report does not move a shipment back in time: last_event_at      *)
(* decreases only when a writer's copy was not what the file held.         *)
LastEventAdvances ==
  [][\A s \in Known : shipment'[s].last < shipment[s].last =>
       \E c \in Callers : Working(c, s) /\ job[c].run.copy # shipment[s]]_vars
=============================================================================
