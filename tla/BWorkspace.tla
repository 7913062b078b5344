---------------------------- MODULE BWorkspace ----------------------------
(***************************************************************************)
(* The buyer's workspace, one JSON file per project, and what each request *)
(* makes of the object it loaded.  A request loads the whole file, changes *)
(* its object and writes the whole file back, without a lock: loading and  *)
(* saving are two steps, and a save undoes what others saved in between.   *)
(*                                                                         *)
(* A message or a requirement is the set of the fields it gives.           *)
(***************************************************************************)
EXTENDS Naturals, FiniteSets

CONSTANTS
  Callers,      \* worker threads that serve requests
  BIds,         \* B workspace ids; a project (rfq_id) is its workspace
  Suppliers,
  Fields,       \* requirement fields the replies ask for
  PlainFields,  \* those that structure_requirement finds in a text
  MaxMessages,  \* bound: messages in a supplier's workspace
  NoFile, NoReq, NoInquiry, NoReport, NoWork

ASSUME PlainAreFields == PlainFields \subseteq Fields
ASSUME MessagesBound == MaxMessages \in Nat

VARIABLE buyer  \* the B workspace files

BStatuses == {"created", "requirement_structured", "inquiry_drafted",
              "collecting_responses", "feasibility_complete", "supplier_selected"}

(* A supplier's response: the packet of its messages that was pushed, or   *)
(* what a rollup of its upstream options said.                             *)
Responses ==
  [packet : 0..MaxMessages,   \* messages the packet is built of; 0: none
   rollup : SUBSET BOOLEAN]   \* can_accept_order of the rollup, if it is one's

NoResponse == [packet |-> 0, rollup |-> {}]
OfPacket(messages) == [packet |-> messages, rollup |-> {}]
OfRollup(accepts) == [packet |-> 0, rollup |-> {accepts}]

BFiles ==
  [status : BStatuses,
   raw : SUBSET Fields,                          \* raw_requirement
   req : (SUBSET Fields) \cup {NoReq},           \* buyer_requirement
   inquiry : (SUBSET Fields) \cup {NoInquiry},   \* supplier_inquiry_draft
   responses : [Suppliers -> Responses],         \* supplier_responses
   report : (SUBSET Suppliers) \cup {NoReport}]  \* suppliers with a delivery path

NewBWorkspace(message) ==
  [status |-> "created", raw |-> message, req |-> NoReq, inquiry |-> NoInquiry,
   responses |-> [s \in Suppliers |-> NoResponse], report |-> NoReport]

Responded(w) == {s \in Suppliers : w.responses[s] # NoResponse}

-----------------------------------------------------------------------------
(* What a request makes of the workspace it loaded.                        *)

(* structure_requirement: the requirement is built anew from the raw text. *)
Structured(w) == [w EXCEPT !.req = w.raw \cap PlainFields, !.status = "requirement_structured"]

(* A first chat message: the extended parsers add what they find.          *)
StructuredInChat(w) == [w EXCEPT !.req = w.raw, !.status = "requirement_structured"]

(* Mutant: a follow-up message replaces the requirement.                   *)
FollowedUpAlone(w, message) == [w EXCEPT !.req = message, !.status = "requirement_structured"]

(* A later chat message fills in what it gives, whatever the status was.   *)
FollowedUp(w, message) ==
  [w EXCEPT !.req = IF w.req = NoReq THEN NoReq ELSE w.req \cup message,
            !.status = "requirement_structured"]

Inquired(w, text) == [w EXCEPT !.inquiry = text, !.status = "inquiry_drafted"]

(* intake_supplier_response: a supplier's response replaces its last one.  *)
TakenIn(w, s, response) ==
  [w EXCEPT !.responses[s] = response,
            !.status = IF w.status \in {"created", "requirement_structured", "inquiry_drafted"}
                       THEN "collecting_responses" ELSE w.status]

(* run_feasibility_simulation: paths for those who responded and can make  *)
(* it; none at all is a report too.                                        *)
Simulated(w, able) ==
  [w EXCEPT !.report = Responded(w) \cap able, !.status = "feasibility_complete"]

(* create_order_execution_from_selected_path, of a workspace loaded before *)
(* the order was made.                                                     *)
Selected(w) == [w EXCEPT !.status = "supplier_selected"]

-----------------------------------------------------------------------------
(* Loading a file of either kind, and saving it: the save makes stale what *)
(* others hold of the same file.                                           *)
Loaded(cause, id, new) == [cause |-> cause, id |-> id, write |-> new, stale |-> FALSE]

Holds(w, id) == w # NoWork /\ w.id = id /\ "write" \in DOMAIN w

AfterSave(work, c, next) ==
  [d \in DOMAIN work |->
     CASE d = c -> next
       [] d # c /\ Holds(work[d], work[c].id) -> [work[d] EXCEPT !.stale = TRUE]
       [] OTHER -> work[d]]
=============================================================================
