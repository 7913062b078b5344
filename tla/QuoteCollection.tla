--------------------------- MODULE QuoteCollection ---------------------------
(***************************************************************************)
(* How a project gets its quotes: the buyer's workspace is structured and  *)
(* an inquiry is drafted, the inquiry is dispatched and makes a workspace  *)
(* for each supplier, the suppliers' messages are collected into response  *)
(* packets, packets are pushed into the buyer's workspace, and delivery    *)
(* paths are computed of them, of which the buyer selects one.  A rollup   *)
(* of upstream options is submitted past all of this.  Composes BWorkspace *)
(* with the suppliers' workspaces (M-side).                                *)
(*                                                                         *)
(* Invitation tokens and their index are left out: no request reads them.  *)
(***************************************************************************)
EXTENDS BWorkspace, SupplierResponses

CONSTANTS
  MIds,           \* M workspace ids
  Stories,        \* what the suppliers may say, each message by message
  Rollups,        \* the stored rollups: whose they are, what they say
  BuyerMessages,  \* what a buyer's message may give: sets of fields
  MaxRequests     \* bound: requests in a behaviour

ASSUME FieldsOfMessages == BuyerMessages \subseteq SUBSET Fields
ASSUME StoriesAreTexts ==
  Stories \subseteq [Suppliers -> [1..MaxMessages -> SupplierTexts]]
ASSUME RollupsOfSuppliers == Rollups \subseteq [supplier : Suppliers, accepts : BOOLEAN]
ASSUME RequestsBound == MaxRequests \in Nat

VARIABLES  \* with buyer
  bound,     \* B workspaces that a chat conversation is bound to
  seller,    \* the M workspace files
  said,      \* each supplier's messages; one that is lost is said again
  work,      \* the request of each caller
  requests   \* requests begun

quotesVars == <<buyer, bound, seller, said, work, requests>>

MFiles ==
  [of : BIds, supplier : Suppliers,
   status : {"inquiry_received", "response_collecting", "response_draft_ready",
             "selected_by_buyer"},
   messages : 0..MaxMessages,   \* raw_supplier_messages
   packet : 0..MaxMessages]     \* messages the response_packet is built of; 0: none

NewMWorkspace(b, s) ==
  [of |-> b, supplier |-> s, status |-> "inquiry_received", messages |-> 0, packet |-> 0]

BCauses == {"structure", "followup", "inquiry", "intake", "simulate"}
MCauses == {"append", "respond", "build", "select"}

Works ==
  [cause : BCauses, id : BIds, write : BFiles, stale : BOOLEAN]
    \cup [cause : MCauses, id : MIds, write : MFiles, stale : BOOLEAN]
    \cup [cause : {"order"}, id : BIds, supplier : Suppliers, write : BFiles, stale : BOOLEAN]
    \cup [cause : {"mark"}, id : BIds, supplier : Suppliers]
    \cup [cause : {"draft"}, id : BIds, text : SUBSET Fields]
    \cup [cause : {"dispatch"}, id : BIds, todo : SUBSET Suppliers]
    \cup [cause : {"packet"}, id : MIds]
    \cup [cause : {"push"}, id : BIds, supplier : Suppliers, packet : 1..MaxMessages]

ASSUME QuotesNulls ==
  /\ NoFile \notin BFiles /\ NoFile \notin MFiles /\ NoWork \notin Works
  /\ \A given \in SUBSET Fields : given # NoReq /\ given # NoInquiry
  /\ \A chosen \in SUBSET Suppliers : chosen # NoReport

QuotesTypeOK ==
  /\ buyer \in [BIds -> BFiles \cup {NoFile}]
  /\ bound \subseteq BIds
  /\ seller \in [MIds -> MFiles \cup {NoFile}]
  /\ said \in Stories
  /\ work \in [Callers -> Works \cup {NoWork}]
  /\ requests \in 0..MaxRequests

QuotesInit ==
  /\ buyer = [b \in BIds |-> NoFile]
  /\ bound = {}
  /\ seller = [m \in MIds |-> NoFile]
  /\ said \in Stories
  /\ work = [c \in Callers |-> NoWork]
  /\ requests = 0

(* A new request: of an endpoint, or of /api/skill/invoke, which routes an *)
(* action or a chat event to the function that does the same.              *)
Request(c) == work[c] = NoWork /\ requests < MaxRequests /\ requests' = requests + 1

Serves(c, causes) == work[c] # NoWork /\ work[c].cause \in causes

-----------------------------------------------------------------------------
(* The buyer's workspace.                                                  *)

CreateBWorkspace(c, b, message) ==
  /\ Request(c)
  /\ buyer[b] = NoFile
  /\ buyer' = [buyer EXCEPT ![b] = NewBWorkspace(message)]
  /\ UNCHANGED <<bound, seller, said, work>>

LoadB(c, b, cause, new) ==
  /\ work' = [work EXCEPT ![c] = Loaded(cause, b, new)]
  /\ UNCHANGED <<buyer, bound, seller, said>>

(* A buyer's first chat message: its id is known only once it is bound.    *)
CreateInChat(c, b, message) ==
  /\ Request(c)
  /\ buyer[b] = NoFile
  /\ buyer' = [buyer EXCEPT ![b] = StructuredInChat(NewBWorkspace(message))]
  /\ bound' = bound \cup {b}
  /\ UNCHANGED <<seller, said, work>>

StructureRequirement(c, b) ==
  /\ Request(c) /\ buyer[b] # NoFile
  /\ LoadB(c, b, "structure", Structured(buyer[b]))

(* A later message in the conversation.                                    *)
FollowUp(c, b, message) ==
  /\ Request(c) /\ b \in bound
  /\ LoadB(c, b, "followup", FollowedUp(buyer[b], message))

(* draft_inquiry: the text is made of one load of the workspace ...        *)
DraftSupplierInquiry(c, b) ==
  /\ Request(c) /\ buyer[b] # NoFile /\ buyer[b].req # NoReq
  /\ work' = [work EXCEPT ![c] = [cause |-> "draft", id |-> b, text |-> buyer[b].req]]
  /\ UNCHANGED <<buyer, bound, seller, said>>

(* ... and put into another.                                               *)
DraftInquiry(c) ==
  /\ Serves(c, {"draft"})
  /\ LoadB(c, work[c].id, "inquiry", Inquired(buyer[work[c].id], work[c].text))
  /\ UNCHANGED requests

(* A response counts when the packet, or the rollup, says that the         *)
(* supplier can make it.                                                   *)
Able(w) ==
  {s \in Responded(w) :
     \/ w.responses[s].rollup = {TRUE}
     \/ /\ w.responses[s].packet > 0
        /\ ResponsePacket(SubSeq(said[s], 1, w.responses[s].packet)).canMake = "yes"}

RunFeasibility(c, b) ==
  /\ Request(c) /\ buyer[b] # NoFile
  /\ LoadB(c, b, "simulate", Simulated(buyer[b], Able(buyer[b])))

(* estimate_lead_time_path asks the GLTG service about one response after  *)
(* the other; if it fails once, GLTGUnavailableError ends the simulation   *)
(* and no path is saved, not even of the responses it answered for.        *)
LeadTimeUnavailable(c) ==
  /\ Serves(c, {"simulate"}) /\ work[c].write.report # {}
  /\ work' = [work EXCEPT ![c] = NoWork]
  /\ UNCHANGED <<buyer, bound, seller, said, requests>>

(* create_order_execution_from_selected_path: the workspace is loaded      *)
(* before the order and its plan are made, and saved after them.           *)
SelectPath(c, b) ==
  /\ Request(c) /\ buyer[b] # NoFile /\ buyer[b].report # NoReport
  /\ \E s \in buyer[b].report :
       work' = [work EXCEPT ![c] = [cause |-> "order", id |-> b, supplier |-> s,
                                    write |-> Selected(buyer[b]), stale |-> FALSE]]
  /\ UNCHANGED <<buyer, bound, seller, said>>

SaveBWorkspace(c) ==
  /\ Serves(c, BCauses \cup {"order"})
  /\ buyer' = [buyer EXCEPT ![work[c].id] = work[c].write]
  /\ work' = AfterSave(work, c,
                IF work[c].cause = "order"
                THEN [cause |-> "mark", id |-> work[c].id, supplier |-> work[c].supplier]
                ELSE NoWork)
  /\ UNCHANGED <<bound, seller, said, requests>>

-----------------------------------------------------------------------------
(* dispatch_supplier_inquiry: a workspace is made for one supplier after   *)
(* the other; asked again, it makes them again.                            *)

DispatchInquiry(c, b) ==
  /\ Request(c) /\ buyer[b] # NoFile /\ buyer[b].inquiry # NoInquiry
  /\ \E chosen \in (SUBSET Suppliers) \ {{}} :
       work' = [work EXCEPT ![c] = [cause |-> "dispatch", id |-> b, todo |-> chosen]]
  /\ UNCHANGED <<buyer, bound, seller, said>>

ReceiveSupplierInquiry(c, m, s) ==
  /\ Serves(c, {"dispatch"}) /\ s \in work[c].todo
  /\ seller[m] = NoFile
  /\ seller' = [seller EXCEPT ![m] = NewMWorkspace(work[c].id, s)]
  /\ work' = IF work[c].todo = {s} THEN [work EXCEPT ![c] = NoWork]
             ELSE [work EXCEPT ![c].todo = @ \ {s}]
  /\ UNCHANGED <<buyer, bound, said, requests>>

-----------------------------------------------------------------------------
(* The suppliers' workspaces.                                              *)

LoadM(c, m, cause, new) ==
  /\ work' = [work EXCEPT ![c] = Loaded(cause, m, new)]
  /\ UNCHANGED <<buyer, bound, seller, said>>

AppendSupplierMessage(c, m, cause) ==
  /\ Request(c) /\ seller[m] # NoFile /\ seller[m].messages < MaxMessages
  /\ LoadM(c, m, cause,
       [seller[m] EXCEPT !.messages = @ + 1,
          !.status = IF @ = "inquiry_received" THEN "response_collecting" ELSE @])

(* m_side_submit_supplier_response of the skill appends, then builds.      *)
SubmitSupplierResponse(c, m) == AppendSupplierMessage(c, m, "respond")

(* build_response_packet_from_messages: refused when there is no message;  *)
(* a selection by the buyer is not asked for.                              *)
BuildResponsePacket(c, m) ==
  /\ \/ Request(c)
     \/ Serves(c, {"packet"}) /\ work[c].id = m /\ UNCHANGED requests
  /\ seller[m] # NoFile /\ seller[m].messages > 0
  /\ LoadM(c, m, "build",
       [seller[m] EXCEPT !.packet = seller[m].messages, !.status = "response_draft_ready"])

(* update_m_workspace_status, of a workspace of the selected supplier.     *)
SelectSupplier(c, m) ==
  /\ Serves(c, {"mark"})
  /\ seller[m] # NoFile /\ seller[m].of = work[c].id /\ seller[m].supplier = work[c].supplier
  /\ LoadM(c, m, "select", [seller[m] EXCEPT !.status = "selected_by_buyer"])
  /\ UNCHANGED requests

SaveMWorkspace(c) ==
  /\ Serves(c, MCauses)
  /\ seller' = [seller EXCEPT ![work[c].id] = work[c].write]
  /\ work' = AfterSave(work, c,
                IF work[c].cause = "respond"
                THEN [cause |-> "packet", id |-> work[c].id]
                ELSE NoWork)
  /\ UNCHANGED <<buyer, bound, said, requests>>

(* push-response-to-b-side and submit-response: the packet that the file   *)
(* held, ...                                                               *)
SubmitResponse(c, m) ==
  /\ Request(c) /\ seller[m] # NoFile /\ seller[m].packet > 0
  /\ work' = [work EXCEPT ![c] = [cause |-> "push", id |-> seller[m].of,
                                  supplier |-> seller[m].supplier, packet |-> seller[m].packet]]
  /\ UNCHANGED <<buyer, bound, seller, said>>

(* ... into the workspace as it is then.                                   *)
IntakeSupplierResponse(c) ==
  /\ Serves(c, {"push"})
  /\ LoadB(c, work[c].id, "intake", TakenIn(buyer[work[c].id], work[c].supplier, OfPacket(work[c].packet)))
  /\ UNCHANGED requests

(* submit-rollup-to-b-side: a rollup that is stored for some project goes  *)
(* into the workspace the client names, as the response of the rollup's    *)
(* main supplier.  Nothing asks for an inquiry, a supplier's workspace or  *)
(* a word of the supplier.                                                 *)
SubmitRollup(c, b) ==
  /\ Request(c) /\ buyer[b] # NoFile
  /\ \E r \in Rollups :
       LoadB(c, b, "intake", TakenIn(buyer[b], r.supplier, OfRollup(r.accepts)))

(* The process stops, or a request fails between two of its writes.        *)
RequestsLost ==
  /\ \E lost \in SUBSET Callers : work' = [c \in Callers |-> IF c \in lost THEN NoWork ELSE work[c]]
  /\ UNCHANGED <<buyer, bound, seller, said, requests>>

QuotesNext ==
  \/ \E c \in Callers :
       \/ \E b \in BIds : \/ \E message \in BuyerMessages :
                               \/ CreateBWorkspace(c, b, message)
                               \/ CreateInChat(c, b, message)
                               \/ FollowUp(c, b, message)
                          \/ StructureRequirement(c, b) \/ DraftSupplierInquiry(c, b)
                          \/ RunFeasibility(c, b) \/ SelectPath(c, b)
                          \/ DispatchInquiry(c, b) \/ SubmitRollup(c, b)
       \/ \E m \in MIds : \/ \E s \in Suppliers : ReceiveSupplierInquiry(c, m, s)
                          \/ AppendSupplierMessage(c, m, "append") \/ SubmitSupplierResponse(c, m)
                          \/ BuildResponsePacket(c, m)
                          \/ SelectSupplier(c, m) \/ SubmitResponse(c, m)
       \/ DraftInquiry(c) \/ SaveBWorkspace(c) \/ LeadTimeUnavailable(c)
       \/ SaveMWorkspace(c) \/ IntakeSupplierResponse(c)
  \/ RequestsLost

QuotesSpec == QuotesInit /\ [][QuotesNext]_quotesVars

-----------------------------------------------------------------------------
(* Nothing that a workspace holds is lost but by a stale write: fields of  *)
(* the requirement, the inquiry, responses and the report of a buyer's     *)
(* workspace, messages, packet and selection of a supplier's.  Two         *)
(* handlers mean to: structure-requirement builds the requirement anew     *)
(* from the raw text, and building a packet resets the status              *)
(* (save_b_workspace, save_m_workspace).                                   *)
LostB(old, new) ==
  {f \in Fields : old.req # NoReq /\ f \in old.req /\ (new.req = NoReq \/ f \notin new.req)}
    \cup (Responded(old) \ Responded(new))
    \cup (IF old.inquiry # NoInquiry /\ new.inquiry = NoInquiry THEN {"inquiry"} ELSE {})
    \cup (IF old.report # NoReport /\ new.report = NoReport THEN {"report"} ELSE {})

LostM(old, new) ==
  (IF new.messages < old.messages THEN {"messages"} ELSE {})
    \cup (IF new.packet < old.packet THEN {"packet"} ELSE {})
    \cup (IF old.status = "selected_by_buyer" /\ new.status # old.status THEN {"selection"} ELSE {})

Excused(w) == CASE w.cause = "structure" -> Fields
                [] w.cause = "build" -> {"selection"}
                [] OTHER -> {}

ContentKept ==
  [][/\ \A b \in BIds : buyer[b] # NoFile /\ buyer'[b] # buyer[b] =>
          \E c \in Callers : /\ Holds(work[c], b)
                             /\ work[c].stale \/ LostB(buyer[b], buyer'[b]) \subseteq Excused(work[c])
     /\ \A m \in MIds : seller[m] # NoFile /\ seller'[m] # seller[m] =>
          \E c \in Callers : /\ Holds(work[c], m)
                             /\ work[c].stale \/ LostM(seller[m], seller'[m]) \subseteq Excused(work[c])]_quotesVars

(* Whatever was written over, a workspace agrees with itself and with the  *)
(* files behind it: a status says no more than the file holds; a delivery  *)
(* path is of a supplier whose response is there, and who agreed and had   *)
(* not refused before, or whose rollup accepts; a packet was taken in only *)
(* of a supplier who was sent the inquiry, and the rest are responses of   *)
(* stored rollups (intake_supplier_response, submit_rollup_to_b_side,      *)
(* run_feasibility_simulation, build_response_packet_from_messages,        *)
(* normalize_supplier_response_text).                                      *)
Agreed(s) ==
  \E i \in 1..MaxMessages : /\ "accepts" \in said[s][i]
                            /\ \A j \in 1..i : said[s][j] \cap {"refuses", "full"} = {}

Accepting == {r.supplier : r \in {x \in Rollups : x.accepts}}

StatusBacked(w) ==
  CASE w.status = "created" -> w.req = NoReq
    [] w.status = "requirement_structured" -> w.req # NoReq
    [] w.status = "inquiry_drafted" -> w.inquiry # NoInquiry
    [] w.status = "collecting_responses" -> Responded(w) # {}
    [] w.status = "feasibility_complete" -> w.report # NoReport
    [] w.status = "supplier_selected" -> w.report \notin {NoReport, {}}

RecordsBacked ==
  /\ \A b \in BIds : buyer[b] # NoFile =>
       /\ StatusBacked(buyer[b])
       /\ buyer[b].report # NoReport =>
            /\ buyer[b].report \subseteq Responded(buyer[b])
            /\ \A s \in buyer[b].report : Agreed(s) \/ s \in Accepting
       /\ \A s \in Suppliers :
            /\ buyer[b].responses[s].packet > 0 =>
                 \E m \in MIds : seller[m] # NoFile /\ seller[m].of = b /\ seller[m].supplier = s
            /\ \A accepts \in buyer[b].responses[s].rollup :
                 [supplier |-> s, accepts |-> accepts] \in Rollups
  /\ \A m \in MIds : seller[m] # NoFile =>
       /\ buyer[seller[m].of] # NoFile
       /\ seller[m].packet <= seller[m].messages
       /\ seller[m].status = "response_collecting" => seller[m].messages > 0
       /\ seller[m].status = "response_draft_ready" => seller[m].packet > 0
=============================================================================
