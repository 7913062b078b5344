------------------------ MODULE UpstreamProcurement ------------------------
(***************************************************************************)
(* Upstream procurement of one project: what manufacturer M needs from its *)
(* own suppliers, their responses, the options made of them, the approval  *)
(* of options and the rollup that is submitted to the buyer's side.        *)
(*                                                                         *)
(* State is six JSON files.  The endpoints run in worker threads; each     *)
(* loads a list, changes it and saves it, with no lock.  A save opens the  *)
(* file, which truncates it, and writes it: a reader in between, or after  *)
(* a crash in between, finds no JSON.  Of two overlapping writes the later *)
(* may be shorter and leave the tail of the earlier: no JSON either.       *)
(*                                                                         *)
(* An entry is named by the request that created it (ids are fresh).       *)
(***************************************************************************)
EXTENDS Naturals, FiniteSets

CONSTANTS
  Requests,      \* HTTP requests
  Earlier,       \* stands for the requests before these
  Operations,    \* what they do, of the keys of Target
  Orders,        \* what the calls plan for
  AutoApproval,  \* AUTO_APPROVAL_ENABLED
  Seed,          \* the files Earlier left
  NoResult,      \* a pending approval request has no result
  NoOption, NoRecord,
  MaxActive,     \* requests handled at the same time
  MaxCrashes     \* bound: process crashes in a behaviour

Target ==
  [plan |-> "dependencies", inquire |-> "inquiries", respond |-> "responses",
   options |-> "options", approve |-> "approvals", rollup |-> "rollup"]

(* An order, by what its plan depends on: the summary or the category is   *)
(* of apparel, a destination is given, the quantity is 50 or more, the     *)
(* summary speaks of quality.                                              *)
OrderKinds == [apparel : BOOLEAN, destination : BOOLEAN, large : BOOLEAN, quality : BOOLEAN]

(* plan_upstream_dependencies: the types of the dependencies of an order.  *)
PlannedTypes(order) ==
  {"logistics"}
  \cup (IF order.apparel THEN {"fabric", "trim", "packaging"} ELSE {})
  \cup (IF order.destination \/ order.large \/ order.quality THEN {"qc_testing"} ELSE {})

Types == UNION {PlannedTypes(order) : order \in Orders}

Files == {"dependencies", "inquiries", "responses", "options", "approvals", "rollup"}

ASSUME OperationNames == Operations \subseteq DOMAIN Target \cup {"submit"}
ASSUME Bounds == MaxActive \in Nat \ {0} /\ MaxCrashes \in Nat
ASSUME PlannedOrders == Orders \subseteq OrderKinds
ASSUME AutoApprovalSwitch == AutoApproval \in BOOLEAN

-----------------------------------------------------------------------------
(* What the files hold.  A response says whether the supplier can supply,  *)
(* and if so whether it carries a flag that makes its option a risk.       *)
Authors == Requests \cup {Earlier}
Modes == {"human", "authorized_agent"}

Dependencies == [by : Authors, type : Types]
Inquiries == [by : Authors, dep : Dependencies]
Responses == [by : Authors, dep : Dependencies, supply : {"clean", "risky", "none"}]
Options == [by : Authors, of : Responses]
Results == [request : Authors, option : Options, by : Requests, mode : Modes]
ApprovalRequests ==
  [by : Authors, options : SUBSET Options, required : Modes, result : Results \cup {NoResult}]
Rollups == [by : Authors, results : SUBSET Results]

Entries ==
  [dependencies |-> Dependencies, inquiries |-> Inquiries, responses |-> Responses,
   options |-> Options, approvals |-> ApprovalRequests, rollup |-> Rollups]

AnyEntry == Dependencies \cup Inquiries \cup Responses \cup Options \cup ApprovalRequests \cup Rollups

(* All options of one dependency were generated by one request.            *)
OneGeneration(options) ==
  \A o, p \in options : o.of.dep = p.of.dep => o.by = p.by

ASSUME SeedFiles ==
  /\ Seed \in [Files -> SUBSET AnyEntry]
  /\ \A f \in Files : Seed[f] \subseteq Entries[f]
  /\ OneGeneration(Seed["options"])
  /\ \A o \in Seed["options"] : o.of.supply # "none"
  /\ Seed["approvals"] = {} /\ Seed["rollup"] = {}
ASSUME Nulls ==
  /\ Earlier \notin Requests
  /\ NoResult \notin Results
  /\ NoOption \notin Options
  /\ NoRecord \notin ApprovalRequests

VARIABLES
  file,       \* the entries of each file
  form,       \* whether it is JSON, truncated, or spoiled by two writes
  pc, op,     \* where each request is, and what it does
  todo,       \* "options": the dependencies still to do
  made,       \* the entries it creates
  want,       \* "approve": the option and the mode it was asked for
  record,     \* "approve": the approval request in its hands
  buffer,     \* what it is about to save
  accepted,   \* every result the approval gate ever returned
  submitted,  \* every rollup the buyer's side ever received
  crashes

vars == <<file, form, pc, op, todo, made, want, record, buffer, accepted, submitted, crashes>>

Saving == {"open", "write"}
Reading == {"append", "collect", "replace", "ask", "find", "decide"}
Running == Saving \cup Reading

(* Where a request is, what it holds for the next step.                    *)
Holds(r) ==
  /\ pc[r] \in Running => op[r] \in DOMAIN Target
  /\ pc[r] = "append" => op[r] \in {"inquire", "respond", "approve"}
  /\ pc[r] \in {"collect", "replace"} => op[r] = "options"
  /\ pc[r] \in {"ask", "find", "decide"} => op[r] = "approve"
  /\ pc[r] \in {"append", "replace"} => made[r] \subseteq Entries[Target[op[r]]]
  /\ pc[r] \in Saving => buffer[r] \subseteq Entries[Target[op[r]]]
  /\ op[r] = "approve" => want[r].option \in Options
  /\ op[r] = "approve" /\ pc[r] \in Saving \cup {"append", "decide"} => record[r] \in ApprovalRequests

TypeOK ==
  /\ file \in [Files -> SUBSET AnyEntry]
  /\ \A f \in Files : file[f] \subseteq Entries[f]
  /\ form \in [Files -> {"json", "blank", "corrupt"}]
  /\ \A f \in Files : form[f] # "json" => file[f] = {}
  /\ pc \in [Requests -> {"new", "done", "failed", "lost"} \cup Running]
  /\ op \in [Requests -> Operations \cup {"none"}]
  /\ todo \in [Requests -> SUBSET Dependencies]
  /\ made \in [Requests -> SUBSET AnyEntry]
  /\ want \in [Requests -> [option : Options \cup {NoOption}, mode : Modes]]
  /\ record \in [Requests -> ApprovalRequests \cup {NoRecord}]
  /\ buffer \in [Requests -> SUBSET AnyEntry]
  /\ \A r \in Requests : Holds(r)
  /\ accepted \subseteq Results
  /\ submitted \subseteq Rollups
  /\ crashes \in 0 .. MaxCrashes

InFlight == {r \in Requests : pc[r] \in Running}
Readable(f) == form[f] = "json"

Init ==
  /\ file = Seed
  /\ form = [f \in Files |-> "json"]
  /\ pc = [r \in Requests |-> "new"]
  /\ op = [r \in Requests |-> "none"]
  /\ todo = [r \in Requests |-> {}]
  /\ made = [r \in Requests |-> {}]
  /\ want = [r \in Requests |-> [option |-> NoOption, mode |-> "human"]]
  /\ record = [r \in Requests |-> NoRecord]
  /\ buffer = [r \in Requests |-> {}]
  /\ accepted = {}
  /\ submitted = {}
  /\ crashes = 0

-----------------------------------------------------------------------------
Goto(r, label) == pc' = [pc EXCEPT ![r] = label]

Begin(r, o, label) ==
  /\ pc[r] = "new"
  /\ o \in Operations
  /\ Cardinality(InFlight) < MaxActive
  /\ op' = [op EXCEPT ![r] = o]
  /\ Goto(r, label)

Keep(r, entries) == made' = [made EXCEPT ![r] = entries]
Save(r, entries) == buffer' = [buffer EXCEPT ![r] = entries] /\ Goto(r, "open")

(* A plan replaces the dependencies, whatever they were.                   *)
Plan(r, order) ==
  /\ Begin(r, "plan", "open")
  /\ buffer' = [buffer EXCEPT ![r] = [by : {r}, type : PlannedTypes(order)]]
  /\ UNCHANGED <<file, form, todo, made, want, record, accepted, submitted, crashes>>

(* build_upstream_inquiry: what is asked about a dependency is told by its *)
(* type.                                                                   *)
InquiryOf(r, d) == [by |-> r, dep |-> d]

(* An inquiry for a dependency that is stored, or described in the body.   *)
Inquire(r, d, inline) ==
  /\ Begin(r, "inquire", "append")
  /\ Readable("dependencies")
  /\ d \in file["dependencies"] \/ inline
  /\ Keep(r, {InquiryOf(r, d)})
  /\ UNCHANGED <<file, form, todo, want, record, buffer, accepted, submitted, crashes>>

(* A supplier's message, by what the parser finds in it: a phrase of       *)
(* refusal, whatever else it says, a price, a minimum quantity, and the    *)
(* first lead time of 1 to 365 days, "long" if it is more than 21.         *)
Messages ==
  [refuses : BOOLEAN, price : BOOLEAN, moq : BOOLEAN, lead : {"none", "short", "long"}]

RiskFlags(message) ==
  (IF message.refuses THEN {"supplier_cannot_supply"} ELSE {})
  \cup (IF message.lead = "long" THEN {"long_lead_time"} ELSE {})
  \cup (IF message.price THEN {} ELSE {"price_not_confirmed"})
  \cup (IF message.moq THEN {} ELSE {"moq_not_confirmed"})

(* The flags for which an option of the response needs a human.            *)
HighRisks == {"supplier_cannot_supply", "long_lead_time", "price_not_confirmed"}

(* parse_upstream_response                                                 *)
Supply(message) ==
  IF message.refuses THEN "none"
  ELSE IF RiskFlags(message) \cap HighRisks # {} THEN "risky"
  ELSE "clean"

Respond(r, message) ==
  /\ Begin(r, "respond", "append")
  /\ \E q \in file["inquiries"] :
       Keep(r, {[by |-> r, dep |-> q.dep, supply |-> Supply(message)]})
  /\ UNCHANGED <<file, form, todo, want, record, buffer, accepted, submitted, crashes>>

(* Mutant: the list starts empty instead of being loaded.                  *)
AppendToNothing(r) ==
  /\ pc[r] = "append"
  /\ Readable(Target[op[r]])
  /\ Save(r, made[r])
  /\ UNCHANGED <<file, form, op, todo, made, want, record, accepted, submitted, crashes>>

(* store_inquiry, store_response, store_approval_request                   *)
Append(r) ==
  /\ pc[r] = "append"
  /\ Readable(Target[op[r]])
  /\ Save(r, file[Target[op[r]]] \cup made[r])
  /\ UNCHANGED <<file, form, op, todo, made, want, record, accepted, submitted, crashes>>

-----------------------------------------------------------------------------
(* GET /upstream-options makes options for all dependencies or for one.    *)
OptionsFor(r, ds) ==
  /\ Begin(r, "options", IF ds = {} THEN "done" ELSE "collect")
  /\ Readable("dependencies")
  /\ todo' = [todo EXCEPT ![r] = ds]
  /\ UNCHANGED <<file, form, made, want, record, buffer, accepted, submitted, crashes>>

(* Up to three options, each of a response that can be supplied; of more   *)
(* than one such response, at least two.                                   *)
Viable(d) == {x \in file["responses"] : x.dep = d /\ x.supply # "none"}

Recommended(viable) ==
  {s \in SUBSET viable :
     /\ Cardinality(s) <= 3
     /\ viable # {} => s # {}
     /\ Cardinality(viable) >= 2 => Cardinality(s) >= 2}

Collect(r, d) ==
  /\ pc[r] = "collect"
  /\ d \in todo[r]
  /\ Readable("responses")
  /\ todo' = [todo EXCEPT ![r] = @ \ {d}]
  /\ IF \E x \in file["responses"] : x.dep = d
     THEN /\ \E s \in Recommended(Viable(d)) : Keep(r, [by : {r}, of : s])
          /\ Goto(r, "replace")
     ELSE /\ Goto(r, IF todo[r] = {d} THEN "done" ELSE "collect")
          /\ UNCHANGED made
  /\ UNCHANGED <<file, form, op, want, record, buffer, accepted, submitted, crashes>>

(* Mutant: the dependency's former options stay.                           *)
AddOptions(r) ==
  /\ pc[r] = "replace"
  /\ Readable("options")
  /\ Save(r, file["options"] \cup made[r])
  /\ UNCHANGED <<file, form, op, todo, made, want, record, accepted, submitted, crashes>>

(* store_options: the new options of a dependency replace the former ones; *)
(* if there are none, the former ones stay.                                *)
Replace(r) ==
  /\ pc[r] = "replace"
  /\ Readable("options")
  /\ LET former == {o \in file["options"] : \E m \in made[r] : o.of.dep = m.of.dep}
     IN Save(r, (file["options"] \ former) \cup made[r])
  /\ UNCHANGED <<file, form, op, todo, made, want, record, accepted, submitted, crashes>>

-----------------------------------------------------------------------------
(* POST /approve-upstream-option for a stored option, with or without the  *)
(* id of an approval request.                                              *)
Approve(r, o, mode, label) ==
  /\ Begin(r, "approve", label)
  /\ want' = [want EXCEPT ![r] = [option |-> o, mode |-> mode]]
  /\ UNCHANGED <<file, form, todo, made, record, buffer, accepted, submitted, crashes>>

RequiredMode(options) ==
  IF AutoApproval /\ \A o \in options : o.of.supply # "risky" THEN "authorized_agent" ELSE "human"

(* A new approval request: the options, read again, of a dependency which  *)
(* the body may name.                                                      *)
Ask(r, d) ==
  /\ pc[r] = "ask"
  /\ Readable("options")
  /\ LET stored == {o \in file["options"] : o.of.dep = d}
         options == IF stored = {} THEN {want[r].option} ELSE stored
         new == [by |-> r, options |-> options, required |-> RequiredMode(options),
                 result |-> NoResult]
     IN record' = [record EXCEPT ![r] = new] /\ Keep(r, {new})
  /\ Goto(r, "append")
  /\ UNCHANGED <<file, form, op, todo, want, buffer, accepted, submitted, crashes>>

Find(r, a) ==
  /\ pc[r] = "find"
  /\ record' = [record EXCEPT ![r] = a]
  /\ Goto(r, "decide")
  /\ UNCHANGED <<file, form, op, todo, made, want, buffer, accepted, submitted, crashes>>

(* approve_upstream_option; the record's status is not looked at.          *)
Permitted(r) ==
  /\ want[r].mode = "authorized_agent" => record[r].required = "authorized_agent"
  /\ want[r].option \in record[r].options

Refused(r) ==
  /\ pc[r] = "decide"
  /\ ~Permitted(r)
  /\ Goto(r, "failed")
  /\ UNCHANGED <<file, form, op, todo, made, want, record, buffer, accepted, submitted, crashes>>

ResultOf(r) ==
  [request |-> record[r].by, option |-> want[r].option, by |-> r, mode |-> want[r].mode]

(* Mutant: the decided record is appended.                                 *)
DecidedAgain(records, a, result) == records \cup {[a EXCEPT !.result = result]}

(* update_approval_request: nothing if the record is not in the file.      *)
Decided(records, a, result) ==
  {IF b.by = a.by THEN [b EXCEPT !.result = result] ELSE b : b \in records}

Decide(r) ==
  /\ pc[r] = "decide"
  /\ Permitted(r)
  /\ Readable("approvals")
  /\ accepted' = accepted \cup {ResultOf(r)}
  /\ record' = [record EXCEPT ![r] = [@ EXCEPT !.result = ResultOf(r)]]
  /\ Save(r, Decided(file["approvals"], record[r], ResultOf(r)))
  /\ UNCHANGED <<file, form, op, todo, made, want, submitted, crashes>>

-----------------------------------------------------------------------------
(* Mutant: every option of an approval request counts as approved.         *)
AllResults ==
  UNION {[request : {a.by}, option : a.options, by : {a.result.by}, mode : {a.result.mode}] :
           a \in {b \in file["approvals"] : b.result # NoResult}}

(* Mutant: pending requests are not left out.                              *)
PendingToo == {a.result : a \in file["approvals"]}

(* load_approval_results                                                   *)
ApprovalResults == {a.result : a \in file["approvals"]} \ {NoResult}

(* generate_supplier_response_rollup: the figures, lead times, scores and  *)
(* wording of a rollup are made of the approved options.                   *)
SupplierResponseRollup(r, results) == [by |-> r, results |-> results]

(* POST /rollup                                                            *)
RollUp(r) ==
  /\ Begin(r, "rollup", "open")
  /\ ApprovalResults # {}
  /\ buffer' = [buffer EXCEPT ![r] = {SupplierResponseRollup(r, ApprovalResults)}]
  /\ UNCHANGED <<file, form, todo, made, want, record, accepted, submitted, crashes>>

(* POST /submit-rollup-to-b-side: the buyer's workspace receives it.       *)
Submit(r) ==
  /\ Begin(r, "submit", "done")
  /\ \E x \in file["rollup"] : submitted' = submitted \cup {x}
  /\ UNCHANGED <<file, form, todo, made, want, record, buffer, accepted, crashes>>

-----------------------------------------------------------------------------
(* _save: open with "w", then write and close.                             *)
Truncate(r) ==
  /\ pc[r] = "open"
  /\ file' = [file EXCEPT ![Target[op[r]]] = {}]
  /\ form' = [form EXCEPT ![Target[op[r]]] = "blank"]
  /\ Goto(r, "write")
  /\ UNCHANGED <<op, todo, made, want, record, buffer, accepted, submitted, crashes>>

(* What follows the save.                                                  *)
AfterSave(r) ==
  IF op[r] = "options" /\ todo[r] # {} THEN "collect"
  ELSE IF op[r] = "approve" /\ record[r].result = NoResult THEN "decide"
  ELSE "done"

(* If another write came after the truncation, its tail may be left.       *)
Write(r) ==
  LET f == Target[op[r]] IN
  /\ pc[r] = "write"
  /\ \/ /\ file' = [file EXCEPT ![f] = buffer[r]]
        /\ form' = [form EXCEPT ![f] = "json"]
     \/ /\ form[f] # "blank"
        /\ file' = [file EXCEPT ![f] = {}]
        /\ form' = [form EXCEPT ![f] = "corrupt"]
  /\ Goto(r, AfterSave(r))
  /\ UNCHANGED <<op, todo, made, want, record, buffer, accepted, submitted, crashes>>

(* The file a request reads next.                                          *)
Source(r) ==
  CASE pc[r] = "collect" -> "responses"
    [] pc[r] \in {"replace", "ask"} -> "options"
    [] pc[r] \in {"find", "decide"} -> "approvals"
    [] OTHER -> Target[op[r]]

(* A file that is not JSON, an unknown approval request, or a failure of   *)
(* the lead time service, which a rollup calls: the request ends.          *)
Fails(r) ==
  /\ \/ pc[r] \in Reading /\ ~Readable(Source(r))
     \/ pc[r] = "find"
     \/ pc[r] = "open" /\ op[r] = "rollup"
  /\ Goto(r, "failed")
  /\ UNCHANGED <<file, form, op, todo, made, want, record, buffer, accepted, submitted, crashes>>

Crash ==
  /\ crashes < MaxCrashes
  /\ InFlight # {}
  /\ crashes' = crashes + 1
  /\ pc' = [r \in Requests |-> IF r \in InFlight THEN "lost" ELSE pc[r]]
  /\ UNCHANGED <<file, form, op, todo, made, want, record, buffer, accepted, submitted>>

Step(r) ==
  \/ \E order \in Orders : Plan(r, order)
  \/ \E d \in Dependencies, inline \in BOOLEAN : Inquire(r, d, inline)
  \/ \E message \in Messages : Respond(r, message)
  \/ Append(r)
  \/ \E ds \in {file["dependencies"]} \cup {{d} : d \in file["dependencies"]} : OptionsFor(r, ds)
  \/ \E d \in Dependencies : Collect(r, d)
  \/ Replace(r)
  \/ \E o \in file["options"], mode \in Modes, label \in {"ask", "find"} : Approve(r, o, mode, label)
  \/ \E d \in Dependencies : Ask(r, d)
  \/ \E a \in file["approvals"] : Find(r, a)
  \/ Refused(r)
  \/ Decide(r)
  \/ RollUp(r)
  \/ Submit(r)
  \/ Truncate(r)
  \/ Write(r)
  \/ Fails(r)

Next == Crash \/ \E r \in Requests : Step(r)

Spec == Init /\ [][Next]_vars

-----------------------------------------------------------------------------
(* Properties.                                                             *)

(* Every rollup the manufacturer stores or the buyer's side receives       *)
(* consists of results the approval gate returned: an option nobody        *)
(* approved is not in it, and none that carries a risk was approved by an  *)
(* agent, whatever overlapping calls did to the files in between.          *)
OutgoingRollups == file["rollup"] \cup submitted

RollupsHoldApprovedOnly ==
  \A x \in OutgoingRollups :
    /\ x.results # {} /\ x.results \subseteq accepted
    /\ \A y \in x.results : y.mode = "authorized_agent" => AutoApproval /\ y.option.of.supply = "clean"

(* However often an approval request is decided, a rollup has one result   *)
(* of it.                                                                  *)
OneResultOfARequest ==
  \A x \in OutgoingRollups : \A y, z \in x.results : y.request = z.request => y = z

(* GET /upstream-options from several callers never mixes their options:   *)
(* those of a dependency come from one call.                               *)
OptionsOfOneGeneration == OneGeneration(file["options"])

(* Inquiries, responses, approval requests and the fact that one was       *)
(* decided are lost to overlapping writes of their file, or to a crash,    *)
(* and to nothing else.  Entries are compared by their names.              *)
Names(kind, entries) ==
  {i.by : i \in IF kind = "decided" THEN {a \in entries : a.result # NoResult} ELSE entries}

Kinds == {<<"inquiries", "entry">>, <<"responses", "entry">>,
          <<"approvals", "entry">>, <<"approvals", "decided">>}

Savers(f) == {r \in Requests : pc[r] \in Saving /\ Target[op[r]] = f}
Contended(f) == \E r, q \in Savers(f) : r # q

Settled(f, kind, x) ==
  /\ \A r \in Savers(f) : x \in Names(kind, buffer[r])
  /\ IF \E r \in Savers(f) : pc[r] = "write" THEN form[f] = "blank" ELSE x \in Names(kind, file[f])

SettledEntriesStay ==
  [][\A k \in Kinds, x \in Authors :
        LET f == k[1] kind == k[2]
        IN Settled(f, kind, x) =>
             Settled(f, kind, x)' \/ Contended(f) \/ Contended(f)' \/ crashes' # crashes]_vars

-----------------------------------------------------------------------------
(* What a docstring says and the code refutes.                             *)

(* m_side/upstream/approval_gate.py:94: "Approve one upstream option from  *)
(* a pending approval request": no request is approved twice.              *)
ApprovedFromPendingOnly ==
  \A y, z \in accepted : y.request = z.request => y = z
=============================================================================
