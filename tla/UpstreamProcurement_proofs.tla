--------------------- MODULE UpstreamProcurement_proofs ---------------------
(* Theorems about UpstreamProcurement, for any requests, dependency types, *)
(* number of overlapping requests and of crashes.                          *)
EXTENDS UpstreamProcurement, TLAPS

-----------------------------------------------------------------------------
(* The inductive invariant.                                                *)

CanBeSupplied(options) == \A o \in options : o.of.supply # "none"

(* Options, wherever they are, can be supplied, and those that one list    *)
(* has of a dependency come from one request.                              *)
OptionOf(r) ==
  /\ op[r] = "approve" => want[r].option.of.supply # "none"
  /\ pc[r] = "replace" => CanBeSupplied(made[r]) /\ \A m \in made[r] : m.by = r
  /\ op[r] = "options" /\ pc[r] \in Saving => CanBeSupplied(buffer[r]) /\ OneGeneration(buffer[r])

OptionInv ==
  /\ CanBeSupplied(file["options"]) /\ OneGeneration(file["options"])
  /\ \A r \in Requests : OptionOf(r)

(* A result of the gate: no agent approves a risk.                         *)
Proper(y, results) ==
  y \in results /\ (y.mode = "authorized_agent" => AutoApproval /\ y.option.of.supply = "clean")

(* An approval request: an agent may approve what carries no risk; its     *)
(* result is its own.                                                      *)
Sound(a, results) ==
  /\ a.required = "authorized_agent" => AutoApproval /\ \A o \in a.options : o.of.supply # "risky"
  /\ a.result # NoResult => Proper(a.result, results) /\ a.result.request = a.by

(* A list of approval requests has one of each name.                       *)
SoundList(records, results) ==
  /\ \A a \in records : Sound(a, results)
  /\ \A a, b \in records : a.by = b.by => a = b

Lacks(records, x) == \A a \in records : a.by # x

(* The list a request is about to save.                                    *)
ListOf(r) == IF op[r] = "approve" /\ pc[r] \in Saving THEN buffer[r] ELSE {}

ApprovalOf(r) ==
  /\ SoundList(ListOf(r), accepted)
  /\ op[r] = "approve" /\ pc[r] \in Saving \cup {"append", "decide"} => Sound(record[r], accepted)
  /\ op[r] = "approve" /\ pc[r] = "append" => made[r] = {record[r]} /\ record[r].by = r

(* Before a request has appended its approval request, no list has it.     *)
Unnamed(r) == pc[r] \in {"new", "ask", "append"}

ApprovalInv ==
  /\ SoundList(file["approvals"], accepted)
  /\ \A r \in Requests : ApprovalOf(r)
  /\ \A r \in Requests : Unnamed(r) =>
       Lacks(file["approvals"], r) /\ \A q \in Requests : Lacks(ListOf(q), r)

(* A rollup: results of the gate, one of each approval request.            *)
SoundRollup(x, results) ==
  /\ x.results # {}
  /\ \A y \in x.results : Proper(y, results)
  /\ \A y, z \in x.results : y.request = z.request => y = z

RollupOf(r) ==
  op[r] = "rollup" /\ pc[r] \in Saving => \A x \in buffer[r] : SoundRollup(x, accepted)

RollupInv ==
  /\ \A x \in OutgoingRollups : SoundRollup(x, accepted)
  /\ \A r \in Requests : RollupOf(r)

IInv == TypeOK /\ OptionInv /\ ApprovalInv /\ RollupInv

-----------------------------------------------------------------------------
(* The file an operation saves, and what is in it.                         *)
LEMMA Tables ==
  /\ Target["plan"] = "dependencies" /\ Target["inquire"] = "inquiries"
  /\ Target["respond"] = "responses" /\ Target["options"] = "options"
  /\ Target["approve"] = "approvals" /\ Target["rollup"] = "rollup"
  /\ DOMAIN Target = {"plan", "inquire", "respond", "options", "approve", "rollup"}
  /\ \A o \in DOMAIN Target : Target[o] \in Files
  /\ Entries["dependencies"] = Dependencies /\ Entries["inquiries"] = Inquiries
  /\ Entries["responses"] = Responses /\ Entries["options"] = Options
  /\ Entries["approvals"] = ApprovalRequests /\ Entries["rollup"] = Rollups
  /\ \A f \in Files : Entries[f] \subseteq AnyEntry
BY DEF Target, Entries, Files, AnyEntry

(* The records the operations make are of their kinds.                     *)
LEMMA NewEntries ==
  ASSUME NEW r \in Requests
  PROVE  /\ \A order \in Orders : [by : {r}, type : PlannedTypes(order)] \subseteq Dependencies
         /\ \A d \in Dependencies : InquiryOf(r, d) \in Inquiries
         /\ \A d \in Dependencies, s \in {"clean", "risky", "none"} :
              [by |-> r, dep |-> d, supply |-> s] \in Responses
         /\ \A s \in SUBSET Responses : [by : {r}, of : s] \subseteq Options
         /\ \A s \in SUBSET Options, m \in Modes :
              [by |-> r, options |-> s, required |-> m, result |-> NoResult] \in ApprovalRequests
         /\ \A s \in SUBSET Results : SupplierResponseRollup(r, s) \in Rollups
<1>1. \A order \in Orders : PlannedTypes(order) \subseteq Types
  BY DEF Types
<1> QED
  BY <1>1 DEF Dependencies, Inquiries, Responses, Options, ApprovalRequests, Rollups, Authors,
              InquiryOf, SupplierResponseRollup

(* A response is of one of three kinds.                                    *)
LEMMA SupplyKinds ==
  \A message \in Messages : Supply(message) \in {"clean", "risky", "none"}
BY DEF Supply

(* An approval request with a result is an approval request.               *)
LEMMA WithResult ==
  ASSUME NEW a \in ApprovalRequests, NEW y \in Results
  PROVE  LET b == [a EXCEPT !.result = y]
         IN /\ b \in ApprovalRequests
            /\ b.by = a.by /\ b.options = a.options /\ b.required = a.required /\ b.result = y
BY DEF ApprovalRequests

(* Deciding one approval request of a list leaves the others.              *)
LEMMA DecidedList ==
  ASSUME NEW records \in SUBSET ApprovalRequests, NEW a \in ApprovalRequests, NEW y \in Results
  PROVE  /\ Decided(records, a, y) \subseteq ApprovalRequests
         /\ \A c \in Decided(records, a, y) :
              \E b \in records :
                /\ c.by = b.by /\ c.options = b.options /\ c.required = b.required
                /\ IF b.by = a.by THEN c.result = y ELSE c = b
         /\ \A b \in records :
              \E c \in Decided(records, a, y) :
                c.by = b.by /\ IF b.by = a.by THEN c.result = y ELSE c = b
<1>1. \A b \in records : b \in ApprovalRequests
  OBVIOUS
<1> DEFINE new(b) == IF b.by = a.by THEN [b EXCEPT !.result = y] ELSE b
<1>2. ASSUME NEW b \in records
      PROVE  /\ new(b) \in ApprovalRequests
             /\ new(b).by = b.by /\ new(b).options = b.options /\ new(b).required = b.required
             /\ IF b.by = a.by THEN new(b).result = y ELSE new(b) = b
  <2>1. CASE b.by = a.by
    BY <2>1, <1>1, WithResult
  <2>2. CASE b.by # a.by
    BY <2>2, <1>1
  <2> QED BY <2>1, <2>2
<1>3. Decided(records, a, y) = {new(b) : b \in records}
  BY DEF Decided
<1> HIDE DEF new
<1> QED BY <1>2, <1>3

(* A result names an approval request, an option and the one who decides.  *)
LEMMA ResultType ==
  ASSUME TypeOK, NEW r \in Requests, op[r] = "approve", record[r] \in ApprovalRequests
  PROVE  /\ ResultOf(r) \in Results
         /\ ResultOf(r).request = record[r].by /\ ResultOf(r).option = want[r].option
         /\ ResultOf(r).by = r /\ ResultOf(r).mode = want[r].mode
<1>1. want[r].option \in Options /\ want[r].mode \in Modes
  BY DEF TypeOK, Holds
<1>2. record[r].by \in Authors
  BY DEF ApprovalRequests
<1> QED BY <1>1, <1>2 DEF ResultOf, Results

LEMMA ResultsOfList ==
  ASSUME TypeOK
  PROVE  ApprovalResults \subseteq Results
<1>1. file["approvals"] \subseteq ApprovalRequests
  BY Tables DEF TypeOK, Files
<1>2. \A a \in file["approvals"] : a.result \in Results \cup {NoResult}
  BY <1>1 DEF ApprovalRequests
<1> QED BY <1>2 DEF ApprovalResults

-----------------------------------------------------------------------------
(* A step of one request leaves the variables of the others alone.         *)
Others(r) ==
  \A q \in Requests : q # r =>
    /\ pc'[q] = pc[q] /\ op'[q] = op[q] /\ todo'[q] = todo[q] /\ made'[q] = made[q]
    /\ want'[q] = want[q] /\ record'[q] = record[q] /\ buffer'[q] = buffer[q]

LEMMA Frame ==
  ASSUME TypeOK, NEW r \in Requests, Step(r)
  PROVE  Others(r)
<1> USE DEF TypeOK, Goto, Keep, Save, Begin, Others
<1>1. CASE \E order \in Orders : Plan(r, order)
  BY <1>1 DEF Plan
<1>2. CASE \E d \in Dependencies, inline \in BOOLEAN : Inquire(r, d, inline)
  BY <1>2 DEF Inquire
<1>3. CASE \E message \in Messages : Respond(r, message)
  BY <1>3 DEF Respond
<1>4. CASE Append(r)
  BY <1>4 DEF Append
<1>5. CASE \E ds \in {file["dependencies"]} \cup {{d} : d \in file["dependencies"]} : OptionsFor(r, ds)
  BY <1>5 DEF OptionsFor
<1>6. CASE \E d \in Dependencies : Collect(r, d)
  BY <1>6 DEF Collect
<1>7. CASE Replace(r)
  BY <1>7 DEF Replace
<1>8. CASE \E o \in file["options"], mode \in Modes, label \in {"ask", "find"} : Approve(r, o, mode, label)
  BY <1>8 DEF Approve
<1>9. CASE \E d \in Dependencies : Ask(r, d)
  BY <1>9 DEF Ask
<1>10. CASE \E a \in file["approvals"] : Find(r, a)
  BY <1>10 DEF Find
<1>11. CASE Refused(r) \/ Fails(r) \/ Truncate(r) \/ Write(r)
  BY <1>11 DEF Refused, Fails, Truncate, Write
<1>12. CASE Decide(r)
  BY <1>12 DEF Decide
<1>13. CASE RollUp(r) \/ Submit(r)
  BY <1>13 DEF RollUp, Submit
<1> QED BY <1>1, <1>2, <1>3, <1>4, <1>5, <1>6, <1>7, <1>8, <1>9, <1>10, <1>11, <1>12, <1>13 DEF Step

(* What the others hold for their next step is still good.                 *)
LEMMA OthersHold ==
  ASSUME TypeOK, NEW r \in Requests, Others(r), Holds(r)'
  PROVE  \A q \in Requests : Holds(q)'
BY SMT DEF TypeOK, Others, Holds

(* TypeOK without what the requests hold.                                  *)
Shape ==
  /\ file \in [Files -> SUBSET AnyEntry]
  /\ \A f \in Files : file[f] \subseteq Entries[f]
  /\ form \in [Files -> {"json", "blank", "corrupt"}]
  /\ \A f \in Files : form[f] # "json" => file[f] = {}
  /\ pc \in [Requests -> {"new", "done", "failed", "lost"} \cup Running]
  /\ op \in [Requests -> Operations \cup {"none"}]
  /\ todo \in [Requests -> SUBSET Dependencies]
  /\ made \in [Requests -> SUBSET AnyEntry]
  /\ want \in [Requests -> [option : Options \cup {NoOption}, mode : Modes]]
  /\ record \in [Requests -> ApprovalRequests \cup {NoRecord}]
  /\ buffer \in [Requests -> SUBSET AnyEntry]
  /\ accepted \subseteq Results
  /\ submitted \subseteq Rollups
  /\ crashes \in 0 .. MaxCrashes

(* What an operation may keep or save.                                     *)
LEMMA Fitting ==
  ASSUME NEW o \in DOMAIN Target, NEW entries, entries \subseteq Entries[Target[o]]
  PROVE  entries \in SUBSET AnyEntry
BY Tables

LEMMA TypeOfPlan ==
  ASSUME TypeOK, NEW r \in Requests, NEW order \in Orders, Plan(r, order)
  PROVE  Shape' /\ Holds(r)'
<1> DEFINE b == [by : {r}, type : PlannedTypes(order)]
<1>1. b \subseteq Entries[Target["plan"]]
  BY Tables, NewEntries
<1>2. b \in SUBSET AnyEntry
  BY <1>1, Tables, Fitting
<1>3. Shape'
  <2> HIDE DEF b
  <2> QED BY <1>2 DEF TypeOK, Plan, Begin, Goto, Shape, Running, Saving, b
<1>4. pc'[r] = "open" /\ op'[r] = "plan" /\ buffer'[r] = b
  BY DEF TypeOK, Plan, Begin, Goto
<1> HIDE DEF b
<1> QED BY <1>1, <1>3, <1>4, Tables DEF Holds, Running, Saving

LEMMA TypeOfInquire ==
  ASSUME TypeOK, NEW r \in Requests, NEW d \in Dependencies, NEW inline \in BOOLEAN,
         Inquire(r, d, inline)
  PROVE  Shape' /\ Holds(r)'
<1> DEFINE m == {InquiryOf(r, d)}
<1>1. m \subseteq Entries[Target["inquire"]]
  BY Tables, NewEntries
<1>2. m \in SUBSET AnyEntry
  BY <1>1, Tables, Fitting
<1>3. /\ Begin(r, "inquire", "append") /\ made' = [made EXCEPT ![r] = m]
      /\ UNCHANGED <<file, form, todo, want, record, buffer, accepted, submitted, crashes>>
  BY DEF Inquire, Keep
<1> HIDE DEF m
<1>4. Shape'
  BY <1>2, <1>3 DEF TypeOK, Begin, Goto, Shape, Running, Reading
<1>5. pc'[r] = "append" /\ op'[r] = "inquire" /\ made'[r] = m
  BY <1>3 DEF TypeOK, Begin, Goto
<1> QED BY <1>1, <1>4, <1>5, Tables DEF Holds, Running, Saving, Reading

LEMMA TypeOfRespond ==
  ASSUME TypeOK, NEW r \in Requests, NEW message \in Messages, Respond(r, message)
  PROVE  Shape' /\ Holds(r)'
<1>1. file["inquiries"] \subseteq Inquiries
  BY Tables DEF Files, TypeOK
<1>2. PICK q \in file["inquiries"] :
        Keep(r, {[by |-> r, dep |-> q.dep, supply |-> Supply(message)]})
  BY DEF Respond
<1>3. q.dep \in Dependencies
  BY <1>1 DEF Inquiries
<1> DEFINE supply == Supply(message)
           m == {[by |-> r, dep |-> q.dep, supply |-> supply]}
<1>a. supply \in {"clean", "risky", "none"}
  BY SupplyKinds
<1> HIDE DEF supply
<1>4. m \subseteq Entries[Target["respond"]]
  BY <1>3, <1>a, Tables, NewEntries
<1>5. m \in SUBSET AnyEntry
  BY <1>4, Tables, Fitting
<1>6. /\ Begin(r, "respond", "append") /\ made' = [made EXCEPT ![r] = m]
      /\ UNCHANGED <<file, form, todo, want, record, buffer, accepted, submitted, crashes>>
  BY <1>2 DEF Respond, Keep, supply
<1> HIDE DEF m
<1>7. Shape'
  BY <1>5, <1>6 DEF TypeOK, Begin, Goto, Shape, Running, Reading
<1>8. pc'[r] = "append" /\ op'[r] = "respond" /\ made'[r] = m
  BY <1>6 DEF TypeOK, Begin, Goto
<1> QED BY <1>4, <1>7, <1>8, Tables DEF Holds, Running, Saving, Reading

LEMMA TypeOfAppend ==
  ASSUME TypeOK, NEW r \in Requests, Append(r)
  PROVE  Shape' /\ Holds(r)'
<1> DEFINE f == Target[op[r]]
           b == file[f] \cup made[r]
<1>1. pc[r] = "append" /\ op[r] \in DOMAIN Target /\ made[r] \subseteq Entries[f]
  BY DEF Append, TypeOK, Holds, Running, Reading
<1>2. f \in Files /\ b \subseteq Entries[f]
  BY <1>1, Tables DEF TypeOK
<1>3. b \in SUBSET AnyEntry
  BY <1>1, <1>2, Fitting
<1>4. Save(r, b) /\ UNCHANGED <<file, form, op, todo, made, want, record, accepted, submitted, crashes>>
  BY DEF Append
<1> HIDE DEF b
<1>5. Shape'
  BY <1>3, <1>4 DEF TypeOK, Save, Goto, Shape, Running, Saving
<1>6. pc'[r] = "open" /\ buffer'[r] = b
  BY <1>4 DEF TypeOK, Save, Goto
<1>7. /\ op[r] = "approve" => want'[r].option \in Options
      /\ op[r] = "approve" => record'[r] \in ApprovalRequests
  BY <1>1, <1>4 DEF TypeOK, Holds
<1> QED BY <1>1, <1>2, <1>4, <1>5, <1>6, <1>7, Tables DEF Holds, Running, Saving, Reading

LEMMA TypeOfOptionsFor ==
  ASSUME TypeOK, NEW r \in Requests,
         NEW ds \in {file["dependencies"]} \cup {{d} : d \in file["dependencies"]}, OptionsFor(r, ds)
  PROVE  Shape' /\ Holds(r)'
<1>1. ds \in SUBSET Dependencies
  BY Tables DEF Files, TypeOK
<1>2. Shape'
  BY <1>1 DEF OptionsFor, TypeOK, Begin, Goto, Shape, Running, Reading
<1>3. pc'[r] \in {"done", "collect"} /\ op'[r] = "options"
  BY DEF OptionsFor, TypeOK, Begin, Goto
<1> QED BY <1>2, <1>3, Tables DEF Holds, Running, Saving, Reading

LEMMA TypeOfCollect ==
  ASSUME TypeOK, NEW r \in Requests, NEW d \in Dependencies, Collect(r, d)
  PROVE  Shape' /\ Holds(r)'
<1>1. pc[r] = "collect" /\ op[r] = "options"
  BY DEF Collect, TypeOK, Holds
<1>2. CASE \E x \in file["responses"] : x.dep = d
  <2>1. PICK s \in Recommended(Viable(d)) : Keep(r, [by : {r}, of : s])
    BY <1>2 DEF Collect
  <2>2. s \in SUBSET Responses
    BY <2>1, Tables DEF Recommended, Viable, Files, TypeOK
  <2> DEFINE m == [by : {r}, of : s]
  <2>3. m \subseteq Entries[Target["options"]]
    BY <2>2, Tables, NewEntries
  <2>4. m \in SUBSET AnyEntry
    BY <2>3, Tables, Fitting
  <2>5. /\ made' = [made EXCEPT ![r] = m] /\ Goto(r, "replace")
        /\ todo' = [todo EXCEPT ![r] = @ \ {d}]
        /\ UNCHANGED <<file, form, op, want, record, buffer, accepted, submitted, crashes>>
    BY <1>2, <2>1 DEF Collect, Keep
  <2> HIDE DEF m
  <2>6. Shape'
    BY <2>4, <2>5 DEF TypeOK, Goto, Shape, Running, Reading
  <2>7. pc'[r] = "replace" /\ op'[r] = "options" /\ made'[r] = m
    BY <1>1, <2>5 DEF TypeOK, Goto
  <2> QED BY <2>3, <2>6, <2>7, Tables DEF Holds, Running, Saving, Reading
<1>3. CASE ~ \E x \in file["responses"] : x.dep = d
  <2>1. Shape'
    BY <1>3 DEF Collect, TypeOK, Goto, Shape, Running, Reading
  <2>2. pc'[r] \in {"collect", "done"} /\ op'[r] = "options"
    BY <1>1, <1>3 DEF Collect, TypeOK, Goto
  <2> QED BY <2>1, <2>2, Tables DEF Holds, Running, Saving, Reading
<1> QED BY <1>2, <1>3

LEMMA TypeOfReplace ==
  ASSUME TypeOK, NEW r \in Requests, Replace(r)
  PROVE  Shape' /\ Holds(r)'
<1> DEFINE former == {o \in file["options"] : \E m \in made[r] : o.of.dep = m.of.dep}
           b == (file["options"] \ former) \cup made[r]
<1>1. op[r] = "options" /\ made[r] \subseteq Entries["options"] /\ file["options"] \subseteq Entries["options"]
  BY Tables DEF Replace, TypeOK, Holds, Files
<1>2. b \subseteq Entries[Target["options"]]
  BY <1>1, Tables
<1>3. b \in SUBSET AnyEntry
  BY <1>2, Tables, Fitting
<1>4. Save(r, b) /\ UNCHANGED <<file, form, op, todo, made, want, record, accepted, submitted, crashes>>
  BY DEF Replace
<1> HIDE DEF b
<1>5. Shape'
  BY <1>3, <1>4 DEF TypeOK, Save, Goto, Shape, Running, Saving
<1>6. pc'[r] = "open" /\ buffer'[r] = b /\ op'[r] = "options"
  BY <1>1, <1>4 DEF TypeOK, Save, Goto
<1> QED BY <1>2, <1>5, <1>6, Tables DEF Holds, Running, Saving, Reading

LEMMA TypeOfApprove ==
  ASSUME TypeOK, NEW r \in Requests, NEW o \in file["options"], NEW mode \in Modes,
         NEW label \in {"ask", "find"}, Approve(r, o, mode, label)
  PROVE  Shape' /\ Holds(r)'
<1>1. o \in Options
  BY Tables DEF Files, TypeOK
<1> DEFINE w == [option |-> o, mode |-> mode]
<1>2. w \in [option : Options \cup {NoOption}, mode : Modes] /\ w.option \in Options
  BY <1>1
<1>3. /\ want' = [want EXCEPT ![r] = w] /\ Begin(r, "approve", label)
      /\ UNCHANGED <<file, form, todo, made, record, buffer, accepted, submitted, crashes>>
  BY DEF Approve
<1> HIDE DEF w
<1>4. Shape'
  BY <1>2, <1>3 DEF TypeOK, Begin, Goto, Shape, Running, Reading
<1>5. pc'[r] \in {"ask", "find"} /\ op'[r] = "approve" /\ want'[r] = w
  BY <1>3 DEF TypeOK, Begin, Goto
<1> QED BY <1>2, <1>4, <1>5, Tables DEF Holds, Running, Saving, Reading

(* The approval request of Ask.                                            *)
Asked(r, d) ==
  LET stored == {o \in file["options"] : o.of.dep = d}
      options == IF stored = {} THEN {want[r].option} ELSE stored
  IN [by |-> r, options |-> options, required |-> RequiredMode(options), result |-> NoResult]

LEMMA AskedRequest ==
  ASSUME TypeOK, NEW r \in Requests, NEW d \in Dependencies, op[r] = "approve"
  PROVE  /\ Asked(r, d) \in ApprovalRequests
         /\ Asked(r, d).by = r /\ Asked(r, d).result = NoResult
         /\ Asked(r, d).options \subseteq file["options"] \cup {want[r].option}
         /\ Asked(r, d).required = RequiredMode(Asked(r, d).options)
<1> DEFINE stored == {o \in file["options"] : o.of.dep = d}
           options == IF stored = {} THEN {want[r].option} ELSE stored
<1>1. options \in SUBSET Options /\ options \subseteq file["options"] \cup {want[r].option}
  BY Tables DEF Files, TypeOK, Holds
<1>2. RequiredMode(options) \in Modes
  BY DEF RequiredMode, Modes
<1>3. Asked(r, d) = [by |-> r, options |-> options, required |-> RequiredMode(options), result |-> NoResult]
  BY DEF Asked
<1> HIDE DEF options
<1> QED BY <1>1, <1>2, <1>3, NewEntries

LEMMA TypeOfAsk ==
  ASSUME TypeOK, NEW r \in Requests, NEW d \in Dependencies, Ask(r, d)
  PROVE  Shape' /\ Holds(r)'
<1> DEFINE a == Asked(r, d)
<1>1. op[r] = "approve"
  BY DEF Ask, TypeOK, Holds
<1>2. a \in ApprovalRequests /\ {a} \subseteq Entries[Target["approve"]]
  BY <1>1, AskedRequest, Tables
<1>3. {a} \in SUBSET AnyEntry
  BY <1>2, Tables, Fitting
<1>4. /\ record' = [record EXCEPT ![r] = a] /\ made' = [made EXCEPT ![r] = {a}] /\ Goto(r, "append")
      /\ UNCHANGED <<file, form, op, todo, want, buffer, accepted, submitted, crashes>>
  BY DEF Ask, Asked, Keep
<1> HIDE DEF a
<1>5. Shape'
  BY <1>2, <1>3, <1>4 DEF TypeOK, Goto, Shape, Running, Reading
<1>6. pc'[r] = "append" /\ op'[r] = "approve" /\ made'[r] = {a} /\ record'[r] = a /\ want'[r] = want[r]
  BY <1>1, <1>4 DEF TypeOK, Goto
<1>7. want[r].option \in Options
  BY <1>1 DEF TypeOK, Holds
<1> QED BY <1>2, <1>5, <1>6, <1>7, Tables DEF Holds, Running, Saving, Reading

LEMMA TypeOfFind ==
  ASSUME TypeOK, NEW r \in Requests, NEW a \in file["approvals"], Find(r, a)
  PROVE  Shape' /\ Holds(r)'
<1>1. a \in ApprovalRequests
  BY Tables DEF Files, TypeOK
<1>2. op[r] = "approve" /\ want[r].option \in Options
  BY DEF Find, TypeOK, Holds
<1>3. Shape'
  BY <1>1 DEF Find, TypeOK, Goto, Shape, Running, Reading
<1>4. pc'[r] = "decide" /\ op'[r] = "approve" /\ record'[r] = a /\ want'[r] = want[r]
  BY <1>2 DEF Find, TypeOK, Goto
<1> QED BY <1>1, <1>2, <1>3, <1>4, Tables DEF Holds, Running, Saving, Reading

LEMMA TypeOfDecide ==
  ASSUME TypeOK, NEW r \in Requests, Decide(r)
  PROVE  Shape' /\ Holds(r)'
<1> DEFINE y == ResultOf(r)
           records == Decided(file["approvals"], record[r], y)
           a == [record[r] EXCEPT !.result = y]
<1>1. pc[r] = "decide" /\ op[r] = "approve" /\ record[r] \in ApprovalRequests /\ want[r].option \in Options
  BY DEF Decide, TypeOK, Holds
<1>2. /\ accepted' = accepted \cup {y} /\ record' = [record EXCEPT ![r] = a] /\ Save(r, records)
      /\ UNCHANGED <<file, form, op, todo, made, want, submitted, crashes>>
  BY DEF Decide
<1>3. y \in Results
  BY <1>1, ResultType
<1>4. file["approvals"] \in SUBSET ApprovalRequests
  BY Tables DEF Files, TypeOK
<1> HIDE DEF y
<1>5. records \subseteq Entries[Target["approve"]]
  BY <1>1, <1>3, <1>4, DecidedList, Tables
<1>6. records \in SUBSET AnyEntry
  BY <1>5, Tables, Fitting
<1>7. a \in ApprovalRequests
  BY <1>1, <1>3, WithResult
<1> HIDE DEF records, a
<1>8. Shape'
  BY <1>2, <1>3, <1>6, <1>7 DEF TypeOK, Save, Goto, Shape, Running, Saving
<1>9. /\ pc'[r] = "open" /\ op'[r] = "approve" /\ buffer'[r] = records /\ record'[r] = a
      /\ want'[r] = want[r]
  BY <1>1, <1>2 DEF TypeOK, Save, Goto
<1> QED BY <1>1, <1>5, <1>7, <1>8, <1>9, Tables DEF Holds, Running, Saving, Reading

LEMMA TypeOfRollUp ==
  ASSUME TypeOK, NEW r \in Requests, RollUp(r)
  PROVE  Shape' /\ Holds(r)'
<1> DEFINE b == {SupplierResponseRollup(r, ApprovalResults)}
<1>1. ApprovalResults \in SUBSET Results
  BY ResultsOfList
<1>2. b \subseteq Entries[Target["rollup"]]
  BY <1>1, Tables, NewEntries
<1>3. b \in SUBSET AnyEntry
  BY <1>2, Tables, Fitting
<1>4. /\ Begin(r, "rollup", "open") /\ buffer' = [buffer EXCEPT ![r] = b]
      /\ UNCHANGED <<file, form, todo, made, want, record, accepted, submitted, crashes>>
  BY DEF RollUp
<1> HIDE DEF b
<1>5. Shape'
  BY <1>3, <1>4 DEF TypeOK, Begin, Goto, Shape, Running, Saving
<1>6. pc'[r] = "open" /\ op'[r] = "rollup" /\ buffer'[r] = b
  BY <1>4 DEF TypeOK, Begin, Goto
<1> QED BY <1>2, <1>5, <1>6, Tables DEF Holds, Running, Saving, Reading

LEMMA TypeOfSubmit ==
  ASSUME TypeOK, NEW r \in Requests, Submit(r)
  PROVE  Shape' /\ Holds(r)'
<1>1. file["rollup"] \subseteq Rollups
  BY Tables DEF Files, TypeOK
<1>2. Shape'
  BY <1>1 DEF Submit, TypeOK, Begin, Goto, Shape
<1>3. pc'[r] = "done" /\ op'[r] = "submit"
  BY DEF Submit, TypeOK, Begin, Goto
<1> QED BY <1>2, <1>3, Tables DEF Holds, Running, Saving, Reading

LEMMA TypeOfTruncate ==
  ASSUME TypeOK, NEW r \in Requests, Truncate(r)
  PROVE  Shape' /\ Holds(r)'
<1>1. Target[op[r]] \in Files
  BY Tables DEF Truncate, TypeOK, Holds, Running, Saving
<1>2. pc'[r] = "write" /\ UNCHANGED <<op, made, want, record, buffer>> /\ Holds(r) /\ pc[r] = "open"
  BY DEF Truncate, TypeOK, Goto
<1>3. Holds(r)'
  BY <1>2 DEF Holds, Running, Saving, Reading
<1> QED BY <1>1, <1>3 DEF Truncate, TypeOK, Goto, Shape, Running, Saving

LEMMA TypeOfWrite ==
  ASSUME TypeOK, NEW r \in Requests, Write(r)
  PROVE  Shape' /\ Holds(r)'
<1> DEFINE f == Target[op[r]]
<1>1. /\ pc[r] = "write" /\ op[r] \in DOMAIN Target /\ f \in Files
      /\ buffer[r] \subseteq Entries[f] /\ buffer[r] \in SUBSET AnyEntry
  BY Tables DEF Write, TypeOK, Holds, Running, Saving
<1>2. /\ pc' = [pc EXCEPT ![r] = AfterSave(r)]
      /\ UNCHANGED <<op, todo, made, want, record, buffer, accepted, submitted, crashes>>
  BY DEF Write, Goto
<1>3. /\ AfterSave(r) \in {"collect", "decide", "done"}
      /\ AfterSave(r) = "collect" => op[r] = "options"
      /\ AfterSave(r) = "decide" => op[r] = "approve"
  BY DEF AfterSave
<1>4. op[r] = "approve" => want[r].option \in Options /\ record[r] \in ApprovalRequests
  BY <1>1 DEF TypeOK, Holds, Saving
<1>5. \/ file' = [file EXCEPT ![f] = buffer[r]] /\ form' = [form EXCEPT ![f] = "json"]
      \/ file' = [file EXCEPT ![f] = {}] /\ form' = [form EXCEPT ![f] = "corrupt"]
  BY DEF Write
<1>6. pc'[r] = AfterSave(r)
  BY <1>2 DEF TypeOK
<1> HIDE DEF f
<1>7. Shape'
  BY <1>1, <1>2, <1>3, <1>5 DEF TypeOK, Shape, Running, Reading
<1> QED BY <1>1, <1>2, <1>3, <1>4, <1>6, <1>7 DEF Holds, Running, Saving, Reading

LEMMA TypeOfEnd ==
  ASSUME TypeOK, NEW r \in Requests, Refused(r) \/ Fails(r)
  PROVE  Shape' /\ Holds(r)'
<1>1. /\ pc'[r] = "failed" /\ Holds(r) /\ pc[r] \in Running
      /\ UNCHANGED <<file, form, op, todo, made, want, record, buffer, accepted, submitted, crashes>>
  BY DEF Refused, Fails, TypeOK, Goto, Running, Reading, Saving
<1>2. Holds(r)'
  BY <1>1 DEF Holds, Running, Saving, Reading
<1> QED BY <1>1, <1>2 DEF Refused, Fails, TypeOK, Goto, Shape

(* The ways a request takes a step.                                        *)
LEMMA StepKinds ==
  ASSUME NEW r \in Requests, Step(r)
  PROVE  \/ \E order \in Orders : Plan(r, order)
         \/ \E d \in Dependencies, inline \in BOOLEAN : Inquire(r, d, inline)
         \/ \E message \in Messages : Respond(r, message)
         \/ Append(r)
         \/ \E ds \in {file["dependencies"]} \cup {{d} : d \in file["dependencies"]} : OptionsFor(r, ds)
         \/ \E d \in Dependencies : Collect(r, d)
         \/ Replace(r)
         \/ \E o \in file["options"], mode \in Modes, label \in {"ask", "find"} : Approve(r, o, mode, label)
         \/ \E d \in Dependencies : Ask(r, d)
         \/ \E a \in file["approvals"] : Find(r, a)
         \/ Decide(r)
         \/ RollUp(r)
         \/ Submit(r)
         \/ Truncate(r)
         \/ Write(r)
         \/ Refused(r) \/ Fails(r)
BY DEF Step

LEMMA TypePreserved ==
  ASSUME TypeOK, [Next]_vars
  PROVE  TypeOK'
<1>1. CASE Crash
  <2>1. \A r \in Requests : pc'[r] = pc[r] \/ pc'[r] = "lost"
    BY <1>1 DEF Crash
  <2>2. \A r \in Requests : Holds(r)'
    BY <1>1, <2>1 DEF Crash, TypeOK, Holds, Running, Reading, Saving
  <2>3. crashes' \in 0 .. MaxCrashes
    BY <1>1, Bounds DEF Crash, TypeOK
  <2> QED BY <1>1, <2>2, <2>3 DEF Crash, TypeOK
<1>2. ASSUME NEW r \in Requests, Step(r)
      PROVE  TypeOK'
  <2>1. Shape' /\ Holds(r)'
    BY <1>2, StepKinds, TypeOfPlan, TypeOfInquire, TypeOfRespond, TypeOfAppend, TypeOfOptionsFor,
       TypeOfCollect, TypeOfReplace, TypeOfApprove, TypeOfAsk, TypeOfFind, TypeOfDecide,
       TypeOfRollUp, TypeOfSubmit, TypeOfTruncate, TypeOfWrite, TypeOfEnd
  <2>2. \A q \in Requests : Holds(q)'
    BY <1>2, <2>1, Frame, OthersHold
  <2> QED BY <2>1, <2>2 DEF Shape, TypeOK
<1>3. CASE UNCHANGED vars
  BY <1>3 DEF vars, TypeOK, Holds
<1> QED BY <1>1, <1>2, <1>3 DEF Next

-----------------------------------------------------------------------------
(* Options.                                                                *)

(* Replacing the options of the dependencies that have new ones.           *)
LEMMA Replacing ==
  ASSUME NEW options, NEW new, NEW r, OneGeneration(options), CanBeSupplied(options),
         CanBeSupplied(new), \A m \in new : m.by = r
  PROVE  LET former == {o \in options : \E m \in new : o.of.dep = m.of.dep}
         IN /\ OneGeneration((options \ former) \cup new)
            /\ CanBeSupplied((options \ former) \cup new)
BY SMT DEF OneGeneration, CanBeSupplied

LEMMA OthersOptions ==
  ASSUME NEW r \in Requests, Others(r), \A q \in Requests : OptionOf(q), OptionOf(r)'
  PROVE  \A q \in Requests : OptionOf(q)'
BY SMT DEF Others, OptionOf

(* What the steps do to the options.                                       *)
LEMMA OptionStep ==
  ASSUME IInv, NEW r \in Requests, Step(r)
  PROVE  /\ CanBeSupplied(file'["options"]) /\ OneGeneration(file'["options"])
         /\ OptionOf(r)'
<1> USE DEF Goto, Keep, Save, Begin, Saving
<1> DEFINE Good == /\ CanBeSupplied(file'["options"]) /\ OneGeneration(file'["options"])
                   /\ OptionOf(r)'
<1>0. TypeOK /\ OptionOf(r) /\ CanBeSupplied(file["options"]) /\ OneGeneration(file["options"]) /\ Holds(r)
  BY DEF IInv, OptionInv, TypeOK
<1>1. ASSUME file' = file, pc'[r] \notin {"replace"} \cup Saving, op'[r] = op[r], want'[r] = want[r]
      PROVE  Good
  BY <1>0, <1>1 DEF OptionOf
<1>2. ASSUME file' = file, pc'[r] \notin {"replace"} \cup Saving, op'[r] # "approve"
      PROVE  Good
  BY <1>0, <1>2 DEF OptionOf
<1>3. ASSUME file' = file, pc'[r] \in Saving, op'[r] \notin {"approve", "options"}
      PROVE  Good
  BY <1>0, <1>3 DEF OptionOf
<1>4. CASE \E order \in Orders : Plan(r, order)
  BY <1>0, <1>3, <1>4 DEF Plan, TypeOK
<1>5. CASE \E d \in Dependencies, inline \in BOOLEAN : Inquire(r, d, inline)
  BY <1>0, <1>2, <1>5 DEF Inquire, TypeOK
<1>6. CASE \E message \in Messages : Respond(r, message)
  BY <1>0, <1>2, <1>6 DEF Respond, TypeOK
<1>7. CASE Append(r)
  <2>1. op[r] # "options"
    BY <1>0, <1>7 DEF Append, Holds
  <2> QED BY <1>0, <2>1, <1>7 DEF Append, TypeOK, OptionOf
<1>8. CASE \E ds \in {file["dependencies"]} \cup {{d} : d \in file["dependencies"]} : OptionsFor(r, ds)
  BY <1>0, <1>2, <1>8 DEF OptionsFor, TypeOK
<1>9. CASE \E d \in Dependencies : Collect(r, d)
  <2>1. PICK d \in Dependencies : Collect(r, d)
    BY <1>9
  <2>2. pc[r] = "collect" /\ op'[r] = "options" /\ file' = file
    BY <1>0, <2>1 DEF Collect, Holds
  <2>3. CASE \E x \in file["responses"] : x.dep = d
    <3>1. PICK s \in Recommended(Viable(d)) : Keep(r, [by : {r}, of : s])
      BY <2>1, <2>3 DEF Collect
    <3>2. \A x \in s : x.supply # "none"
      BY <3>1 DEF Recommended, Viable
    <3> DEFINE m == [by : {r}, of : s]
    <3>3. CanBeSupplied(m) /\ \A o \in m : o.by = r
      BY <3>2 DEF CanBeSupplied
    <3>4. made' = [made EXCEPT ![r] = m] /\ pc' = [pc EXCEPT ![r] = "replace"]
      BY <2>1, <2>3, <3>1 DEF Collect
    <3> HIDE DEF m
    <3> QED BY <1>0, <2>2, <3>3, <3>4 DEF OptionOf, TypeOK
  <2>4. CASE ~ \E x \in file["responses"] : x.dep = d
    BY <1>0, <1>2, <2>1, <2>2, <2>4 DEF Collect, TypeOK
  <2> QED BY <2>3, <2>4
<1>10. CASE Replace(r)
  <2> DEFINE former == {o \in file["options"] : \E m \in made[r] : o.of.dep = m.of.dep}
             b == (file["options"] \ former) \cup made[r]
  <2>1. OneGeneration(b) /\ CanBeSupplied(b)
    BY <1>0, <1>10, Replacing DEF Replace, OptionOf
  <2>2. /\ buffer' = [buffer EXCEPT ![r] = b] /\ pc' = [pc EXCEPT ![r] = "open"]
        /\ file' = file /\ op'[r] = "options"
    BY <1>0, <1>10 DEF Replace, Holds
  <2> HIDE DEF b
  <2> QED BY <1>0, <2>1, <2>2 DEF OptionOf, TypeOK
<1>11. CASE \E o \in file["options"], mode \in Modes, label \in {"ask", "find"} : Approve(r, o, mode, label)
  <2>1. PICK o \in file["options"], mode \in Modes, label \in {"ask", "find"} : Approve(r, o, mode, label)
    BY <1>11
  <2>2. o.of.supply # "none"
    BY <1>0 DEF CanBeSupplied
  <2>3. want'[r].option = o /\ pc'[r] = label /\ op'[r] = "approve" /\ file' = file
    BY <1>0, <2>1 DEF Approve, TypeOK
  <2> QED BY <1>0, <2>2, <2>3 DEF OptionOf
<1>12. CASE \E d \in Dependencies : Ask(r, d)
  BY <1>0, <1>1, <1>12 DEF Ask, TypeOK
<1>13. CASE \E a \in file["approvals"] : Find(r, a)
  BY <1>0, <1>1, <1>13 DEF Find, TypeOK
<1>14. CASE Decide(r)
  <2>1. op[r] = "approve" /\ file' = file /\ op' = op /\ want' = want /\ pc'[r] = "open"
    BY <1>0, <1>14 DEF Decide, Holds, TypeOK
  <2> QED BY <1>0, <2>1 DEF OptionOf
<1>15. CASE RollUp(r)
  BY <1>0, <1>3, <1>15 DEF RollUp, TypeOK
<1>16. CASE Submit(r)
  BY <1>0, <1>2, <1>16 DEF Submit, TypeOK
<1>17. CASE Truncate(r)
  <2>1. file'["options"] \in {file["options"], {}} /\ UNCHANGED <<op, want, buffer>>
        /\ pc'[r] = "write" /\ pc[r] = "open"
    BY <1>0, <1>17 DEF Truncate, TypeOK, Files
  <2> QED BY <1>0, <2>1 DEF OptionOf, CanBeSupplied, OneGeneration
<1>18. CASE Write(r)
  <2>1. /\ pc[r] = "write" /\ UNCHANGED <<op, want>> /\ pc'[r] \in {"collect", "decide", "done"}
        /\ op[r] \in DOMAIN Target
    BY <1>0, <1>18 DEF Write, AfterSave, TypeOK, Holds, Running
  <2>2. \/ file'["options"] \in {file["options"], {}}
        \/ op[r] = "options" /\ file'["options"] = buffer[r]
    BY <1>0, <1>18, <2>1, Tables DEF Write, TypeOK, Files
  <2> QED BY <1>0, <2>1, <2>2 DEF OptionOf, CanBeSupplied, OneGeneration
<1>19. CASE Refused(r) \/ Fails(r)
  BY <1>0, <1>1, <1>19 DEF Refused, Fails, TypeOK
<1> QED BY <1>4, <1>5, <1>6, <1>7, <1>8, <1>9, <1>10, <1>11, <1>12, <1>13, <1>14, <1>15, <1>16,
           <1>17, <1>18, <1>19, StepKinds

LEMMA OptionPreserved ==
  ASSUME IInv, [Next]_vars
  PROVE  OptionInv'
<1>1. CASE Crash
  <2>1. \A r \in Requests : pc'[r] = pc[r] \/ pc'[r] = "lost"
    BY <1>1 DEF Crash
  <2> QED BY <1>1, <2>1 DEF Crash, IInv, OptionInv, OptionOf, Saving
<1>2. ASSUME NEW r \in Requests, Step(r)
      PROVE  OptionInv'
  BY <1>2, OptionStep, Frame, OthersOptions DEF IInv, OptionInv
<1>3. CASE UNCHANGED vars
  BY <1>3 DEF vars, IInv, OptionInv, OptionOf
<1> QED BY <1>1, <1>2, <1>3 DEF Next

-----------------------------------------------------------------------------
(* Approval requests.                                                      *)

LEMMA SoundKept ==
  ASSUME NEW records, NEW some, NEW more, some \subseteq more
  PROVE  /\ SoundList(records, some) => SoundList(records, more)
         /\ \A a : Sound(a, some) => Sound(a, more)
BY DEF SoundList, Sound, Proper

LEMMA SoundAppend ==
  ASSUME NEW records, NEW results, NEW a, SoundList(records, results), Sound(a, results),
         Lacks(records, a.by)
  PROVE  SoundList(records \cup {a}, results)
BY DEF SoundList, Lacks

LEMMA SoundDecided ==
  ASSUME NEW records \in SUBSET ApprovalRequests, NEW a \in ApprovalRequests, NEW y \in Results,
         NEW results, SoundList(records, results), Proper(y, results), y.request = a.by
  PROVE  /\ SoundList(Decided(records, a, y), results)
         /\ \A x : Lacks(records, x) => Lacks(Decided(records, a, y), x)
<1> DEFINE new(b) == IF b.by = a.by THEN [b EXCEPT !.result = y] ELSE b
<1>1. ASSUME NEW b \in records
      PROVE  new(b).by = b.by /\ Sound(new(b), results)
  <2>1. Sound(b, results) /\ b \in ApprovalRequests
    BY DEF SoundList
  <2>2. CASE b.by = a.by
    BY <2>1, <2>2, WithResult DEF Sound
  <2>3. CASE b.by # a.by
    BY <2>1, <2>3
  <2> QED BY <2>2, <2>3
<1>2. Decided(records, a, y) = {new(b) : b \in records}
  BY DEF Decided
<1> HIDE DEF new
<1>3. \A b, c \in records : new(b).by = new(c).by => new(b) = new(c)
  BY <1>1 DEF SoundList
<1> QED BY <1>1, <1>2, <1>3 DEF SoundList, Lacks

(* What the gate returns is proper.                                        *)
LEMMA GateResult ==
  ASSUME IInv, NEW r \in Requests, pc[r] = "decide", Permitted(r), NEW results, ResultOf(r) \in results
  PROVE  Proper(ResultOf(r), results)
<1>1. op[r] = "approve" /\ record[r] \in ApprovalRequests /\ want[r].option \in Options
  BY DEF IInv, TypeOK, Holds
<1>2. ResultOf(r).option = want[r].option /\ ResultOf(r).mode = want[r].mode
  BY <1>1, ResultType DEF IInv
<1>3. Sound(record[r], accepted) /\ want[r].option.of.supply # "none"
  BY <1>1 DEF IInv, ApprovalInv, ApprovalOf, OptionInv, OptionOf
<1>4. want[r].option.of.supply \in {"clean", "risky", "none"}
  BY <1>1 DEF Options, Responses
<1> QED BY <1>2, <1>3, <1>4 DEF Permitted, Sound, Proper

(* What a step does to the lists of approval requests.                     *)
Approvals(r) ==
  /\ accepted \subseteq accepted'
  /\ SoundList(file'["approvals"], accepted')
  /\ ApprovalOf(r)'
  /\ \A x \in Requests : Lacks(file["approvals"], x) /\ Lacks(ListOf(r), x) =>
       /\ Lacks(file'["approvals"], x)
       /\ x # r => Lacks(ListOf(r)', x)
  /\ Unnamed(r)' => Unnamed(r) /\ ListOf(r)' = {}

LEMMA ApprovalStep ==
  ASSUME IInv, NEW r \in Requests, Step(r)
  PROVE  Approvals(r)
<1> USE DEF Goto, Keep, Save, Begin
<1>0. TypeOK /\ ApprovalOf(r) /\ SoundList(file["approvals"], accepted) /\ Holds(r)
  BY DEF IInv, ApprovalInv, TypeOK
<1>empty. SoundList({}, accepted) /\ \A x : Lacks({}, x)
  BY DEF SoundList, Lacks
(* steps that neither save nor decide approval requests                    *)
<1>1. ASSUME file'["approvals"] = file["approvals"], accepted' = accepted,
             pc'[r] \notin Saving \cup {"append", "decide"} \/ op'[r] # "approve",
             Unnamed(r)' => Unnamed(r)
      PROVE  Approvals(r)
  <2>1. ListOf(r)' = {}
    BY <1>1 DEF ListOf, Saving
  <2> QED BY <1>0, <1>empty, <1>1, <2>1 DEF Approvals, ApprovalOf
<1>2. CASE \/ \E order \in Orders : Plan(r, order)
           \/ RollUp(r)
           \/ \E d \in Dependencies, inline \in BOOLEAN : Inquire(r, d, inline)
           \/ \E message \in Messages : Respond(r, message)
           \/ \E ds \in {file["dependencies"]} \cup {{d} : d \in file["dependencies"]} : OptionsFor(r, ds)
           \/ Submit(r)
  <2>1. /\ file' = file /\ accepted' = accepted /\ op'[r] # "approve"
        /\ pc[r] = "new"
    BY <1>0, <1>2 DEF Plan, RollUp, Inquire, Respond, OptionsFor, Submit, TypeOK
  <2> QED BY <1>1, <2>1 DEF Unnamed
<1>3. CASE Append(r)
  <2>1. /\ file' = file /\ accepted' = accepted /\ op' = op /\ record' = record /\ made' = made
        /\ pc[r] = "append" /\ pc'[r] = "open"
        /\ buffer'[r] = file[Target[op[r]]] \cup made[r]
    BY <1>0, <1>3 DEF Append, TypeOK
  <2>2. CASE op[r] # "approve"
    BY <1>1, <2>1, <2>2 DEF Unnamed
  <2>3. CASE op[r] = "approve"
    <3>1. /\ ListOf(r)' = file["approvals"] \cup {record[r]} /\ record[r].by = r
          /\ Sound(record[r], accepted) /\ Lacks(file["approvals"], r)
      BY <1>0, <2>1, <2>3, Tables DEF ListOf, Saving, ApprovalOf, IInv, ApprovalInv, Unnamed
    <3>2. SoundList(ListOf(r)', accepted)
      BY <1>0, <3>1, SoundAppend
    <3>3. \A x : Lacks(file["approvals"], x) /\ x # r => Lacks(ListOf(r)', x)
      BY <3>1 DEF Lacks
    <3>4. ApprovalOf(r)'
      BY <2>1, <2>3, <3>1, <3>2 DEF ApprovalOf
    <3> QED BY <1>0, <2>1, <3>3, <3>4 DEF Approvals, Unnamed
  <2> QED BY <2>2, <2>3
<1>4. CASE \E d \in Dependencies : Collect(r, d)
  <2>1. file' = file /\ accepted' = accepted /\ op'[r] = "options" /\ pc'[r] \in {"replace", "done", "collect"}
    BY <1>0, <1>4 DEF Collect, Holds, TypeOK
  <2> QED BY <1>1, <2>1 DEF Unnamed
<1>5. CASE Replace(r)
  <2>1. file' = file /\ accepted' = accepted /\ op'[r] = "options" /\ pc'[r] = "open"
    BY <1>0, <1>5 DEF Replace, Holds, TypeOK
  <2> QED BY <1>1, <2>1 DEF Unnamed
<1>6. CASE \E o \in file["options"], mode \in Modes, label \in {"ask", "find"} : Approve(r, o, mode, label)
  <2>1. file' = file /\ accepted' = accepted /\ pc'[r] \in {"ask", "find"} /\ pc[r] = "new"
    BY <1>0, <1>6 DEF Approve, TypeOK
  <2> QED BY <1>1, <2>1 DEF Unnamed, Saving
<1>7. CASE \E d \in Dependencies : Ask(r, d)
  <2>1. PICK d \in Dependencies : Ask(r, d)
    BY <1>7
  <2>2. /\ file' = file /\ accepted' = accepted /\ op' = op /\ pc[r] = "ask" /\ pc'[r] = "append"
        /\ op[r] = "approve"
        /\ record'[r] = Asked(r, d) /\ made'[r] = {Asked(r, d)}
    BY <1>0, <2>1 DEF Ask, Asked, Holds, TypeOK
  <2>3. /\ Asked(r, d).by = r /\ Asked(r, d).result = NoResult
        /\ Asked(r, d).required = RequiredMode(Asked(r, d).options)
    BY <1>0, <2>2, AskedRequest
  <2>4. Sound(Asked(r, d), accepted)
    BY <2>3 DEF Sound, RequiredMode
  <2>5. ListOf(r)' = {}
    BY <2>2 DEF ListOf, Saving
  <2>6. ApprovalOf(r)'
    BY <1>empty, <2>2, <2>3, <2>4, <2>5 DEF ApprovalOf
  <2> QED BY <1>0, <1>empty, <2>2, <2>5, <2>6 DEF Approvals, Unnamed
<1>8. CASE \E a \in file["approvals"] : Find(r, a)
  <2>1. PICK a \in file["approvals"] : Find(r, a)
    BY <1>8
  <2>2. /\ file' = file /\ accepted' = accepted /\ pc'[r] = "decide" /\ record'[r] = a
    BY <1>0, <2>1 DEF Find, TypeOK
  <2>3. Sound(a, accepted)
    BY <1>0 DEF SoundList
  <2>4. ListOf(r)' = {}
    BY <2>2 DEF ListOf, Saving
  <2>5. ApprovalOf(r)'
    BY <1>empty, <2>2, <2>3, <2>4 DEF ApprovalOf
  <2> QED BY <1>0, <1>empty, <2>2, <2>4, <2>5 DEF Approvals, Unnamed
<1>9. CASE Decide(r)
  <2> DEFINE y == ResultOf(r)
             records == Decided(file["approvals"], record[r], y)
  <2>1. /\ file' = file /\ accepted' = accepted \cup {y} /\ op' = op /\ pc[r] = "decide" /\ pc'[r] = "open"
        /\ Permitted(r) /\ buffer'[r] = records /\ record'[r] = [record[r] EXCEPT !.result = y]
    BY <1>0, <1>9 DEF Decide, TypeOK
  <2>2. op[r] = "approve" /\ record[r] \in ApprovalRequests /\ Sound(record[r], accepted)
    BY <1>0, <2>1 DEF Holds, ApprovalOf
  <2>3. y \in Results /\ y.request = record[r].by
    BY <1>0, <2>2, ResultType
  <2>4. file["approvals"] \in SUBSET ApprovalRequests
    BY <1>0, Tables DEF Files, TypeOK
  <2>5. Proper(y, accepted')
    BY <2>1, GateResult
  <2>6. SoundList(file["approvals"], accepted') /\ Sound(record[r], accepted')
    BY <1>0, <2>1, <2>2, SoundKept
  <2> HIDE DEF y
  <2>7. SoundList(records, accepted') /\ \A x : Lacks(file["approvals"], x) => Lacks(records, x)
    BY <2>2, <2>3, <2>4, <2>5, <2>6, SoundDecided
  <2>8. Sound(record'[r], accepted')
    BY <2>1, <2>2, <2>3, <2>5, <2>6, WithResult DEF Sound
  <2>9. ListOf(r)' = records
    BY <2>1, <2>2 DEF ListOf, Saving
  <2> HIDE DEF records
  <2>10. ApprovalOf(r)'
    BY <2>1, <2>7, <2>8, <2>9 DEF ApprovalOf
  <2> QED BY <2>1, <2>6, <2>7, <2>9, <2>10 DEF Approvals, Unnamed
<1>10. CASE Truncate(r)
  <2>1. /\ file'["approvals"] \in {file["approvals"], {}} /\ UNCHANGED <<op, buffer, record, accepted>>
        /\ pc[r] = "open" /\ pc'[r] = "write"
    BY <1>0, <1>10 DEF Truncate, TypeOK, Files
  <2>2. ListOf(r)' = ListOf(r)
    BY <2>1 DEF ListOf, Saving
  <2>3. ApprovalOf(r)'
    BY <1>0, <2>1, <2>2 DEF ApprovalOf, Saving
  <2> QED BY <1>0, <1>empty, <2>1, <2>2, <2>3 DEF Approvals, Unnamed
<1>11. CASE Write(r)
  <2>1. /\ pc[r] = "write" /\ UNCHANGED <<op, record, accepted>>
        /\ pc'[r] \in {"collect", "decide", "done"} /\ op[r] \in DOMAIN Target
    BY <1>0, <1>11 DEF Write, AfterSave, TypeOK, Holds, Running, Saving
  <2>2. file'["approvals"] \in {file["approvals"], {}, ListOf(r)}
    BY <1>0, <1>11, <2>1, Tables DEF Write, TypeOK, Files, ListOf, Saving
  <2>3. ListOf(r)' = {} /\ SoundList(ListOf(r), accepted)
    BY <1>0, <2>1 DEF ListOf, Saving, ApprovalOf
  <2>4. ApprovalOf(r)'
    BY <1>0, <1>empty, <2>1, <2>3 DEF ApprovalOf, Saving
  <2> QED BY <1>0, <1>empty, <2>1, <2>2, <2>3, <2>4 DEF Approvals, Unnamed
<1>12. CASE Refused(r) \/ Fails(r)
  <2>1. file' = file /\ accepted' = accepted /\ pc'[r] = "failed"
    BY <1>0, <1>12 DEF Refused, Fails, TypeOK
  <2> QED BY <1>1, <2>1 DEF Unnamed, Saving
<1> QED BY <1>2, <1>3, <1>4, <1>5, <1>6, <1>7, <1>8, <1>9, <1>10, <1>11, <1>12, StepKinds

LEMMA OthersApprovals ==
  ASSUME IInv, NEW r \in Requests, Others(r), Approvals(r), NEW q \in Requests, q # r
  PROVE  ApprovalOf(q)' /\ ListOf(q)' = ListOf(q) /\ (Unnamed(q)' => Unnamed(q))
<1>1. ListOf(q)' = ListOf(q) /\ (Unnamed(q)' => Unnamed(q))
  BY DEF Others, ListOf, Unnamed
<1>2. accepted \subseteq accepted' /\ ApprovalOf(q)
  BY DEF IInv, ApprovalInv, Approvals
<1>3. SoundList(ListOf(q)', accepted')
  BY <1>1, <1>2, SoundKept DEF ApprovalOf
<1>4. \A a : Sound(a, accepted) => Sound(a, accepted')
  BY <1>2, SoundKept
<1> QED BY <1>1, <1>2, <1>3, <1>4 DEF ApprovalOf, Others

LEMMA ApprovalPreserved ==
  ASSUME IInv, [Next]_vars
  PROVE  ApprovalInv'
<1>1. CASE Crash
  <2>1. /\ \A r \in Requests : pc'[r] = pc[r] \/ pc'[r] = "lost"
        /\ UNCHANGED <<file, op, made, record, buffer, accepted>>
    BY <1>1 DEF Crash
  <2>2. \A r \in Requests : ListOf(r)' \in {ListOf(r), {}} /\ (Unnamed(r)' => Unnamed(r))
    BY <2>1 DEF ListOf, Unnamed, Saving
  <2>3. SoundList({}, accepted) /\ \A x : Lacks({}, x)
    BY DEF SoundList, Lacks
  <2>4. \A r \in Requests : ApprovalOf(r)'
    BY <2>1, <2>2, <2>3 DEF IInv, ApprovalInv, ApprovalOf, Saving
  <2> QED BY <2>1, <2>2, <2>3, <2>4 DEF IInv, ApprovalInv
<1>2. ASSUME NEW r \in Requests, Step(r)
      PROVE  ApprovalInv'
  <2>1. Approvals(r) /\ Others(r)
    BY <1>2, ApprovalStep, Frame DEF IInv
  <2>2. \A q \in Requests \ {r} : ApprovalOf(q)' /\ ListOf(q)' = ListOf(q) /\ (Unnamed(q)' => Unnamed(q))
    BY <2>1, OthersApprovals
  <2>3. ASSUME NEW x \in Requests, Unnamed(x)'
        PROVE  Lacks(file'["approvals"], x) /\ \A q \in Requests : Lacks(ListOf(q)', x)
    <3>1. Unnamed(x) /\ Lacks(file["approvals"], x) /\ \A q \in Requests : Lacks(ListOf(q), x)
      BY <2>1, <2>2, <2>3 DEF IInv, ApprovalInv, Approvals
    <3>2. Lacks(file'["approvals"], x) /\ (x # r => Lacks(ListOf(r)', x))
      BY <2>1, <3>1 DEF Approvals
    <3>3. x = r => Lacks(ListOf(r)', x)
      BY <2>1, <2>3 DEF Approvals, Lacks
    <3> QED BY <2>2, <3>1, <3>2, <3>3
  <2>4. \A q \in Requests : ApprovalOf(q)'
    BY <2>1, <2>2 DEF Approvals
  <2> QED BY <2>1, <2>3, <2>4 DEF Approvals, ApprovalInv
<1>3. CASE UNCHANGED vars
  BY <1>3 DEF vars, IInv, ApprovalInv, ApprovalOf, ListOf, Unnamed
<1> QED BY <1>1, <1>2, <1>3 DEF Next

-----------------------------------------------------------------------------
(* Rollups.                                                                *)

(* The results of a sound list make a sound rollup.                        *)
LEMMA ResultsRollUp ==
  ASSUME SoundList(file["approvals"], accepted), ApprovalResults # {}, NEW x, x.results = ApprovalResults
  PROVE  SoundRollup(x, accepted)
<1>1. \A y \in ApprovalResults : \E a \in file["approvals"] : y = a.result /\ a.result # NoResult
  BY DEF ApprovalResults
<1>2. \A y \in ApprovalResults : Proper(y, accepted)
  BY <1>1 DEF SoundList, Sound
<1>3. \A y, z \in ApprovalResults : y.request = z.request => y = z
  BY <1>1 DEF SoundList, Sound
<1> QED BY <1>2, <1>3 DEF SoundRollup

LEMMA RollupKept ==
  ASSUME NEW some, NEW more, some \subseteq more
  PROVE  \A x : SoundRollup(x, some) => SoundRollup(x, more)
BY DEF SoundRollup, Proper

LEMMA RollupStep ==
  ASSUME IInv, NEW r \in Requests, Step(r), accepted \subseteq accepted'
  PROVE  /\ \A x \in OutgoingRollups' : SoundRollup(x, accepted')
         /\ RollupOf(r)'
<1> USE DEF Goto, Keep, Save, Begin
<1>0. /\ TypeOK /\ Holds(r) /\ RollupOf(r)
      /\ \A x \in OutgoingRollups : SoundRollup(x, accepted)
      /\ \A x : SoundRollup(x, accepted) => SoundRollup(x, accepted')
  BY RollupKept DEF IInv, TypeOK, RollupInv
<1> DEFINE Good == (\A x \in OutgoingRollups' : SoundRollup(x, accepted')) /\ RollupOf(r)'
<1>1. ASSUME OutgoingRollups' \subseteq OutgoingRollups, op'[r] # "rollup" \/ pc'[r] \notin Saving
      PROVE  Good
  BY <1>0, <1>1 DEF RollupOf
<1>2. CASE \/ \E order \in Orders : Plan(r, order)
           \/ \E d \in Dependencies, inline \in BOOLEAN : Inquire(r, d, inline)
           \/ \E message \in Messages : Respond(r, message)
           \/ \E ds \in {file["dependencies"]} \cup {{d} : d \in file["dependencies"]} : OptionsFor(r, ds)
           \/ \E o \in file["options"], mode \in Modes, label \in {"ask", "find"} : Approve(r, o, mode, label)
  BY <1>0, <1>1, <1>2 DEF Plan, Inquire, Respond, OptionsFor, Approve, TypeOK, OutgoingRollups
<1>3. CASE \/ Append(r) \/ Replace(r)
           \/ \E d \in Dependencies : Collect(r, d)
           \/ \E d \in Dependencies : Ask(r, d)
           \/ \E a \in file["approvals"] : Find(r, a)
           \/ Decide(r)
  <2>1. /\ pc[r] \in Reading /\ op' = op /\ file' = file /\ submitted' = submitted
    BY <1>3 DEF Append, Replace, Collect, Ask, Find, Decide, Reading
  <2>2. op[r] # "rollup"
    BY <1>0, <2>1 DEF Holds, Reading
  <2> QED BY <1>1, <2>1, <2>2 DEF OutgoingRollups
<1>4. CASE RollUp(r)
  <2> DEFINE x == SupplierResponseRollup(r, ApprovalResults)
  <2>1. SoundRollup(x, accepted)
    BY <1>4, ResultsRollUp DEF RollUp, IInv, ApprovalInv, SupplierResponseRollup
  <2>2. buffer'[r] = {x} /\ UNCHANGED <<file, submitted, accepted>>
    BY <1>0, <1>4 DEF RollUp, TypeOK
  <2> HIDE DEF x
  <2> QED BY <1>0, <2>1, <2>2 DEF RollupOf, OutgoingRollups
<1>5. CASE Submit(r)
  BY <1>0, <1>1, <1>5 DEF Submit, TypeOK, OutgoingRollups
<1>6. CASE Truncate(r)
  <2>1. /\ file'["rollup"] \in {file["rollup"], {}} /\ UNCHANGED <<op, buffer, submitted, accepted>>
        /\ pc[r] = "open" /\ pc'[r] = "write"
    BY <1>0, <1>6 DEF Truncate, TypeOK, Files
  <2> QED BY <1>0, <2>1 DEF OutgoingRollups, RollupOf, Saving
<1>7. CASE Write(r)
  <2>1. /\ pc[r] = "write" /\ UNCHANGED <<op, submitted, accepted>>
        /\ pc'[r] \in {"collect", "decide", "done"} /\ op[r] \in DOMAIN Target
    BY <1>0, <1>7 DEF Write, AfterSave, TypeOK, Holds, Running, Saving
  <2>2. \/ file'["rollup"] \in {file["rollup"], {}}
        \/ op[r] = "rollup" /\ file'["rollup"] = buffer[r]
    BY <1>0, <1>7, <2>1, Tables DEF Write, TypeOK, Files
  <2> QED BY <1>0, <2>1, <2>2 DEF OutgoingRollups, RollupOf, Saving
<1>8. CASE Refused(r) \/ Fails(r)
  <2>1. file' = file /\ submitted' = submitted /\ pc'[r] = "failed"
    BY <1>0, <1>8 DEF Refused, Fails, TypeOK
  <2> QED BY <1>1, <2>1 DEF OutgoingRollups, Saving
<1> QED BY <1>2, <1>3, <1>4, <1>5, <1>6, <1>7, <1>8, StepKinds

LEMMA RollupPreserved ==
  ASSUME IInv, [Next]_vars
  PROVE  RollupInv'
<1>1. CASE Crash
  <2>1. \A r \in Requests : pc'[r] = pc[r] \/ pc'[r] = "lost"
    BY <1>1 DEF Crash
  <2> QED BY <1>1, <2>1 DEF Crash, IInv, RollupInv, RollupOf, OutgoingRollups, Saving
<1>2. ASSUME NEW r \in Requests, Step(r)
      PROVE  RollupInv'
  <2>1. accepted \subseteq accepted' /\ Others(r)
    BY <1>2, ApprovalStep, Frame DEF Approvals, IInv
  <2>2. (\A x \in OutgoingRollups' : SoundRollup(x, accepted')) /\ RollupOf(r)'
    BY <1>2, <2>1, RollupStep
  <2>3. \A x : SoundRollup(x, accepted) => SoundRollup(x, accepted')
    BY <2>1, RollupKept
  <2>4. \A q \in Requests : q # r => RollupOf(q)'
    BY <2>1, <2>3 DEF IInv, RollupInv, RollupOf, Others
  <2> QED BY <2>2, <2>4 DEF RollupInv
<1>3. CASE UNCHANGED vars
  BY <1>3 DEF vars, IInv, RollupInv, RollupOf, OutgoingRollups
<1> QED BY <1>1, <1>2, <1>3 DEF Next

-----------------------------------------------------------------------------
(* What is settled stays.                                                  *)

ListFiles == {"inquiries", "responses", "approvals"}

(* An append and a decision keep the names.                                *)
LEMMA NamesAppended ==
  ASSUME NEW kind, NEW some, NEW more
  PROVE  Names(kind, some) \subseteq Names(kind, some \cup more)
BY DEF Names

LEMMA NamesDecided ==
  ASSUME NEW kind, NEW records \in SUBSET ApprovalRequests, NEW a \in ApprovalRequests, NEW y \in Results
  PROVE  Names(kind, records) \subseteq Names(kind, Decided(records, a, y))
<1>1. \A b \in records :
        \E c \in Decided(records, a, y) : c.by = b.by /\ (b.result # NoResult => c.result # NoResult)
  BY DecidedList, Nulls
<1> QED BY <1>1 DEF Names

(* What a step does to a list: nothing, unless it begins, opens or ends a  *)
(* save of it.                                                             *)
Untouched(r, f) ==
  /\ file'[f] = file[f] /\ form'[f] = form[f]
  /\ r \notin Savers(f) /\ r \notin Savers(f)'

Starts(r, f) ==
  /\ file'[f] = file[f] /\ form'[f] = form[f] /\ r \notin Savers(f)
  /\ pc'[r] = "open" /\ \A kind : Names(kind, file[f]) \subseteq Names(kind, buffer'[r])

Opens(r, f) ==
  /\ r \in Savers(f) /\ r \in Savers(f)' /\ pc'[r] = "write" /\ form'[f] = "blank" /\ buffer'[r] = buffer[r]

Ends(r, f) ==
  /\ pc[r] = "write" /\ r \in Savers(f) /\ r \notin Savers(f)'
  /\ form[f] = "blank" => file'[f] = buffer[r] /\ form'[f] = "json"

LEMMA ListStep ==
  ASSUME TypeOK, NEW r \in Requests, Step(r), NEW f \in ListFiles
  PROVE  Untouched(r, f) \/ Starts(r, f) \/ Opens(r, f) \/ Ends(r, f)
<1> USE DEF Goto, Keep, Save, Begin
<1>0. Holds(r) /\ f \in Files /\ f \notin {"dependencies", "options", "rollup"}
  BY DEF TypeOK, ListFiles, Files
<1>1. ASSUME file'[f] = file[f], form'[f] = form[f],
             pc[r] \notin Saving \/ Target[op[r]] # f, pc'[r] \notin Saving \/ Target[op'[r]] # f
      PROVE  Untouched(r, f)
  BY <1>1 DEF Untouched, Savers
<1>2. CASE \E order \in Orders : Plan(r, order)
  <2>1. UNCHANGED <<file, form>> /\ pc[r] = "new" /\ op'[r] = "plan"
    BY <1>2 DEF Plan, TypeOK
  <2> QED BY <1>0, <1>1, <2>1, Tables DEF Saving
<1>3. CASE \/ \E d \in Dependencies, inline \in BOOLEAN : Inquire(r, d, inline)
           \/ \E message \in Messages : Respond(r, message)
           \/ \E ds \in {file["dependencies"]} \cup {{d} : d \in file["dependencies"]} : OptionsFor(r, ds)
           \/ \E o \in file["options"], mode \in Modes, label \in {"ask", "find"} : Approve(r, o, mode, label)
           \/ Submit(r)
  <2>1. UNCHANGED <<file, form>> /\ pc[r] = "new" /\ pc'[r] \notin Saving
    BY <1>3 DEF Inquire, Respond, OptionsFor, Approve, Submit, TypeOK, Saving
  <2> QED BY <1>1, <2>1 DEF Saving
<1>4. CASE Append(r)
  <2>1. /\ UNCHANGED <<file, form, op>> /\ pc[r] = "append" /\ pc'[r] = "open"
        /\ buffer'[r] = file[Target[op[r]]] \cup made[r]
    BY <1>4 DEF Append, TypeOK
  <2>2. CASE Target[op[r]] = f
    <3>1. \A kind : Names(kind, file[f]) \subseteq Names(kind, buffer'[r])
      BY <2>1, <2>2, NamesAppended
    <3> QED BY <2>1, <3>1 DEF Starts, Savers, Saving
  <2>3. CASE Target[op[r]] # f
    BY <1>1, <2>1, <2>3
  <2> QED BY <2>2, <2>3
<1>5. CASE \/ \E d \in Dependencies : Collect(r, d)
           \/ \E d \in Dependencies : Ask(r, d)
           \/ \E a \in file["approvals"] : Find(r, a)
           \/ Refused(r)
  <2>1. UNCHANGED <<file, form>> /\ pc[r] \notin Saving /\ pc'[r] \notin Saving
    BY <1>5 DEF Collect, Ask, Find, Refused, TypeOK, Saving
  <2> QED BY <1>1, <2>1
<1>6. CASE Replace(r)
  <2>1. UNCHANGED <<file, form, op>> /\ pc[r] = "replace" /\ op[r] = "options"
    BY <1>0, <1>6 DEF Replace, Holds, TypeOK
  <2> QED BY <1>0, <1>1, <2>1, Tables DEF Saving
<1>7. CASE Decide(r)
  <2>1. /\ UNCHANGED <<file, form, op>> /\ pc[r] = "decide" /\ pc'[r] = "open"
        /\ buffer'[r] = Decided(file["approvals"], record[r], ResultOf(r))
    BY <1>7 DEF Decide, TypeOK
  <2>2. op[r] = "approve" /\ record[r] \in ApprovalRequests
    BY <1>0, <2>1 DEF Holds
  <2>3. ResultOf(r) \in Results
    BY <2>2, ResultType
  <2>4. file["approvals"] \in SUBSET ApprovalRequests
    BY Tables DEF Files, TypeOK
  <2>5. CASE f = "approvals"
    <3>1. \A kind : Names(kind, file[f]) \subseteq Names(kind, buffer'[r])
      BY <2>1, <2>2, <2>3, <2>4, <2>5, NamesDecided
    <3> QED BY <2>1, <3>1 DEF Starts, Savers, Saving
  <2>6. CASE f # "approvals"
    BY <1>1, <2>1, <2>2, <2>6, Tables
  <2> QED BY <2>5, <2>6
<1>8. CASE RollUp(r)
  <2>1. UNCHANGED <<file, form>> /\ pc[r] = "new" /\ op'[r] = "rollup"
    BY <1>8 DEF RollUp, TypeOK
  <2> QED BY <1>0, <1>1, <2>1, Tables DEF Saving
<1>9. CASE Truncate(r)
  <2>1. /\ pc[r] = "open" /\ pc'[r] = "write" /\ UNCHANGED <<op, buffer>>
        /\ form' = [form EXCEPT ![Target[op[r]]] = "blank"]
        /\ file' = [file EXCEPT ![Target[op[r]]] = {}]
    BY <1>9 DEF Truncate, TypeOK
  <2>2. CASE Target[op[r]] = f
    BY <1>0, <2>1, <2>2 DEF Opens, Savers, Saving, TypeOK
  <2>3. CASE Target[op[r]] # f
    BY <1>0, <1>1, <2>1, <2>3 DEF TypeOK
  <2> QED BY <2>2, <2>3
<1>10. CASE Write(r)
  <2>1. /\ pc[r] = "write" /\ op' = op /\ pc'[r] \in {"collect", "decide", "done"}
    BY <1>10 DEF Write, AfterSave, TypeOK
  <2>2. CASE Target[op[r]] = f
    <3>1. form[f] = "blank" => file'[f] = buffer[r] /\ form'[f] = "json"
      BY <1>0, <1>10, <2>2 DEF Write, TypeOK
    <3> QED BY <2>1, <2>2, <3>1 DEF Ends, Savers, Saving
  <2>3. CASE Target[op[r]] # f
    <3>1. file'[f] = file[f] /\ form'[f] = form[f]
      BY <1>0, <1>10, <2>3 DEF Write, TypeOK
    <3> QED BY <1>1, <2>1, <2>3, <3>1
  <2> QED BY <2>2, <2>3
<1>11. CASE Fails(r)
  <2>1. UNCHANGED <<file, form, op>> /\ pc'[r] = "failed" /\ (pc[r] \in Saving => op[r] = "rollup")
    BY <1>11 DEF Fails, TypeOK, Saving, Reading
  <2> QED BY <1>0, <1>1, <2>1, Tables DEF Saving
<1> QED BY <1>2, <1>3, <1>4, <1>5, <1>6, <1>7, <1>8, <1>9, <1>10, <1>11, StepKinds

LEMMA SettledStep ==
  ASSUME TypeOK, NEW r \in Requests, Step(r), NEW f \in ListFiles, NEW kind, NEW x,
         Settled(f, kind, x), ~Contended(f), ~Contended(f)'
  PROVE  Settled(f, kind, x)'
<1>1. \A q \in Requests \ {r} : /\ q \in Savers(f)' <=> q \in Savers(f)
                               /\ pc'[q] = pc[q] /\ buffer'[q] = buffer[q]
  BY Frame DEF Others, Savers
<1>2. CASE Untouched(r, f)
  <2>1. Savers(f)' = Savers(f) /\ r \notin Savers(f) /\ Savers(f) \subseteq Requests
    BY <1>1, <1>2 DEF Untouched, Savers
  <2> QED BY <1>1, <1>2, <2>1 DEF Untouched, Settled
<1>3. CASE Starts(r, f)
  <2>1. CASE r \in Savers(f)'
    <3>1. Savers(f)' = {r} /\ Savers(f) = {}
      BY <1>1, <1>3, <2>1 DEF Contended, Starts, Savers
    <3> QED BY <1>3, <3>1 DEF Starts, Settled
  <2>2. CASE r \notin Savers(f)'
    <3>1. Savers(f)' = Savers(f) /\ r \notin Savers(f) /\ Savers(f) \subseteq Requests
      BY <1>1, <1>3, <2>2 DEF Starts, Savers
    <3> QED BY <1>1, <1>3, <3>1 DEF Starts, Settled
  <2> QED BY <2>1, <2>2
<1>4. CASE Opens(r, f)
  <2>1. Savers(f) = {r} /\ Savers(f)' = {r}
    BY <1>1, <1>4 DEF Contended, Opens, Savers
  <2> QED BY <1>4, <2>1 DEF Opens, Settled
<1>5. CASE Ends(r, f)
  <2>1. Savers(f) = {r} /\ Savers(f)' = {}
    BY <1>1, <1>5 DEF Contended, Ends, Savers
  <2> QED BY <1>5, <2>1 DEF Ends, Settled
<1> QED BY <1>2, <1>3, <1>4, <1>5, ListStep

LEMMA StepSettled ==
  ASSUME IInv, [Next]_vars, NEW k \in Kinds, NEW x \in Authors
  PROVE  LET f == k[1] kind == k[2]
         IN Settled(f, kind, x) =>
              Settled(f, kind, x)' \/ Contended(f) \/ Contended(f)' \/ crashes' # crashes
<1>1. k[1] \in ListFiles
  BY DEF Kinds, ListFiles
<1>2. CASE Crash
  BY <1>2 DEF Crash, IInv, TypeOK
<1>3. CASE \E r \in Requests : Step(r)
  BY <1>1, <1>3, SettledStep DEF IInv
<1>4. CASE UNCHANGED vars
  BY <1>4 DEF vars, Settled, Savers
<1> QED BY <1>2, <1>3, <1>4 DEF Next

-----------------------------------------------------------------------------
(* The theorems.                                                           *)

LEMMA Initially ==
  Init => IInv
<1> SUFFICES ASSUME Init PROVE IInv
  OBVIOUS
<1> USE DEF Init
<1>1. TypeOK
  <2>1. \A f \in Files : Seed[f] \subseteq Entries[f]
    BY SeedFiles
  <2>2. [option |-> NoOption, mode |-> "human"] \in [option : Options \cup {NoOption}, mode : Modes]
    BY DEF Modes
  <2> QED BY <2>1, <2>2, SeedFiles, Bounds DEF TypeOK, Holds, Running, Saving, Reading
<1>2. OptionInv
  BY SeedFiles DEF OptionInv, OptionOf, CanBeSupplied, Saving
<1>3. ApprovalInv
  BY SeedFiles DEF ApprovalInv, ApprovalOf, SoundList, Lacks, ListOf, Saving
<1>4. RollupInv
  BY SeedFiles DEF RollupInv, RollupOf, OutgoingRollups, Saving
<1> QED BY <1>1, <1>2, <1>3, <1>4 DEF IInv

(* The inductive invariant holds of every behaviour.                       *)
THEOREM Invariance == Spec => []IInv
<1>1. IInv /\ [Next]_vars => IInv'
  BY TypePreserved, OptionPreserved, ApprovalPreserved, RollupPreserved DEF IInv
<1> QED BY Initially, <1>1, PTL DEF Spec

(* Files, buffers and results are of their types in every behaviour.       *)
THEOREM TypeCorrect == Spec => []TypeOK
<1>1. IInv => TypeOK
  BY DEF IInv
<1> QED BY Invariance, <1>1, PTL

(* Of what no one approved, or an agent although it is a risk, nothing is  *)
(* ever in a rollup.                                                       *)
THEOREM ApprovedOnly == Spec => []RollupsHoldApprovedOnly
<1>1. IInv => RollupsHoldApprovedOnly
  BY DEF IInv, RollupInv, SoundRollup, Proper, RollupsHoldApprovedOnly
<1> QED BY Invariance, <1>1, PTL

(* A rollup has one result of an approval request.                         *)
THEOREM OneResult == Spec => []OneResultOfARequest
<1>1. IInv => OneResultOfARequest
  BY DEF IInv, RollupInv, SoundRollup, OneResultOfARequest
<1> QED BY Invariance, <1>1, PTL

(* Calls that make options never mix theirs.                               *)
THEOREM OneGenerationOfOptions == Spec => []OptionsOfOneGeneration
<1>1. IInv => OptionsOfOneGeneration
  BY DEF IInv, OptionInv, OptionsOfOneGeneration
<1> QED BY Invariance, <1>1, PTL

(* Entries of the lists are lost to overlapping writes and crashes only.   *)
THEOREM SettledEntries == Spec => SettledEntriesStay
<1>1. IInv /\ [Next]_vars =>
        [\A k \in Kinds, x \in Authors :
            LET f == k[1] kind == k[2]
            IN Settled(f, kind, x) =>
                 Settled(f, kind, x)' \/ Contended(f) \/ Contended(f)' \/ crashes' # crashes]_vars
  BY StepSettled
<1> QED BY <1>1, Invariance, PTL DEF Spec, SettledEntriesStay
=============================================================================
