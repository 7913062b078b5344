------------------------ MODULE OrderFollowUp_proofs ------------------------
(***************************************************************************)
(* Safety of the order's follow-up for every number of callers, orders,    *)
(* paths, plans and requests.                                              *)
(*                                                                         *)
(* The argument: files are never removed, an order keeps its path, and     *)
(* media keep their milestone (Grows).  So what a request holds of a file  *)
(* it read stays true of what is on disk, however stale it is: the order   *)
(* it will write is as sound as those on disk (WorkInv), the bridge's      *)
(* order is there with its path, and its plan is being made or is written  *)
(* (BridgeInv), and what a milestone will list was uploaded (ChangeInv).   *)
(***************************************************************************)
EXTENDS OrderFollowUp, SequenceTheorems, TLAPS

(* What holds of an order whichever messages and stale writes made it.     *)
Sound(x) ==
  /\ x.status \in {"order_acknowledged", "in_production", "qc_pending"} =>
       x.milestones["order_acknowledgement"] = "completed"
  /\ x.status = "shipped" => x.milestones["logistics_handover"] = "completed"

Written(pl, p, o) == \E i \in DOMAIN pl : pl[i] = [id |-> p, order |-> o]

OrderOK(pl, o, x) == Sound(x) /\ (x.plan # NoPlan => Written(pl, x.plan, o))

RecordInv == \A o \in Orders : orders[o] # NoOrder => OrderOK(plans, o, orders[o])

(* What a message may undo of the order it read.                           *)
Undone(old, new) ==
  {m \in MilestoneNames : old.milestones[m] = "completed" /\ new.milestones[m] # "completed"}
    \cup (IF old.status = "ORDER_CLOSED" /\ new.status # "ORDER_CLOSED" THEN {"closed"} ELSE {})

Meant(cause) == CASE cause = "qc" -> {"qc_confirmation"}
                  [] cause \in {"acknowledge", "logistics"} -> {"closed"}
                  [] OTHER -> {}

HasPath(os, o, path) == os[o] # NoOrder /\ os[o].path = path

WorkOK(os, pl, w) ==
  /\ HasPath(os, w.order, w.write.path)
  /\ OrderOK(pl, w.order, w.write)
  /\ Undone(w.read, w.write) \subseteq Meant(w.cause)

WorkInv == \A c \in Callers : work[c] # NoWork => WorkOK(orders, plans, work[c])

BridgeOK(os, pl, making_c, b) ==
  /\ HasPath(os, b.order, b.path)
  /\ b.stage = "plan" =>
       \/ making_c # NoTarget /\ making_c.plan = b.plan /\ making_c.order = b.order
       \/ making_c = NoTarget /\ Written(pl, b.plan, b.order)

BridgeInv == \A c \in Callers : bridge[c] # NoBridge => BridgeOK(orders, plans, making[c], bridge[c])

SelectedInv ==
  \A path \in chosen \cup ({selected} \ {NoPath}) : \E o \in Orders : HasPath(orders, o, path)

(* A plan is written after its tasks and milestones.                       *)
MakingOK(ts, ss, m) ==
  /\ m.stage \in {"milestones", "plan"} => ts[m.plan] # NoFile
  /\ m.stage = "plan" => ss[m.plan] # NoFile

PlanInv ==
  /\ \A i \in DOMAIN plans : tasks[plans[i].id] # NoFile /\ stages[plans[i].id] # NoFile
  /\ \A c \in Callers : making[c] # NoTarget => MakingOK(tasks, stages, making[c])

Uploaded(md, ids, p, s) == \A i \in ids : md[i] # NoFile /\ md[i].plan = p /\ md[i].stage = s

ChangeOK(ts, ss, md, ch) ==
  /\ ch.file = "task" => ts[ch.plan] # NoFile
  /\ ch.file \in {"stage", "upload"} => ss[ch.plan] # NoFile
  /\ ch.file = "stage" => Uploaded(md, ch.write.listed, ch.plan, ch.key)
  /\ ch.file = "upload" => Uploaded(md, ch.ids, ch.plan, ch.key)

MediaInv ==
  /\ \A p \in PlanIds, s \in StageTypes : stages[p] # NoFile =>
       Uploaded(media, stages[p][s].listed, p, s)
  /\ \A c \in Callers : change[c] # NoChange => ChangeOK(tasks, stages, media, change[c])

IInv == /\ TypeOK
        /\ RecordInv
        /\ WorkInv
        /\ BridgeInv
        /\ SelectedInv
        /\ PlanInv
        /\ MediaInv

-----------------------------------------------------------------------------
(* What the messages make of an order.                                     *)

(* The default milestones, as a set.                                       *)
LEMMA Names ==
  MilestoneNames =
    {"order_acknowledgement", "material_confirmation", "production_start",
     "mid_production_update", "qc_confirmation", "packaging_ready",
     "logistics_handover", "shipped", "completed"}
<1>1. DOMAIN Milestones = {1, 2, 3, 4, 5, 6, 7, 8, 9}
  BY DEF Milestones
<1>2. QED
  BY <1>1 DEF MilestoneNames, Milestones

(* What every message leaves of an order: its path and plan, what is sound *)
(* of it, and all progress but what the message means to undo.             *)
Effect(cause, old, new) ==
  /\ new \in OrderContexts
  /\ Sound(old) => Sound(new)
  /\ new.path = old.path /\ new.plan = old.plan
  /\ Undone(old, new) \subseteq Meant(cause)

(* An order, by its fields.                                                *)
LEMMA OrderFields ==
  ASSUME NEW x \in OrderContexts
  PROVE  /\ x = [status |-> x.status, milestones |-> x.milestones, path |-> x.path, plan |-> x.plan]
         /\ x.status \in OrderStatuses
         /\ x.milestones \in [MilestoneNames -> {"pending", "in_progress", "completed"}]
         /\ x.path \in Paths /\ x.plan \in Plans \cup {NoPlan}
  BY DEF OrderContexts

LEMMA AcknowledgedEffect ==
  ASSUME NEW x \in OrderContexts PROVE Effect("acknowledge", x, Acknowledged(x))
<1> DEFINE ms == [x.milestones EXCEPT !["order_acknowledgement"] = "completed"]
<1>1. ms \in [MilestoneNames -> {"pending", "in_progress", "completed"}]
  BY OrderFields
<1>2. /\ ms["order_acknowledgement"] = "completed"
      /\ \A m \in MilestoneNames : m # "order_acknowledgement" => ms[m] = x.milestones[m]
      /\ "order_acknowledgement" \in MilestoneNames
  BY OrderFields, Names
<1>3. /\ Acknowledged(x).status = "order_acknowledged" /\ Acknowledged(x).milestones = ms
      /\ Acknowledged(x).path = x.path /\ Acknowledged(x).plan = x.plan
  BY DEF Acknowledged, OrderContexts
<1> HIDE DEF ms
<1>4. Acknowledged(x) \in OrderContexts
  BY <1>1, <1>2, OrderFields DEF Acknowledged, OrderContexts, OrderStatuses
<1>5. QED
  BY <1>3, <1>2, <1>4 DEF Effect, Sound, Undone, Meant

LEMMA ProducedEffect ==
  ASSUME NEW x \in OrderContexts, NEW hints \in HintSets
  PROVE  Effect("production", x, Produced(x, hints))
<1> DEFINE ms == [m \in MilestoneNames |->
                    IF m \in hints /\ x.milestones[m] = "pending" THEN "in_progress"
                    ELSE x.milestones[m]]
           st == IF x.status = "order_acknowledged" THEN "in_production" ELSE x.status
<1>1. ms \in [MilestoneNames -> {"pending", "in_progress", "completed"}] /\ st \in OrderStatuses
  BY OrderFields DEF OrderStatuses
<1>2. "logistics_handover" \in MilestoneNames /\ "order_acknowledgement" \in MilestoneNames
  BY Names
<1>3. \A m \in MilestoneNames : x.milestones[m] = "completed" => ms[m] = "completed"
  OBVIOUS
<1>4. /\ st \in {"order_acknowledged", "in_production", "qc_pending"} =>
           x.status \in {"order_acknowledged", "in_production", "qc_pending"}
      /\ st = "shipped" => x.status = "shipped"
  OBVIOUS
<1>5. x.status = "ORDER_CLOSED" => st = "ORDER_CLOSED"
  OBVIOUS
<1>6. /\ Produced(x, hints).status = st /\ Produced(x, hints).milestones = ms
      /\ Produced(x, hints).path = x.path /\ Produced(x, hints).plan = x.plan
  BY DEF Produced, Hint, OrderContexts
<1> HIDE DEF ms, st
<1>7. Produced(x, hints) \in OrderContexts
  BY <1>1, <1>2, OrderFields DEF Produced, Hint, OrderContexts, OrderStatuses
<1>8. QED
  BY <1>6, <1>2, <1>3, <1>4, <1>5, <1>7 DEF Effect, Sound, Undone, Meant

LEMMA InspectedEffect ==
  ASSUME NEW x \in OrderContexts, NEW words PROVE Effect("qc", x, Inspected(x, words))
<1> DEFINE passed == QcStatus(words) = "passed"
           ms == [x.milestones EXCEPT !["qc_confirmation"] = IF passed THEN "completed" ELSE "in_progress"]
           st == IF passed /\ x.status = "in_production" THEN "qc_pending" ELSE x.status
<1>1. ms \in [MilestoneNames -> {"pending", "in_progress", "completed"}] /\ st \in OrderStatuses
  BY OrderFields DEF OrderStatuses
<1>2. /\ \A m \in MilestoneNames : m # "qc_confirmation" => ms[m] = x.milestones[m]
      /\ "order_acknowledgement" \in MilestoneNames /\ "logistics_handover" \in MilestoneNames
  BY OrderFields, Names
<1>3. /\ st \in {"order_acknowledged", "in_production", "qc_pending"} =>
           x.status \in {"order_acknowledged", "in_production", "qc_pending"}
      /\ st = "shipped" => x.status = "shipped"
  OBVIOUS
<1>4. x.status = "ORDER_CLOSED" => st = "ORDER_CLOSED"
  OBVIOUS
<1>5. /\ Inspected(x, words).status = st /\ Inspected(x, words).milestones = ms
      /\ Inspected(x, words).path = x.path /\ Inspected(x, words).plan = x.plan
  BY DEF Inspected, OrderContexts
<1> HIDE DEF ms, st
<1>6. Inspected(x, words) \in OrderContexts
  BY <1>1, <1>2, OrderFields DEF Inspected, OrderContexts, OrderStatuses
<1>7. QED
  BY <1>5, <1>2, <1>3, <1>4, <1>6 DEF Effect, Sound, Undone, Meant

(* "logistics_handover" comes before "shipped" in the list.                *)
LEMMA FirstMatch ==
  ASSUME NEW status
  PROVE  LET matching == {i \in DOMAIN Milestones :
                     \/ Milestones[i] = "logistics_handover" /\ status \in {"handed_over", "shipped"}
                     \/ Milestones[i] = "shipped" /\ status = "shipped"}
         IN  matching # {} => Milestones[Min(matching)] = "logistics_handover"
<1> DEFINE matching == {i \in DOMAIN Milestones :
                     \/ Milestones[i] = "logistics_handover" /\ status \in {"handed_over", "shipped"}
                     \/ Milestones[i] = "shipped" /\ status = "shipped"}
<1> SUFFICES ASSUME matching # {} PROVE Milestones[Min(matching)] = "logistics_handover"
  OBVIOUS
<1>1. DOMAIN Milestones = {1, 2, 3, 4, 5, 6, 7, 8, 9}
  BY DEF Milestones
<1>2. Milestones[7] = "logistics_handover" /\ Milestones[8] = "shipped"
        /\ \A i \in DOMAIN Milestones : Milestones[i] \in {"logistics_handover", "shipped"} => i \in {7, 8}
  BY <1>1 DEF Milestones
<1>3. 7 \in matching /\ matching \subseteq {7, 8}
  BY <1>1, <1>2
<1> HIDE DEF matching
<1>4. \E i \in matching : \A j \in matching : i <= j
  BY <1>3
<1>5. Min(matching) \in matching /\ \A j \in matching : Min(matching) <= j
  BY <1>4 DEF Min
<1>6. Min(matching) \in {7, 8} /\ Min(matching) <= 7
  BY <1>3, <1>5
<1>7. Min(matching) = 7
  BY <1>6
<1>8. QED
  BY <1>2, <1>7

LEMMA MovedEffect ==
  ASSUME NEW x \in OrderContexts, NEW status \in LogisticsStatuses
  PROVE  Effect("logistics", x, Moved(x, status))
<1> DEFINE matching == {i \in DOMAIN Milestones :
                     \/ Milestones[i] = "logistics_handover" /\ status \in {"handed_over", "shipped"}
                     \/ Milestones[i] = "shipped" /\ status = "shipped"}
           ms == [m \in MilestoneNames |->
                    IF matching # {} /\ m = Milestones[Min(matching)] THEN "completed"
                    ELSE x.milestones[m]]
           st == CASE status = "shipped" -> "shipped"
                   [] status = "delivered" -> "buyer_signoff_pending"
                   [] OTHER -> x.status
<1>1. ms \in [MilestoneNames -> {"pending", "in_progress", "completed"}]
  <2> HIDE DEF matching
  <2>1. QED
    BY OrderFields
<1>2. st \in OrderStatuses
  BY OrderFields DEF OrderStatuses
<1>3. /\ st \in {"order_acknowledged", "in_production", "qc_pending"} => st = x.status
      /\ st = "shipped" => status = "shipped" \/ x.status = "shipped"
  OBVIOUS
<1>4. matching # {} => Milestones[Min(matching)] = "logistics_handover"
  BY FirstMatch
<1>5. /\ Moved(x, status).status = st /\ Moved(x, status).milestones = ms
      /\ Moved(x, status).path = x.path /\ Moved(x, status).plan = x.plan
  BY DEF Moved, OrderContexts
<1>6. status = "shipped" => matching # {}
  <2>1. 7 \in DOMAIN Milestones /\ Milestones[7] = "logistics_handover"
    BY DEF Milestones
  <2>2. QED
    BY <2>1
<1> HIDE DEF matching, st
<1>7. /\ \A m \in MilestoneNames : m # "logistics_handover" => ms[m] = x.milestones[m]
      /\ \A m \in MilestoneNames : x.milestones[m] = "completed" => ms[m] = "completed"
      /\ status = "shipped" => ms["logistics_handover"] = "completed"
      /\ "order_acknowledgement" \in MilestoneNames /\ "logistics_handover" \in MilestoneNames
  BY <1>4, <1>6, Names
<1> HIDE DEF ms
<1>8. Moved(x, status) \in OrderContexts
  BY <1>1, <1>2, OrderFields DEF Moved, OrderContexts, OrderStatuses
<1>9. QED
  BY <1>5, <1>3, <1>7, <1>8 DEF Effect, Sound, Undone, Meant

LEMMA ClosedEffect ==
  ASSUME NEW x \in OrderContexts PROVE Effect("signoff", x, Closed(x))
<1>1. /\ Closed(x) \in OrderContexts
      /\ Closed(x).status = "ORDER_CLOSED" /\ Closed(x).milestones = x.milestones
      /\ Closed(x).path = x.path /\ Closed(x).plan = x.plan
  BY DEF Closed, OrderContexts, OrderStatuses
<1>2. QED
  BY <1>1 DEF Effect, Sound, Undone, Meant

(* The order the bridge makes, without and with its plan.                  *)
LEMMA NewOrderSound ==
  ASSUME NEW path \in Paths, NEW plan \in Plans
  PROVE  LET x == NewOrder(path)
             y == [x EXCEPT !.plan = plan]
         IN  /\ x \in OrderContexts /\ x.path = path /\ x.plan = NoPlan /\ Sound(x)
             /\ y \in OrderContexts /\ y.path = path /\ y.plan = plan /\ Sound(y)
             /\ Undone(x, y) = {}
<1>1. "logistics_handover" \in MilestoneNames
  BY Names
<1>2. QED
  BY <1>1 DEF NewOrder, OrderContexts, OrderStatuses, Sound, Undone

-----------------------------------------------------------------------------
(* What the steps of the system do.                                        *)

(* The request reads an order that has a file, for a message.              *)
Loads(c) ==
  \E o \in Orders, cause \in {"acknowledge", "production", "qc", "logistics", "signoff"},
     new \in OrderContexts :
       /\ orders[o] # NoOrder /\ orders[o] \in OrderContexts
       /\ Effect(cause, orders[o], new)
       /\ work' = [work EXCEPT ![c] =
                     [order |-> o, cause |-> cause, read |-> orders[o], write |-> new]]

LEMMA LoadsOf ==
  ASSUME TypeOK, NEW c \in Callers, NEW o \in Orders, NEW new,
         NEW cause \in {"acknowledge", "production", "qc", "logistics", "signoff"},
         orders[o] # NoOrder => Effect(cause, orders[o], new),
         Load(c, o, cause, new)
  PROVE  Loads(c)
<1>1. orders[o] # NoOrder /\ orders[o] \in OrderContexts
  BY DEF Load, TypeOK, OrderTypeOK
<1>2. new \in OrderContexts /\ Effect(cause, orders[o], new)
  BY <1>1 DEF Effect
<1>3. QED
  BY <1>1, <1>2 DEF Load, Loads

LEMMA RequestLoads ==
  ASSUME TypeOK, NEW c \in Callers, OrderRequest(c)
  PROVE  /\ Loads(c)
         /\ UNCHANGED <<orders, bridgeVars, merchVars>> /\ calls' \in 0..MaxCalls
<1>1. calls' \in 0..MaxCalls /\ UNCHANGED <<bridgeVars, merchVars>>
  BY CallsBound DEF OrderRequest, Call, TypeOK
<1>2. ASSUME NEW o \in Orders, ReceiveBuyerSignoff(c, o) PROVE Loads(c) /\ UNCHANGED orders
  <2>1. orders[o] # NoOrder => orders[o] \in OrderContexts
    BY DEF TypeOK, OrderTypeOK
  <2>2. Load(c, o, "signoff", Closed(orders[o]))
    BY <1>2 DEF ReceiveBuyerSignoff
  <2>3. Loads(c)
    BY <2>1, <2>2, LoadsOf, ClosedEffect
  <2>4. QED
    BY <2>2, <2>3 DEF Load
<1>3. ASSUME NEW o \in Orders, SupplierMessage(c, o) PROVE Loads(c) /\ UNCHANGED orders
  <2>1. orders[o] # NoOrder => orders[o] \in OrderContexts
    BY DEF TypeOK, OrderTypeOK
  <2>2. CASE AcknowledgeOrder(c, o)
    BY <2>1, <2>2, LoadsOf, AcknowledgedEffect DEF AcknowledgeOrder, Load
  <2>3. CASE SubmitProductionUpdate(c, o)
    <3>1. PICK hints \in HintSets : Load(c, o, "production", Produced(orders[o], hints))
      BY <2>3 DEF SubmitProductionUpdate
    <3>2. QED
      BY <2>1, <3>1, LoadsOf, ProducedEffect DEF Load
  <2>4. CASE SubmitQcUpdate(c, o)
    <3>1. PICK words \in QcMessages : Load(c, o, "qc", Inspected(orders[o], words))
      BY <2>4 DEF SubmitQcUpdate
    <3>2. QED
      BY <2>1, <3>1, LoadsOf, InspectedEffect DEF Load
  <2>5. CASE SubmitLogisticsUpdate(c, o)
    <3>1. PICK status \in LogisticsStatuses : Load(c, o, "logistics", Moved(orders[o], status))
      BY <2>5 DEF SubmitLogisticsUpdate
    <3>2. QED
      BY <2>1, <3>1, LoadsOf, MovedEffect DEF Load
  <2>6. QED
    BY <1>3, <2>2, <2>3, <2>4, <2>5 DEF SupplierMessage
<1>4. \E o \in Orders : SupplierMessage(c, o) \/ ReceiveBuyerSignoff(c, o)
  BY DEF OrderRequest, TypeOK
<1>5. QED
  BY <1>1, <1>2, <1>3, <1>4

(* What the bridge will write of the order, with its plan.                 *)
LEMMA LinkWork ==
  ASSUME TypeOK, NEW c \in Callers, LinkPlan(c)
  PROVE  LET b == bridge[c]
             x == NewOrder(b.path)
             w == [order |-> b.order, cause |-> "link", read |-> x,
                   write |-> [x EXCEPT !.plan = b.plan]]
         IN  /\ b \in Bridges /\ w \in Works
             /\ x.path = b.path /\ w.write.path = b.path /\ w.write.plan = b.plan
             /\ Sound(w.write) /\ Undone(x, w.write) = {}
             /\ work' = [work EXCEPT ![c] = w]
             /\ bridge' = [bridge EXCEPT ![c] = [b EXCEPT !.stage = "link"]]
<1> DEFINE b == bridge[c]
           x == NewOrder(b.path)
           y == [x EXCEPT !.plan = b.plan]
<1>1. b \in Bridges
  BY DEF LinkPlan, TypeOK
<1>2. b.path \in Paths /\ b.plan \in Plans /\ b.order \in Orders
  BY <1>1 DEF Bridges
<1>3. /\ x \in OrderContexts /\ x.path = b.path
      /\ y \in OrderContexts /\ y.path = b.path /\ y.plan = b.plan /\ Sound(y) /\ Undone(x, y) = {}
  BY <1>2, NewOrderSound
<1>4. [order |-> b.order, cause |-> "link", read |-> x, write |-> y] \in Works
  BY <1>2, <1>3 DEF Works
<1>5. QED
  BY <1>1, <1>3, <1>4 DEF LinkPlan

(* Next is the disjunction of these cases.                                 *)
LEMMA NextSteps ==
  Next => \/ Crash
          \/ \E c \in Callers :
               \/ \E o \in Orders, path \in Paths, plan \in Plans : CreateOrder(c, o, path, plan)
               \/ MakePlan(c) \/ LinkPlan(c) \/ PlanWarning(c) \/ SelectPath(c)
               \/ MarkSelectedByBuyer(c) \/ OrderRequest(c) \/ SaveOrder(c)
               \/ MerchandiserRequest(c) \/ MerchandiserStep(c)
  BY DEF Next

-----------------------------------------------------------------------------
(* Types.                                                                  *)

LEMMA TypeInit == Init => TypeOK
<1> SUFFICES ASSUME Init PROVE TypeOK
  OBVIOUS
<1>1. OrderTypeOK
  BY DEF Init, OrderInit, OrderTypeOK
<1>2. MerchTypeOK
  BY EmptySeq DEF Init, MerchInit, MerchTypeOK
<1>3. QED
  BY <1>1, <1>2, CallsBound DEF Init, TypeOK

(* A plan that is begun.                                                   *)
LEMMA BeginPlanType ==
  ASSUME TypeOK, NEW c \in Callers, NEW p, NEW order \in Orders \cup {NoTarget}, BeginPlan(c, p, order)
  PROVE  MerchTypeOK'
<1>1. [plan |-> p, order |-> order, stage |-> "tasks"] \in Makings
  BY OneSystem DEF BeginPlan, FreshPlans, Makings
<1>2. QED
  BY <1>1, OneSystem DEF BeginPlan, TypeOK, MerchTypeOK

LEMMA MakePlanType ==
  ASSUME TypeOK, NEW c \in Callers,
         PlanTasksAfterConfirmation(c) \/ CreateMilestones(c) \/ WriteExecutionPlan(c) \/ PlanFails(c)
  PROVE  MerchTypeOK'
<1>1. making[c] \in Makings /\ making \in [Callers -> Makings \cup {NoTarget}]
  BY OneSystem DEF TypeOK, MerchTypeOK, PlanTasksAfterConfirmation, CreateMilestones,
     WriteExecutionPlan, PlanFails, AtStage
<1>2. CASE PlanTasksAfterConfirmation(c)
  BY <1>1, <1>2, OneSystem DEF PlanTasksAfterConfirmation, TypeOK, MerchTypeOK, Makings
<1>3. CASE CreateMilestones(c)
  BY <1>1, <1>3, OneSystem DEF CreateMilestones, TypeOK, MerchTypeOK, Makings, StageFiles
<1>4. CASE WriteExecutionPlan(c)
  <2>1. [id |-> making[c].plan, order |-> making[c].order] \in PlanFiles
    BY <1>1 DEF Makings, PlanFiles
  <2>2. plans' \in Seq(PlanFiles)
    BY <1>4, <2>1, AppendProperties DEF WriteExecutionPlan, TypeOK, MerchTypeOK
  <2>3. QED
    BY <1>1, <1>4, <2>2, OneSystem DEF WriteExecutionPlan, TypeOK, MerchTypeOK
<1>5. CASE PlanFails(c)
  BY <1>1, <1>5, OneSystem DEF PlanFails, TypeOK, MerchTypeOK
<1>6. QED
  BY <1>2, <1>3, <1>4, <1>5

(* The file a caller has read and will write.                              *)
LEMMA ChangeOf ==
  ASSUME TypeOK, NEW c \in Callers, change[c] # NoChange
  PROVE  /\ change[c] \in Changes
         /\ change[c].file \in {"task", "stage", "upload", "exception"}
         /\ change[c].file = "task" =>
              /\ change[c].plan \in PlanIds /\ change[c].key \in TaskTypes
         /\ change[c].file = "stage" =>
              /\ change[c].plan \in PlanIds /\ change[c].key \in StageTypes
              /\ change[c].write \in StageFiles
         /\ change[c].file = "upload" =>
              /\ change[c].plan \in PlanIds /\ change[c].key \in StageTypes
              /\ change[c].ids \subseteq MediaIds
         /\ change[c].file = "exception" => change[c].key \in ExceptionIds
<1>1. change[c] \in Changes
  BY OneSystem DEF TypeOK, MerchTypeOK
<1>2. QED
  BY <1>1 DEF Changes

(* The files of a plan.                                                    *)
LEMMA PlanFilesType ==
  ASSUME TypeOK, NEW p \in PlanIds
  PROVE  /\ tasks[p] # NoFile => tasks[p] \in [TaskTypes -> {"PENDING", "DONE"}]
         /\ stages[p] # NoFile => stages[p] \in [StageTypes -> StageFiles]
         /\ tasks \in [PlanIds -> [TaskTypes -> {"PENDING", "DONE"}] \cup {NoFile}]
         /\ stages \in [PlanIds -> [StageTypes -> StageFiles] \cup {NoFile}]
  BY DEF TypeOK, MerchTypeOK

LEMMA MerchRequestType ==
  ASSUME TypeOK, NEW c \in Callers, MerchandiserRequest(c) PROVE MerchTypeOK'
<1> USE OneSystem
<1>1. ASSUME NEW p \in PlanIds, NEW order \in known \cup {NoTarget}, BeginPlan(c, p, order)
      PROVE  MerchTypeOK'
  BY <1>1, BeginPlanType DEF TypeOK
<1>2. ASSUME NEW p \in PlanIds, NEW t \in TaskTypes, ReadTask(c, p, t) PROVE MerchTypeOK'
  <2>1. [file |-> "task", plan |-> p, key |-> t] \in Changes
    BY DEF Changes
  <2>2. QED
    BY <1>2, <2>1 DEF ReadTask, TypeOK, MerchTypeOK
<1>3. ASSUME NEW p \in PlanIds, NEW s \in StageTypes, ReadMilestone(c, p, s) PROVE MerchTypeOK'
  <2>1. stages[p][s] \in StageFiles
    BY <1>3, PlanFilesType DEF ReadMilestone
  <2>2. PICK status \in {"REQUESTED", "CONFIRMED", "REJECTED"} :
          change' = [change EXCEPT ![c] = [file |-> "stage", plan |-> p, key |-> s,
                       write |-> [stages[p][s] EXCEPT !.status = status]]]
    BY <1>3 DEF ReadMilestone
  <2>3. [stages[p][s] EXCEPT !.status = status] \in StageFiles
    BY <2>1 DEF StageFiles
  <2>4. [file |-> "stage", plan |-> p, key |-> s,
         write |-> [stages[p][s] EXCEPT !.status = status]] \in Changes
    BY <2>3 DEF Changes
  <2>5. QED
    BY <1>3, <2>2, <2>4 DEF ReadMilestone, TypeOK, MerchTypeOK
<1>4. ASSUME NEW p \in PlanIds, NEW s \in StageTypes, NEW ids \in SUBSET MediaIds,
             UploadMediaEvidence(c, p, s, ids)
      PROVE  MerchTypeOK'
  <2>1. PICK review \in {"pending", "not_required"} :
          media' = [i \in MediaIds |->
                      IF i \in ids THEN [plan |-> p, stage |-> s, review |-> review] ELSE media[i]]
    BY <1>4 DEF UploadMediaEvidence
  <2>2. media' \in [MediaIds -> MediaFiles \cup {NoFile}]
    BY <2>1 DEF TypeOK, MerchTypeOK, MediaFiles
  <2>3. [file |-> "upload", plan |-> p, key |-> s, ids |-> ids] \in Changes
    BY DEF Changes
  <2>4. QED
    BY <1>4, <2>2, <2>3 DEF UploadMediaEvidence, TypeOK, MerchTypeOK
<1>5. ASSUME NEW e \in ExceptionIds, RaiseException(e) PROVE MerchTypeOK'
  BY <1>5 DEF RaiseException, TypeOK, MerchTypeOK, ExceptionFiles
<1>6. ASSUME NEW e \in ExceptionIds, ReadException(c, e) PROVE MerchTypeOK'
  <2>1. [file |-> "exception", key |-> e] \in Changes
    BY DEF Changes
  <2>2. QED
    BY <1>6, <2>1 DEF ReadException, TypeOK, MerchTypeOK
<1>7. QED
  BY <1>1, <1>2, <1>3, <1>4, <1>5, <1>6 DEF MerchandiserRequest

(* What the merchandiser's steps write.                                    *)
LEMMA MerchStepType ==
  ASSUME TypeOK, MediaInv, NEW c \in Callers, MerchandiserStep(c)
  PROVE  /\ MerchTypeOK'
         /\ \A p \in PlanIds : tasks[p] # NoFile => tasks'[p] # NoFile
         /\ \A p \in PlanIds : stages[p] # NoFile => stages'[p] # NoFile
         /\ UNCHANGED <<plans, media, making>>
<1> USE OneSystem
<1>0. change[c] # NoChange /\ change[c] \in Changes /\ ChangeOK(tasks, stages, media, change[c])
  BY ChangeOf
  DEF MerchandiserStep, CompleteTask, UpdateMilestoneStatus, SaveMilestone, ResolveException, MediaInv
<1>1. CASE CompleteTask(c)
  <2> DEFINE p == change[c].plan
             row == [tasks[p] EXCEPT ![change[c].key] = "DONE"]
  <2>1. p \in PlanIds /\ tasks[p] \in [TaskTypes -> {"PENDING", "DONE"}]
    BY <1>0, <1>1, ChangeOf, PlanFilesType DEF CompleteTask, ChangeOK
  <2>2. row \in [TaskTypes -> {"PENDING", "DONE"}]
    BY <2>1
  <2>3. tasks' = [tasks EXCEPT ![p] = row]
    BY <1>1 DEF CompleteTask
  <2> HIDE DEF row, p
  <2>4. tasks' \in [PlanIds -> [TaskTypes -> {"PENDING", "DONE"}] \cup {NoFile}]
          /\ \A q \in PlanIds : tasks[q] # NoFile => tasks'[q] # NoFile
    BY <2>1, <2>2, <2>3, Nulls, PlanFilesType
  <2>5. QED
    BY <1>1, <2>4 DEF CompleteTask, TypeOK, MerchTypeOK
<1>2. CASE SaveMilestone(c)
  <2> DEFINE p == change[c].plan
             row == [stages[p] EXCEPT ![change[c].key] = change[c].write]
  <2>1. p \in PlanIds /\ stages[p] \in [StageTypes -> StageFiles] /\ change[c].write \in StageFiles
    BY <1>0, <1>2, ChangeOf, PlanFilesType DEF SaveMilestone, ChangeOK
  <2>2. row \in [StageTypes -> StageFiles]
    BY <2>1
  <2>3. stages' = [stages EXCEPT ![p] = row]
    BY <1>2 DEF SaveMilestone
  <2> HIDE DEF row, p
  <2>4. stages' \in [PlanIds -> [StageTypes -> StageFiles] \cup {NoFile}]
          /\ \A q \in PlanIds : stages[q] # NoFile => stages'[q] # NoFile
    BY <2>1, <2>2, <2>3, Nulls, PlanFilesType
  <2>5. QED
    BY <1>2, <2>4 DEF SaveMilestone, TypeOK, MerchTypeOK
<1>3. CASE UpdateMilestoneStatus(c)
  <2> DEFINE p == change[c].plan
             s == change[c].key
             file == [stages[p][s] EXCEPT !.status = "UPLOADED", !.listed = change[c].ids]
  <2>1. p \in PlanIds /\ s \in StageTypes /\ stages[p][s] \in StageFiles /\ change[c].ids \subseteq MediaIds
    BY <1>0, <1>3, ChangeOf, PlanFilesType DEF UpdateMilestoneStatus, ChangeOK
  <2>2. file \in StageFiles
    BY <2>1 DEF StageFiles
  <2>3. change' = [change EXCEPT ![c] = [file |-> "stage", plan |-> p, key |-> s, write |-> file]]
    BY <1>3 DEF UpdateMilestoneStatus
  <2> HIDE DEF p, s, file
  <2>4. [file |-> "stage", plan |-> p, key |-> s, write |-> file] \in Changes
    BY <2>1, <2>2 DEF Changes
  <2>5. QED
    BY <1>3, <2>3, <2>4 DEF UpdateMilestoneStatus, TypeOK, MerchTypeOK
<1>4. CASE ResolveException(c)
  BY <1>0, <1>4, ChangeOf DEF ResolveException, TypeOK, MerchTypeOK, ExceptionFiles
<1>5. QED
  BY <1>1, <1>2, <1>3, <1>4 DEF MerchandiserStep

(* Every step keeps the types.                                             *)
LEMMA TypeStep == TypeOK /\ MediaInv /\ [Next]_vars => TypeOK'
<1> SUFFICES ASSUME TypeOK, MediaInv, [Next]_vars PROVE TypeOK'
  OBVIOUS
<1>1. CASE Crash
  BY <1>1, OneSystem DEF Crash, TypeOK, OrderTypeOK, MerchTypeOK
<1>2. ASSUME NEW c \in Callers, NEW o \in Orders, NEW path \in Paths, NEW plan \in Plans,
             CreateOrder(c, o, path, plan)
      PROVE  TypeOK'
  <2>1. orders' \in [Orders -> OrderContexts \cup {NoOrder}] /\ UNCHANGED work
    BY <1>2, NewOrderSound DEF CreateOrder, TypeOK, OrderTypeOK
  <2>2. MerchTypeOK'
    BY <1>2, BeginPlanType DEF CreateOrder
  <2>3. [order |-> o, path |-> path, plan |-> plan, stage |-> "plan"] \in Bridges
    BY DEF Bridges
  <2>4. bridge' \in [Callers -> Bridges \cup {NoBridge}]
    BY <1>2, <2>3 DEF CreateOrder, TypeOK
  <2>5. UNCHANGED <<selected, chosen, known>> /\ calls' \in 0..MaxCalls
    BY <1>2, CallsBound DEF CreateOrder, Call, TypeOK
  <2>6. QED
    BY <2>1, <2>2, <2>4, <2>5 DEF TypeOK, OrderTypeOK
<1>3. ASSUME NEW c \in Callers, MakePlan(c) PROVE TypeOK'
  BY <1>3, MakePlanType DEF MakePlan, TypeOK, OrderTypeOK, orderVars
<1>4. ASSUME NEW c \in Callers, LinkPlan(c) PROVE TypeOK'
  <2> DEFINE b == bridge[c]
             x == NewOrder(b.path)
             w == [order |-> b.order, cause |-> "link", read |-> x,
                   write |-> [x EXCEPT !.plan = b.plan]]
  <2>1. b \in Bridges /\ w \in Works /\ work' = [work EXCEPT ![c] = w]
          /\ bridge' = [bridge EXCEPT ![c] = [b EXCEPT !.stage = "link"]]
    BY <1>4, LinkWork
  <2>2. [b EXCEPT !.stage = "link"] \in Bridges
    BY <2>1 DEF Bridges
  <2> HIDE DEF w, b
  <2>3. work' \in [Callers -> Works \cup {NoWork}] /\ bridge' \in [Callers -> Bridges \cup {NoBridge}]
    BY <2>1, <2>2 DEF TypeOK, OrderTypeOK
  <2>4. QED
    BY <1>4, <2>3 DEF LinkPlan, TypeOK, OrderTypeOK, MerchTypeOK, merchVars
<1>5. ASSUME NEW c \in Callers, PlanWarning(c) PROVE TypeOK'
  <2>1. MerchTypeOK' /\ UNCHANGED <<orderVars, selected, chosen, known, calls>>
    BY <1>5, MakePlanType DEF PlanWarning
  <2>2. bridge' \in [Callers -> Bridges \cup {NoBridge}]
    BY <1>5 DEF PlanWarning, TypeOK, Bridges
  <2>3. QED
    BY <2>1, <2>2 DEF TypeOK, OrderTypeOK, orderVars
<1>6. ASSUME NEW c \in Callers, SelectPath(c) PROVE TypeOK'
  <2>1. bridge[c] \in Bridges
    BY <1>6 DEF SelectPath, TypeOK
  <2>2. bridge' \in [Callers -> Bridges \cup {NoBridge}] /\ selected' \in Paths \cup {NoPath}
    BY <1>6, <2>1 DEF SelectPath, TypeOK, Bridges
  <2>3. QED
    BY <1>6, <2>2 DEF SelectPath, TypeOK, OrderTypeOK, MerchTypeOK, orderVars, merchVars
<1>7. ASSUME NEW c \in Callers, MarkSelectedByBuyer(c) PROVE TypeOK'
  <2>1. bridge[c] \in Bridges
    BY <1>7 DEF MarkSelectedByBuyer, TypeOK
  <2>2. chosen' \subseteq Paths /\ known' \subseteq Orders /\ bridge' \in [Callers -> Bridges \cup {NoBridge}]
    BY <1>7, <2>1 DEF MarkSelectedByBuyer, TypeOK, Bridges
  <2>3. QED
    BY <1>7, <2>2 DEF MarkSelectedByBuyer, TypeOK, OrderTypeOK, MerchTypeOK, orderVars, merchVars
<1>8. ASSUME NEW c \in Callers, OrderRequest(c) PROVE TypeOK'
  <2>1. work' \in [Callers -> Works \cup {NoWork}]
    BY <1>8, RequestLoads DEF Loads, Works, TypeOK, OrderTypeOK
  <2>2. UNCHANGED <<orders, bridgeVars, merchVars>> /\ calls' \in 0..MaxCalls
    BY <1>8, RequestLoads
  <2>3. QED
    BY <2>1, <2>2 DEF TypeOK, OrderTypeOK, MerchTypeOK, bridgeVars, merchVars
<1>9. ASSUME NEW c \in Callers, SaveOrder(c) PROVE TypeOK'
  <2>1. work[c] \in Works
    BY <1>9 DEF SaveOrder, SaveOrderExecution, TypeOK, OrderTypeOK
  <2>2. OrderTypeOK'
    BY <1>9, <2>1 DEF SaveOrder, SaveOrderExecution, TypeOK, OrderTypeOK, Works
  <2>3. QED
    BY <1>9, <2>2 DEF SaveOrder, TypeOK, MerchTypeOK, bridgeVars, merchVars
<1>10. ASSUME NEW c \in Callers, MerchandiserRequest(c) PROVE TypeOK'
  <2>1. calls' \in 0..MaxCalls /\ UNCHANGED <<orderVars, bridgeVars>>
    BY <1>10, CallsBound DEF MerchandiserRequest, Call, TypeOK
  <2>2. QED
    BY <1>10, <2>1, MerchRequestType DEF TypeOK, OrderTypeOK, orderVars, bridgeVars
<1>11. ASSUME NEW c \in Callers, MerchandiserStep(c) PROVE TypeOK'
  <2>1. UNCHANGED <<orderVars, bridgeVars, calls>>
    BY <1>11 DEF MerchandiserStep
  <2>2. QED
    BY <1>11, <2>1, MerchStepType DEF TypeOK, OrderTypeOK, orderVars, bridgeVars
<1>12. CASE UNCHANGED vars
  BY <1>12 DEF vars, orderVars, merchVars, bridgeVars, TypeOK, OrderTypeOK, MerchTypeOK
<1>13. QED
  BY <1>1, <1>2, <1>3, <1>4, <1>5, <1>6, <1>7, <1>8, <1>9, <1>10, <1>11, <1>12, NextSteps
-----------------------------------------------------------------------------
(* Files stay: an order with its path, a plan with its order, tasks and    *)
(* milestones, and media as they were uploaded.                            *)
Grows ==
  /\ \A o \in Orders, path \in Paths : HasPath(orders, o, path) => HasPath(orders', o, path)
  /\ \A p \in PlanIds, o \in Orders : Written(plans, p, o) => Written(plans', p, o)
  /\ \A p \in PlanIds : tasks[p] # NoFile => tasks'[p] # NoFile
  /\ \A p \in PlanIds : stages[p] # NoFile => stages'[p] # NoFile
  /\ \A i \in MediaIds : media[i] # NoFile => media'[i] = media[i]

(* A plan file is written after those there are.                           *)
LEMMA PlanAppended ==
  ASSUME NEW pl \in Seq(PlanFiles), NEW x \in PlanFiles
  PROVE  LET after == Append(pl, x)
         IN  /\ \A p, o : Written(pl, p, o) => Written(after, p, o)
             /\ Written(after, x.id, x.order)
             /\ \A i \in DOMAIN after : after[i] = x \/ \E j \in DOMAIN pl : after[i] = pl[j]
<1> DEFINE after == Append(pl, x)
<1>1. /\ after \in Seq(PlanFiles) /\ Len(after) = Len(pl) + 1 /\ Len(pl) \in Nat
      /\ \A i \in 1..Len(pl) : after[i] = pl[i]
      /\ after[Len(pl) + 1] = x
  BY AppendProperties
<1>2. DOMAIN pl = 1..Len(pl) /\ DOMAIN after = 1..(Len(pl) + 1)
  BY <1>1
<1>3. x = [id |-> x.id, order |-> x.order]
  BY DEF PlanFiles
<1> HIDE DEF after
<1>4. \A p, o : Written(pl, p, o) => Written(after, p, o)
  BY <1>1, <1>2 DEF Written
<1>5. Written(after, x.id, x.order)
  BY <1>1, <1>2, <1>3 DEF Written
<1>6. \A i \in DOMAIN after : after[i] = x \/ \E j \in DOMAIN pl : after[i] = pl[j]
  BY <1>1, <1>2
<1>7. QED
  BY <1>4, <1>5, <1>6 DEF after

(* The plan a caller is making.                                            *)
LEMMA MakingOf ==
  ASSUME TypeOK, NEW c \in Callers, making[c] # NoTarget
  PROVE  /\ making[c] \in Makings
         /\ making[c].plan \in PlanIds /\ making[c].order \in Orders \cup {NoTarget}
         /\ [id |-> making[c].plan, order |-> making[c].order] \in PlanFiles
<1>1. making[c] \in Makings
  BY OneSystem DEF TypeOK, MerchTypeOK
<1>2. QED
  BY <1>1, OneSystem DEF Makings, PlanFiles

(* What a save writes.                                                     *)
LEMMA SavedOrder ==
  ASSUME TypeOK, WorkInv, NEW c \in Callers, SaveOrder(c)
  PROVE  /\ work[c] # NoWork /\ work[c] \in Works /\ WorkOK(orders, plans, work[c])
         /\ work[c].order \in Orders /\ work[c].write \in OrderContexts
         /\ orders' = [orders EXCEPT ![work[c].order] = work[c].write]
         /\ work' = [work EXCEPT ![c] = NoWork]
         /\ UNCHANGED <<bridgeVars, merchVars, calls>>
<1>1. work[c] # NoWork /\ work[c] \in Works
  BY DEF SaveOrder, SaveOrderExecution, TypeOK, OrderTypeOK
<1>2. QED
  BY <1>1 DEF SaveOrder, SaveOrderExecution, WorkInv, Works

(* Orders change by a new one or by a save.                                *)
LEMMA OrdersChange ==
  ASSUME TypeOK, [Next]_vars
  PROVE  \/ UNCHANGED orders
         \/ \E c \in Callers : SaveOrder(c)
         \/ \E c \in Callers, o \in Orders, path \in Paths, plan \in Plans : CreateOrder(c, o, path, plan)
<1>1. ASSUME NEW c \in Callers, OrderRequest(c) PROVE UNCHANGED orders
  BY <1>1, RequestLoads
<1>2. QED
  BY <1>1, NextSteps
  DEF Crash, MakePlan, LinkPlan, PlanWarning, SelectPath, MarkSelectedByBuyer, MerchandiserRequest,
      MerchandiserStep, orderVars, vars

(* The files of plans change as their making goes on, and media are added. *)
LEMMA MerchChange ==
  ASSUME TypeOK, MediaInv, [Next]_vars
  PROVE  \/ UNCHANGED <<tasks, stages, plans, media>>
         \/ \E c \in Callers :
              \/ PlanTasksAfterConfirmation(c) \/ CreateMilestones(c) \/ WriteExecutionPlan(c)
              \/ MerchandiserStep(c)
              \/ \E p \in PlanIds, s \in StageTypes, ids \in SUBSET MediaIds : UploadMediaEvidence(c, p, s, ids)
<1>1. ASSUME NEW c \in Callers, OrderRequest(c) PROVE UNCHANGED <<tasks, stages, plans, media>>
  BY <1>1, RequestLoads DEF merchVars
<1>2. ASSUME NEW c \in Callers, MerchandiserRequest(c)
      PROVE  \/ UNCHANGED <<tasks, stages, plans, media>>
             \/ \E p \in PlanIds, s \in StageTypes, ids \in SUBSET MediaIds : UploadMediaEvidence(c, p, s, ids)
  BY <1>2 DEF MerchandiserRequest, BeginPlan, ReadTask, ReadMilestone, RaiseException, ReadException
<1>3. ASSUME NEW c \in Callers, PlanWarning(c) PROVE UNCHANGED <<tasks, stages, plans, media>>
  BY <1>3 DEF PlanWarning, PlanFails
<1>4. ASSUME NEW c \in Callers, NEW o \in Orders, NEW path \in Paths, NEW plan \in Plans,
             CreateOrder(c, o, path, plan)
      PROVE  UNCHANGED <<tasks, stages, plans, media>>
  BY <1>4 DEF CreateOrder, BeginPlan
<1>5. QED
  BY <1>1, <1>2, <1>3, <1>4, NextSteps
  DEF Crash, MakePlan, LinkPlan, SelectPath, MarkSelectedByBuyer, SaveOrder, merchVars, vars

(* What the merchandiser writes, by the file.                              *)
LEMMA FilesGrow ==
  ASSUME TypeOK, MediaInv, [Next]_vars
  PROVE  /\ \A p \in PlanIds : tasks[p] # NoFile => tasks'[p] # NoFile
         /\ \A p \in PlanIds : stages[p] # NoFile => stages'[p] # NoFile
         /\ \A p \in PlanIds, o \in Orders : Written(plans, p, o) => Written(plans', p, o)
         /\ \A i \in MediaIds : media[i] # NoFile => media'[i] = media[i]
<1> USE OneSystem, Nulls
<1>1. ASSUME NEW c \in Callers, PlanTasksAfterConfirmation(c)
      PROVE  /\ UNCHANGED <<stages, plans, media>>
             /\ \A p \in PlanIds : tasks[p] # NoFile => tasks'[p] # NoFile
  <2> DEFINE row == [t \in TaskTypes |-> "PENDING"]
  <2>1. row \in [TaskTypes -> {"PENDING", "DONE"}]
    OBVIOUS
  <2>2. tasks' = [tasks EXCEPT ![making[c].plan] = row]
    BY <1>1 DEF PlanTasksAfterConfirmation
  <2> HIDE DEF row
  <2>3. QED
    BY <1>1, <2>1, <2>2, PlanFilesType DEF PlanTasksAfterConfirmation
<1>2. ASSUME NEW c \in Callers, CreateMilestones(c)
      PROVE  /\ UNCHANGED <<tasks, plans, media>>
             /\ \A p \in PlanIds : stages[p] # NoFile => stages'[p] # NoFile
  <2> DEFINE row == [s \in StageTypes |-> [status |-> "PENDING", listed |-> {}]]
  <2>1. row \in [StageTypes -> StageFiles]
    BY DEF StageFiles
  <2>2. stages' = [stages EXCEPT ![making[c].plan] = row]
    BY <1>2 DEF CreateMilestones
  <2> HIDE DEF row
  <2>3. QED
    BY <1>2, <2>1, <2>2, PlanFilesType DEF CreateMilestones
<1>3. ASSUME NEW c \in Callers, WriteExecutionPlan(c)
      PROVE  /\ UNCHANGED <<tasks, stages, media>>
             /\ \A p \in PlanIds, o \in Orders : Written(plans, p, o) => Written(plans', p, o)
  BY <1>3, MakingOf, PlanAppended DEF WriteExecutionPlan, AtStage, TypeOK, MerchTypeOK
<1>4. ASSUME NEW c \in Callers, MerchandiserStep(c)
      PROVE  /\ \A p \in PlanIds : tasks[p] # NoFile => tasks'[p] # NoFile
             /\ \A p \in PlanIds : stages[p] # NoFile => stages'[p] # NoFile
             /\ UNCHANGED <<plans, media>>
  BY <1>4, MerchStepType
<1>5. ASSUME NEW c \in Callers, NEW p \in PlanIds, NEW s \in StageTypes, NEW ids \in SUBSET MediaIds,
             UploadMediaEvidence(c, p, s, ids)
      PROVE  /\ UNCHANGED <<tasks, stages, plans>>
             /\ \A i \in MediaIds : media[i] # NoFile => media'[i] = media[i]
  BY <1>5 DEF UploadMediaEvidence
<1>6. QED
  BY <1>1, <1>2, <1>3, <1>4, <1>5, MerchChange

(* No step removes a file.                                                 *)
LEMMA StepGrows == TypeOK /\ WorkInv /\ MediaInv /\ [Next]_vars => Grows
<1> SUFFICES ASSUME TypeOK, WorkInv, MediaInv, [Next]_vars PROVE Grows
  OBVIOUS
<1>1. ASSUME NEW o \in Orders, NEW path \in Paths, HasPath(orders, o, path)
      PROVE  HasPath(orders', o, path)
  <2>1. ASSUME NEW c \in Callers, SaveOrder(c) PROVE HasPath(orders', o, path)
    <3>1. /\ WorkOK(orders, plans, work[c]) /\ work[c].write \in OrderContexts /\ work[c].order \in Orders
          /\ orders' = [orders EXCEPT ![work[c].order] = work[c].write]
      BY <2>1, SavedOrder
    <3>2. HasPath(orders, work[c].order, work[c].write.path)
      BY <3>1 DEF WorkOK
    <3>3. QED
      BY <1>1, <3>1, <3>2, Nulls DEF HasPath, TypeOK, OrderTypeOK
  <2>2. ASSUME NEW c \in Callers, NEW q \in Orders, NEW r \in Paths, NEW plan \in Plans,
               CreateOrder(c, q, r, plan)
        PROVE  HasPath(orders', o, path)
    BY <1>1, <2>2 DEF CreateOrder, HasPath, TypeOK, OrderTypeOK
  <2>3. QED
    BY <1>1, <2>1, <2>2, OrdersChange DEF HasPath
<1>2. QED
  BY <1>1, FilesGrow DEF Grows

-----------------------------------------------------------------------------
(* What does not move stays sound.                                         *)

LEMMA OrderStays ==
  ASSUME Grows, NEW o \in Orders, NEW x \in OrderContexts, OrderOK(plans, o, x)
  PROVE  OrderOK(plans', o, x)
  BY OneSystem DEF OrderOK, Grows, OrderContexts

LEMMA WorkStays ==
  ASSUME Grows, NEW w \in Works, WorkOK(orders, plans, w) PROVE WorkOK(orders', plans', w)
<1>1. w.order \in Orders /\ w.write \in OrderContexts /\ w.write.path \in Paths
  BY DEF Works, OrderContexts
<1>2. QED
  BY <1>1, OrderStays DEF WorkOK, Grows

LEMMA BridgeStays ==
  ASSUME Grows, NEW b \in Bridges, NEW m, BridgeOK(orders, plans, m, b)
  PROVE  BridgeOK(orders', plans', m, b)
<1>1. b.order \in Orders /\ b.path \in Paths /\ b.plan \in PlanIds
  BY OneSystem DEF Bridges
<1>2. QED
  BY <1>1 DEF BridgeOK, Grows

LEMMA ChangeStays ==
  ASSUME Grows, NEW ch \in Changes, ChangeOK(tasks, stages, media, ch)
  PROVE  ChangeOK(tasks', stages', media', ch)
<1>1. CASE ch.file = "task"
  BY <1>1 DEF ChangeOK, Grows, Changes
<1>2. CASE ch.file = "stage"
  <2>1. ch.plan \in PlanIds /\ ch.write \in StageFiles /\ ch.write.listed \subseteq MediaIds
    BY <1>2 DEF Changes, StageFiles
  <2>2. QED
    BY <1>2, <2>1 DEF ChangeOK, Grows, Uploaded
<1>3. CASE ch.file = "upload"
  <2>1. ch.plan \in PlanIds /\ ch.ids \subseteq MediaIds
    BY <1>3 DEF Changes
  <2>2. QED
    BY <1>3, <2>1 DEF ChangeOK, Grows, Uploaded
<1>4. QED
  BY <1>1, <1>2, <1>3 DEF ChangeOK
-----------------------------------------------------------------------------
(* The parts of the inductive invariant.                                   *)

(* Every order on disk is sound.                                           *)
LEMMA RecordStep == TypeOK /\ RecordInv /\ WorkInv /\ MediaInv /\ [Next]_vars => RecordInv'
<1> SUFFICES ASSUME TypeOK, RecordInv, WorkInv, MediaInv, [Next]_vars,
                    NEW o \in Orders, orders'[o] # NoOrder
             PROVE  OrderOK(plans', o, orders'[o])
  BY DEF RecordInv
<1>1. Grows
  BY StepGrows
<1>2. CASE orders'[o] = orders[o]
  <2>1. orders[o] \in OrderContexts /\ OrderOK(plans, o, orders[o])
    BY <1>2 DEF RecordInv, TypeOK, OrderTypeOK
  <2>2. QED
    BY <1>1, <1>2, <2>1, OrderStays
<1>3. ASSUME NEW c \in Callers, SaveOrder(c), orders'[o] # orders[o]
      PROVE  OrderOK(plans', o, orders'[o])
  <2>1. /\ WorkOK(orders, plans, work[c]) /\ work[c].order \in Orders /\ work[c].write \in OrderContexts
        /\ orders' = [orders EXCEPT ![work[c].order] = work[c].write]
    BY <1>3, SavedOrder
  <2>2. o = work[c].order /\ orders'[o] = work[c].write
    BY <1>3, <2>1 DEF TypeOK, OrderTypeOK
  <2>3. OrderOK(plans, o, work[c].write)
    BY <2>1, <2>2 DEF WorkOK
  <2>4. QED
    BY <1>1, <2>1, <2>2, <2>3, OrderStays
<1>4. ASSUME NEW c \in Callers, NEW q \in Orders, NEW path \in Paths, NEW plan \in Plans,
             CreateOrder(c, q, path, plan), orders'[o] # orders[o]
      PROVE  OrderOK(plans', o, orders'[o])
  <2>1. o = q /\ orders'[o] = NewOrder(path)
    BY <1>4 DEF CreateOrder, TypeOK, OrderTypeOK
  <2>2. Sound(NewOrder(path)) /\ NewOrder(path).plan = NoPlan
    BY NewOrderSound
  <2>3. QED
    BY <2>1, <2>2 DEF OrderOK
<1>5. QED
  BY <1>2, <1>3, <1>4, OrdersChange

(* What a caller holds of an order changes as it loads, links or is done.  *)
LEMMA WorkMoves ==
  ASSUME TypeOK, [Next]_vars, NEW d \in Callers
  PROVE  \/ work'[d] = work[d] \/ work'[d] = NoWork
         \/ Loads(d) /\ UNCHANGED <<orders, plans>>
         \/ LinkPlan(d)
<1>1. ASSUME NEW c \in Callers, OrderRequest(c)
      PROVE  work'[d] = work[d] \/ (Loads(d) /\ UNCHANGED <<orders, plans>>)
  <2>1. Loads(c) /\ UNCHANGED <<orders, plans>>
    BY <1>1, RequestLoads DEF merchVars
  <2>2. c # d => work'[d] = work[d]
    BY <2>1 DEF Loads, TypeOK, OrderTypeOK
  <2>3. QED
    BY <2>1, <2>2
<1>2. ASSUME NEW c \in Callers, LinkPlan(c) PROVE work'[d] = work[d] \/ LinkPlan(d)
  BY <1>2 DEF LinkPlan, TypeOK, OrderTypeOK
<1>3. ASSUME NEW c \in Callers, SaveOrder(c) PROVE work'[d] = work[d] \/ work'[d] = NoWork
  BY <1>3 DEF SaveOrder, SaveOrderExecution, TypeOK, OrderTypeOK
<1>4. QED
  BY <1>1, <1>2, <1>3, NextSteps
  DEF Crash, CreateOrder, MakePlan, PlanWarning, SelectPath, MarkSelectedByBuyer,
      MerchandiserRequest, MerchandiserStep, orderVars, vars

(* Whatever a caller will write of an order is sound.                      *)
LEMMA WorkStep ==
  TypeOK /\ RecordInv /\ WorkInv /\ BridgeInv /\ MediaInv /\ [Next]_vars => WorkInv'
<1> SUFFICES ASSUME TypeOK, RecordInv, WorkInv, BridgeInv, MediaInv, [Next]_vars,
                    NEW d \in Callers, work'[d] # NoWork
             PROVE  WorkOK(orders', plans', work'[d])
  BY DEF WorkInv
<1>1. Grows
  BY StepGrows
<1>2. CASE work'[d] = work[d]
  <2>1. work[d] \in Works /\ WorkOK(orders, plans, work[d])
    BY <1>2 DEF WorkInv, TypeOK, OrderTypeOK
  <2>2. QED
    BY <1>1, <1>2, <2>1, WorkStays
<1>3. CASE Loads(d) /\ UNCHANGED <<orders, plans>>
  <2>1. PICK o \in Orders, cause \in {"acknowledge", "production", "qc", "logistics", "signoff"},
             new \in OrderContexts :
          /\ orders[o] # NoOrder /\ orders[o] \in OrderContexts
          /\ Effect(cause, orders[o], new)
          /\ work' = [work EXCEPT ![d] =
                        [order |-> o, cause |-> cause, read |-> orders[o], write |-> new]]
    BY <1>3 DEF Loads
  <2> DEFINE w == [order |-> o, cause |-> cause, read |-> orders[o], write |-> new]
  <2>2. work'[d] = w
    BY <2>1 DEF TypeOK, OrderTypeOK
  <2>3. OrderOK(plans, o, orders[o])
    BY <2>1 DEF RecordInv
  <2>4. OrderOK(plans, o, new) /\ HasPath(orders, o, new.path) /\ Undone(orders[o], new) \subseteq Meant(cause)
    BY <2>1, <2>3 DEF OrderOK, Effect, HasPath
  <2>5. WorkOK(orders, plans, w)
    BY <2>4 DEF WorkOK
  <2>6. QED
    BY <1>3, <2>2, <2>5
<1>4. CASE LinkPlan(d)
  <2> DEFINE b == bridge[d]
             x == NewOrder(b.path)
             w == [order |-> b.order, cause |-> "link", read |-> x,
                   write |-> [x EXCEPT !.plan = b.plan]]
  <2>1. /\ b \in Bridges /\ w \in Works
        /\ w.write.path = b.path /\ w.write.plan = b.plan
        /\ Sound(w.write) /\ Undone(x, w.write) = {}
        /\ work' = [work EXCEPT ![d] = w]
    BY <1>4, LinkWork
  <2>2. HasPath(orders, b.order, b.path) /\ Written(plans, b.plan, b.order)
    BY <1>4 DEF LinkPlan, BridgeInv, BridgeOK
  <2>3. w.order = b.order /\ w.read = x
    OBVIOUS
  <2>4. work'[d] = w
    BY <2>1 DEF TypeOK, OrderTypeOK
  <2> HIDE DEF w, x, b
  <2>5. WorkOK(orders, plans, w)
    BY <2>1, <2>2, <2>3 DEF WorkOK, OrderOK
  <2>6. QED
    BY <1>1, <2>1, <2>4, <2>5, WorkStays
<1>5. QED
  BY <1>2, <1>3, <1>4, WorkMoves

(* A bridge goes on, or what it waits for does.                            *)
LEMMA BridgeMoves ==
  ASSUME TypeOK, [Next]_vars, NEW d \in Callers
  PROVE  \/ bridge'[d] = bridge[d] /\ making'[d] = making[d]
         \/ bridge'[d] = NoBridge
         \/ \E o \in Orders, path \in Paths, plan \in Plans : CreateOrder(d, o, path, plan)
         \/ MakePlan(d) \/ LinkPlan(d) \/ PlanWarning(d) \/ SelectPath(d)
<1> USE OneSystem
<1>1. ASSUME NEW c \in Callers, NEW o \in Orders, NEW path \in Paths, NEW plan \in Plans,
             CreateOrder(c, o, path, plan), c # d
      PROVE  bridge'[d] = bridge[d] /\ making'[d] = making[d]
  BY <1>1 DEF CreateOrder, BeginPlan, TypeOK, MerchTypeOK
<1>2. ASSUME NEW c \in Callers, MakePlan(c), c # d
      PROVE  bridge'[d] = bridge[d] /\ making'[d] = making[d]
  BY <1>2 DEF MakePlan, PlanTasksAfterConfirmation, CreateMilestones, WriteExecutionPlan, TypeOK, MerchTypeOK
<1>3. ASSUME NEW c \in Callers, LinkPlan(c) \/ SelectPath(c), c # d
      PROVE  bridge'[d] = bridge[d] /\ making'[d] = making[d]
  BY <1>3 DEF LinkPlan, SelectPath, merchVars, TypeOK
<1>4. ASSUME NEW c \in Callers, PlanWarning(c), c # d
      PROVE  bridge'[d] = bridge[d] /\ making'[d] = making[d]
  BY <1>4 DEF PlanWarning, PlanFails, TypeOK, MerchTypeOK
<1>5. ASSUME NEW c \in Callers, MarkSelectedByBuyer(c)
      PROVE  bridge'[d] = NoBridge \/ (bridge'[d] = bridge[d] /\ making'[d] = making[d])
  BY <1>5 DEF MarkSelectedByBuyer, merchVars, TypeOK
<1>6. ASSUME NEW c \in Callers, OrderRequest(c) \/ SaveOrder(c)
      PROVE  bridge'[d] = bridge[d] /\ making'[d] = making[d]
  BY <1>6 DEF OrderRequest, SaveOrder, bridgeVars, merchVars
<1>7. ASSUME NEW c \in Callers, MerchandiserRequest(c)
      PROVE  bridge'[d] = NoBridge \/ (bridge'[d] = bridge[d] /\ making'[d] = making[d])
  <2>1. bridge[c] = NoBridge /\ UNCHANGED bridge
    BY <1>7 DEF MerchandiserRequest, Call, Idle, bridgeVars
  <2>2. making'[d] = making[d] \/ d = c
    BY <1>7 DEF MerchandiserRequest, BeginPlan, ReadTask, ReadMilestone, UploadMediaEvidence,
       RaiseException, ReadException, TypeOK, MerchTypeOK
  <2>3. QED
    BY <2>1, <2>2
<1>8. ASSUME NEW c \in Callers, MerchandiserStep(c)
      PROVE  bridge'[d] = bridge[d] /\ making'[d] = making[d]
  BY <1>8 DEF MerchandiserStep, CompleteTask, UpdateMilestoneStatus, SaveMilestone, ResolveException,
     bridgeVars
<1>9. CASE Crash
  BY <1>9 DEF Crash
<1>10. CASE UNCHANGED vars
  BY <1>10 DEF vars, bridgeVars, merchVars
<1>11. QED
  BY <1>1, <1>2, <1>3, <1>4, <1>5, <1>6, <1>7, <1>8, <1>9, <1>10, NextSteps

(* The order of a bridge is there, and its plan is being made or written.  *)
LEMMA BridgeStep ==
  TypeOK /\ WorkInv /\ BridgeInv /\ MediaInv /\ [Next]_vars => BridgeInv'
<1> SUFFICES ASSUME TypeOK, WorkInv, BridgeInv, MediaInv, [Next]_vars,
                    NEW d \in Callers, bridge'[d] # NoBridge
             PROVE  BridgeOK(orders', plans', making'[d], bridge'[d])
  BY DEF BridgeInv
<1> USE OneSystem
<1>1. Grows
  BY StepGrows
<1>2. CASE bridge'[d] = bridge[d] /\ making'[d] = making[d]
  <2>1. bridge[d] \in Bridges /\ BridgeOK(orders, plans, making[d], bridge[d])
    BY <1>2 DEF BridgeInv, TypeOK
  <2>2. QED
    BY <1>1, <1>2, <2>1, BridgeStays
<1>3. ASSUME NEW o \in Orders, NEW path \in Paths, NEW plan \in Plans, CreateOrder(d, o, path, plan)
      PROVE  BridgeOK(orders', plans', making'[d], bridge'[d])
  <2> DEFINE b == [order |-> o, path |-> path, plan |-> plan, stage |-> "plan"]
             m == [plan |-> plan, order |-> o, stage |-> "tasks"]
  <2>1. bridge'[d] = b /\ making'[d] = m
    BY <1>3 DEF CreateOrder, BeginPlan, TypeOK, MerchTypeOK
  <2>2. m # NoTarget
    <3>1. m \in Makings
      BY OneSystem DEF Makings
    <3>2. QED
      BY <3>1, Nulls
  <2>3. orders'[o] = NewOrder(path) /\ NewOrder(path) \in OrderContexts /\ NewOrder(path).path = path
    <3>1. orders'[o] = NewOrder(path)
      BY <1>3 DEF CreateOrder, TypeOK, OrderTypeOK
    <3>2. QED
      BY <3>1, NewOrderSound
  <2>4. HasPath(orders', o, path)
    BY <2>3, Nulls DEF HasPath
  <2>5. QED
    BY <2>1, <2>2, <2>4 DEF BridgeOK
<1>4. CASE MakePlan(d)
  <2>1. bridge'[d] = bridge[d] /\ bridge[d] \in Bridges /\ BridgeOK(orders, plans, making[d], bridge[d])
    BY <1>4 DEF MakePlan, BridgeInv, TypeOK
  <2>2. making[d] # NoTarget /\ making[d] \in Makings
    BY <1>4, MakingOf DEF MakePlan, PlanTasksAfterConfirmation, CreateMilestones, WriteExecutionPlan, AtStage
  <2>3. CASE PlanTasksAfterConfirmation(d) \/ CreateMilestones(d)
    <3>1. making'[d] \in Makings /\ making'[d].plan = making[d].plan /\ making'[d].order = making[d].order
      BY <2>2, <2>3 DEF PlanTasksAfterConfirmation, CreateMilestones, TypeOK, MerchTypeOK, Makings
    <3>2. BridgeOK(orders, plans, making'[d], bridge[d])
      BY <2>1, <2>2, <3>1, Nulls DEF BridgeOK
    <3>3. QED
      BY <1>1, <2>1, <3>2, BridgeStays
  <2>4. CASE WriteExecutionPlan(d)
    <3>1. Written(plans', making[d].plan, making[d].order)
      BY <2>2, <2>4, MakingOf, PlanAppended DEF WriteExecutionPlan, TypeOK, MerchTypeOK
    <3>2. making'[d] = NoTarget
      BY <2>4 DEF WriteExecutionPlan, TypeOK, MerchTypeOK
    <3>3. BridgeOK(orders', plans', making[d], bridge[d])
      BY <1>1, <2>1, BridgeStays
    <3>4. QED
      BY <2>1, <2>2, <3>1, <3>2, <3>3 DEF BridgeOK
  <2>5. QED
    BY <1>4, <2>3, <2>4 DEF MakePlan
<1>5. CASE LinkPlan(d) \/ PlanWarning(d) \/ SelectPath(d)
  <2>1. bridge[d] # NoBridge /\ bridge[d] \in Bridges /\ BridgeOK(orders, plans, making[d], bridge[d])
    BY <1>5 DEF LinkPlan, PlanWarning, SelectPath, BridgeInv, TypeOK
  <2>2. bridge'[d].stage # "plan" /\ bridge'[d].order = bridge[d].order /\ bridge'[d].path = bridge[d].path
    BY <1>5, <2>1 DEF LinkPlan, PlanWarning, SelectPath, TypeOK, Bridges
  <2>3. HasPath(orders', bridge[d].order, bridge[d].path)
    BY <1>1, <2>1 DEF BridgeOK, Grows, Bridges
  <2>4. QED
    BY <2>2, <2>3 DEF BridgeOK
<1>6. QED
  BY <1>2, <1>3, <1>4, <1>5, BridgeMoves

(* What is selected has an order.                                          *)
LEMMA SelectedStep ==
  TypeOK /\ WorkInv /\ BridgeInv /\ SelectedInv /\ MediaInv /\ [Next]_vars => SelectedInv'
<1> SUFFICES ASSUME TypeOK, WorkInv, BridgeInv, SelectedInv, MediaInv, [Next]_vars,
                    NEW path \in chosen' \cup ({selected'} \ {NoPath})
             PROVE  \E o \in Orders : HasPath(orders', o, path)
  BY DEF SelectedInv
<1>1. Grows
  BY StepGrows
<1>2. CASE path \in chosen \cup ({selected} \ {NoPath})
  <2>1. path \in Paths
    BY <1>2 DEF TypeOK
  <2>2. QED
    BY <1>1, <1>2, <2>1 DEF SelectedInv, Grows
<1>3. ASSUME NEW c \in Callers, SelectPath(c) \/ MarkSelectedByBuyer(c), path = bridge[c].path
      PROVE  \E o \in Orders : HasPath(orders', o, path)
  <2>1. bridge[c] \in Bridges /\ HasPath(orders, bridge[c].order, bridge[c].path)
    BY <1>3 DEF SelectPath, MarkSelectedByBuyer, BridgeInv, BridgeOK, TypeOK
  <2>2. QED
    BY <1>1, <1>3, <2>1 DEF Grows, Bridges
<1>4. ASSUME NEW c \in Callers, OrderRequest(c) PROVE UNCHANGED <<selected, chosen>>
  BY <1>4 DEF OrderRequest, bridgeVars
<1>5. QED
  BY <1>2, <1>3, <1>4, NextSteps
  DEF Crash, CreateOrder, MakePlan, LinkPlan, PlanWarning, SelectPath, MarkSelectedByBuyer, SaveOrder,
      MerchandiserRequest, MerchandiserStep, bridgeVars, vars
(* The making of a plan goes from stage to stage.                          *)
LEMMA MakingMoves ==
  ASSUME TypeOK, [Next]_vars, NEW d \in Callers
  PROVE  \/ making'[d] = making[d] \/ making'[d] = NoTarget \/ making'[d].stage = "tasks"
         \/ PlanTasksAfterConfirmation(d) \/ CreateMilestones(d)
<1> USE OneSystem
<1>1. ASSUME NEW c \in Callers, NEW p, NEW o, BeginPlan(c, p, o)
      PROVE  making'[d] = making[d] \/ making'[d].stage = "tasks"
  BY <1>1 DEF BeginPlan, TypeOK, MerchTypeOK
<1>2. ASSUME NEW c \in Callers, NEW o \in Orders, NEW path \in Paths, NEW plan \in Plans,
             CreateOrder(c, o, path, plan)
      PROVE  making'[d] = making[d] \/ making'[d].stage = "tasks"
  BY <1>1, <1>2 DEF CreateOrder
<1>3. ASSUME NEW c \in Callers, MakePlan(c)
      PROVE  \/ making'[d] = making[d] \/ making'[d] = NoTarget
             \/ PlanTasksAfterConfirmation(d) \/ CreateMilestones(d)
  BY <1>3 DEF MakePlan, PlanTasksAfterConfirmation, CreateMilestones, WriteExecutionPlan, TypeOK, MerchTypeOK
<1>4. ASSUME NEW c \in Callers, PlanWarning(c) PROVE making'[d] = making[d] \/ making'[d] = NoTarget
  BY <1>4 DEF PlanWarning, PlanFails, TypeOK, MerchTypeOK
<1>5. ASSUME NEW c \in Callers, MerchandiserRequest(c)
      PROVE  making'[d] = making[d] \/ making'[d].stage = "tasks"
  BY <1>1, <1>5 DEF MerchandiserRequest, ReadTask, ReadMilestone, UploadMediaEvidence,
     RaiseException, ReadException
<1>6. ASSUME NEW c \in Callers, MerchandiserStep(c) PROVE UNCHANGED making
  BY <1>6 DEF MerchandiserStep, CompleteTask, UpdateMilestoneStatus, SaveMilestone, ResolveException
<1>7. QED
  BY <1>2, <1>3, <1>4, <1>5, <1>6, NextSteps
  DEF Crash, LinkPlan, SelectPath, MarkSelectedByBuyer, OrderRequest, SaveOrder, merchVars, vars

(* A plan's tasks and milestones are written before it.                    *)
LEMMA PlanStep == TypeOK /\ WorkInv /\ PlanInv /\ MediaInv /\ [Next]_vars => PlanInv'
<1> SUFFICES ASSUME TypeOK, WorkInv, PlanInv, MediaInv, [Next]_vars PROVE PlanInv'
  OBVIOUS
<1> USE OneSystem
<1>0. Grows
  BY StepGrows
<1>1. ASSUME NEW i \in DOMAIN plans'
      PROVE  tasks'[plans'[i].id] # NoFile /\ stages'[plans'[i].id] # NoFile
  <2>1. ASSUME NEW x \in PlanFiles, plans'[i] = x, tasks[x.id] # NoFile, stages[x.id] # NoFile
        PROVE  tasks'[plans'[i].id] # NoFile /\ stages'[plans'[i].id] # NoFile
    BY <1>0, <2>1 DEF Grows, PlanFiles
  <2>2. ASSUME NEW j \in DOMAIN plans, plans'[i] = plans[j]
        PROVE  tasks'[plans'[i].id] # NoFile /\ stages'[plans'[i].id] # NoFile
    <3>1. plans[j] \in PlanFiles
      BY ElementOfSeq DEF TypeOK, MerchTypeOK
    <3>2. QED
      BY <2>1, <2>2, <3>1 DEF PlanInv
  <2>3. ASSUME NEW c \in Callers, WriteExecutionPlan(c)
        PROVE  tasks'[plans'[i].id] # NoFile /\ stages'[plans'[i].id] # NoFile
    <3> DEFINE x == [id |-> making[c].plan, order |-> making[c].order]
    <3>1. making[c] # NoTarget /\ making[c].stage = "plan" /\ plans' = Append(plans, x)
      BY <2>3 DEF WriteExecutionPlan, AtStage
    <3>2. x \in PlanFiles /\ x.id = making[c].plan
      BY <3>1, MakingOf
    <3>3. tasks[x.id] # NoFile /\ stages[x.id] # NoFile
      BY <3>1, <3>2 DEF PlanInv, MakingOK
    <3> HIDE DEF x
    <3>4. plans'[i] = x \/ \E j \in DOMAIN plans : plans'[i] = plans[j]
      BY <3>1, <3>2, PlanAppended DEF TypeOK, MerchTypeOK
    <3>5. QED
      BY <2>1, <2>2, <3>2, <3>3, <3>4
  <2>4. CASE UNCHANGED plans
    BY <2>2, <2>4
  <2>5. ASSUME NEW c \in Callers, MerchandiserStep(c) PROVE UNCHANGED plans
    BY <2>5, MerchStepType
  <2>6. QED
    BY <2>3, <2>4, <2>5, MerchChange
    DEF PlanTasksAfterConfirmation, CreateMilestones, UploadMediaEvidence
<1>2. ASSUME NEW d \in Callers, making'[d] # NoTarget PROVE MakingOK(tasks', stages', making'[d])
  <2>1. CASE making'[d] = making[d]
    <3>1. making[d].plan \in PlanIds /\ MakingOK(tasks, stages, making[d])
      BY <1>2, <2>1, MakingOf DEF PlanInv
    <3>2. QED
      BY <1>0, <2>1, <3>1 DEF MakingOK, Grows
  <2>2. CASE making'[d].stage = "tasks"
    BY <2>2 DEF MakingOK
  <2>3. CASE PlanTasksAfterConfirmation(d)
    <3>1. making[d] # NoTarget /\ making[d].plan \in PlanIds /\ making[d] \in Makings
      BY <2>3, MakingOf DEF PlanTasksAfterConfirmation, AtStage
    <3>2. making'[d].stage = "milestones" /\ making'[d].plan = making[d].plan
      BY <2>3, <3>1 DEF PlanTasksAfterConfirmation, TypeOK, MerchTypeOK, Makings
    <3> DEFINE row == [t \in TaskTypes |-> "PENDING"]
    <3>3. row \in [TaskTypes -> {"PENDING", "DONE"}] /\ tasks' = [tasks EXCEPT ![making[d].plan] = row]
      BY <2>3 DEF PlanTasksAfterConfirmation
    <3> HIDE DEF row
    <3>4. tasks'[making[d].plan] # NoFile
      BY <3>1, <3>3, Nulls, PlanFilesType
    <3>5. QED
      BY <3>2, <3>4 DEF MakingOK
  <2>4. CASE CreateMilestones(d)
    <3>1. making[d] # NoTarget /\ making[d].plan \in PlanIds /\ making[d] \in Makings
            /\ tasks[making[d].plan] # NoFile
      BY <2>4, MakingOf DEF CreateMilestones, AtStage, PlanInv, MakingOK
    <3>2. making'[d].stage = "plan" /\ making'[d].plan = making[d].plan
      BY <2>4, <3>1 DEF CreateMilestones, TypeOK, MerchTypeOK, Makings
    <3> DEFINE row == [s \in StageTypes |-> [status |-> "PENDING", listed |-> {}]]
    <3>3. row \in [StageTypes -> StageFiles] /\ stages' = [stages EXCEPT ![making[d].plan] = row]
      BY <2>4 DEF CreateMilestones, StageFiles
    <3> HIDE DEF row
    <3>4. stages'[making[d].plan] # NoFile
      BY <3>1, <3>3, Nulls, PlanFilesType
    <3>5. tasks'[making[d].plan] # NoFile
      BY <1>0, <3>1 DEF Grows
    <3>6. QED
      BY <3>2, <3>4, <3>5 DEF MakingOK
  <2>5. QED
    BY <1>2, <2>1, <2>2, <2>3, <2>4, MakingMoves
<1>3. QED
  BY <1>1, <1>2 DEF PlanInv

(* What a caller has read of the merchandiser's files.                     *)
LEMMA ChangeMoves ==
  ASSUME TypeOK, [Next]_vars, NEW d \in Callers
  PROVE  \/ change'[d] = change[d] \/ change'[d] = NoChange
         \/ \E p \in PlanIds, t \in TaskTypes : ReadTask(d, p, t)
         \/ \E p \in PlanIds, s \in StageTypes : ReadMilestone(d, p, s)
         \/ \E p \in PlanIds, s \in StageTypes, ids \in SUBSET MediaIds : UploadMediaEvidence(d, p, s, ids)
         \/ \E e \in ExceptionIds : ReadException(d, e)
         \/ UpdateMilestoneStatus(d)
<1> USE OneSystem
<1>1. ASSUME NEW c \in Callers, MerchandiserRequest(c), c # d PROVE change'[d] = change[d]
  BY <1>1 DEF MerchandiserRequest, BeginPlan, ReadTask, ReadMilestone, UploadMediaEvidence,
     RaiseException, ReadException, TypeOK, MerchTypeOK
<1>2. ASSUME MerchandiserRequest(d)
      PROVE  \/ change'[d] = change[d]
             \/ \E p \in PlanIds, t \in TaskTypes : ReadTask(d, p, t)
             \/ \E p \in PlanIds, s \in StageTypes : ReadMilestone(d, p, s)
             \/ \E p \in PlanIds, s \in StageTypes, ids \in SUBSET MediaIds : UploadMediaEvidence(d, p, s, ids)
             \/ \E e \in ExceptionIds : ReadException(d, e)
  BY <1>2 DEF MerchandiserRequest, BeginPlan, RaiseException
<1>3. ASSUME NEW c \in Callers, MerchandiserStep(c)
      PROVE  change'[d] = change[d] \/ change'[d] = NoChange \/ UpdateMilestoneStatus(d)
  BY <1>3 DEF MerchandiserStep, CompleteTask, UpdateMilestoneStatus, SaveMilestone, ResolveException,
     TypeOK, MerchTypeOK
<1>4. ASSUME NEW c \in Callers, MakePlan(c) \/ PlanWarning(c) PROVE UNCHANGED change
  BY <1>4 DEF MakePlan, PlanWarning, PlanTasksAfterConfirmation, CreateMilestones, WriteExecutionPlan, PlanFails
<1>5. ASSUME NEW c \in Callers, NEW o \in Orders, NEW path \in Paths, NEW plan \in Plans,
             CreateOrder(c, o, path, plan)
      PROVE  UNCHANGED change
  BY <1>5 DEF CreateOrder, BeginPlan
<1>6. QED
  BY <1>1, <1>2, <1>3, <1>4, <1>5, NextSteps
  DEF Crash, LinkPlan, SelectPath, MarkSelectedByBuyer, OrderRequest, SaveOrder, merchVars, vars

(* What a milestone lists, or will list, was uploaded for it.              *)
LEMMA MediaStep == TypeOK /\ WorkInv /\ MediaInv /\ [Next]_vars => MediaInv'
<1> SUFFICES ASSUME TypeOK, WorkInv, MediaInv, [Next]_vars PROVE MediaInv'
  OBVIOUS
<1> USE OneSystem
<1>0. Grows
  BY StepGrows
<1>1. ASSUME NEW ids \in SUBSET MediaIds, NEW p \in PlanIds, NEW s \in StageTypes,
             Uploaded(media, ids, p, s)
      PROVE  Uploaded(media', ids, p, s)
  BY <1>0, <1>1 DEF Uploaded, Grows
<1>2. ASSUME NEW p \in PlanIds, NEW s \in StageTypes, stages'[p] # NoFile
      PROVE  Uploaded(media', stages'[p][s].listed, p, s)
  <2>1. CASE stages'[p] = stages[p]
    <3>1. stages[p][s] \in StageFiles /\ Uploaded(media, stages[p][s].listed, p, s)
      BY <1>2, <2>1, PlanFilesType DEF MediaInv
    <3>2. QED
      BY <1>1, <2>1, <3>1 DEF StageFiles
  <2>2. ASSUME NEW c \in Callers, CreateMilestones(c), stages'[p] # stages[p]
        PROVE  Uploaded(media', stages'[p][s].listed, p, s)
    <3>1. stages'[p] = [t \in StageTypes |-> [status |-> "PENDING", listed |-> {}]]
      BY <2>2, PlanFilesType DEF CreateMilestones
    <3>2. QED
      BY <3>1 DEF Uploaded
  <2>3. ASSUME NEW c \in Callers, SaveMilestone(c), stages'[p] # stages[p]
        PROVE  Uploaded(media', stages'[p][s].listed, p, s)
    <3> DEFINE k == change[c].key
               new == change[c].write
               row == [stages[p] EXCEPT ![k] = new]
    <3>1. change[c] # NoChange /\ ChangeOK(tasks, stages, media, change[c]) /\ change[c].file = "stage"
      BY <2>3 DEF SaveMilestone, MediaInv
    <3>2. change[c].plan \in PlanIds /\ k \in StageTypes /\ new \in StageFiles
      BY <3>1, ChangeOf
    <3>3. stages' = [stages EXCEPT ![change[c].plan] = [stages[change[c].plan] EXCEPT ![k] = new]]
      BY <2>3 DEF SaveMilestone
    <3>4. p = change[c].plan /\ stages'[p] = row
      BY <2>3, <3>2, <3>3, PlanFilesType
    <3>5. stages[p] # NoFile /\ stages[p] \in [StageTypes -> StageFiles] /\ Uploaded(media, new.listed, p, k)
      BY <3>1, <3>4, PlanFilesType DEF ChangeOK
    <3>6. CASE s = k
      <4>1. stages'[p][s] = new
        BY <3>4, <3>5, <3>6
      <4>2. QED
        BY <1>1, <3>2, <3>5, <3>6, <4>1 DEF StageFiles
    <3>7. CASE s # k
      <4>1. stages'[p][s] = stages[p][s]
        BY <3>4, <3>5, <3>7
      <4>2. Uploaded(media, stages[p][s].listed, p, s) /\ stages[p][s] \in StageFiles
        BY <3>5 DEF MediaInv
      <4>3. QED
        BY <1>1, <4>1, <4>2 DEF StageFiles
    <3>8. QED
      BY <3>6, <3>7
  <2>4. QED
    BY <2>1, <2>2, <2>3, MerchChange
    DEF PlanTasksAfterConfirmation, WriteExecutionPlan, UploadMediaEvidence, MerchandiserStep,
        CompleteTask, UpdateMilestoneStatus, ResolveException
<1>3. ASSUME NEW d \in Callers, change'[d] # NoChange
      PROVE  ChangeOK(tasks', stages', media', change'[d])
  <2>1. CASE change'[d] = change[d]
    <3>1. change[d] \in Changes /\ ChangeOK(tasks, stages, media, change[d])
      BY <1>3, <2>1, ChangeOf DEF MediaInv
    <3>2. QED
      BY <1>0, <2>1, <3>1, ChangeStays
  <2>2. ASSUME NEW p \in PlanIds, NEW t \in TaskTypes, ReadTask(d, p, t)
        PROVE  ChangeOK(tasks', stages', media', change'[d])
    <3>1. change'[d] = [file |-> "task", plan |-> p, key |-> t] /\ tasks'[p] # NoFile
      BY <2>2 DEF ReadTask, TypeOK, MerchTypeOK
    <3>2. QED
      BY <3>1 DEF ChangeOK
  <2>3. ASSUME NEW p \in PlanIds, NEW s \in StageTypes, ReadMilestone(d, p, s)
        PROVE  ChangeOK(tasks', stages', media', change'[d])
    <3>1. PICK status \in {"REQUESTED", "CONFIRMED", "REJECTED"} :
            change'[d] = [file |-> "stage", plan |-> p, key |-> s,
                          write |-> [stages[p][s] EXCEPT !.status = status]]
      BY <2>3 DEF ReadMilestone, TypeOK, MerchTypeOK
    <3>2. stages[p] # NoFile /\ stages'[p] # NoFile /\ UNCHANGED media
      BY <2>3 DEF ReadMilestone
    <3>3. Uploaded(media, stages[p][s].listed, p, s) /\ stages[p][s] \in StageFiles
      BY <3>2, PlanFilesType DEF MediaInv
    <3> DEFINE new == [stages[p][s] EXCEPT !.status = status]
    <3>4. new.listed = stages[p][s].listed
      BY <3>3 DEF StageFiles
    <3>5. change'[d] = [file |-> "stage", plan |-> p, key |-> s, write |-> new]
      BY <3>1
    <3> HIDE DEF new
    <3>6. QED
      BY <3>2, <3>3, <3>4, <3>5 DEF ChangeOK, Uploaded
  <2>4. ASSUME NEW p \in PlanIds, NEW s \in StageTypes, NEW ids \in SUBSET MediaIds,
               UploadMediaEvidence(d, p, s, ids)
        PROVE  ChangeOK(tasks', stages', media', change'[d])
    <3>1. change'[d] = [file |-> "upload", plan |-> p, key |-> s, ids |-> ids] /\ stages'[p] # NoFile
      BY <2>4 DEF UploadMediaEvidence, TypeOK, MerchTypeOK
    <3>2. PICK review \in {"pending", "not_required"} :
            media' = [i \in MediaIds |->
                        IF i \in ids THEN [plan |-> p, stage |-> s, review |-> review] ELSE media[i]]
      BY <2>4 DEF UploadMediaEvidence
    <3>3. [plan |-> p, stage |-> s, review |-> review] # NoFile
      BY Nulls DEF MediaFiles
    <3>4. Uploaded(media', ids, p, s)
      BY <3>2, <3>3 DEF Uploaded
    <3>5. QED
      BY <3>1, <3>4 DEF ChangeOK
  <2>5. ASSUME NEW e \in ExceptionIds, ReadException(d, e)
        PROVE  ChangeOK(tasks', stages', media', change'[d])
    <3>1. change'[d] = [file |-> "exception", key |-> e]
      BY <2>5 DEF ReadException, TypeOK, MerchTypeOK
    <3>2. QED
      BY <3>1 DEF ChangeOK
  <2>6. CASE UpdateMilestoneStatus(d)
    <3> DEFINE p == change[d].plan
               s == change[d].key
               ids == change[d].ids
               new == [stages[p][s] EXCEPT !.status = "UPLOADED", !.listed = ids]
    <3>1. change[d] # NoChange /\ change[d].file = "upload" /\ ChangeOK(tasks, stages, media, change[d])
      BY <2>6 DEF UpdateMilestoneStatus, MediaInv
    <3>2. p \in PlanIds /\ s \in StageTypes /\ stages[p] # NoFile /\ stages[p][s] \in StageFiles
            /\ Uploaded(media, ids, p, s)
      BY <3>1, ChangeOf, PlanFilesType DEF ChangeOK
    <3>3. change'[d] = [file |-> "stage", plan |-> p, key |-> s, write |-> new]
            /\ UNCHANGED <<stages, media>>
      BY <2>6 DEF UpdateMilestoneStatus, TypeOK, MerchTypeOK
    <3>4. new.listed = ids
      BY <3>2 DEF StageFiles
    <3> HIDE DEF new, p, s, ids
    <3>5. QED
      BY <3>2, <3>3, <3>4 DEF ChangeOK
  <2>7. QED
    BY <1>3, <2>1, <2>2, <2>3, <2>4, <2>5, <2>6, ChangeMoves
<1>4. QED
  BY <1>2, <1>3 DEF MediaInv

-----------------------------------------------------------------------------
(* The invariant and what follows from it.                                 *)

(* The invariant holds at first.                                           *)
LEMMA InvInit == Init => IInv
<1> SUFFICES ASSUME Init PROVE IInv
  OBVIOUS
<1>1. RecordInv /\ WorkInv /\ BridgeInv /\ SelectedInv
  BY DEF Init, OrderInit, RecordInv, WorkInv, BridgeInv, SelectedInv
<1>2. PlanInv /\ MediaInv
  BY OneSystem DEF Init, MerchInit, PlanInv, MediaInv
<1>3. QED
  BY <1>1, <1>2, TypeInit DEF IInv

(* Every step keeps it.                                                    *)
LEMMA InvStep == IInv /\ [Next]_vars => IInv'
  BY TypeStep, RecordStep, WorkStep, BridgeStep, SelectedStep, PlanStep, MediaStep DEF IInv

(* The invariant holds in every reachable state.                           *)
THEOREM Invariance == Spec => []IInv
  BY InvInit, InvStep, PTL DEF Spec

(* The variables keep their types (the files under data/order_execution    *)
(* and of the merchandiser, and the locals of the handlers).               *)
THEOREM TypeCorrect == Spec => []TypeOK
<1>1. IInv => TypeOK
  BY DEF IInv
<1>2. QED
  BY <1>1, Invariance, PTL

(* An order in production or waiting for QC was acknowledged, and the       *)
(* handover of a shipped one is on record, whatever stale writes there are *)
(* (submit_production_update, submit_qc_update, submit_logistics_update).  *)
THEOREM RecordsAlwaysAgree == Spec => []RecordsAgree
<1>1. IInv => RecordsAgree
  BY DEF IInv, RecordInv, RecordsAgree, OrderOK, Sound
<1>2. QED
  BY <1>1, Invariance, PTL

(* What a file refers to is on disk, after a crash or failure between any  *)
(* two writes too (create_order_execution_from_selected_path,              *)
(* create_execution_plan, upload_media_evidence).                          *)
THEOREM ReferencesAlwaysExist == Spec => []ReferencesExist
<1>1. IInv => ReferencesExist
  <2> SUFFICES ASSUME IInv PROVE ReferencesExist
    OBVIOUS
  <2>1. \A path \in chosen \cup ({selected} \ {NoPath}) :
          \E o \in Orders : orders[o] # NoOrder /\ orders[o].path = path
    BY DEF IInv, SelectedInv, HasPath
  <2>2. \A o \in Orders : orders[o] # NoOrder /\ orders[o].plan # NoPlan =>
          \E i \in DOMAIN plans : plans[i] = [id |-> orders[o].plan, order |-> o]
    BY DEF IInv, RecordInv, OrderOK, Written
  <2>3. \A i \in DOMAIN plans : tasks[plans[i].id] # NoFile /\ stages[plans[i].id] # NoFile
    BY DEF IInv, PlanInv
  <2>4. \A p \in PlanIds, s \in StageTypes : stages[p] # NoFile =>
          \A i \in stages[p][s].listed : media[i] # NoFile /\ media[i].plan = p /\ media[i].stage = s
    BY DEF IInv, MediaInv, Uploaded
  <2>5. QED
    BY <2>1, <2>2, <2>3, <2>4 DEF ReferencesExist
<1>2. QED
  BY <1>1, Invariance, PTL

(* A save undoes of an order only what its message means to, unless it is  *)
(* stale.                                                                  *)
LEMMA SaveKeepsProgress ==
  IInv /\ [Next]_vars =>
    \A o \in Orders : orders[o] # NoOrder /\ orders'[o] # orders[o] =>
       \E c \in Callers : /\ work[c] # NoWork /\ work[c].order = o
                          /\ Loses(o, orders'[o]) \subseteq Excused(c)
<1> SUFFICES ASSUME IInv, [Next]_vars, NEW o \in Orders, orders[o] # NoOrder, orders'[o] # orders[o]
             PROVE  \E c \in Callers : /\ work[c] # NoWork /\ work[c].order = o
                                       /\ Loses(o, orders'[o]) \subseteq Excused(c)
  OBVIOUS
<1>0. TypeOK /\ WorkInv
  BY DEF IInv
<1>1. PICK c \in Callers : SaveOrder(c)
  <2>1. ASSUME NEW c \in Callers, NEW q \in Orders, NEW path \in Paths, NEW plan \in Plans,
               CreateOrder(c, q, path, plan)
        PROVE  FALSE
    BY <1>0, <2>1 DEF CreateOrder, TypeOK, OrderTypeOK
  <2>2. QED
    BY <1>0, <2>1, OrdersChange
<1>2. /\ work[c] # NoWork /\ work[c] \in Works /\ WorkOK(orders, plans, work[c])
      /\ orders' = [orders EXCEPT ![work[c].order] = work[c].write]
  BY <1>0, <1>1, SavedOrder
<1>3. work[c].order = o /\ orders'[o] = work[c].write
  BY <1>0, <1>2 DEF TypeOK, OrderTypeOK, Works
<1>4. CASE Stale(c)
  <2>1. Excused(c) = MilestoneNames \cup {"closed"}
    BY <1>4 DEF Excused
  <2>2. Loses(o, orders'[o]) \subseteq MilestoneNames \cup {"closed"}
    BY DEF Loses
  <2>3. QED
    BY <1>2, <1>3, <2>1, <2>2
<1>5. CASE ~Stale(c)
  <2>1. orders[o] = work[c].read
    BY <1>2, <1>3, <1>5 DEF Stale
  <2>2. Loses(o, orders'[o]) = Undone(work[c].read, work[c].write)
    BY <1>3, <2>1 DEF Loses, Undone
  <2>3. Meant(work[c].cause) \subseteq Excused(c)
    BY <1>2, <1>5 DEF Meant, Excused, Works
  <2>4. QED
    BY <1>2, <2>2, <2>3 DEF WorkOK
<1>6. QED
  BY <1>2, <1>3, <1>4, <1>5

(* Progress of an order is lost only as the handlers mean it or by a stale *)
(* write (save_order_execution).                                           *)
THEOREM ProgressIsKept == Spec => ProgressKept
  BY SaveKeepsProgress, Invariance, PTL DEF Spec, ProgressKept
=============================================================================
