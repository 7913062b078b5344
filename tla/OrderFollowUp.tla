--------------------------- MODULE OrderFollowUp ---------------------------
(***************************************************************************)
(* What follows the buyer's selection of a delivery path: the bridge that  *)
(* creates the supplier's order and the execution plan and marks the       *)
(* selection in both workspaces, the supplier's messages on the order, the *)
(* merchandiser's work on the plan, and the buyer's sign-off.  Composes    *)
(* SupplierOrder and Merchandiser.                                         *)
(*                                                                         *)
(* One B workspace, so one project.  A caller handles one request at a     *)
(* time; callers interleave at the granularity of file reads and writes.   *)
(***************************************************************************)
EXTENDS SupplierOrder, Merchandiser

CONSTANTS
  NoPath, NoBridge,
  MaxCalls      \* bound: requests in a behaviour

ASSUME CallsBound == MaxCalls \in Nat

(* The two parts share their threads, orders and plans.                    *)
ASSUME OneSystem == Makers = Callers /\ PlannedOrders = Orders /\ Plans = PlanIds

VARIABLES
  bridge,     \* the order a caller's create-order-execution is bridging
  selected,   \* selected_path_id of a B workspace that is "supplier_selected"
  chosen,     \* paths whose M workspace is "selected_by_buyer"
  known,      \* orders whose id a client has been shown
  calls       \* requests begun

bridgeVars == <<bridge, selected, chosen, known>>
vars == <<orderVars, merchVars, bridgeVars, calls>>

Bridges == [order : Orders, path : Paths, plan : Plans, stage : {"plan", "link", "select", "mark"}]

ASSUME Nulls ==
  /\ NoOrder \notin OrderContexts /\ NoPlan \notin Plans /\ NoPath \notin Paths
  /\ NoWork \notin Works /\ NoBridge \notin Bridges
  /\ NoTarget \notin Orders /\ NoTarget \notin Makings /\ NoChange \notin Changes
  /\ NoFile \notin [TaskTypes -> {"PENDING", "DONE"}] /\ NoFile \notin [StageTypes -> StageFiles]
  /\ NoFile \notin MediaFiles

TypeOK ==
  /\ OrderTypeOK
  /\ MerchTypeOK
  /\ bridge \in [Callers -> Bridges \cup {NoBridge}]
  /\ selected \in Paths \cup {NoPath}
  /\ chosen \subseteq Paths
  /\ known \subseteq Orders
  /\ calls \in 0..MaxCalls

Init ==
  /\ OrderInit
  /\ MerchInit
  /\ bridge = [c \in Callers |-> NoBridge]
  /\ selected = NoPath
  /\ chosen = {}
  /\ known = {}
  /\ calls = 0

Idle(c) == work[c] = NoWork /\ making[c] = NoTarget /\ change[c] = NoChange /\ bridge[c] = NoBridge

(* A new request, taken by an idle worker thread.                          *)
Call(c) == Idle(c) /\ calls < MaxCalls /\ calls' = calls + 1

-----------------------------------------------------------------------------
(* create_order_execution_from_selected_path.                              *)

(* The order file without a plan; nothing asks for an earlier selection.   *)
CreateOrder(c, o, path, plan) ==
  /\ Call(c)
  /\ orders[o] = NoOrder
  /\ orders' = [orders EXCEPT ![o] = NewOrder(path)]
  /\ BeginPlan(c, plan, o)
  /\ bridge' = [bridge EXCEPT ![c] = [order |-> o, path |-> path, plan |-> plan, stage |-> "plan"]]
  /\ UNCHANGED <<work, selected, chosen, known>>

(* The stages of the plan, of the bridge or of create-execution-plan.  The *)
(* task list shows the order's id as soon as it is written.                *)
MakePlan(c) ==
  /\ \/ PlanTasksAfterConfirmation(c) /\ known' = known \cup ({making[c].order} \cap Orders)
     \/ (CreateMilestones(c) \/ WriteExecutionPlan(c)) /\ UNCHANGED known
  /\ UNCHANGED <<orderVars, bridge, selected, chosen, calls>>

(* The object the bridge made of the order, with the ids of the plan.      *)
LinkPlan(c) ==
  /\ bridge[c] # NoBridge /\ bridge[c].stage = "plan" /\ making[c] = NoTarget
  /\ LET order == NewOrder(bridge[c].path)
     IN  work' = [work EXCEPT ![c] = [order |-> bridge[c].order, cause |-> "link", read |-> order,
                                      write |-> [order EXCEPT !.plan = bridge[c].plan]]]
  /\ bridge' = [bridge EXCEPT ![c].stage = "link"]
  /\ UNCHANGED <<orders, selected, chosen, known, calls, merchVars>>

(* An exception of the plan or of the link is logged as a warning.         *)
PlanWarning(c) ==
  /\ PlanFails(c)
  /\ bridge' = IF bridge[c] = NoBridge THEN bridge ELSE [bridge EXCEPT ![c].stage = "select"]
  /\ UNCHANGED <<orderVars, selected, chosen, known, calls>>

(* save_b_workspace, then update_m_workspace_status, then the answer.      *)
SelectPath(c) ==
  /\ bridge[c] # NoBridge /\ work[c] = NoWork /\ bridge[c].stage \in {"link", "select"}
  /\ selected' = bridge[c].path
  /\ bridge' = [bridge EXCEPT ![c].stage = "mark"]
  /\ UNCHANGED <<orderVars, merchVars, chosen, known, calls>>

MarkSelectedByBuyer(c) ==
  /\ bridge[c] # NoBridge /\ bridge[c].stage = "mark"
  /\ chosen' = chosen \cup {bridge[c].path}
  /\ known' = known \cup {bridge[c].order}
  /\ bridge' = [bridge EXCEPT ![c] = NoBridge]
  /\ UNCHANGED <<orderVars, merchVars, selected, calls>>

-----------------------------------------------------------------------------
(* The supplier's messages and the buyer's sign-off on a known order.      *)

(* receive_buyer_signoff, "confirmed": the order is named, or that of the  *)
(* newest plan of the project.  Nothing asks whether it was delivered.     *)
ReceiveBuyerSignoff(c, o) ==
  /\ orders[o] # NoOrder /\ orders[o].status # "ORDER_CLOSED"
  /\ Load(c, o, "signoff", Closed(orders[o]))

(* The supplier's messages, by endpoint or as actions of the skill.        *)
SupplierMessage(c, o) ==
  \/ AcknowledgeOrder(c, o)
  \/ SubmitProductionUpdate(c, o)
  \/ SubmitQcUpdate(c, o)
  \/ SubmitLogisticsUpdate(c, o)

OrderRequest(c) ==
  /\ Call(c)
  /\ \/ \E o \in known : SupplierMessage(c, o) \/ ReceiveBuyerSignoff(c, o)
     \/ plans # << >> /\ NewestPlan.order \in Orders /\ ReceiveBuyerSignoff(c, NewestPlan.order)
  /\ UNCHANGED <<bridgeVars, merchVars>>

SaveOrder(c) == SaveOrderExecution(c) /\ UNCHANGED <<bridgeVars, merchVars, calls>>

(* The merchandiser's endpoints.                                           *)
MerchandiserRequest(c) ==
  /\ Call(c)
  /\ \/ \E p \in PlanIds, order \in known \cup {NoTarget} : BeginPlan(c, p, order)
     \/ \E p \in PlanIds, t \in TaskTypes : ReadTask(c, p, t)
     \/ \E p \in PlanIds, s \in StageTypes : ReadMilestone(c, p, s)
     \/ \E p \in PlanIds, s \in StageTypes, ids \in SUBSET MediaIds : UploadMediaEvidence(c, p, s, ids)
     \/ \E e \in ExceptionIds : RaiseException(e) \/ ReadException(c, e)
  /\ UNCHANGED <<orderVars, bridgeVars>>

MerchandiserStep(c) ==
  /\ CompleteTask(c) \/ UpdateMilestoneStatus(c) \/ SaveMilestone(c) \/ ResolveException(c)
  /\ UNCHANGED <<orderVars, bridgeVars, calls>>

(* The process stops: what requests held is gone, the files stay.          *)
Crash ==
  /\ work' = [c \in Callers |-> NoWork]
  /\ making' = [c \in Callers |-> NoTarget]
  /\ change' = [c \in Callers |-> NoChange]
  /\ bridge' = [c \in Callers |-> NoBridge]
  /\ UNCHANGED <<orders, tasks, stages, plans, media, exceptions, selected, chosen, known, calls>>

Next ==
  \/ \E c \in Callers :
       \/ \E o \in Orders, path \in Paths, plan \in Plans : CreateOrder(c, o, path, plan)
       \/ MakePlan(c) \/ LinkPlan(c) \/ PlanWarning(c) \/ SelectPath(c) \/ MarkSelectedByBuyer(c)
       \/ OrderRequest(c) \/ SaveOrder(c)
       \/ MerchandiserRequest(c) \/ MerchandiserStep(c)
  \/ Crash

Spec == Init /\ [][Next]_vars

-----------------------------------------------------------------------------
(* Progress of an order is lost only in the ways the handlers mean it, or  *)
(* by a stale write.  A completed milestone is taken back only by a QC     *)
(* message that did not pass; a closed order reopens only on a late        *)
(* acknowledgement or logistics message; else what is written over was not *)
(* what its writer had read (save_order_execution, order_acknowledger.py). *)
Loses(o, new) ==
  {m \in MilestoneNames : orders[o].milestones[m] = "completed" /\ new.milestones[m] # "completed"}
    \cup (IF orders[o].status = "ORDER_CLOSED" /\ new.status # "ORDER_CLOSED" THEN {"closed"} ELSE {})

Excused(c) ==
  CASE Stale(c) -> MilestoneNames \cup {"closed"}
    [] ~Stale(c) /\ work[c].cause = "qc" -> {"qc_confirmation"}
    [] ~Stale(c) /\ work[c].cause \in {"acknowledge", "logistics"} -> {"closed"}
    [] OTHER -> {}

ProgressKept ==
  [][\A o \in Orders : orders[o] # NoOrder /\ orders'[o] # orders[o] =>
       \E c \in Callers : /\ work[c] # NoWork /\ work[c].order = o
                          /\ Loses(o, orders'[o]) \subseteq Excused(c)]_vars

(* An order is in production, or waits for QC, only after the supplier     *)
(* acknowledged it, and is shipped only with its handover to logistics on  *)
(* record, whichever messages came in between and whatever the writes lost *)
(* (submit_production_update, submit_qc_update, submit_logistics_update).  *)
RecordsAgree ==
  \A o \in Orders : orders[o] # NoOrder =>
    /\ orders[o].status \in {"in_production", "qc_pending"} =>
         orders[o].milestones["order_acknowledgement"] = "completed"
    /\ orders[o].status = "shipped" =>
         orders[o].milestones["logistics_handover"] = "completed"

(* What submit_logistics_update means to record, and does not: the loop    *)
(* that completes "logistics_handover" stops before "shipped"              *)
(* (logistics_update.py:94-99).                                            *)
ShippedIsRecorded ==
  \A o \in Orders : orders[o] # NoOrder /\ orders[o].status = "shipped" =>
    orders[o].milestones["shipped"] = "completed"

(* What a file refers to is on disk, after a crash or a failure between    *)
(* any two files too: the order of a path that either workspace shows as   *)
(* selected, the plan an order is linked to, the tasks and milestones a    *)
(* plan lists, the media a milestone lists.  A crash or a failed plan in   *)
(* the middle of the bridge leaves an order nobody selected, never a       *)
(* selection without an order (create_order_execution_from_selected_path). *)
ReferencesExist ==
  /\ \A path \in chosen \cup ({selected} \ {NoPath}) :
       \E o \in Orders : orders[o] # NoOrder /\ orders[o].path = path
  /\ \A o \in Orders : orders[o] # NoOrder /\ orders[o].plan # NoPlan =>
       \E i \in DOMAIN plans : plans[i] = [id |-> orders[o].plan, order |-> o]
  /\ \A i \in DOMAIN plans : tasks[plans[i].id] # NoFile /\ stages[plans[i].id] # NoFile
  /\ \A p \in PlanIds, s \in StageTypes : stages[p] # NoFile =>
       \A i \in stages[p][s].listed : media[i] # NoFile /\ media[i].plan = p /\ media[i].stage = s
=============================================================================
