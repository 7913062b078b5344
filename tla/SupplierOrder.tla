--------------------------- MODULE SupplierOrder ---------------------------
(***************************************************************************)
(* The supplier's order file (data/order_execution) and the four supplier  *)
(* messages that move it: acknowledgement, production, QC and logistics.   *)
(*                                                                         *)
(* A request reads the file, changes the object it made of it and writes   *)
(* it back, in a worker thread and without a lock: reading and writing are *)
(* two steps, and what another request wrote between them is lost.         *)
(*                                                                         *)
(* A message is what the handlers' patterns find in it.                    *)
(***************************************************************************)
EXTENDS Naturals, FiniteSets, FiniteSetsExt

CONSTANTS
  Callers,     \* worker threads that serve requests
  Orders,      \* order execution ids
  Paths,       \* delivery paths of the feasibility report
  Plans,       \* execution plan ids
  HintSets,    \* the sets of milestones a production message may name
  QcMessages,  \* the sets of kinds of QC words a message may contain
  NoOrder, NoPlan, NoWork

(* _DEFAULT_MILESTONES, in the order of the file's list.                   *)
Milestones ==
  <<"order_acknowledgement", "material_confirmation", "production_start",
    "mid_production_update", "qc_confirmation", "packaging_ready",
    "logistics_handover", "shipped", "completed">>

MilestoneNames == {Milestones[i] : i \in DOMAIN Milestones}

(* The milestones the patterns of a production message can name.           *)
Hinted == {"material_confirmation", "production_start", "mid_production_update",
           "qc_confirmation", "packaging_ready", "logistics_handover"}

OrderStatuses ==
  {"order_acknowledgement_pending", "order_acknowledged", "in_production",
   "qc_pending", "shipped", "buyer_signoff_pending", "ORDER_CLOSED"}

LogisticsStatuses == {"pending", "shipped", "delivered", "ready_for_pickup", "handed_over"}

ASSUME HintsAreHinted == HintSets \subseteq SUBSET Hinted
ASSUME QcWords == QcMessages \subseteq SUBSET {"pass", "fail", "confirm"}

OrderContexts ==
  [status : OrderStatuses,
   milestones : [MilestoneNames -> {"pending", "in_progress", "completed"}],
   path : Paths,
   plan : Plans \cup {NoPlan}]

NewOrder(path) ==
  [status |-> "order_acknowledgement_pending",
   milestones |-> [m \in MilestoneNames |-> "pending"],
   path |-> path, plan |-> NoPlan]

-----------------------------------------------------------------------------
(* What each message does to the order a request has read.                 *)

Acknowledged(order) ==
  [order EXCEPT !.status = "order_acknowledged",
                !.milestones["order_acknowledgement"] = "completed"]

(* Mutant: a named milestone starts whatever its status.                   *)
HintAnyStatus(order, hints) ==
  [order EXCEPT !.milestones =
     [m \in MilestoneNames |-> IF m \in hints THEN "in_progress" ELSE order.milestones[m]]]

(* _update_milestone_status: a named milestone starts if it was pending.   *)
Hint(order, hints) ==
  [order EXCEPT !.milestones =
     [m \in MilestoneNames |->
        IF m \in hints /\ order.milestones[m] = "pending" THEN "in_progress"
        ELSE order.milestones[m]]]

(* Mutant: a production message starts production whatever the status is.  *)
ProducedAnyStatus(order, hints) == [Hint(order, hints) EXCEPT !.status = "in_production"]

Produced(order, hints) ==
  [Hint(order, hints) EXCEPT
     !.status = IF order.status = "order_acknowledged" THEN "in_production" ELSE order.status]

(* The patterns are tried in this order; the Chinese words for "rejected"  *)
(* contain the word for "passed", so such a message has both kinds.        *)
QcStatus(words) ==
  CASE "pass" \in words -> "passed"
    [] "pass" \notin words /\ "fail" \in words -> "failed"
    [] words = {"confirm"} -> "needs_buyer_confirmation"
    [] words = {} -> "pending"

Inspected(order, words) ==
  LET passed == QcStatus(words) = "passed"
  IN  [order EXCEPT
         !.milestones["qc_confirmation"] = IF passed THEN "completed" ELSE "in_progress",
         !.status = IF passed /\ order.status = "in_production" THEN "qc_pending" ELSE order.status]

(* The loop over the milestones completes the first that matches and ends: *)
(* "logistics_handover" comes before "shipped", which none ever completes. *)
Moved(order, status) ==
  LET matching == {i \in DOMAIN Milestones :
                     \/ Milestones[i] = "logistics_handover" /\ status \in {"handed_over", "shipped"}
                     \/ Milestones[i] = "shipped" /\ status = "shipped"}
  IN  [order EXCEPT
         !.milestones = [m \in MilestoneNames |->
            IF matching # {} /\ m = Milestones[Min(matching)] THEN "completed"
            ELSE order.milestones[m]],
         !.status = CASE status = "shipped" -> "shipped"
                      [] status = "delivered" -> "buyer_signoff_pending"
                      [] OTHER -> order.status]

(* receive_buyer_signoff, "confirmed", on an order not closed before.      *)
Closed(order) == [order EXCEPT !.status = "ORDER_CLOSED"]

-----------------------------------------------------------------------------
VARIABLES
  orders,   \* the order files
  work      \* what the request of each caller has read and will write

orderVars == <<orders, work>>

Works ==
  [order : Orders,            \* the order it was asked to change
   cause : {"acknowledge", "production", "qc", "logistics", "signoff", "link"},
   read : OrderContexts,      \* the order as it read it
   write : OrderContexts]     \* the order as it will write it

OrderTypeOK ==
  /\ orders \in [Orders -> OrderContexts \cup {NoOrder}]
  /\ work \in [Callers -> Works \cup {NoWork}]

OrderInit ==
  /\ orders = [o \in Orders |-> NoOrder]
  /\ work = [c \in Callers |-> NoWork]

(* get_order_execution, and the change made of what it returned.  An order *)
(* without a file is refused (acknowledge) or passed over (the others).    *)
Load(c, o, cause, new) ==
  /\ orders[o] # NoOrder
  /\ work' = [work EXCEPT ![c] =
                [order |-> o, cause |-> cause, read |-> orders[o], write |-> new]]
  /\ UNCHANGED orders

AcknowledgeOrder(c, o) == Load(c, o, "acknowledge", Acknowledged(orders[o]))

SubmitProductionUpdate(c, o) ==
  \E hints \in HintSets : Load(c, o, "production", Produced(orders[o], hints))

SubmitQcUpdate(c, o) ==
  \E words \in QcMessages : Load(c, o, "qc", Inspected(orders[o], words))

SubmitLogisticsUpdate(c, o) ==
  \E status \in LogisticsStatuses : Load(c, o, "logistics", Moved(orders[o], status))

(* save_order_execution: the file becomes the request's object.            *)
SaveOrderExecution(c) ==
  /\ work[c] # NoWork
  /\ orders' = [orders EXCEPT ![work[c].order] = work[c].write]
  /\ work' = [work EXCEPT ![c] = NoWork]

-----------------------------------------------------------------------------
(* A write is stale when the file is not what its request read.            *)
Stale(c) == work[c] # NoWork /\ orders[work[c].order] # work[c].read
=============================================================================
