---------------------------- MODULE Merchandiser ----------------------------
(***************************************************************************)
(* The files of the AI merchandiser: execution plans, their tasks and      *)
(* milestones, the media evidence of the milestones and order exceptions.  *)
(*                                                                         *)
(* Every entity is a JSON file of its own, under a fresh id.  A plan's     *)
(* tasks are written first, then its milestones, then the plan that lists  *)
(* both; a request may fail, or the process stop, at every stage.          *)
(***************************************************************************)
EXTENDS Naturals, Sequences, FiniteSets, SequencesExt

CONSTANTS
  Makers,        \* worker threads
  PlanIds,       \* execution plans
  PlannedOrders, \* order ids a plan may be for
  TaskTypes,     \* of plan_tasks_after_confirmation
  StageTypes,    \* of _APPAREL_MILESTONES or _CNC_MILESTONES
  MediaIds,      \* media evidence files
  ExceptionIds,  \* order exception files
  NoFile, NoTarget, NoChange

StageFiles ==
  [status : {"PENDING", "REQUESTED", "UPLOADED", "CONFIRMED", "REJECTED"},
   listed : SUBSET MediaIds]   \* metadata["media_ids"]

MediaFiles ==
  [plan : PlanIds, stage : StageTypes, review : {"pending", "not_required"}]

ExceptionFiles == {"OPEN", "RESOLVED"}

VARIABLES
  tasks,       \* tasks[p] : the task files written for plan p
  stages,      \* stages[p] : the milestone files written for plan p
  plans,       \* the plan files, oldest first: [id, order]
  media,       \* the media files
  exceptions,  \* the exception files
  making,      \* the plan a caller is creating
  change       \* the file a caller has read and will write

merchVars == <<tasks, stages, plans, media, exceptions, making, change>>

Makings == [plan : PlanIds, order : PlannedOrders \cup {NoTarget}, stage : {"tasks", "milestones", "plan"}]

Changes ==
  [file : {"task"}, plan : PlanIds, key : TaskTypes]
    \cup [file : {"stage"}, plan : PlanIds, key : StageTypes, write : StageFiles]
    \cup [file : {"upload"}, plan : PlanIds, key : StageTypes, ids : SUBSET MediaIds]
    \cup [file : {"exception"}, key : ExceptionIds]

PlanFiles == [id : PlanIds, order : PlannedOrders \cup {NoTarget}]

MerchTypeOK ==
  /\ tasks \in [PlanIds -> [TaskTypes -> {"PENDING", "DONE"}] \cup {NoFile}]
  /\ stages \in [PlanIds -> [StageTypes -> StageFiles] \cup {NoFile}]
  /\ plans \in Seq(PlanFiles)
  /\ media \in [MediaIds -> MediaFiles \cup {NoFile}]
  /\ exceptions \in [ExceptionIds -> ExceptionFiles \cup {NoFile}]
  /\ making \in [Makers -> Makings \cup {NoTarget}]
  /\ change \in [Makers -> Changes \cup {NoChange}]

MerchInit ==
  /\ tasks = [p \in PlanIds |-> NoFile]
  /\ stages = [p \in PlanIds |-> NoFile]
  /\ plans = << >>
  /\ media = [i \in MediaIds |-> NoFile]
  /\ exceptions = [e \in ExceptionIds |-> NoFile]
  /\ making = [c \in Makers |-> NoTarget]
  /\ change = [c \in Makers |-> NoChange]

-----------------------------------------------------------------------------
(* create_execution_plan: a fresh plan id, then three stages of files.     *)
FreshPlans ==
  {p \in PlanIds : tasks[p] = NoFile /\ \A c \in Makers : making[c] = NoTarget \/ making[c].plan # p}

(* Mutant: the plan file is written before the files it lists.             *)
BeginPlanWithFile(c, p, order) ==
  /\ p \in FreshPlans
  /\ making' = [making EXCEPT ![c] = [plan |-> p, order |-> order, stage |-> "tasks"]]
  /\ plans' = Append(plans, [id |-> p, order |-> order])
  /\ UNCHANGED <<tasks, stages, media, exceptions, change>>

BeginPlan(c, p, order) ==
  /\ p \in FreshPlans
  /\ making' = [making EXCEPT ![c] = [plan |-> p, order |-> order, stage |-> "tasks"]]
  /\ UNCHANGED <<tasks, stages, plans, media, exceptions, change>>

AtStage(c, stage) == making[c] # NoTarget /\ making[c].stage = stage

PlanTasksAfterConfirmation(c) ==
  /\ AtStage(c, "tasks")
  /\ tasks' = [tasks EXCEPT ![making[c].plan] = [t \in TaskTypes |-> "PENDING"]]
  /\ making' = [making EXCEPT ![c].stage = "milestones"]
  /\ UNCHANGED <<stages, plans, media, exceptions, change>>

CreateMilestones(c) ==
  /\ AtStage(c, "milestones")
  /\ stages' = [stages EXCEPT ![making[c].plan] =
                  [s \in StageTypes |-> [status |-> "PENDING", listed |-> {}]]]
  /\ making' = [making EXCEPT ![c].stage = "plan"]
  /\ UNCHANGED <<tasks, plans, media, exceptions, change>>

WriteExecutionPlan(c) ==
  /\ AtStage(c, "plan")
  /\ plans' = Append(plans, [id |-> making[c].plan, order |-> making[c].order])
  /\ making' = [making EXCEPT ![c] = NoTarget]
  /\ UNCHANGED <<tasks, stages, media, exceptions, change>>

(* A write of one of the stages raises (OSError): the files before it stay. *)
PlanFails(c) ==
  /\ making[c] # NoTarget
  /\ making' = [making EXCEPT ![c] = NoTarget]
  /\ UNCHANGED <<tasks, stages, plans, media, exceptions, change>>

(* find_execution_plan_by_project_id: the newest plan file.                *)
NewestPlan == Last(plans)

-----------------------------------------------------------------------------
(* complete_task: the file is read, then written as done.                  *)
ReadTask(c, p, t) ==
  /\ tasks[p] # NoFile
  /\ change' = [change EXCEPT ![c] = [file |-> "task", plan |-> p, key |-> t]]
  /\ UNCHANGED <<tasks, stages, plans, media, exceptions, making>>

CompleteTask(c) ==
  /\ change[c] # NoChange /\ change[c].file = "task"
  /\ tasks' = [tasks EXCEPT ![change[c].plan][change[c].key] = "DONE"]
  /\ change' = [change EXCEPT ![c] = NoChange]
  /\ UNCHANGED <<stages, plans, media, exceptions, making>>

(* request-media, buyer-confirm and reject: get_milestone, then the file   *)
(* with another status; no status is refused.                              *)
ReadMilestone(c, p, s) ==
  /\ stages[p] # NoFile
  /\ \E status \in {"REQUESTED", "CONFIRMED", "REJECTED"} :
       change' = [change EXCEPT ![c] =
                    [file |-> "stage", plan |-> p, key |-> s,
                     write |-> [stages[p][s] EXCEPT !.status = status]]]
  /\ UNCHANGED <<tasks, stages, plans, media, exceptions, making>>

SaveMilestone(c) ==
  /\ change[c] # NoChange /\ change[c].file = "stage"
  /\ stages' = [stages EXCEPT ![change[c].plan][change[c].key] = change[c].write]
  /\ change' = [change EXCEPT ![c] = NoChange]
  /\ UNCHANGED <<tasks, plans, media, exceptions, making>>

(* upload_media_evidence: the media files first (a shipping label needs no *)
(* review), ...                                                            *)
UploadMediaEvidence(c, p, s, ids) ==
  /\ stages[p] # NoFile
  /\ \A i \in ids : media[i] = NoFile
  /\ \E review \in {"pending", "not_required"} :
       media' = [i \in MediaIds |->
                   IF i \in ids THEN [plan |-> p, stage |-> s, review |-> review] ELSE media[i]]
  /\ change' = [change EXCEPT ![c] = [file |-> "upload", plan |-> p, key |-> s, ids |-> ids]]
  /\ UNCHANGED <<tasks, stages, plans, exceptions, making>>

(* ... then the milestone, read afresh by update_milestone_status.         *)
UpdateMilestoneStatus(c) ==
  /\ change[c] # NoChange /\ change[c].file = "upload"
  /\ change' = [change EXCEPT ![c] =
                  [file |-> "stage", plan |-> change[c].plan, key |-> change[c].key,
                   write |-> [stages[change[c].plan][change[c].key] EXCEPT
                                !.status = "UPLOADED", !.listed = change[c].ids]]]
  /\ UNCHANGED <<tasks, stages, plans, media, exceptions, making>>

(* raise_exception; a type that is not declared is refused before a file.  *)
RaiseException(e) ==
  /\ exceptions[e] = NoFile
  /\ exceptions' = [exceptions EXCEPT ![e] = "OPEN"]
  /\ UNCHANGED <<tasks, stages, plans, media, making, change>>

ReadException(c, e) ==
  /\ exceptions[e] # NoFile
  /\ change' = [change EXCEPT ![c] = [file |-> "exception", key |-> e]]
  /\ UNCHANGED <<tasks, stages, plans, media, exceptions, making>>

ResolveException(c) ==
  /\ change[c] # NoChange /\ change[c].file = "exception"
  /\ exceptions' = [exceptions EXCEPT ![change[c].key] = "RESOLVED"]
  /\ change' = [change EXCEPT ![c] = NoChange]
  /\ UNCHANGED <<tasks, stages, plans, media, making>>
=============================================================================
