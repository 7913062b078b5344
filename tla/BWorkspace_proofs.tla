------------------------- MODULE BWorkspace_proofs -------------------------
(***************************************************************************)
(* Safety of the two systems that work on the buyer's workspace, for every *)
(* number of callers, projects, conversations, drafts and suppliers: the   *)
(* chat skill (OpenClawSkill) and the collection of quotes                 *)
(* (QuoteCollection).                                                      *)
(*                                                                         *)
(* The chat skill: files are never removed and a structured requirement    *)
(* stays one, so what a handler refers to is still there when it writes    *)
(* (TaskInv, BoundInv, DraftsInv).  A conversation that was                *)
(* never crossed has one maker of a binding at most, and only as long as   *)
(* it has none (MakingInv).  A draft that was never contested is pending   *)
(* while a caller decides on it (CheckedInv), and belongs, once decided,   *)
(* to the one caller that decided until that caller answers (DoneInv).     *)
(*                                                                         *)
(* The quotes: an object that a request loaded and changed agrees with     *)
(* itself, and with the files as they are by now, because files are never  *)
(* removed and a supplier's stays that supplier's; so a late save puts     *)
(* back what is old but nothing that is false (RequestsInv), and what it   *)
(* does lose it loses as a stale write or as one that means to.            *)
(***************************************************************************)
EXTENDS OpenClawSkill, QuoteCollection, SequenceTheorems, FiniteSetTheorems, TLAPS

(* Project p has a workspace whose requirement is structured.              *)
Known(by, p) == by[p] # NoFile /\ by[p].req # NoReq

HasBinding(bs, p) == \E b \in bs : b.mode = "b_side" /\ b.project = p

(* What a handler that has begun may rely on.                              *)
TaskOK(by, bs, t) ==
  /\ t.kind = "structure" => by[t.project] # NoFile
  /\ t.kind \in {"bind", "save"} => Known(by, t.project)
  /\ t.kind = "save" => t.write.req # NoReq
  /\ t.kind \in {"save", "draft"} => HasBinding(bs, t.project)

TaskInv == \A c \in Callers : task[c] # NoTask => TaskOK(buyer, bindings, task[c])

(* A buyer's binding leads to a workspace; a supplier's has none.           *)
BoundOK(by, b) == b.workspace # NoFile => b.workspace = b.project /\ Known(by, b.project)

BoundInv == \A b \in bindings : BoundOK(buyer, b)

DraftsInv == \A d \in DraftIds : drafts[d] # NoDraft => HasBinding(bindings, drafts[d].project)

Makes(t, v) == t # NoTask /\ t.kind \in {"structure", "bind", "supplier"} /\ t.conversation = v

(* One caller at most makes a binding of v, and only when v has none.      *)
MakingOK(tasks, bs, v) ==
  /\ \A c, e \in Callers : Makes(tasks[c], v) /\ Makes(tasks[e], v) => c = e
  /\ \A c \in Callers : Makes(tasks[c], v) => \A b \in bs : b.conversation # v
  /\ \A a, b \in bs : a.conversation = v /\ b.conversation = v => a = b

MakingInv == \A v \in Conversations \ crossed : MakingOK(task, bindings, v)

Checks(t, d) == t # NoTask /\ t.kind = "decide" /\ t.checked = d
HasDone(t, d) == t # NoTask /\ t.kind = "decide" /\ d \in t.done

(* A decision is about drafts that exist; what is done is decided.         *)
DecideOK(dr, t) ==
  t.kind = "decide" =>
    /\ \A d \in t.todo : dr[d] # NoDraft
    /\ t.checked # NoDraft => dr[t.checked] # NoDraft
    /\ \A d \in t.done : dr[d] # NoDraft /\ dr[d].status # "pending_approval"

DecideInv == \A c \in Callers : task[c] # NoTask => DecideOK(drafts, task[c])

(* Of a draft that was never contested.                                    *)
CheckedInv ==
  \A d \in DraftIds \ contested, c \in Callers : Checks(task[c], d) =>
    /\ drafts[d].status = "pending_approval"
    /\ \A e \in Callers : Checks(task[e], d) => e = c

DoneInv ==
  \A d \in DraftIds \ contested, c \in Callers : HasDone(task[c], d) =>
    /\ drafts[d].status = task[c].verdict
    /\ handed[d] = 0
    /\ \A e \in Callers : HasDone(task[e], d) => e = c

HandedInv ==
  \A d \in DraftIds \ contested :
    handed[d] <= 1 /\ (handed[d] = 1 => drafts[d] # NoDraft /\ drafts[d].status = "approved")

IInv == /\ TypeOK
        /\ TaskInv /\ BoundInv /\ DraftsInv
        /\ MakingInv
        /\ DecideInv /\ CheckedInv /\ DoneInv /\ HandedInv

-----------------------------------------------------------------------------
(* What the step of a caller does.                                         *)
Begins(c) ==
  \/ \E v \in Conversations, message \in Texts, b \in BIds : HandleBSideNew(c, v, b, message)
  \/ \E v \in Conversations, message \in Texts : HandleBSideFollowup(c, v, message)
  \/ \E v \in Conversations, project \in Projects : HandleMSide(c, v, project)

Decides(c) ==
  \E verdict \in {"approved", "rejected"} :
    \/ \E project \in Projects : HandleDecision(c, verdict, project)
    \/ \E d \in DraftIds : DecideDraft(c, verdict, d)

Step(c) ==
  \/ Begins(c) \/ Decides(c)
  \/ StructureInChat(c) \/ CreateBinding(c) \/ SaveFollowup(c) \/ BindSupplier(c)
  \/ \E d \in DraftIds : CreateDraft(c, d) \/ CheckDraft(c, d)
  \/ SaveDraft(c) \/ Answer(c)

(* Next is the disjunction of these cases.                                 *)
LEMMA NextSteps == Next => Crash \/ \E c \in Callers : Step(c)
  BY DEF Next, Begins, Decides, Step

(* A new task is the caller's own.                                         *)
LEMMA BecomeOne ==
  ASSUME TypeOK, NEW c \in Callers, NEW t, Become(c, t)
  PROVE  task'[c] = t /\ \A e \in Callers \ {c} : task'[e] = task[e]
  BY DEF TypeOK, Become

(* The tasks of approval and rejection.                                    *)
Decisions ==
  [kind : {"decide"}, verdict : {"approved", "rejected"}, inChat : BOOLEAN,
   todo : SUBSET DraftIds, checked : DraftIds \cup {NoDraft}, done : SUBSET DraftIds]

(* What a task is made of, by its kind.                                    *)
LEMMA TaskType ==
  ASSUME TypeOK, NEW c \in Callers, task[c] # NoTask
  PROVE  LET t == task[c]
         IN  /\ t.kind \in {"structure", "bind"} =>
                  /\ t \in [kind : {"structure", "bind"}, project : BIds,
                            conversation : Conversations, message : Messages]
             /\ t.kind = "save" =>
                  t.project \in BIds /\ t.message \in Messages /\ t.write \in BFiles
             /\ t.kind = "draft" => t.project \in BIds
             /\ t.kind = "supplier" => t.project \in Projects /\ t.conversation \in Conversations
             /\ t.kind = "decide" => t \in Decisions
<1>1. task[c] \in Tasks
  BY DEF TypeOK
<1>2. QED
  BY <1>1 DEF Tasks, Decisions

(* A decision lists drafts that are there.                                 *)
LEMMA DecidesSome ==
  ASSUME TypeOK, NEW c \in Callers, Decides(c)
  PROVE  \E verdict \in {"approved", "rejected"}, inChat \in BOOLEAN, todo \in SUBSET DraftIds :
           /\ Decide(c, verdict, inChat, todo)
           /\ \A d \in todo : drafts[d] # NoDraft
<1>1. ASSUME NEW verdict \in {"approved", "rejected"}, NEW project \in Projects,
             HandleDecision(c, verdict, project)
      PROVE  /\ Decide(c, verdict, TRUE, Pending(project)) /\ Pending(project) \in SUBSET DraftIds
             /\ \A d \in Pending(project) : drafts[d] # NoDraft
  BY <1>1 DEF HandleDecision, Pending
<1>2. ASSUME NEW verdict \in {"approved", "rejected"}, NEW d \in DraftIds,
             DecideDraft(c, verdict, d)
      PROVE  Decide(c, verdict, FALSE, {d}) /\ {d} \in SUBSET DraftIds /\ drafts[d] # NoDraft
  BY <1>2 DEF DecideDraft
<1>3. CASE \E verdict \in {"approved", "rejected"}, project \in Projects :
             HandleDecision(c, verdict, project)
  BY <1>1, <1>3
<1>4. CASE \E verdict \in {"approved", "rejected"}, d \in DraftIds : DecideDraft(c, verdict, d)
  <2> PICK verdict \in {"approved", "rejected"}, d \in DraftIds : DecideDraft(c, verdict, d)
    BY <1>4
  <2>1. \A e \in {d} : drafts[e] # NoDraft
    BY <1>2
  <2>2. QED
    BY <1>2, <2>1
<1>5. QED
  BY <1>3, <1>4 DEF Decides

(* The files that handlers write.                                          *)
LEMMA NewFile ==
  ASSUME NEW given \in SUBSET Fields
  PROVE  NewBWorkspace(given) \in BFiles
<1>1. 0 \in 0..MaxMessages
  BY MessagesBound
<1>2. [s \in Suppliers |-> NoResponse] \in [Suppliers -> Responses]
  BY <1>1 DEF NoResponse, Responses
<1>3. QED
  BY <1>2 DEF NewBWorkspace, BFiles, BStatuses

(* A requirement structured of the raw text is there.                      *)
LEMMA StructuredFile ==
  ASSUME NEW w \in BFiles
  PROVE  StructuredInChat(w) \in BFiles /\ StructuredInChat(w).req # NoReq
  BY Nulls DEF StructuredInChat, BFiles, BStatuses

(* A follow-up keeps the requirement there.                                *)
LEMMA FollowedUpFile ==
  ASSUME NEW w \in BFiles, NEW given \in SUBSET Fields
  PROVE  FollowedUp(w, given) \in BFiles /\ (w.req # NoReq => FollowedUp(w, given).req # NoReq)
<1>1. w.req \in (SUBSET Fields) \cup {NoReq}
  BY DEF BFiles
<1>2. w.req # NoReq => w.req \cup given \in SUBSET Fields
  <2>1. w.req # NoReq => w.req \subseteq Fields
    BY <1>1
  <2>2. given \subseteq Fields
    OBVIOUS
  <2>3. QED
    BY <2>1, <2>2
<1>3. FollowedUp(w, given).req = IF w.req = NoReq THEN NoReq ELSE w.req \cup given
  BY DEF FollowedUp, BFiles
<1>4. FollowedUp(w, given) \in BFiles
  BY <1>2 DEF FollowedUp, BFiles, BStatuses
<1>5. QED
  BY <1>2, <1>3, <1>4, Nulls

(* The parsers give fields.                                                *)
LEMMA TextFields == \A message \in Texts : message \in Messages /\ message.gives \in SUBSET Fields
  BY TextsParse DEF Messages

(* A draft or an answer follows.                                           *)
LEMMA DraftOrAnswerTask ==
  ASSUME NEW c \in Callers, NEW project \in BIds, NEW req, NEW message,
         DraftOrAnswer(c, project, req, message)
  PROVE  \E t \in Tasks \cup {NoTask} :
           Become(c, t) /\ (t # NoTask => t.kind = "draft" /\ t.project = project)
<1>1. [kind |-> "draft", project |-> project] \in Tasks
  BY DEF Tasks
<1>2. QED
  BY <1>1 DEF DraftOrAnswer

(* A binding with a workspace is found to lead to it.                       *)
LEMMA BoundKnown ==
  ASSUME BoundInv, NEW b \in bindings, b.workspace # NoFile
  PROVE  b.workspace = b.project /\ Known(buyer, b.project)
  BY DEF BoundInv, BoundOK

-----------------------------------------------------------------------------
(* Types.                                                                  *)

(* Nothing is there at the start.                                          *)
LEMMA TypeInit == Init => TypeOK
  BY CallsBound DEF Init, TypeOK

(* A call counts, within the bound.                                        *)
LEMMA CallType == ASSUME TypeOK, NEW c \in Callers, Call(c) PROVE calls' \in 0..MaxCalls
  BY CallsBound DEF TypeOK, Call

(* A caller's new task is a task.                                          *)
LEMMA BecomeType ==
  ASSUME TypeOK, NEW c \in Callers, NEW t \in Tasks \cup {NoTask}, Become(c, t)
  PROVE  task' \in [Callers -> Tasks \cup {NoTask}]
  BY DEF TypeOK, Become

(* What is recorded of overlaps are conversations.                         *)
LEMMA CrossedType ==
  ASSUME TypeOK, NEW v \in Conversations, BeginBinding(v)
  PROVE  crossed' \subseteq Conversations
  BY DEF TypeOK, BeginBinding

(* Every step writes files, bindings, drafts and tasks of their types.     *)
LEMMA TypeStep == TypeOK /\ TaskInv /\ BoundInv /\ DecideInv /\ [Next]_vars => TypeOK'
<1> SUFFICES ASSUME TypeOK, TaskInv, BoundInv, DecideInv, [Next]_vars PROVE TypeOK'
  OBVIOUS
<1> USE DEF TypeOK, history
<1>1. CASE Crash
  BY <1>1 DEF Crash
<1>2. ASSUME NEW c \in Callers PROVE Begins(c) => TypeOK'
  <2>1. ASSUME NEW v \in Conversations, NEW message \in Texts, NEW b \in BIds,
               HandleBSideNew(c, v, b, message)
        PROVE  TypeOK'
    <3> DEFINE t == [kind |-> "structure", project |-> b, conversation |-> v, message |-> message]
    <3>1. t \in Tasks
      BY TextFields DEF Tasks
    <3>2. task' \in [Callers -> Tasks \cup {NoTask}]
      BY <2>1, <3>1, BecomeType DEF HandleBSideNew
    <3>3. buyer' \in [BIds -> BFiles \cup {NoFile}]
      BY <2>1, NewFile, TextFields DEF HandleBSideNew
    <3>4. QED
      BY <2>1, <3>2, <3>3, CallType, CrossedType DEF HandleBSideNew
  <2>2. ASSUME NEW v \in Conversations, NEW message \in Texts, HandleBSideFollowup(c, v, message)
        PROVE  TypeOK'
    <3> PICK binding \in BindingsOf(v) :
          /\ binding.workspace # NoFile
          /\ Become(c, [kind |-> "save", project |-> binding.project, message |-> message,
                        write |-> FollowedUp(buyer[binding.workspace], message.gives)])
      BY <2>2 DEF HandleBSideFollowup
    <3>1. binding \in bindings /\ binding.workspace \in BIds /\ binding.workspace = binding.project
      BY DEF BindingsOf, Bindings, BoundInv, BoundOK
    <3>2. buyer[binding.workspace] \in BFiles
      BY <3>1, BoundKnown DEF Known
    <3>3. FollowedUp(buyer[binding.workspace], message.gives) \in BFiles
      BY <3>2, FollowedUpFile, TextFields
    <3>4. [kind |-> "save", project |-> binding.project, message |-> message,
           write |-> FollowedUp(buyer[binding.workspace], message.gives)] \in Tasks
      BY <3>1, <3>3, TextFields DEF Tasks
    <3>5. task' \in [Callers -> Tasks \cup {NoTask}]
      BY <3>4, BecomeType
    <3>6. QED
      BY <2>2, <3>5, CallType DEF HandleBSideFollowup
  <2>3. ASSUME NEW v \in Conversations, NEW project \in Projects, HandleMSide(c, v, project)
        PROVE  TypeOK'
    <3>1. [kind |-> "supplier", project |-> project, conversation |-> v] \in Tasks
      BY DEF Tasks
    <3>2. task' \in [Callers -> Tasks \cup {NoTask}]
      BY <2>3, <3>1, BecomeType DEF HandleMSide
    <3>3. QED
      BY <2>3, <3>2, CallType, CrossedType DEF HandleMSide
  <2>4. QED
    BY <2>1, <2>2, <2>3 DEF Begins
<1>3. ASSUME NEW c \in Callers PROVE Decides(c) => TypeOK'
  <2> SUFFICES ASSUME Decides(c) PROVE TypeOK'
    OBVIOUS
  <2> PICK verdict \in {"approved", "rejected"}, inChat \in BOOLEAN, todo \in SUBSET DraftIds :
        Decide(c, verdict, inChat, todo)
    BY DecidesSome
  <2>1. [kind |-> "decide", verdict |-> verdict, inChat |-> inChat, todo |-> todo,
         checked |-> NoDraft, done |-> {}] \in Tasks
    BY DEF Tasks
  <2>2. task' \in [Callers -> Tasks \cup {NoTask}]
    BY <2>1, BecomeType DEF Decide
  <2>3. QED
    BY <2>2, CallType DEF Decide
<1>4. ASSUME NEW c \in Callers PROVE StructureInChat(c) => TypeOK'
  <2> SUFFICES ASSUME StructureInChat(c) PROVE TypeOK'
    OBVIOUS
  <2>1. task[c] # NoTask /\ task[c].kind = "structure"
    BY DEF StructureInChat, Doing
  <2>2. [task[c] EXCEPT !.kind = "bind"] \in Tasks
    BY <2>1, TaskType DEF Tasks
  <2>3. task' \in [Callers -> Tasks \cup {NoTask}]
    BY <2>2, BecomeType DEF StructureInChat
  <2>4. PICK p \in BIds : p = task[c].project
    BY <2>1, TaskType
  <2>5. buyer[p] \in BFiles
    BY <2>1, <2>4 DEF TaskInv, TaskOK
  <2>6. StructuredInChat(buyer[p]) \in BFiles
    BY <2>5, StructuredFile
  <2>7. buyer' = [buyer EXCEPT ![p] = StructuredInChat(buyer[p])]
    BY <2>4 DEF StructureInChat
  <2>8. buyer' \in [BIds -> BFiles \cup {NoFile}]
    BY <2>6, <2>7
  <2>9. QED
    BY <2>3, <2>8 DEF StructureInChat
<1>5. ASSUME NEW c \in Callers PROVE CreateBinding(c) => TypeOK'
  <2> SUFFICES ASSUME CreateBinding(c) PROVE TypeOK'
    OBVIOUS
  <2>1. task[c] # NoTask /\ task[c].kind = "bind"
    BY DEF CreateBinding, Doing
  <2>2. PICK p \in BIds, v \in Conversations : p = task[c].project /\ v = task[c].conversation
    BY <2>1, TaskType
  <2>3. DraftOrAnswer(c, p, buyer[p].req, task[c].message)
    BY <2>2 DEF CreateBinding
  <2>4. task' \in [Callers -> Tasks \cup {NoTask}]
    BY <2>3, DraftOrAnswerTask, BecomeType
  <2>5. bindings' = bindings \cup {[conversation |-> v, mode |-> "b_side", project |-> p,
                                    workspace |-> p]}
    BY <2>2 DEF CreateBinding
  <2>6. [conversation |-> v, mode |-> "b_side", project |-> p, workspace |-> p] \in Bindings
    BY DEF Bindings
  <2>7. bindings' \subseteq Bindings
    BY <2>5, <2>6
  <2>8. QED
    BY <2>4, <2>7 DEF CreateBinding
<1>6. ASSUME NEW c \in Callers PROVE SaveFollowup(c) => TypeOK'
  <2> SUFFICES ASSUME SaveFollowup(c) PROVE TypeOK'
    OBVIOUS
  <2>1. task[c] # NoTask /\ task[c].kind = "save"
    BY DEF SaveFollowup, Doing
  <2>2. PICK p \in BIds, w \in BFiles : p = task[c].project /\ w = task[c].write
    BY <2>1, TaskType
  <2>3. DraftOrAnswer(c, p, w.req, task[c].message)
    BY <2>2 DEF SaveFollowup
  <2>4. task' \in [Callers -> Tasks \cup {NoTask}]
    BY <2>3, DraftOrAnswerTask, BecomeType
  <2>5. buyer' = [buyer EXCEPT ![p] = w]
    BY <2>2 DEF SaveFollowup
  <2>6. QED
    BY <2>4, <2>5 DEF SaveFollowup
<1>7. ASSUME NEW c \in Callers PROVE BindSupplier(c) => TypeOK'
  <2> SUFFICES ASSUME BindSupplier(c) PROVE TypeOK'
    OBVIOUS
  <2>1. task[c] # NoTask /\ task[c].kind = "supplier"
    BY DEF BindSupplier, Doing
  <2>2. [conversation |-> task[c].conversation, mode |-> "m_side",
         project |-> task[c].project, workspace |-> NoFile] \in Bindings
    BY <2>1, TaskType DEF Bindings
  <2>3. task' \in [Callers -> Tasks \cup {NoTask}]
    BY BecomeType DEF BindSupplier
  <2>4. QED
    BY <2>2, <2>3 DEF BindSupplier
<1>8. ASSUME NEW c \in Callers, NEW d \in DraftIds PROVE CreateDraft(c, d) => TypeOK'
  <2> SUFFICES ASSUME CreateDraft(c, d) PROVE TypeOK'
    OBVIOUS
  <2>1. task[c] # NoTask /\ task[c].kind = "draft"
    BY DEF CreateDraft, Doing
  <2>2. [project |-> task[c].project, status |-> "pending_approval"] \in Drafts
    BY <2>1, TaskType DEF Drafts
  <2>3. task' \in [Callers -> Tasks \cup {NoTask}]
    BY BecomeType DEF CreateDraft
  <2>4. QED
    BY <2>2, <2>3 DEF CreateDraft
<1>9. ASSUME NEW c \in Callers, NEW d \in DraftIds PROVE CheckDraft(c, d) => TypeOK'
  <2> SUFFICES ASSUME CheckDraft(c, d) PROVE TypeOK'
    OBVIOUS
  <2>1. task[c] \in Decisions
    BY TaskType DEF CheckDraft, Doing
  <2>2. [task[c] EXCEPT !.todo = @ \ {d}, !.checked = d] \in Tasks
    BY <2>1 DEF Decisions, Tasks
  <2>3. task' \in [Callers -> Tasks \cup {NoTask}]
    BY <2>2, BecomeType DEF CheckDraft
  <2>4. contested' \subseteq DraftIds
    BY DEF CheckDraft
  <2>5. QED
    BY <2>3, <2>4 DEF CheckDraft
<1>10. ASSUME NEW c \in Callers PROVE SaveDraft(c) => TypeOK'
  <2> SUFFICES ASSUME SaveDraft(c) PROVE TypeOK'
    OBVIOUS
  <2>1. task[c] \in Decisions
    BY TaskType DEF SaveDraft, Doing
  <2>2. PICK d \in DraftIds : d = task[c].checked
    BY <2>1 DEF Decisions, SaveDraft
  <2>3. [task[c] EXCEPT !.checked = NoDraft, !.done = @ \cup {task[c].checked}] \in Tasks
    BY <2>1, <2>2 DEF Decisions, Tasks
  <2>4. task' \in [Callers -> Tasks \cup {NoTask}]
    BY <2>3, BecomeType DEF SaveDraft
  <2>5. PICK verdict \in {"approved", "rejected"} : verdict = task[c].verdict
    BY <2>1 DEF Decisions
  <2>6. drafts' = [drafts EXCEPT ![d].status = verdict]
    BY <2>2, <2>5 DEF SaveDraft
  <2>7. drafts[d] \in Drafts
    BY <2>2 DEF DecideInv, DecideOK, SaveDraft, Doing
  <2>8. drafts' \in [DraftIds -> Drafts \cup {NoDraft}]
    BY <2>6, <2>7 DEF Drafts
  <2>9. QED
    BY <2>4, <2>8 DEF SaveDraft
<1>11. ASSUME NEW c \in Callers PROVE Answer(c) => TypeOK'
  <2> SUFFICES ASSUME Answer(c) PROVE TypeOK'
    OBVIOUS
  <2>1. task' \in [Callers -> Tasks \cup {NoTask}]
    BY BecomeType DEF Answer
  <2>2. handed' \in [DraftIds -> Nat]
    BY DEF Answer
  <2>3. QED
    BY <2>1, <2>2 DEF Answer
<1>12. CASE UNCHANGED vars
  BY <1>12 DEF vars
<1>13. QED
  BY <1>1, <1>2, <1>3, <1>4, <1>5, <1>6, <1>7, <1>8, <1>9, <1>10, <1>11, <1>12, NextSteps DEF Step

-----------------------------------------------------------------------------
(* Files and bindings are never removed.                                   *)
Grows(by, new, bs, more) ==
  /\ \A p \in BIds : /\ by[p] # NoFile => new[p] # NoFile
                     /\ Known(by, p) => Known(new, p)
  /\ bs \subseteq more

(* The workspace of a first message has its requirement now.               *)
LEMMA StructureEffect ==
  ASSUME TypeOK, TaskInv, NEW c \in Callers, StructureInChat(c)
  PROVE  \E p \in BIds :
           /\ p = task[c].project
           /\ Known(buyer', p)
           /\ \A q \in BIds \ {p} : buyer'[q] = buyer[q]
           /\ task'[c] # NoTask /\ task'[c].kind = "bind" /\ task'[c].project = p
           /\ task'[c].conversation = task[c].conversation
<1>1. task[c] # NoTask /\ task[c].kind = "structure"
  BY DEF StructureInChat, Doing
<1>2. PICK p \in BIds : p = task[c].project
  BY <1>1, TaskType
<1>3. StructuredInChat(buyer[p]) \in BFiles /\ StructuredInChat(buyer[p]).req # NoReq
  <2>1. buyer[p] \in BFiles
    BY <1>1, <1>2 DEF TypeOK, TaskInv, TaskOK
  <2>2. QED
    BY <2>1, StructuredFile
<1>4. buyer' = [buyer EXCEPT ![p] = StructuredInChat(buyer[p])]
  BY <1>2 DEF StructureInChat
<1>5. Known(buyer', p) /\ \A q \in BIds \ {p} : buyer'[q] = buyer[q]
  BY <1>3, <1>4, Nulls DEF TypeOK, Known
<1>6. task'[c] = [task[c] EXCEPT !.kind = "bind"]
  BY BecomeOne DEF StructureInChat
<1>7. [task[c] EXCEPT !.kind = "bind"] \in Tasks
  BY <1>1, TaskType DEF Tasks
<1>8. /\ [task[c] EXCEPT !.kind = "bind"].kind = "bind"
      /\ [task[c] EXCEPT !.kind = "bind"].project = p
      /\ [task[c] EXCEPT !.kind = "bind"].conversation = task[c].conversation
  BY <1>1, <1>2, TaskType
<1>9. QED
  BY <1>2, <1>5, <1>6, <1>7, <1>8, Nulls

(* The workspace of a follow-up still has its requirement.                 *)
LEMMA SaveEffect ==
  ASSUME TypeOK, TaskInv, NEW c \in Callers, SaveFollowup(c)
  PROVE  \E p \in BIds :
           /\ p = task[c].project
           /\ Known(buyer', p)
           /\ \A q \in BIds \ {p} : buyer'[q] = buyer[q]
           /\ HasBinding(bindings, p)
           /\ task'[c] # NoTask => task'[c].kind = "draft" /\ task'[c].project = p
<1>1. task[c] # NoTask /\ task[c].kind = "save"
  BY DEF SaveFollowup, Doing
<1>2. PICK p \in BIds, w \in BFiles : p = task[c].project /\ w = task[c].write
  BY <1>1, TaskType
<1>3. w.req # NoReq /\ HasBinding(bindings, p)
  BY <1>1, <1>2 DEF TaskInv, TaskOK
<1>4. buyer' = [buyer EXCEPT ![p] = w]
  BY <1>2 DEF SaveFollowup
<1>5. Known(buyer', p) /\ \A q \in BIds \ {p} : buyer'[q] = buyer[q]
  BY <1>3, <1>4, Nulls DEF TypeOK, Known
<1>6. DraftOrAnswer(c, p, w.req, task[c].message)
  BY <1>2 DEF SaveFollowup
<1>7. PICK t \in Tasks \cup {NoTask} :
        Become(c, t) /\ (t # NoTask => t.kind = "draft" /\ t.project = p)
  BY <1>6, DraftOrAnswerTask
<1>8. task'[c] = t
  BY <1>7, BecomeOne
<1>9. QED
  BY <1>2, <1>3, <1>5, <1>7, <1>8

(* A buyer's conversation is bound.                                        *)
LEMMA BindingEffect ==
  ASSUME TypeOK, TaskInv, NEW c \in Callers, CreateBinding(c)
  PROVE  \E p \in BIds, v \in Conversations :
           /\ p = task[c].project /\ v = task[c].conversation
           /\ task[c] # NoTask /\ task[c].kind = "bind"
           /\ Known(buyer, p)
           /\ bindings' = bindings \cup {[conversation |-> v, mode |-> "b_side", project |-> p,
                                          workspace |-> p]}
           /\ task'[c] # NoTask => task'[c].kind = "draft" /\ task'[c].project = p
<1>1. task[c] # NoTask /\ task[c].kind = "bind"
  BY DEF CreateBinding, Doing
<1>2. PICK p \in BIds, v \in Conversations : p = task[c].project /\ v = task[c].conversation
  BY <1>1, TaskType
<1>3. Known(buyer, p)
  BY <1>1, <1>2 DEF TaskInv, TaskOK
<1>4. DraftOrAnswer(c, p, buyer[p].req, task[c].message)
  BY <1>2 DEF CreateBinding
<1>5. PICK t \in Tasks \cup {NoTask} :
        Become(c, t) /\ (t # NoTask => t.kind = "draft" /\ t.project = p)
  BY <1>4, DraftOrAnswerTask
<1>6. task'[c] = t
  BY <1>5, BecomeOne
<1>7. bindings' = bindings \cup {[conversation |-> v, mode |-> "b_side", project |-> p,
                                  workspace |-> p]}
  BY <1>2 DEF CreateBinding
<1>8. QED
  BY <1>1, <1>2, <1>3, <1>5, <1>6, <1>7

(* A supplier's conversation is bound, to a project that may not exist.    *)
LEMMA SupplierEffect ==
  ASSUME TypeOK, NEW c \in Callers, BindSupplier(c)
  PROVE  \E p \in Projects, v \in Conversations :
           /\ v = task[c].conversation
           /\ task[c] # NoTask /\ task[c].kind = "supplier"
           /\ bindings' = bindings \cup {[conversation |-> v, mode |-> "m_side", project |-> p,
                                          workspace |-> NoFile]}
           /\ task'[c] = NoTask
<1>1. task[c] # NoTask /\ task[c].kind = "supplier"
  BY DEF BindSupplier, Doing
<1>2. PICK p \in Projects, v \in Conversations : p = task[c].project /\ v = task[c].conversation
  BY <1>1, TaskType
<1>3. task'[c] = NoTask
  BY BecomeOne DEF BindSupplier
<1>4. QED
  BY <1>1, <1>2, <1>3 DEF BindSupplier

(* A first message makes a new workspace, not yet structured.              *)
LEMMA NewEffect ==
  ASSUME TypeOK, NEW c \in Callers, NEW v \in Conversations, NEW message \in Texts,
         NEW b \in BIds, HandleBSideNew(c, v, b, message)
  PROVE  /\ buyer[b] = NoFile /\ buyer'[b] # NoFile
         /\ \A q \in BIds \ {b} : buyer'[q] = buyer[q]
         /\ task[c] = NoTask
         /\ task'[c] # NoTask /\ task'[c].kind = "structure" /\ task'[c].project = b
         /\ task'[c].conversation = v
<1> DEFINE t == [kind |-> "structure", project |-> b, conversation |-> v, message |-> message]
<1>1. t \in Tasks
  BY TextFields DEF Tasks
<1>2. task'[c] = t
  BY BecomeOne DEF HandleBSideNew
<1>3. buyer' = [buyer EXCEPT ![b] = NewBWorkspace(message.gives)]
  BY DEF HandleBSideNew
<1>4. NewBWorkspace(message.gives) # NoFile
  BY NewFile, TextFields, Nulls
<1>5. buyer[b] = NoFile /\ task[c] = NoTask
  BY DEF HandleBSideNew, Call
<1>6. QED
  BY <1>1, <1>2, <1>3, <1>4, <1>5, Nulls DEF TypeOK

(* A follow-up is made of the workspace of its binding.                    *)
LEMMA FollowupEffect ==
  ASSUME TypeOK, BoundInv, NEW c \in Callers, NEW v \in Conversations, NEW message \in Texts,
         HandleBSideFollowup(c, v, message)
  PROVE  /\ task[c] = NoTask
         /\ task'[c].kind = "save"
         /\ Known(buyer, task'[c].project)
         /\ task'[c].write.req # NoReq
         /\ HasBinding(bindings, task'[c].project)
<1> PICK binding \in BindingsOf(v) :
      /\ binding.workspace # NoFile
      /\ Become(c, [kind |-> "save", project |-> binding.project, message |-> message,
                    write |-> FollowedUp(buyer[binding.workspace], message.gives)])
  BY DEF HandleBSideFollowup
<1>1. binding \in bindings /\ binding.workspace \in BIds /\ binding.workspace = binding.project
  BY DEF TypeOK, BindingsOf, Bindings, BoundInv, BoundOK
<1>2. binding.mode = "b_side"
  BY <1>1 DEF TypeOK, Bindings
<1>3. Known(buyer, binding.project) /\ buyer[binding.project] \in BFiles
  BY <1>1, BoundKnown DEF TypeOK, Known
<1>4. FollowedUp(buyer[binding.workspace], message.gives).req # NoReq
  BY <1>1, <1>3, FollowedUpFile, TextFields DEF Known
<1>5. task'[c] = [kind |-> "save", project |-> binding.project, message |-> message,
                  write |-> FollowedUp(buyer[binding.workspace], message.gives)]
  BY BecomeOne
<1>6. QED
  BY <1>1, <1>2, <1>3, <1>4, <1>5 DEF HandleBSideFollowup, Call, HasBinding

(* A step changes the task of one caller.                                  *)
LEMMA OwnTask ==
  ASSUME TypeOK, NEW c \in Callers, Step(c)
  PROVE  \A e \in Callers \ {c} : task'[e] = task[e]
<1> USE DEF TypeOK, Become
<1>1. ASSUME Begins(c) \/ Decides(c) PROVE \A e \in Callers \ {c} : task'[e] = task[e]
  BY <1>1 DEF Begins, Decides, HandleBSideNew, HandleBSideFollowup, HandleMSide,
              HandleDecision, DecideDraft, Decide
<1>2. ASSUME StructureInChat(c) \/ CreateBinding(c) \/ SaveFollowup(c) \/ BindSupplier(c)
      PROVE  \A e \in Callers \ {c} : task'[e] = task[e]
  BY <1>2 DEF StructureInChat, CreateBinding, SaveFollowup, BindSupplier, DraftOrAnswer
<1>3. ASSUME (\E d \in DraftIds : CreateDraft(c, d) \/ CheckDraft(c, d)) \/ SaveDraft(c) \/ Answer(c)
      PROVE  \A e \in Callers \ {c} : task'[e] = task[e]
  BY <1>3 DEF CreateDraft, CheckDraft, SaveDraft, Answer
<1>4. QED
  BY <1>1, <1>2, <1>3 DEF Step

(* A crash loses tasks and nothing else.                                   *)
LEMMA CrashTasks ==
  ASSUME TypeOK, Crash
  PROVE  \A c \in Callers : task'[c] # NoTask => task'[c] = task[c]
  BY DEF Crash

(* The steps of approval and rejection leave the files of projects alone.  *)
LEMMA DraftSteps ==
  ASSUME NEW c \in Callers,
         \/ Decides(c) \/ SaveDraft(c) \/ Answer(c)
         \/ \E d \in DraftIds : CreateDraft(c, d) \/ CheckDraft(c, d)
  PROVE  UNCHANGED <<buyer, bindings, crossed>>
  BY DEF Decides, HandleDecision, DecideDraft, Decide, SaveDraft, Answer, CreateDraft,
         CheckDraft, history

(* They lead to a decision under way or to none.                           *)
LEMMA DecisionTasks ==
  ASSUME TypeOK, NEW e \in Callers, task'[e] # NoTask,
         \/ Decides(e) \/ SaveDraft(e) \/ Answer(e)
         \/ \E d \in DraftIds : CreateDraft(e, d) \/ CheckDraft(e, d)
  PROVE  task'[e].kind = "decide"
<1>1. CASE Decides(e)
  <2>1. PICK verdict \in {"approved", "rejected"}, inChat \in BOOLEAN, todo \in SUBSET DraftIds :
          Decide(e, verdict, inChat, todo)
    BY <1>1, DecidesSome
  <2>2. QED
    BY <2>1, BecomeOne DEF Decide
<1>2. CASE SaveDraft(e)
  <2>1. task[e] \in Decisions
    BY <1>2, TaskType DEF SaveDraft, Doing
  <2>2. task'[e] = [task[e] EXCEPT !.checked = NoDraft, !.done = @ \cup {task[e].checked}]
    BY <1>2, BecomeOne DEF SaveDraft
  <2>3. QED
    BY <2>1, <2>2 DEF Decisions
<1>3. ASSUME NEW d \in DraftIds, CheckDraft(e, d) PROVE task'[e].kind = "decide"
  <2>1. task[e] \in Decisions
    BY <1>3, TaskType DEF CheckDraft, Doing
  <2>2. task'[e] = [task[e] EXCEPT !.todo = @ \ {d}, !.checked = d]
    BY <1>3, BecomeOne DEF CheckDraft
  <2>3. QED
    BY <2>1, <2>2 DEF Decisions
<1>4. CASE Answer(e) \/ \E d \in DraftIds : CreateDraft(e, d)
  BY <1>4, BecomeOne DEF Answer, CreateDraft
<1>5. QED
  BY <1>1, <1>2, <1>3, <1>4

(* No step removes a file, a requirement or a binding.                     *)
LEMMA FilesGrow ==
  ASSUME TypeOK, TaskInv, [Next]_vars
  PROVE  Grows(buyer, buyer', bindings, bindings')
<1>1. CASE UNCHANGED <<buyer, bindings>>
  BY <1>1 DEF Grows, Known
<1>2. CASE \E c \in Callers : Begins(c)
  <2> PICK c \in Callers : Begins(c)
    BY <1>2
  <2>1. ASSUME NEW v \in Conversations, NEW message \in Texts, NEW b \in BIds,
               HandleBSideNew(c, v, b, message)
        PROVE  Grows(buyer, buyer', bindings, bindings')
    <3>1. UNCHANGED bindings
      BY <2>1 DEF HandleBSideNew
    <3>2. /\ buyer[b] = NoFile
          /\ \A q \in BIds \ {b} : buyer'[q] = buyer[q]
      BY <2>1, NewEffect
    <3>3. QED
      BY <3>1, <3>2 DEF Grows, Known
  <2>2. QED
    BY <1>1, <2>1 DEF Begins, HandleBSideFollowup, HandleMSide
<1>3. CASE \E c \in Callers : StructureInChat(c)
  <2> PICK c \in Callers : StructureInChat(c)
    BY <1>3
  <2>1. PICK p \in BIds : Known(buyer', p) /\ \A q \in BIds \ {p} : buyer'[q] = buyer[q]
    BY StructureEffect
  <2>2. UNCHANGED bindings
    BY DEF StructureInChat
  <2>3. QED
    BY <2>1, <2>2 DEF Grows, Known
<1>4. CASE \E c \in Callers : SaveFollowup(c)
  <2> PICK c \in Callers : SaveFollowup(c)
    BY <1>4
  <2>1. PICK p \in BIds : Known(buyer', p) /\ \A q \in BIds \ {p} : buyer'[q] = buyer[q]
    BY SaveEffect
  <2>2. UNCHANGED bindings
    BY DEF SaveFollowup
  <2>3. QED
    BY <2>1, <2>2 DEF Grows, Known
<1>5. CASE \E c \in Callers : CreateBinding(c) \/ BindSupplier(c)
  BY <1>5 DEF Grows, Known, CreateBinding, BindSupplier
<1>6. CASE Crash \/ UNCHANGED vars
  BY <1>1, <1>6 DEF Crash, vars
<1>7. QED
  BY <1>1, <1>2, <1>3, <1>4, <1>5, <1>6, NextSteps, DraftSteps DEF Step

(* The project of a buyer's task is one with a workspace id.               *)
LEMMA TaskProject ==
  ASSUME TypeOK, NEW c \in Callers, task[c] # NoTask,
         task[c].kind \notin {"decide", "supplier"}
  PROVE  task[c].project \in BIds
  BY DEF TypeOK, Tasks

(* What a handler relies on stays while files grow.                        *)
LEMMA TaskStays ==
  ASSUME TypeOK, TaskInv, [Next]_vars, NEW e \in Callers, task'[e] = task[e], task[e] # NoTask
  PROVE  TaskOK(buyer', bindings', task'[e])
<1>1. Grows(buyer, buyer', bindings, bindings')
  BY FilesGrow
<1>2. TaskOK(buyer, bindings, task[e])
  BY DEF TaskInv
<1>3. task[e].kind \notin {"decide", "supplier"} => task[e].project \in BIds
  BY TaskProject
<1>4. QED
  BY <1>1, <1>2, <1>3 DEF Grows, TaskOK, HasBinding

(* A handler's task, when it begins and when it goes on, is about a        *)
(* project whose files are there.                                          *)
LEMMA TaskStep ==
  TypeOK /\ TaskInv /\ BoundInv /\ [Next]_vars => TaskInv'
<1> SUFFICES ASSUME TypeOK, TaskInv, BoundInv, [Next]_vars,
                    NEW e \in Callers, task'[e] # NoTask
             PROVE  TaskOK(buyer', bindings', task'[e])
  BY DEF TaskInv
<1> USE DEF TaskOK, HasBinding
<1>1. CASE Crash \/ UNCHANGED vars
  <2>1. task'[e] = task[e]
    BY <1>1, CrashTasks DEF vars
  <2>2. QED
    BY <2>1, TaskStays
<1>2. ASSUME NEW c \in Callers, Step(c), e # c PROVE TaskOK(buyer', bindings', task'[e])
  <2>1. task'[e] = task[e]
    BY <1>2, OwnTask
  <2>2. QED
    BY <2>1, TaskStays
<1>3. CASE Begins(e)
  <2>1. ASSUME NEW v \in Conversations, NEW message \in Texts, NEW b \in BIds,
               HandleBSideNew(e, v, b, message)
        PROVE  TaskOK(buyer', bindings', task'[e])
    BY <2>1, NewEffect
  <2>2. ASSUME NEW v \in Conversations, NEW message \in Texts, HandleBSideFollowup(e, v, message)
        PROVE  TaskOK(buyer', bindings', task'[e])
    <3>1. UNCHANGED <<buyer, bindings>>
      BY <2>2 DEF HandleBSideFollowup
    <3>2. /\ task'[e].kind = "save"
          /\ Known(buyer, task'[e].project)
          /\ task'[e].write.req # NoReq
          /\ HasBinding(bindings, task'[e].project)
      BY <2>2, FollowupEffect
    <3>3. QED
      BY <3>1, <3>2
  <2>3. ASSUME NEW v \in Conversations, NEW project \in Projects, HandleMSide(e, v, project)
        PROVE  TaskOK(buyer', bindings', task'[e])
    <3>1. UNCHANGED <<buyer, bindings>>
      BY <2>3 DEF HandleMSide
    <3>2. task'[e] = [kind |-> "supplier", project |-> project, conversation |-> v]
      BY <2>3, BecomeOne DEF HandleMSide
    <3>3. QED
      BY <3>1, <3>2
  <2>4. QED
    BY <1>3, <2>1, <2>2, <2>3 DEF Begins
<1>4. CASE \/ Decides(e) \/ SaveDraft(e) \/ Answer(e)
           \/ \E d \in DraftIds : CreateDraft(e, d) \/ CheckDraft(e, d)
  <2>1. task'[e].kind = "decide"
    BY <1>4, DecisionTasks
  <2>2. QED
    BY <2>1
<1>5. CASE StructureInChat(e)
  BY <1>5, StructureEffect
<1>6. CASE CreateBinding(e)
  <2>1. PICK p \in BIds, v \in Conversations :
          /\ bindings' = bindings \cup {[conversation |-> v, mode |-> "b_side", project |-> p,
                                         workspace |-> p]}
          /\ task'[e] # NoTask => task'[e].kind = "draft" /\ task'[e].project = p
    BY <1>6, BindingEffect
  <2>2. HasBinding(bindings', p)
    <3> DEFINE b == [conversation |-> v, mode |-> "b_side", project |-> p, workspace |-> p]
    <3>1. b \in bindings' /\ b.mode = "b_side" /\ b.project = p
      BY <2>1
    <3>2. QED
      BY <3>1
  <2>3. QED
    BY <2>1, <2>2
<1>7. CASE SaveFollowup(e)
  <2>1. UNCHANGED bindings
    BY <1>7 DEF SaveFollowup
  <2>2. QED
    BY <1>7, <2>1, SaveEffect
<1>8. CASE BindSupplier(e)
  BY <1>8, SupplierEffect
<1>9. QED
  BY <1>1, <1>2, <1>3, <1>4, <1>5, <1>6, <1>7, <1>8, NextSteps DEF Step

(* Only two steps make bindings.                                           *)
LEMMA BindingSteps ==
  ASSUME [Next]_vars
  PROVE  \/ UNCHANGED bindings
         \/ \E c \in Callers : CreateBinding(c) \/ BindSupplier(c)
<1>1. ASSUME NEW c \in Callers, Step(c), ~CreateBinding(c), ~BindSupplier(c)
      PROVE  UNCHANGED bindings
  BY <1>1, DraftSteps DEF Step, Begins, HandleBSideNew, HandleBSideFollowup, HandleMSide,
                          StructureInChat, SaveFollowup
<1>2. Crash \/ UNCHANGED vars => UNCHANGED bindings
  BY DEF Crash, vars
<1>3. QED
  BY <1>1, <1>2, NextSteps

(* What a buyer's conversation is bound to has a structured requirement.   *)
LEMMA BoundStep ==
  TypeOK /\ TaskInv /\ BoundInv /\ [Next]_vars => BoundInv'
<1> SUFFICES ASSUME TypeOK, TaskInv, BoundInv, [Next]_vars, NEW b \in bindings'
             PROVE  BoundOK(buyer', b)
  BY DEF BoundInv
<1>1. Grows(buyer, buyer', bindings, bindings')
  BY FilesGrow
<1>2. CASE b \in bindings
  <2>1. b.workspace # NoFile => b.workspace \in BIds
    BY <1>2 DEF TypeOK, Bindings
  <2>2. BoundOK(buyer, b)
    BY <1>2 DEF BoundInv
  <2>3. QED
    BY <1>1, <2>1, <2>2 DEF BoundOK, Grows
<1>3. ASSUME NEW c \in Callers, CreateBinding(c), b \notin bindings PROVE BoundOK(buyer', b)
  <2>1. PICK p \in BIds, v \in Conversations :
          /\ Known(buyer, p)
          /\ bindings' = bindings \cup {[conversation |-> v, mode |-> "b_side", project |-> p,
                                         workspace |-> p]}
    BY <1>3, BindingEffect
  <2>2. b = [conversation |-> v, mode |-> "b_side", project |-> p, workspace |-> p]
    BY <1>3, <2>1
  <2>3. b.project = p /\ b.workspace = p
    BY <2>2
  <2>4. QED
    BY <1>1, <2>1, <2>3 DEF Grows, BoundOK
<1>4. ASSUME NEW c \in Callers, BindSupplier(c), b \notin bindings PROVE BoundOK(buyer', b)
  <2>1. PICK p \in Projects, v \in Conversations :
          bindings' = bindings \cup {[conversation |-> v, mode |-> "m_side", project |-> p,
                                      workspace |-> NoFile]}
    BY <1>4, SupplierEffect
  <2>2. b.workspace = NoFile
    BY <1>4, <2>1
  <2>3. QED
    BY <2>2 DEF BoundOK
<1>5. QED
  BY <1>2, <1>3, <1>4, BindingSteps

(* A draft is created for the project of its task.                         *)
Created(c, d) ==
  /\ task[c] # NoTask /\ task[c].kind = "draft"
  /\ drafts[d] = NoDraft
  /\ drafts'[d] # NoDraft /\ drafts'[d].project = task[c].project
  /\ drafts'[d].status = "pending_approval"
  /\ \A e \in DraftIds \ {d} : drafts'[e] = drafts[e]

LEMMA CreateEffect ==
  ASSUME TypeOK, NEW c \in Callers, NEW d \in DraftIds, CreateDraft(c, d)
  PROVE  Created(c, d)
<1> DEFINE new == [project |-> task[c].project, status |-> "pending_approval"]
<1>1. task[c] # NoTask /\ task[c].kind = "draft" /\ drafts[d] = NoDraft
  BY DEF CreateDraft, Doing
<1>2. new \in Drafts
  BY <1>1, TaskType DEF Drafts
<1>3. drafts' = [drafts EXCEPT ![d] = new]
  BY DEF CreateDraft
<1>4. QED
  BY <1>1, <1>2, <1>3, Nulls DEF TypeOK, Created

(* The draft that was checked is decided, and is done for its caller.      *)
Saved(c, d) ==
  /\ Checks(task[c], d)
  /\ drafts[d] # NoDraft
  /\ drafts'[d] # NoDraft /\ drafts'[d].project = drafts[d].project
  /\ drafts'[d].status = task[c].verdict
  /\ drafts'[d].status # "pending_approval"
  /\ \A e \in DraftIds \ {d} : drafts'[e] = drafts[e]
  /\ task'[c] \in Decisions /\ task'[c] # NoTask
  /\ task'[c].verdict = task[c].verdict /\ task'[c].todo = task[c].todo
  /\ task'[c].checked = NoDraft /\ task'[c].done = task[c].done \cup {d}
  /\ \A e \in Callers \ {c} : task'[e] = task[e]

LEMMA SaveDraftEffect ==
  ASSUME TypeOK, DecideInv, NEW c \in Callers, SaveDraft(c)
  PROVE  \E d \in DraftIds : Saved(c, d)
<1>1. task[c] # NoTask /\ task[c].kind = "decide" /\ task[c] \in Decisions
  BY TaskType DEF SaveDraft, Doing
<1>2. PICK d \in DraftIds : d = task[c].checked
  BY <1>1 DEF Decisions, SaveDraft
<1>3. PICK verdict \in {"approved", "rejected"} : verdict = task[c].verdict
  BY <1>1 DEF Decisions
<1>4. drafts' = [drafts EXCEPT ![d].status = verdict]
  BY <1>2, <1>3 DEF SaveDraft
<1>5. drafts[d] \in Drafts /\ drafts[d] # NoDraft
  BY <1>1, <1>2 DEF DecideInv, DecideOK, SaveDraft, TypeOK
<1>6. [drafts[d] EXCEPT !.status = verdict] \in Drafts
  BY <1>5 DEF Drafts
<1>7. drafts'[d] = [drafts[d] EXCEPT !.status = verdict]
  BY <1>4 DEF TypeOK
<1>8. drafts'[d].project = drafts[d].project /\ drafts'[d].status = verdict
  BY <1>5, <1>7 DEF Drafts
<1>9. \A e \in DraftIds \ {d} : drafts'[e] = drafts[e]
  BY <1>4 DEF TypeOK
<1>10. /\ task'[c] = [task[c] EXCEPT !.checked = NoDraft, !.done = @ \cup {task[c].checked}]
       /\ \A e \in Callers \ {c} : task'[e] = task[e]
  BY BecomeOne DEF SaveDraft
<1>11. /\ task'[c] \in Decisions
       /\ task'[c].verdict = task[c].verdict /\ task'[c].todo = task[c].todo
       /\ task'[c].checked = NoDraft /\ task'[c].done = task[c].done \cup {d}
  <2>1. task[c].done \cup {d} \in SUBSET DraftIds
    BY <1>1 DEF Decisions
  <2>2. task'[c] = [task[c] EXCEPT !.checked = NoDraft, !.done = task[c].done \cup {d}]
    BY <1>1, <1>2, <1>10 DEF Decisions
  <2>3. QED
    BY <1>1, <2>1, <2>2 DEF Decisions
<1>12. task'[c] # NoTask
  <2>1. Decisions \subseteq Tasks
    BY DEF Decisions, Tasks
  <2>2. QED
    BY <1>11, <2>1, Nulls
<1>13. drafts'[d] # NoDraft /\ drafts'[d].status # "pending_approval"
  BY <1>3, <1>6, <1>7, <1>8, Nulls
<1>14. QED
  BY <1>1, <1>2, <1>3, <1>5, <1>8, <1>9, <1>10, <1>11, <1>12, <1>13 DEF Saved, Checks

(* The drafts of a step: one is created, or one that is checked is decided.*)
LEMMA DraftChanges ==
  ASSUME TypeOK, DecideInv, [Next]_vars
  PROVE  \/ UNCHANGED drafts
         \/ \E c \in Callers, d \in DraftIds : Created(c, d) \/ Saved(c, d)
<1>1. ASSUME NEW c \in Callers, Step(c), ~SaveDraft(c), \A d \in DraftIds : ~CreateDraft(c, d)
      PROVE  UNCHANGED drafts
  BY <1>1 DEF Step, Begins, HandleBSideNew, HandleBSideFollowup, HandleMSide, Decides,
              HandleDecision, DecideDraft, Decide, StructureInChat, CreateBinding,
              SaveFollowup, BindSupplier, CheckDraft, Answer
<1>2. Crash \/ UNCHANGED vars => UNCHANGED drafts
  BY DEF Crash, vars
<1>3. QED
  BY <1>1, <1>2, NextSteps, CreateEffect, SaveDraftEffect

(* A draft is of a project that is bound to a buyer's conversation.        *)
LEMMA DraftsStep ==
  TypeOK /\ TaskInv /\ DraftsInv /\ DecideInv /\ [Next]_vars => DraftsInv'
<1> SUFFICES ASSUME TypeOK, TaskInv, DraftsInv, DecideInv, [Next]_vars,
                    NEW e \in DraftIds, drafts'[e] # NoDraft
             PROVE  HasBinding(bindings', drafts'[e].project)
  BY DEF DraftsInv
<1>1. bindings \subseteq bindings'
  BY FilesGrow DEF Grows
<1>2. SUFFICES HasBinding(bindings, drafts'[e].project)
  BY <1>1 DEF HasBinding
<1>3. CASE drafts'[e] = drafts[e]
  BY <1>3 DEF DraftsInv
<1>4. CASE drafts[e] = NoDraft /\ \E c \in Callers :
             /\ task[c] # NoTask /\ task[c].kind = "draft"
             /\ drafts'[e].project = task[c].project
  BY <1>4 DEF TaskInv, TaskOK
<1>5. CASE drafts[e] # NoDraft /\ drafts'[e].project = drafts[e].project
  BY <1>5 DEF DraftsInv
<1>6. QED
  BY <1>3, <1>4, <1>5, DraftChanges DEF Created, Saved

-----------------------------------------------------------------------------
(* Bindings of one conversation.                                           *)

(* Who does not newly make a binding of v keeps v in order.                *)
LEMMA MakingStays ==
  ASSUME NEW v, MakingOK(task, bindings, v), UNCHANGED bindings,
         \A e \in Callers : Makes(task'[e], v) => Makes(task[e], v)
  PROVE  MakingOK(task', bindings', v)
  BY DEF MakingOK

(* A first maker finds no other and no binding.                            *)
LEMMA MakingBegins ==
  ASSUME TypeOK, NEW v \in Conversations, NEW u \in Conversations \ crossed', crossed \subseteq crossed',
         MakingOK(task, bindings, u),
         NEW c \in Callers, BeginBinding(v), BindingsOf(v) = {}, UNCHANGED bindings,
         task[c] = NoTask, task'[c].conversation = v,
         \A e \in Callers \ {c} : task'[e] = task[e]
  PROVE  MakingOK(task', bindings', u)
<1>1. CASE u = v
  <2>1. \A e \in Callers : ~Makes(task[e], u)
    BY <1>1 DEF BeginBinding, Making, Doing, Makes
  <2>2. \A b \in bindings' : b.conversation # u
    BY <1>1 DEF BindingsOf
  <2>3. QED
    BY <2>1, <2>2 DEF MakingOK
<1>2. CASE u # v
  BY <1>2, MakingStays DEF Makes
<1>3. QED
  BY <1>1, <1>2

(* The one maker makes the one binding.                                    *)
LEMMA MakingEnds ==
  ASSUME NEW u, MakingOK(task, bindings, u), NEW c \in Callers, NEW b,
         Makes(task[c], b.conversation), ~Makes(task'[c], b.conversation),
         Makes(task'[c], u) => Makes(task[c], u),
         bindings' = bindings \cup {b},
         \A e \in Callers \ {c} : task'[e] = task[e]
  PROVE  MakingOK(task', bindings', u)
<1>1. CASE u = b.conversation
  BY <1>1 DEF MakingOK
<1>2. CASE u # b.conversation
  BY <1>2 DEF MakingOK
<1>3. QED
  BY <1>1, <1>2

(* Crossings are not forgotten.                                            *)
LEMMA CrossedGrows == ASSUME [Next]_vars PROVE crossed \subseteq crossed'
<1>1. ASSUME NEW c \in Callers, Step(c) PROVE crossed \subseteq crossed'
  BY <1>1, DraftSteps DEF Step, Begins, HandleBSideNew, HandleBSideFollowup, HandleMSide,
          BeginBinding, StructureInChat, CreateBinding, SaveFollowup, BindSupplier, history
<1>2. Crash \/ UNCHANGED vars => crossed \subseteq crossed'
  BY DEF Crash, vars, history
<1>3. QED
  BY <1>1, <1>2, NextSteps

(* Unless two callers cross, a conversation is bound once.                 *)
LEMMA MakingStep ==
  TypeOK /\ TaskInv /\ BoundInv /\ DecideInv /\ MakingInv /\ [Next]_vars => MakingInv'
<1> SUFFICES ASSUME TypeOK, TaskInv, BoundInv, DecideInv, MakingInv, [Next]_vars,
                    NEW u \in Conversations \ crossed'
             PROVE  MakingOK(task', bindings', u)
  BY DEF MakingInv
<1>0. crossed \subseteq crossed' /\ MakingOK(task, bindings, u)
  BY CrossedGrows DEF MakingInv
<1>1. CASE Crash \/ UNCHANGED vars
  <2>1. \A e \in Callers : Makes(task'[e], u) => Makes(task[e], u)
    BY <1>1, CrashTasks DEF vars, Makes
  <2>2. UNCHANGED bindings
    BY <1>1 DEF Crash, vars
  <2>3. QED
    BY <1>0, <2>1, <2>2, MakingStays
<1>2. ASSUME NEW c \in Callers, Step(c) PROVE MakingOK(task', bindings', u)
  <2> USE <1>2
  <2>0. \A e \in Callers \ {c} : task'[e] = task[e]
    BY OwnTask
  <2>1. ASSUME Makes(task'[c], u) => Makes(task[c], u), UNCHANGED bindings
        PROVE  MakingOK(task', bindings', u)
    <3>1. \A e \in Callers : Makes(task'[e], u) => Makes(task[e], u)
      BY <2>0, <2>1
    <3>2. QED
      BY <1>0, <2>1, <3>1, MakingStays
  <2>2. ASSUME NEW v \in Conversations, NEW message \in Texts, NEW b \in BIds,
               HandleBSideNew(c, v, b, message)
        PROVE  MakingOK(task', bindings', u)
    <3>1. task[c] = NoTask /\ task'[c].conversation = v
      BY <2>2, NewEffect
    <3>2. QED
      BY <1>0, <2>0, <2>2, <3>1, MakingBegins DEF HandleBSideNew
  <2>3. ASSUME NEW v \in Conversations, NEW project \in Projects, HandleMSide(c, v, project)
        PROVE  MakingOK(task', bindings', u)
    <3>1. task'[c] = [kind |-> "supplier", project |-> project, conversation |-> v]
      BY <2>3, BecomeOne DEF HandleMSide
    <3>2. task[c] = NoTask /\ task'[c].conversation = v
      BY <2>3, <3>1 DEF HandleMSide, Call
    <3>3. QED
      BY <1>0, <2>0, <2>3, <3>2, MakingBegins DEF HandleMSide
  <2>4. ASSUME NEW v \in Conversations, NEW message \in Texts, HandleBSideFollowup(c, v, message)
        PROVE  MakingOK(task', bindings', u)
    <3>1. UNCHANGED bindings
      BY <2>4 DEF HandleBSideFollowup
    <3>2. QED
      BY <2>1, <2>4, <3>1, FollowupEffect DEF Makes
  <2>5. CASE StructureInChat(c)
    <3>1. task[c] # NoTask /\ task[c].kind = "structure"
      BY <2>5 DEF StructureInChat, Doing
    <3>2. UNCHANGED bindings
      BY <2>5 DEF StructureInChat
    <3>3. QED
      BY <2>1, <2>5, <3>1, <3>2, StructureEffect DEF Makes
  <2>6. CASE CreateBinding(c)
    <3>1. PICK p \in BIds, v \in Conversations :
            /\ v = task[c].conversation
            /\ task[c] # NoTask /\ task[c].kind = "bind"
            /\ bindings' = bindings \cup {[conversation |-> v, mode |-> "b_side", project |-> p,
                                           workspace |-> p]}
            /\ task'[c] # NoTask => task'[c].kind = "draft"
      BY <2>6, BindingEffect
    <3> DEFINE b == [conversation |-> v, mode |-> "b_side", project |-> p, workspace |-> p]
    <3>2. b.conversation = v
      OBVIOUS
    <3>3. bindings' = bindings \cup {b}
      BY <3>1
    <3>4. Makes(task[c], v) /\ \A w : ~Makes(task'[c], w)
      BY <3>1 DEF Makes
    <3> HIDE DEF b
    <3>5. QED
      BY <1>0, <2>0, <3>2, <3>3, <3>4, MakingEnds
  <2>7. CASE BindSupplier(c)
    <3>1. PICK p \in Projects, v \in Conversations :
            /\ v = task[c].conversation
            /\ task[c] # NoTask /\ task[c].kind = "supplier"
            /\ bindings' = bindings \cup {[conversation |-> v, mode |-> "m_side", project |-> p,
                                           workspace |-> NoFile]}
            /\ task'[c] = NoTask
      BY <2>7, SupplierEffect
    <3> DEFINE b == [conversation |-> v, mode |-> "m_side", project |-> p,
                   workspace |-> NoFile]
    <3>2. b.conversation = v
      OBVIOUS
    <3>3. bindings' = bindings \cup {b}
      BY <3>1
    <3>4. Makes(task[c], v) /\ \A w : ~Makes(task'[c], w)
      BY <3>1 DEF Makes
    <3> HIDE DEF b
    <3>5. QED
      BY <1>0, <2>0, <3>2, <3>3, <3>4, MakingEnds
  <2>8. CASE SaveFollowup(c)
    <3>1. UNCHANGED bindings
      BY <2>8 DEF SaveFollowup
    <3>2. QED
      BY <2>1, <2>8, <3>1, SaveEffect DEF Makes
  <2>9. CASE \/ Decides(c) \/ SaveDraft(c) \/ Answer(c)
             \/ \E d \in DraftIds : CreateDraft(c, d) \/ CheckDraft(c, d)
    <3>1. task'[c] # NoTask => task'[c].kind = "decide"
      BY <2>9, DecisionTasks
    <3>2. QED
      BY <2>1, <2>9, <3>1, DraftSteps DEF Makes
  <2>10. QED
    BY <1>2, <2>2, <2>3, <2>4, <2>5, <2>6, <2>7, <2>8, <2>9 DEF Step, Begins
<1>3. QED
  BY <1>1, <1>2, NextSteps

-----------------------------------------------------------------------------
(* Decisions on drafts.                                                    *)

(* A draft stays, and once decided stays decided.                          *)
LEMMA DraftsStay ==
  ASSUME TypeOK, DecideInv, [Next]_vars, NEW d \in DraftIds, drafts[d] # NoDraft
  PROVE  /\ drafts'[d] # NoDraft
         /\ drafts[d].status # "pending_approval" => drafts'[d].status # "pending_approval"
  BY DraftChanges DEF Created, Saved

(* A pending draft is checked, with a mark where another caller has.       *)
CheckedBy(c, d) ==
  /\ drafts[d].status = "pending_approval"
  /\ Checks(task'[c], d)
  /\ task'[c].verdict = task[c].verdict /\ task'[c].done = task[c].done
  /\ task'[c].todo = task[c].todo \ {d}
  /\ \A e \in Callers \ {c} : task'[e] = task[e] /\ (Checks(task[e], d) => d \in contested')

LEMMA CheckEffect ==
  ASSUME TypeOK, NEW c \in Callers, NEW d \in DraftIds, CheckDraft(c, d)
  PROVE  /\ task[c] # NoTask /\ task[c].kind = "decide" /\ d \in task[c].todo
         /\ task'[c] = NoTask \/ CheckedBy(c, d)
<1> DEFINE t == [task[c] EXCEPT !.todo = @ \ {d}, !.checked = d]
<1>1. task[c] # NoTask /\ task[c].kind = "decide" /\ task[c] \in Decisions /\ d \in task[c].todo
  BY TaskType DEF CheckDraft, Doing
<1>2. CASE drafts[d].status # "pending_approval"
  BY <1>1, <1>2, BecomeOne DEF CheckDraft
<1>3. CASE drafts[d].status = "pending_approval"
  <2>1. task'[c] = t /\ \A e \in Callers \ {c} : task'[e] = task[e]
    BY <1>3, BecomeOne DEF CheckDraft
  <2>2. t \in Tasks /\ t.kind = "decide" /\ t.checked = d
    BY <1>1 DEF Decisions, Tasks
  <2>3. t.verdict = task[c].verdict /\ t.done = task[c].done /\ t.todo = task[c].todo \ {d}
    BY <1>1 DEF Decisions
  <2>4. \A e \in Callers : Checks(task[e], d) => d \in contested'
    BY DEF CheckDraft, Checks, Doing
  <2>5. QED
    BY <1>1, <1>3, <2>1, <2>2, <2>3, <2>4, Nulls DEF CheckedBy, Checks
<1>4. QED
  BY <1>2, <1>3

(* A decision begins with what is listed, nothing checked, nothing done.   *)
LEMMA DecideEffect ==
  ASSUME TypeOK, NEW c \in Callers, Decides(c)
  PROVE  /\ task'[c].checked = NoDraft /\ task'[c].done = {}
         /\ \A d \in task'[c].todo : d \in DraftIds /\ drafts[d] # NoDraft
<1>1. PICK verdict \in {"approved", "rejected"}, inChat \in BOOLEAN, todo \in SUBSET DraftIds :
        Decide(c, verdict, inChat, todo) /\ \A d \in todo : drafts[d] # NoDraft
  BY DecidesSome
<1>2. task'[c] = [kind |-> "decide", verdict |-> verdict, inChat |-> inChat, todo |-> todo,
                  checked |-> NoDraft, done |-> {}]
  BY <1>1, BecomeOne DEF Decide
<1>3. QED
  BY <1>1, <1>2

(* What a caller decides about after a step: what it did before, a new     *)
(* list, one draft checked, or one saved.                                  *)
LEMMA DecisionChanges ==
  ASSUME TypeOK, TaskInv, BoundInv, DecideInv, [Next]_vars, NEW c \in Callers,
         task'[c] # NoTask, task'[c].kind = "decide"
  PROVE  \/ task'[c] = task[c]
         \/ Decides(c)
         \/ \E d \in DraftIds : /\ task[c] # NoTask /\ task[c].kind = "decide"
                                /\ d \in task[c].todo /\ CheckedBy(c, d)
         \/ \E d \in DraftIds : Saved(c, d)
<1>1. CASE Crash \/ UNCHANGED vars
  BY <1>1, CrashTasks DEF vars
<1>2. ASSUME NEW e \in Callers, Step(e), e # c PROVE task'[c] = task[c]
  BY <1>2, OwnTask
<1>3. ~StructureInChat(c) /\ ~CreateBinding(c) /\ ~SaveFollowup(c) /\ ~BindSupplier(c)
  BY StructureEffect, BindingEffect, SaveEffect, SupplierEffect
<1>4. ~Begins(c)
  <2>1. ASSUME NEW v \in Conversations, NEW message \in Texts, NEW b \in BIds,
               HandleBSideNew(c, v, b, message)
        PROVE  FALSE
    BY <2>1, NewEffect
  <2>2. ASSUME NEW v \in Conversations, NEW message \in Texts, HandleBSideFollowup(c, v, message)
        PROVE  FALSE
    BY <2>2, FollowupEffect
  <2>3. ASSUME NEW v \in Conversations, NEW project \in Projects, HandleMSide(c, v, project)
        PROVE  FALSE
    BY <2>3, BecomeOne DEF HandleMSide
  <2>4. QED
    BY <2>1, <2>2, <2>3 DEF Begins
<1>5. (\A d \in DraftIds : ~CreateDraft(c, d)) /\ ~Answer(c)
  BY BecomeOne DEF CreateDraft, Answer
<1>6. QED
  BY <1>1, <1>2, <1>3, <1>4, <1>5, NextSteps, CheckEffect, SaveDraftEffect DEF Step

(* Decisions are about drafts that are there; what is done is decided.     *)
LEMMA DecideStep ==
  TypeOK /\ TaskInv /\ BoundInv /\ DecideInv /\ [Next]_vars => DecideInv'
<1> SUFFICES ASSUME TypeOK, TaskInv, BoundInv, DecideInv, [Next]_vars,
                    NEW c \in Callers, task'[c] # NoTask, task'[c].kind = "decide"
             PROVE  DecideOK(drafts', task'[c])
  BY DEF DecideInv, DecideOK
<1>1. TypeOK'
  BY TypeStep
<1>2. task'[c] \in Decisions
  BY <1>1 DEF TypeOK, Tasks, Decisions
<1>3. \A d \in DraftIds : drafts[d] # NoDraft =>
        /\ drafts'[d] # NoDraft
        /\ drafts[d].status # "pending_approval" => drafts'[d].status # "pending_approval"
  BY DraftsStay
<1>4. CASE task'[c] = task[c]
  BY <1>2, <1>3, <1>4 DEF DecideInv, DecideOK, Decisions
<1>5. CASE Decides(c)
  BY <1>3, <1>5, DecideEffect DEF DecideOK
<1>6. ASSUME NEW d \in DraftIds, task[c] # NoTask, task[c].kind = "decide", d \in task[c].todo,
             CheckedBy(c, d)
      PROVE  DecideOK(drafts', task'[c])
  <2>1. task[c] \in Decisions
    BY <1>6, TaskType
  <2>2. \A e \in task[c].todo : drafts[e] # NoDraft
    BY <1>6 DEF DecideInv, DecideOK
  <2>3. \A e \in task[c].done : drafts[e] # NoDraft /\ drafts[e].status # "pending_approval"
    BY <1>6 DEF DecideInv, DecideOK
  <2>4. \A e \in task'[c].todo : drafts'[e] # NoDraft
    BY <1>3, <1>6, <2>1, <2>2 DEF CheckedBy, Decisions
  <2>5. drafts'[task'[c].checked] # NoDraft
    BY <1>3, <1>6, <2>2 DEF CheckedBy, Checks
  <2>6. \A e \in task'[c].done : drafts'[e] # NoDraft /\ drafts'[e].status # "pending_approval"
    BY <1>3, <1>6, <2>1, <2>3 DEF CheckedBy, Decisions
  <2>7. QED
    BY <2>4, <2>5, <2>6 DEF DecideOK
<1>7. ASSUME NEW d \in DraftIds, Saved(c, d) PROVE DecideOK(drafts', task'[c])
  <2>1. task[c] # NoTask /\ task[c].kind = "decide" /\ task[c] \in Decisions
    BY <1>7, TaskType DEF Saved, Checks
  <2>2. \A e \in task[c].todo : drafts[e] # NoDraft
    BY <2>1 DEF DecideInv, DecideOK
  <2>3. \A e \in task[c].done : drafts[e] # NoDraft /\ drafts[e].status # "pending_approval"
    BY <2>1 DEF DecideInv, DecideOK
  <2>4. \A e \in task'[c].todo : drafts'[e] # NoDraft
    BY <1>3, <1>7, <2>1, <2>2 DEF Saved, Decisions
  <2>5. \A e \in task'[c].done : drafts'[e] # NoDraft /\ drafts'[e].status # "pending_approval"
    BY <1>3, <1>7, <2>1, <2>3 DEF Saved, Decisions
  <2>6. QED
    BY <1>7, <2>4, <2>5 DEF DecideOK, Saved
<1>8. QED
  BY <1>4, <1>5, <1>6, <1>7, DecisionChanges

(* Marks of contested drafts stay.                                         *)
LEMMA ContestedGrows == ASSUME TypeOK, [Next]_vars PROVE contested \subseteq contested'
<1>1. ASSUME NEW c \in Callers, Step(c) PROVE contested \subseteq contested'
  BY <1>1 DEF Step, Begins, HandleBSideNew, HandleBSideFollowup, HandleMSide, Decides,
              HandleDecision, DecideDraft, Decide, StructureInChat, CreateBinding,
              SaveFollowup, BindSupplier, CreateDraft, CheckDraft, SaveDraft, Answer, history
<1>2. Crash \/ UNCHANGED vars => contested \subseteq contested'
  BY DEF Crash, vars, history
<1>3. QED
  BY <1>1, <1>2, NextSteps

(* Who checks d after a step did before, or checks it now.                 *)
LEMMA ChecksFrom ==
  ASSUME TypeOK, TaskInv, BoundInv, DecideInv, [Next]_vars,
         NEW c \in Callers, NEW d \in DraftIds, Checks(task'[c], d)
  PROVE  \/ Checks(task[c], d) /\ task'[c] = task[c]
         \/ CheckedBy(c, d) /\ drafts[d] # NoDraft
<1>1. task'[c] # NoTask /\ task'[c].kind = "decide" /\ task'[c].checked = d /\ d # NoDraft
  BY Nulls DEF Checks
<1>2. CASE task'[c] = task[c]
  BY <1>2
<1>3. CASE Decides(c)
  BY <1>1, <1>3, DecideEffect
<1>4. ASSUME NEW e \in DraftIds, task[c] # NoTask, task[c].kind = "decide", e \in task[c].todo,
             CheckedBy(c, e)
      PROVE  CheckedBy(c, d) /\ drafts[d] # NoDraft
  <2>1. e = d
    BY <1>1, <1>4 DEF CheckedBy, Checks
  <2>2. QED
    BY <1>4, <2>1 DEF DecideInv, DecideOK
<1>5. ASSUME NEW e \in DraftIds, Saved(c, e) PROVE FALSE
  BY <1>1, <1>5 DEF Saved
<1>6. QED
  BY <1>1, <1>2, <1>3, <1>4, <1>5, DecisionChanges

(* Who has d done after a step had it before, or decides it now.           *)
LEMMA DoneFrom ==
  ASSUME TypeOK, TaskInv, BoundInv, DecideInv, [Next]_vars,
         NEW c \in Callers, NEW d \in DraftIds, HasDone(task'[c], d)
  PROVE  \/ HasDone(task[c], d) /\ task'[c].verdict = task[c].verdict
         \/ Saved(c, d) /\ task'[c].verdict = task[c].verdict
<1>1. task'[c] # NoTask /\ task'[c].kind = "decide" /\ d \in task'[c].done
  BY DEF HasDone
<1>2. CASE task'[c] = task[c]
  BY <1>2
<1>3. CASE Decides(c)
  BY <1>1, <1>3, DecideEffect
<1>4. ASSUME NEW e \in DraftIds, task[c] # NoTask, task[c].kind = "decide", CheckedBy(c, e)
      PROVE  HasDone(task[c], d) /\ task'[c].verdict = task[c].verdict
  BY <1>1, <1>4 DEF CheckedBy, HasDone
<1>5. ASSUME NEW e \in DraftIds, Saved(c, e)
      PROVE  \/ HasDone(task[c], d) /\ task'[c].verdict = task[c].verdict
             \/ Saved(c, d) /\ task'[c].verdict = task[c].verdict
  BY <1>1, <1>5 DEF Saved, HasDone, Checks
<1>6. QED
  BY <1>1, <1>2, <1>3, <1>4, <1>5, DecisionChanges

(* A draft that is decided, or checked but contested by none, is changed   *)
(* by its one checker only.                                                *)
LEMMA DraftUntouched ==
  ASSUME TypeOK, DecideInv, CheckedInv, [Next]_vars, NEW d \in DraftIds \ contested,
         drafts[d] # NoDraft, \A c \in Callers : ~Saved(c, d)
  PROVE  drafts'[d] = drafts[d]
  BY DraftChanges DEF Created, Saved

(* An uncontested draft is pending while it is checked, by one caller.     *)
LEMMA CheckedStep ==
  TypeOK /\ TaskInv /\ BoundInv /\ DecideInv /\ CheckedInv /\ [Next]_vars => CheckedInv'
<1> SUFFICES ASSUME TypeOK, TaskInv, BoundInv, DecideInv, CheckedInv, [Next]_vars,
                    NEW d \in DraftIds \ contested', NEW c \in Callers, Checks(task'[c], d)
             PROVE  /\ drafts'[d].status = "pending_approval"
                    /\ \A e \in Callers : Checks(task'[e], d) => e = c
  BY DEF CheckedInv
<1>1. d \in DraftIds \ contested
  BY ContestedGrows
<1>2. ASSUME NEW e \in Callers, Checks(task[e], d)
      PROVE  drafts[d] # NoDraft /\ drafts[d].status = "pending_approval"
  <2>1. d # NoDraft
    BY Nulls
  <2>2. QED
    BY <1>1, <1>2, <2>1 DEF CheckedInv, DecideInv, DecideOK, Checks
<1>3. CASE Checks(task[c], d) /\ task'[c] = task[c]
  <2>1. \A e \in Callers : ~Saved(e, d)
    <3>1. ASSUME NEW e \in Callers, Saved(e, d) PROVE FALSE
      <4>1. e = c
        BY <1>1, <1>3, <3>1 DEF Saved, CheckedInv
      <4>2. task'[c].checked = NoDraft /\ task'[c].checked = d
        BY <1>3, <3>1, <4>1 DEF Saved, Checks
      <4>3. QED
        BY <4>2, Nulls
    <3>2. QED
      BY <3>1
  <2>2. drafts'[d] = drafts[d]
    BY <1>1, <1>2, <1>3, <2>1, DraftUntouched
  <2>3. ASSUME NEW e \in Callers, Checks(task'[e], d) PROVE e = c
    BY <1>1, <1>3, <2>3, ChecksFrom DEF CheckedInv, CheckedBy
  <2>4. QED
    BY <1>2, <1>3, <2>2, <2>3
<1>4. CASE CheckedBy(c, d) /\ drafts[d] # NoDraft
  <2>1. \A e \in Callers \ {c} : ~Checks(task'[e], d)
    BY <1>4 DEF CheckedBy
  <2>2. \A e \in Callers : ~Saved(e, d)
    BY <1>4, Nulls DEF CheckedBy, Saved, Checks
  <2>3. drafts'[d] = drafts[d]
    BY <1>1, <1>4, <2>2, DraftUntouched
  <2>4. QED
    BY <1>4, <2>1, <2>3 DEF CheckedBy
<1>5. QED
  BY <1>3, <1>4, ChecksFrom

(* What is handed is what an answering caller has approved and done.       *)
LEMMA HandedChanges ==
  ASSUME TypeOK, [Next]_vars
  PROVE  \/ UNCHANGED handed
         \/ /\ UNCHANGED drafts
            /\ \E c \in Callers :
                 /\ task'[c] = NoTask
                 /\ \A d \in DraftIds :
                      \/ handed'[d] = handed[d]
                      \/ /\ HasDone(task[c], d) /\ task[c].verdict = "approved"
                         /\ handed'[d] = handed[d] + 1
<1>1. ASSUME NEW c \in Callers, Answer(c)
      PROVE  /\ UNCHANGED drafts
             /\ task'[c] = NoTask
             /\ \A d \in DraftIds :
                  \/ handed'[d] = handed[d]
                  \/ /\ HasDone(task[c], d) /\ task[c].verdict = "approved"
                     /\ handed'[d] = handed[d] + 1
  BY <1>1, BecomeOne DEF Answer, HasDone, Doing
<1>2. ASSUME NEW c \in Callers, Step(c), ~Answer(c) PROVE UNCHANGED handed
  BY <1>2 DEF Step, Begins, HandleBSideNew, HandleBSideFollowup, HandleMSide, Decides,
              HandleDecision, DecideDraft, Decide, StructureInChat, CreateBinding,
              SaveFollowup, BindSupplier, CreateDraft, CheckDraft, SaveDraft
<1>3. Crash \/ UNCHANGED vars => UNCHANGED handed
  BY DEF Crash, vars
<1>4. QED
  BY <1>1, <1>2, <1>3, NextSteps

(* An uncontested draft that is decided, or pending for nobody, stays.     *)
LEMMA DecidedStays ==
  ASSUME TypeOK, DecideInv, CheckedInv, [Next]_vars, NEW d \in DraftIds \ contested,
         drafts[d] # NoDraft, drafts[d].status # "pending_approval"
  PROVE  drafts'[d] = drafts[d]
<1>1. \A c \in Callers : ~Saved(c, d)
  BY DEF Saved, CheckedInv
<1>2. QED
  BY <1>1, DraftUntouched

(* Who decides an uncontested draft finds it unhanded and nobody's.        *)
LEMMA SavedFirst ==
  ASSUME TypeOK, DecideInv, CheckedInv, HandedInv, NEW d \in DraftIds \ contested,
         NEW c \in Callers, Saved(c, d)
  PROVE  handed[d] = 0 /\ \A e \in Callers : ~HasDone(task[e], d)
<1>1. drafts[d].status = "pending_approval"
  BY DEF Saved, CheckedInv
<1>2. handed[d] = 0
  BY <1>1 DEF HandedInv, TypeOK
<1>3. \A e \in Callers : ~HasDone(task[e], d)
  BY <1>1 DEF DecideInv, DecideOK, HasDone
<1>4. QED
  BY <1>2, <1>3

(* An uncontested draft belongs to the caller that decided it.             *)
LEMMA DoneStep ==
  TypeOK /\ TaskInv /\ BoundInv /\ DecideInv /\ CheckedInv /\ DoneInv /\ HandedInv /\ [Next]_vars
    => DoneInv'
<1> SUFFICES ASSUME TypeOK, TaskInv, BoundInv, DecideInv, CheckedInv, DoneInv, HandedInv,
                    [Next]_vars
             PROVE  DoneInv'
  OBVIOUS
<1> SUFFICES ASSUME NEW d \in DraftIds \ contested', NEW c \in Callers, HasDone(task'[c], d)
             PROVE  /\ drafts'[d].status = task'[c].verdict
                    /\ handed'[d] = 0
                    /\ \A e \in Callers : HasDone(task'[e], d) => e = c
  BY DEF DoneInv
<1>1. d \in DraftIds \ contested
  BY ContestedGrows
<1>2. CASE HasDone(task[c], d) /\ task'[c].verdict = task[c].verdict
  <2>1. /\ drafts[d].status = task[c].verdict /\ handed[d] = 0
        /\ \A e \in Callers : HasDone(task[e], d) => e = c
    BY <1>1, <1>2 DEF DoneInv
  <2>2. drafts[d] # NoDraft /\ drafts[d].status # "pending_approval"
    BY <1>2 DEF DecideInv, DecideOK, HasDone
  <2>3. drafts'[d] = drafts[d]
    BY <1>1, <2>2, DecidedStays
  <2>4. handed'[d] = 0
    BY <2>1, HandedChanges DEF HasDone
  <2>5. ASSUME NEW e \in Callers, HasDone(task'[e], d) PROVE e = c
    <3>1. ~Saved(e, d)
      BY <1>1, <1>2, SavedFirst
    <3>2. QED
      BY <2>1, <2>5, <3>1, DoneFrom
  <2>6. QED
    BY <1>2, <2>1, <2>3, <2>4, <2>5
<1>3. CASE Saved(c, d) /\ task'[c].verdict = task[c].verdict
  <2>1. handed[d] = 0 /\ \A e \in Callers : ~HasDone(task[e], d)
    BY <1>1, <1>3, SavedFirst
  <2>2. drafts'[d].status = task'[c].verdict
    BY <1>3 DEF Saved
  <2>3. handed'[d] = 0
    BY <2>1, HandedChanges
  <2>4. \A e \in Callers : HasDone(task'[e], d) => e = c
    BY <1>3, <2>1 DEF Saved
  <2>5. QED
    BY <2>2, <2>3, <2>4
<1>4. QED
  BY <1>2, <1>3, DoneFrom

(* An uncontested draft is handed once, when it is approved.               *)
LEMMA HandedStep ==
  TypeOK /\ TaskInv /\ BoundInv /\ DecideInv /\ CheckedInv /\ DoneInv /\ HandedInv /\ [Next]_vars
    => HandedInv'
<1> SUFFICES ASSUME TypeOK, TaskInv, BoundInv, DecideInv, CheckedInv, DoneInv, HandedInv,
                    [Next]_vars
             PROVE  HandedInv'
  OBVIOUS
<1> SUFFICES ASSUME NEW d \in DraftIds \ contested'
             PROVE  /\ handed'[d] <= 1
                    /\ handed'[d] = 1 => drafts'[d] # NoDraft /\ drafts'[d].status = "approved"
  BY DEF HandedInv
<1>1. d \in DraftIds \ contested
  BY ContestedGrows
<1>2. /\ handed[d] <= 1
      /\ handed[d] = 1 => drafts[d] # NoDraft /\ drafts[d].status = "approved"
  BY <1>1 DEF HandedInv
<1>3. CASE handed'[d] = handed[d]
  BY <1>1, <1>2, <1>3, DecidedStays
<1>4. CASE /\ UNCHANGED drafts /\ handed'[d] = handed[d] + 1
           /\ \E c \in Callers : HasDone(task[c], d) /\ task[c].verdict = "approved"
  <2>1. handed[d] = 0 /\ drafts[d].status = "approved"
    BY <1>1, <1>4 DEF DoneInv
  <2>2. drafts[d] # NoDraft
    BY <1>4 DEF DecideInv, DecideOK, HasDone
  <2>3. QED
    BY <1>4, <2>1, <2>2
<1>5. QED
  BY <1>3, <1>4, HandedChanges

-----------------------------------------------------------------------------
(* The inductive invariant and what follows from it.                       *)

(* Every reachable state satisfies the inductive invariant.                *)
THEOREM Invariance == Spec => []IInv
<1>1. Init => IInv
  <2> SUFFICES ASSUME Init PROVE IInv
    OBVIOUS
  <2>1. TaskInv /\ BoundInv /\ DraftsInv
    BY DEF Init, TaskInv, BoundInv, DraftsInv
  <2>2. MakingInv
    BY DEF Init, MakingInv, MakingOK, Makes
  <2>3. DecideInv /\ CheckedInv /\ DoneInv /\ HandedInv
    BY DEF Init, DecideInv, CheckedInv, DoneInv, HandedInv, Checks, HasDone
  <2>4. QED
    BY <2>1, <2>2, <2>3, TypeInit DEF IInv
<1>2. IInv /\ [Next]_vars => IInv'
  BY TypeStep, TaskStep, BoundStep, DraftsStep, MakingStep, DecideStep,
     CheckedStep, DoneStep, HandedStep DEF IInv
<1>3. QED
  BY <1>1, <1>2, PTL DEF Spec

(* Workspaces, bindings, drafts and tasks stay within their types.         *)
THEOREM TypeCorrect == Spec => []TypeOK
  BY Invariance, PTL DEF IInv

(* A draft that no two callers decided on at the same time is handed to    *)
(* OpenClaw once at most, and only when it is approved and stays so.       *)
THEOREM DraftsHandedOnce == Spec => []HandedOnce
<1>1. IInv => HandedOnce
  BY DEF IInv, HandedInv, HandedOnce
<1>2. QED
  BY <1>1, Invariance, PTL

(* A conversation that two first messages did not cross has one binding;   *)
(* a buyer's binding, and a draft through one, leads to a workspace with a  *)
(* structured requirement, whatever suppliers' conversations are bound to. *)
THEOREM BindingsAreSound == Spec => []BindingsSound
<1>1. ASSUME IInv PROVE BindingsSound
  <2>1. ASSUME NEW v \in Conversations \ crossed PROVE Cardinality(BindingsOf(v)) <= 1
    <3>1. \A a, b \in BindingsOf(v) : a = b
      BY <1>1, <2>1 DEF IInv, MakingInv, MakingOK, BindingsOf
    <3>2. CASE BindingsOf(v) = {}
      BY <3>2, FS_EmptySet
    <3>3. ASSUME NEW b \in BindingsOf(v) PROVE Cardinality(BindingsOf(v)) <= 1
      <4>1. BindingsOf(v) = {b}
        BY <3>1
      <4>2. QED
        <5>1. Cardinality({b}) = 1
          BY FS_Singleton
        <5>2. QED
          BY <4>1, <5>1
    <3>4. QED
      BY <3>2, <3>3
  <2>2. \A b \in bindings : b.workspace # NoFile =>
          buyer[b.project] # NoFile /\ buyer[b.project].req # NoReq
    BY <1>1 DEF IInv, BoundInv, BoundOK, Known
  <2>3. \A d \in DraftIds : drafts[d] # NoDraft =>
          \E b \in bindings : b.mode = "b_side" /\ b.project = drafts[d].project
    BY <1>1 DEF IInv, DraftsInv, HasBinding
  <2>4. QED
    BY <2>1, <2>2, <2>3 DEF BindingsSound
<1>2. QED
  BY <1>1, Invariance, PTL

-----------------------------------------------------------------------------
(* The collection of quotes.                                               *)

(* Suppliers whose messages agree, before any of them refuses, or whose    *)
(* rollup accepts.                                                         *)
Willing == {s \in Suppliers : Agreed(s) \/ s \in Accepting}

(* A supplier has a workspace for the buyer's workspace b.                 *)
Invited(files, b, s) ==
  \E m \in MIds : files[m] # NoFile /\ files[m].of = b /\ files[m].supplier = s

(* Where a supplier's response comes from.                                 *)
ResponseBacked(files, b, s, response) ==
  /\ response.packet > 0 => Invited(files, b, s)
  /\ \A accepts \in response.rollup : [supplier |-> s, accepts |-> accepts] \in Rollups

(* What holds of a buyer's workspace, on disk or about to be written.      *)
QuotesBacked(willing, files, b, w) ==
  /\ StatusBacked(w)
  /\ w.report # NoReport => w.report \subseteq Responded(w) /\ w.report \subseteq willing
  /\ \A s \in Suppliers : ResponseBacked(files, b, s, w.responses[s])

(* What holds of a supplier's workspace, on disk or about to be written.   *)
PacketBacked(f) ==
  /\ f.packet <= f.messages
  /\ f.status = "response_collecting" => f.messages > 0
  /\ f.status = "response_draft_ready" => f.packet > 0

BuyersInv == \A b \in BIds : buyer[b] # NoFile => QuotesBacked(Willing, seller, b, buyer[b])

SellersInv ==
  \A m \in MIds : seller[m] # NoFile => buyer[seller[m].of] # NoFile /\ PacketBacked(seller[m])

(* A conversation is bound to a workspace with a requirement.              *)
ChatInv == \A b \in bound : buyer[b] # NoFile /\ buyer[b].req # NoReq

(* A request that will write a buyer's workspace.                          *)
BuyerWrites == BCauses \cup {"order"}

(* What such a request writes agrees with what is on disk, and loses       *)
(* nothing of it unless it is stale.                                       *)
BWriteOK(willing, buyers, files, chats, w) ==
  /\ buyers[w.id] # NoFile
  /\ QuotesBacked(willing, files, w.id, w.write)
  /\ w.id \in chats => w.write.req # NoReq
  /\ w.cause = "order" => w.write.report # NoReport
  /\ ~w.stale => LostB(buyers[w.id], w.write) \subseteq Excused(w)

MWriteOK(files, w) ==
  /\ files[w.id] # NoFile
  /\ w.write.of = files[w.id].of /\ w.write.supplier = files[w.id].supplier
  /\ PacketBacked(w.write)
  /\ ~w.stale => LostM(files[w.id], w.write) \subseteq Excused(w)

(* What a request holds of the files it has read.                          *)
RequestOK(willing, buyers, files, chats, w) ==
  /\ w.cause \in BuyerWrites => BWriteOK(willing, buyers, files, chats, w)
  /\ w.cause \in MCauses => MWriteOK(files, w)
  /\ w.cause \in {"draft", "dispatch", "push"} => buyers[w.id] # NoFile
  /\ w.cause = "push" => Invited(files, w.id, w.supplier)

RequestsInv ==
  \A c \in Callers : work[c] # NoWork => RequestOK(Willing, buyer, seller, bound, work[c])

QuotesInv == QuotesTypeOK /\ BuyersInv /\ SellersInv /\ ChatInv /\ RequestsInv

-----------------------------------------------------------------------------
(* What a request is made of, by its cause.                                *)
LEMMA QuoteWork ==
  ASSUME NEW w \in Works
  PROVE  /\ w.cause \in BuyerWrites =>
              /\ w.id \in BIds /\ w.write \in BFiles /\ w.stale \in BOOLEAN
              /\ "write" \in DOMAIN w
         /\ w.cause \in MCauses =>
              /\ w.id \in MIds /\ w.write \in MFiles /\ w.stale \in BOOLEAN
              /\ "write" \in DOMAIN w
         /\ w.cause \in {"order", "mark", "push"} => w.id \in BIds /\ w.supplier \in Suppliers
         /\ w.cause = "draft" => w.id \in BIds /\ w.text \in SUBSET Fields
         /\ w.cause = "dispatch" => w.id \in BIds /\ w.todo \in SUBSET Suppliers
         /\ w.cause = "packet" => w.id \in MIds
         /\ w.cause = "push" => w.packet \in 1..MaxMessages
         /\ "write" \in DOMAIN w => w.cause \in BuyerWrites \cup MCauses
  BY DEF Works, BCauses, MCauses, BuyerWrites

(* A request that holds a file may become stale.                           *)
LEMMA StaleWork ==
  ASSUME NEW w \in Works, "write" \in DOMAIN w
  PROVE  LET v == [w EXCEPT !.stale = TRUE]
         IN  /\ v \in Works
             /\ v.cause = w.cause /\ v.id = w.id /\ v.write = w.write /\ v.stale
             /\ w.cause = "order" => v.supplier = w.supplier
  <1> DEFINE v == [w EXCEPT !.stale = TRUE]
  <1>1. CASE w \in [cause : BCauses, id : BIds, write : BFiles, stale : BOOLEAN]
    <2>1. v \in [cause : BCauses, id : BIds, write : BFiles, stale : BOOLEAN]
      BY <1>1
    <2> QED  BY <1>1, <2>1 DEF Works, BCauses
  <1>2. CASE w \in [cause : MCauses, id : MIds, write : MFiles, stale : BOOLEAN]
    <2>1. v \in [cause : MCauses, id : MIds, write : MFiles, stale : BOOLEAN]
      BY <1>2
    <2> QED  BY <1>2, <2>1 DEF Works, MCauses
  <1>3. CASE w \in [cause : {"order"}, id : BIds, supplier : Suppliers, write : BFiles,
                    stale : BOOLEAN]
    <2>1. v \in [cause : {"order"}, id : BIds, supplier : Suppliers, write : BFiles,
                 stale : BOOLEAN]
      BY <1>3
    <2> QED  BY <1>3, <2>1 DEF Works
  <1> QED  BY <1>1, <1>2, <1>3 DEF Works

LEMMA StaleRequest ==
  ASSUME NEW w \in Works, "write" \in DOMAIN w,
         NEW ws, NEW bs, NEW ms, NEW chats, RequestOK(ws, bs, ms, chats, w)
  PROVE  RequestOK(ws, bs, ms, chats, [w EXCEPT !.stale = TRUE])
  BY QuoteWork, StaleWork
  DEF RequestOK, BWriteOK, MWriteOK, BuyerWrites, BCauses, MCauses

(* Files grow: none is removed, and a supplier's workspace stays that      *)
(* supplier's.                                                             *)
FilesKept(buyers, buyers2, files, files2) ==
  /\ \A b \in BIds : buyers[b] # NoFile => buyers2[b] # NoFile
  /\ \A m \in MIds : files[m] # NoFile =>
       /\ files2[m] # NoFile
       /\ files2[m].of = files[m].of /\ files2[m].supplier = files[m].supplier

LEMMA BackedLater ==
  ASSUME NEW ws, NEW bs, NEW bs2, NEW ms, NEW ms2, FilesKept(bs, bs2, ms, ms2),
         NEW b, NEW w, QuotesBacked(ws, ms, b, w)
  PROVE  QuotesBacked(ws, ms2, b, w)
  BY DEF FilesKept, QuotesBacked, ResponseBacked, Invited

(* What a request holds stays right while files grow, unless the very      *)
(* file changes that it is to write and it is not stale.                   *)
LEMMA RequestLater ==
  ASSUME NEW ws, NEW bs, NEW bs2, NEW ms, NEW ms2, FilesKept(bs, bs2, ms, ms2),
         NEW ch, NEW ch2, \A b \in ch2 : b \in ch \/ bs[b] = NoFile,
         NEW w \in Works, RequestOK(ws, bs, ms, ch, w),
         w.cause \in BuyerWrites => w.stale \/ bs2[w.id] = bs[w.id],
         w.cause \in MCauses => w.stale \/ ms2[w.id] = ms[w.id]
  PROVE  RequestOK(ws, bs2, ms2, ch2, w)
  <1>1. w.cause \in BuyerWrites => BWriteOK(ws, bs2, ms2, ch2, w)
    BY QuoteWork, BackedLater DEF RequestOK, BWriteOK, FilesKept
  <1>2. w.cause \in MCauses => MWriteOK(ms2, w)
    BY QuoteWork DEF RequestOK, MWriteOK, FilesKept
  <1>3. w.cause \in {"draft", "dispatch", "push"} => bs2[w.id] # NoFile
    BY QuoteWork DEF RequestOK, FilesKept
  <1>4. w.cause = "push" => Invited(ms2, w.id, w.supplier)
    BY DEF RequestOK, FilesKept, Invited
  <1> QED  BY <1>1, <1>2, <1>3, <1>4 DEF RequestOK

-----------------------------------------------------------------------------
(* What requests make of a buyer's workspace.                              *)
LEMMA QuoteFileNew ==
  ASSUME NEW message \in BuyerMessages, NEW ws, NEW ms, NEW b
  PROVE  LET w == NewBWorkspace(message)
             v == StructuredInChat(w)
         IN  /\ w \in BFiles /\ QuotesBacked(ws, ms, b, w)
             /\ v \in BFiles /\ QuotesBacked(ws, ms, b, v) /\ v.req # NoReq
  <1> DEFINE w == NewBWorkspace(message)
             v == StructuredInChat(w)
  <1>1. message \in SUBSET Fields /\ message # NoReq
    BY FieldsOfMessages, QuotesNulls
  <1>2. w \in BFiles
    <2>1. [s \in Suppliers |-> NoResponse] \in [Suppliers -> Responses]
      BY MessagesBound DEF NoResponse, Responses
    <2> QED  BY <1>1, <2>1 DEF NewBWorkspace, BFiles, BStatuses
  <1>6. v \in BFiles
    <2>1. w.raw = message
      BY DEF NewBWorkspace
    <2> QED  BY <1>1, <1>2, <2>1 DEF StructuredInChat, BFiles, BStatuses
  <1>3. Responded(w) = {} /\ Responded(v) = {}
    BY DEF NewBWorkspace, StructuredInChat, Responded
  <1>4. /\ w.status = "created" /\ w.req = NoReq /\ w.report = NoReport
        /\ v.status = "requirement_structured" /\ v.req = message /\ v.report = NoReport
    BY DEF NewBWorkspace, StructuredInChat
  <1>5. StatusBacked(w) /\ StatusBacked(v)
    BY <1>1, <1>4 DEF StatusBacked
  <1>7. \A s \in Suppliers : /\ ResponseBacked(ms, b, s, w.responses[s])
                            /\ ResponseBacked(ms, b, s, v.responses[s])
    <2>1. \A s \in Suppliers : w.responses[s] = NoResponse /\ v.responses[s] = NoResponse
      BY DEF NewBWorkspace, StructuredInChat
    <2> QED  BY <2>1 DEF NoResponse, ResponseBacked
  <1> QED  BY <1>1, <1>2, <1>3, <1>4, <1>5, <1>6, <1>7 DEF QuotesBacked

(* Nothing is lost by a request that leaves these parts or adds to them.   *)
LEMMA NothingLost ==
  ASSUME NEW w, NEW v, Responded(w) \subseteq Responded(v),
         w.req # NoReq => v.req # NoReq /\ w.req \subseteq v.req,
         w.inquiry # NoInquiry => v.inquiry # NoInquiry,
         w.report # NoReport => v.report # NoReport
  PROVE  LostB(w, v) = {}
  BY DEF LostB

LEMMA QuoteFileStructured ==
  ASSUME NEW ws, NEW ms, NEW b, NEW w \in BFiles, QuotesBacked(ws, ms, b, w)
  PROVE  LET v == Structured(w)
         IN  /\ v \in BFiles /\ QuotesBacked(ws, ms, b, v) /\ v.req # NoReq
             /\ LostB(w, v) \subseteq Fields
  <1> DEFINE v == Structured(w)
  <1>1. v \in BFiles
    BY PlainAreFields DEF Structured, BFiles, BStatuses
  <1>2. /\ v.req = w.raw \cap PlainFields /\ v.status = "requirement_structured"
        /\ v.report = w.report /\ v.inquiry = w.inquiry /\ v.responses = w.responses
    BY DEF Structured, BFiles
  <1>3. Responded(v) = Responded(w)
    BY <1>2 DEF Responded
  <1>4. v.req # NoReq
    BY <1>1, <1>2, QuotesNulls DEF BFiles
  <1>5. StatusBacked(v)
    BY <1>2, <1>4 DEF StatusBacked
  <1>6. LostB(w, v) \subseteq Fields
    BY <1>2, <1>3 DEF LostB
  <1> QED  BY <1>1, <1>2, <1>3, <1>4, <1>5, <1>6 DEF QuotesBacked

LEMMA QuoteFileFollowedUp ==
  ASSUME NEW ws, NEW ms, NEW b, NEW w \in BFiles, QuotesBacked(ws, ms, b, w),
         w.req # NoReq, NEW message \in BuyerMessages
  PROVE  LET v == FollowedUp(w, message)
         IN  /\ v \in BFiles /\ QuotesBacked(ws, ms, b, v) /\ v.req # NoReq
             /\ LostB(w, v) = {}
  <1> DEFINE v == FollowedUp(w, message)
  <1>1. w.req \in SUBSET Fields /\ message \in SUBSET Fields
    BY FieldsOfMessages DEF BFiles
  <1>2. v \in BFiles
    BY <1>1 DEF FollowedUp, BFiles, BStatuses
  <1>3. /\ v.req = w.req \cup message /\ v.status = "requirement_structured"
        /\ v.report = w.report /\ v.inquiry = w.inquiry /\ v.responses = w.responses
    BY DEF FollowedUp, BFiles
  <1>4. Responded(v) = Responded(w)
    BY <1>3 DEF Responded
  <1>5. w.req \cup message # NoReq
    BY <1>1, QuotesNulls
  <1>6. StatusBacked(v)
    BY <1>3, <1>5 DEF StatusBacked
  <1>7. LostB(w, v) = {}
    BY <1>3, <1>4, <1>5, NothingLost
  <1> QED  BY <1>2, <1>3, <1>4, <1>5, <1>6, <1>7 DEF QuotesBacked

LEMMA QuoteFileInquired ==
  ASSUME NEW ws, NEW ms, NEW b, NEW w \in BFiles, QuotesBacked(ws, ms, b, w),
         NEW text \in SUBSET Fields
  PROVE  LET v == Inquired(w, text)
         IN  /\ v \in BFiles /\ QuotesBacked(ws, ms, b, v) /\ v.req = w.req
             /\ LostB(w, v) = {}
  <1> DEFINE v == Inquired(w, text)
  <1>1. v \in BFiles
    BY DEF Inquired, BFiles, BStatuses
  <1>2. /\ v.inquiry = text /\ v.status = "inquiry_drafted"
        /\ v.report = w.report /\ v.req = w.req /\ v.responses = w.responses
    BY DEF Inquired, BFiles
  <1>3. Responded(v) = Responded(w)
    BY <1>2 DEF Responded
  <1>4. text # NoInquiry
    BY QuotesNulls
  <1>5. StatusBacked(v)
    BY <1>2, <1>4 DEF StatusBacked
  <1>6. LostB(w, v) = {}
    BY <1>2, <1>3, <1>4, NothingLost
  <1> QED  BY <1>1, <1>2, <1>3, <1>5, <1>6 DEF QuotesBacked

LEMMA QuoteFileTakenIn ==
  ASSUME NEW ws, NEW ms, NEW b, NEW w \in BFiles, QuotesBacked(ws, ms, b, w),
         NEW s \in Suppliers, NEW response \in Responses,
         response # NoResponse, ResponseBacked(ms, b, s, response)
  PROVE  LET v == TakenIn(w, s, response)
         IN  /\ v \in BFiles /\ QuotesBacked(ws, ms, b, v) /\ v.req = w.req
             /\ LostB(w, v) = {}
  <1> DEFINE v == TakenIn(w, s, response)
             early == {"created", "requirement_structured", "inquiry_drafted"}
  <1>1. w.responses \in [Suppliers -> Responses]
    BY DEF BFiles
  <1>2. v \in BFiles
    BY <1>1 DEF TakenIn, BFiles, BStatuses
  <1>3. /\ v.responses = [w.responses EXCEPT ![s] = response]
        /\ v.status = IF w.status \in early THEN "collecting_responses" ELSE w.status
        /\ v.report = w.report /\ v.req = w.req /\ v.inquiry = w.inquiry
    BY DEF TakenIn, BFiles
  <1>4. Responded(v) = Responded(w) \cup {s}
    BY <1>1, <1>3 DEF Responded
  <1>5. StatusBacked(w) /\ w.status \in BStatuses
    BY DEF QuotesBacked, BFiles
  <1>6. StatusBacked(v)
    BY <1>3, <1>4, <1>5 DEF StatusBacked, BStatuses
  <1>7. LostB(w, v) = {}
    BY <1>3, <1>4, NothingLost
  <1>8. \A t \in Suppliers : ResponseBacked(ms, b, t, v.responses[t])
    BY <1>1, <1>3 DEF QuotesBacked
  <1> QED  BY <1>2, <1>3, <1>4, <1>6, <1>7, <1>8 DEF QuotesBacked

LEMMA QuoteFileSimulated ==
  ASSUME NEW ws, NEW ms, NEW b, NEW w \in BFiles, QuotesBacked(ws, ms, b, w),
         NEW able, able \subseteq ws
  PROVE  LET v == Simulated(w, able)
         IN  /\ v \in BFiles /\ QuotesBacked(ws, ms, b, v) /\ v.req = w.req
             /\ LostB(w, v) = {}
  <1> DEFINE v == Simulated(w, able)
             paths == Responded(w) \cap able
  <1>1. paths \in SUBSET Suppliers
    BY DEF Responded
  <1>2. v \in BFiles
    BY <1>1 DEF Simulated, BFiles, BStatuses
  <1>3. /\ v.report = paths /\ v.status = "feasibility_complete"
        /\ v.req = w.req /\ v.inquiry = w.inquiry /\ v.responses = w.responses
    BY DEF Simulated, BFiles
  <1>4. Responded(v) = Responded(w)
    BY <1>3 DEF Responded
  <1>5. paths # NoReport
    BY <1>1, QuotesNulls
  <1>6. StatusBacked(v)
    BY <1>3, <1>5 DEF StatusBacked
  <1>7. LostB(w, v) = {}
    BY <1>3, <1>4, <1>5, NothingLost
  <1> QED  BY <1>2, <1>3, <1>4, <1>6, <1>7 DEF QuotesBacked

LEMMA QuoteFileSelected ==
  ASSUME NEW ws, NEW ms, NEW b, NEW w \in BFiles, QuotesBacked(ws, ms, b, w),
         w.report \notin {NoReport, {}}
  PROVE  LET v == Selected(w)
         IN  /\ v \in BFiles /\ QuotesBacked(ws, ms, b, v) /\ v.req = w.req
             /\ v.report # NoReport
             /\ LostB(w, v) = {}
  <1> DEFINE v == Selected(w)
  <1>1. v \in BFiles
    BY DEF Selected, BFiles, BStatuses
  <1>2. /\ v.status = "supplier_selected" /\ v.report = w.report
        /\ v.req = w.req /\ v.inquiry = w.inquiry /\ v.responses = w.responses
    BY DEF Selected, BFiles
  <1>3. Responded(v) = Responded(w)
    BY <1>2 DEF Responded
  <1>4. StatusBacked(v)
    BY <1>2 DEF StatusBacked
  <1>5. LostB(w, v) = {}
    BY <1>2, <1>3, NothingLost
  <1> QED  BY <1>1, <1>2, <1>3, <1>4, <1>5 DEF QuotesBacked

-----------------------------------------------------------------------------
(* What requests make of a supplier's workspace.                           *)
Appended(f) ==
  [f EXCEPT !.messages = @ + 1,
            !.status = IF @ = "inquiry_received" THEN "response_collecting" ELSE @]

Built(f) == [f EXCEPT !.packet = f.messages, !.status = "response_draft_ready"]

Chosen(f) == [f EXCEPT !.status = "selected_by_buyer"]

LEMMA PacketFileNew ==
  ASSUME NEW b \in BIds, NEW s \in Suppliers
  PROVE  NewMWorkspace(b, s) \in MFiles /\ PacketBacked(NewMWorkspace(b, s))
  BY MessagesBound DEF NewMWorkspace, MFiles, PacketBacked

LEMMA PacketFileAppended ==
  ASSUME NEW f \in MFiles, PacketBacked(f), f.messages < MaxMessages
  PROVE  LET g == Appended(f)
         IN  /\ g \in MFiles /\ PacketBacked(g) /\ g.of = f.of /\ g.supplier = f.supplier
             /\ LostM(f, g) = {}
  <1> DEFINE g == Appended(f)
  <1>1. f.messages \in 0..MaxMessages /\ f.packet \in 0..MaxMessages /\ f.packet <= f.messages
    BY DEF MFiles, PacketBacked
  <1>2. /\ g.messages = f.messages + 1 /\ g.packet = f.packet
        /\ g.status = IF f.status = "inquiry_received" THEN "response_collecting" ELSE f.status
        /\ g.of = f.of /\ g.supplier = f.supplier
    BY DEF Appended, MFiles
  <1>3. g.messages \in 0..MaxMessages
    BY <1>1, <1>2, MessagesBound
  <1>4. g \in MFiles
    BY <1>1, <1>3, MessagesBound DEF Appended, MFiles
  <1>5. PacketBacked(g)
    BY <1>1, <1>2, MessagesBound DEF PacketBacked
  <1>6. LostM(f, g) = {}
    BY <1>1, <1>2, MessagesBound DEF LostM
  <1> QED  BY <1>2, <1>4, <1>5, <1>6

LEMMA PacketFileBuilt ==
  ASSUME NEW f \in MFiles, PacketBacked(f), f.messages > 0
  PROVE  LET g == Built(f)
         IN  /\ g \in MFiles /\ PacketBacked(g) /\ g.of = f.of /\ g.supplier = f.supplier
             /\ LostM(f, g) \subseteq {"selection"}
  <1> DEFINE g == Built(f)
  <1>1. f.messages \in 0..MaxMessages /\ f.packet \in 0..MaxMessages /\ f.packet <= f.messages
    BY DEF MFiles, PacketBacked
  <1>2. /\ g.messages = f.messages /\ g.packet = f.messages /\ g.status = "response_draft_ready"
        /\ g.of = f.of /\ g.supplier = f.supplier
    BY DEF Built, MFiles
  <1>3. g \in MFiles
    BY DEF Built, MFiles
  <1>4. PacketBacked(g)
    BY <1>1, <1>2, MessagesBound DEF PacketBacked
  <1>5. LostM(f, g) \subseteq {"selection"}
    BY <1>1, <1>2, MessagesBound DEF LostM
  <1> QED  BY <1>2, <1>3, <1>4, <1>5

LEMMA PacketFileChosen ==
  ASSUME NEW f \in MFiles, PacketBacked(f)
  PROVE  LET g == Chosen(f)
         IN  /\ g \in MFiles /\ PacketBacked(g) /\ g.of = f.of /\ g.supplier = f.supplier
             /\ LostM(f, g) = {}
  <1> DEFINE g == Chosen(f)
  <1>1. f.messages \in 0..MaxMessages /\ f.packet \in 0..MaxMessages /\ f.packet <= f.messages
    BY DEF MFiles, PacketBacked
  <1>2. /\ g.messages = f.messages /\ g.packet = f.packet /\ g.status = "selected_by_buyer"
        /\ g.of = f.of /\ g.supplier = f.supplier
    BY DEF Chosen, MFiles
  <1>3. g \in MFiles
    BY DEF Chosen, MFiles
  <1>4. PacketBacked(g)
    BY <1>1, <1>2, MessagesBound DEF PacketBacked
  <1>5. LostM(f, g) = {}
    BY <1>1, <1>2, MessagesBound DEF LostM
  <1> QED  BY <1>2, <1>3, <1>4, <1>5

-----------------------------------------------------------------------------
(* Delivery paths are of suppliers who agreed.                             *)
LEMMA FirstMessages ==
  ASSUME QuotesTypeOK, NEW s \in Suppliers, NEW n \in 1..MaxMessages
  PROVE  LET texts == SubSeq(said[s], 1, n)
         IN  /\ DOMAIN texts = 1..n
             /\ \A i \in 1..n : texts[i] = said[s][i]
  <1>1. said[s] \in [1..MaxMessages -> SupplierTexts]
    BY StoriesAreTexts DEF QuotesTypeOK
  <1>2. n \in Nat /\ \A i \in 1..n : said[s][i] \in SupplierTexts
    BY <1>1, MessagesBound
  <1>3. /\ SubSeq(said[s], 1, n) \in Seq(SupplierTexts)
        /\ Len(SubSeq(said[s], 1, n)) = n - 1 + 1
        /\ \A i \in 1..n - 1 + 1 : SubSeq(said[s], 1, n)[i] = said[s][1 + i - 1]
    <2> HIDE DEF SupplierTexts
    <2> QED  BY <1>2, SubSeqProperties
  <1>4. n - 1 + 1 = n /\ \A i \in 1..n : 1 + i - 1 = i
    BY <1>2
  <1>5. DOMAIN SubSeq(said[s], 1, n) = 1..Len(SubSeq(said[s], 1, n))
    BY <1>3
  <1> QED  BY <1>3, <1>4, <1>5

LEMMA AbleAreWilling ==
  ASSUME QuotesTypeOK, NEW w \in BFiles,
         \A s \in Suppliers : \A accepts \in w.responses[s].rollup :
           [supplier |-> s, accepts |-> accepts] \in Rollups
  PROVE  Able(w) \subseteq Willing
  <1> SUFFICES ASSUME NEW s \in Able(w)
               PROVE  s \in Suppliers /\ (Agreed(s) \/ s \in Accepting)
    BY DEF Willing
  <1> DEFINE n == w.responses[s].packet
             texts == SubSeq(said[s], 1, n)
  <1>0. s \in Suppliers
    BY DEF Able, Responded
  <1>a. CASE w.responses[s].rollup = {TRUE}
    <2>1. [supplier |-> s, accepts |-> TRUE] \in Rollups
      BY <1>0, <1>a
    <2> QED  BY <1>0, <2>1 DEF Accepting
  <1>b. CASE n > 0 /\ ResponsePacket(texts).canMake = "yes"
    <2>2. n \in 1..MaxMessages
      BY <1>0, <1>b, MessagesBound DEF BFiles, Responses
    <2>3. DOMAIN texts = 1..n /\ \A i \in 1..n : texts[i] = said[s][i]
      BY <1>0, <2>2, FirstMessages
    <2> HIDE DEF n, texts
    <2>4. CanMake(texts) = "yes"
      BY <1>b DEF ResponsePacket
    <2>5. /\ ~Mentions(texts, "refuses") /\ ~Mentions(texts, "full")
          /\ Mentions(texts, "accepts")
      BY <2>4 DEF CanMake
    <2>6. PICK i \in 1..n : "accepts" \in said[s][i]
      BY <2>3, <2>5 DEF Mentions
    <2>7. \A j \in 1..n : "refuses" \notin said[s][j] /\ "full" \notin said[s][j]
      BY <2>3, <2>5 DEF Mentions
    <2>8. i \in 1..MaxMessages /\ \A j \in 1..i : j \in 1..n
      BY <2>2, MessagesBound
    <2>9. \A j \in 1..i : said[s][j] \cap {"refuses", "full"} = {}
      BY <2>7, <2>8
    <2> QED  BY <1>0, <2>6, <2>8, <2>9 DEF Agreed
  <1> QED  BY <1>a, <1>b DEF Able

LEMMA WillingStays == ASSUME said' = said PROVE Willing' = Willing
  BY DEF Willing, Agreed, Accepting

-----------------------------------------------------------------------------
(* A request that only reads takes what it has read with it.               *)
Takes(c, w) ==
  /\ work' = [work EXCEPT ![c] = w]
  /\ requests' \in 0..MaxRequests
  /\ UNCHANGED <<buyer, bound, seller, said>>

LEMMA TakesStep ==
  ASSUME QuotesInv, NEW c \in Callers, NEW w \in Works \cup {NoWork}, Takes(c, w),
         w # NoWork => RequestOK(Willing, buyer, seller, bound, w)
  PROVE  QuotesInv'
  <1>1. QuotesTypeOK'
    BY DEF QuotesInv, QuotesTypeOK, Takes
  <1>2. Willing' = Willing
    BY WillingStays DEF Takes
  <1>3. BuyersInv' /\ SellersInv' /\ ChatInv'
    BY <1>2 DEF QuotesInv, Takes, BuyersInv, SellersInv, ChatInv
  <1>4. RequestsInv'
    <2> SUFFICES ASSUME NEW d \in Callers, work'[d] # NoWork
                 PROVE  RequestOK(Willing, buyer, seller, bound, work'[d])
      BY <1>2 DEF RequestsInv, Takes
    <2>1. work'[d] = w \/ work'[d] = work[d]
      BY DEF QuotesInv, QuotesTypeOK, Takes
    <2> QED  BY <2>1 DEF QuotesInv, RequestsInv
  <1> QED  BY <1>1, <1>3, <1>4 DEF QuotesInv

(* What a caller that begins or goes on knows.                             *)
LEMMA CallsStay ==
  ASSUME QuotesInv, NEW c \in Callers, Request(c) \/ UNCHANGED requests
  PROVE  requests' \in 0..MaxRequests
  BY RequestsBound DEF QuotesInv, QuotesTypeOK, Request

LEMMA RequestKnown ==
  ASSUME QuotesInv, NEW c \in Callers, NEW causes, Serves(c, causes)
  PROVE  work[c] \in Works /\ work[c].cause \in causes
         /\ RequestOK(Willing, buyer, seller, bound, work[c])
  BY DEF QuotesInv, QuotesTypeOK, RequestsInv, Serves

LEMMA BuyerKnown ==
  ASSUME QuotesInv, NEW b \in BIds, buyer[b] # NoFile
  PROVE  /\ buyer[b] \in BFiles /\ QuotesBacked(Willing, seller, b, buyer[b])
         /\ b \in bound => buyer[b].req # NoReq
  BY DEF QuotesInv, QuotesTypeOK, BuyersInv, ChatInv

LEMMA SellerKnown ==
  ASSUME QuotesInv, NEW m \in MIds, seller[m] # NoFile
  PROVE  /\ seller[m] \in MFiles /\ PacketBacked(seller[m])
         /\ seller[m].of \in BIds /\ seller[m].supplier \in Suppliers
         /\ buyer[seller[m].of] # NoFile
         /\ Invited(seller, seller[m].of, seller[m].supplier)
  <1>1. seller[m] \in MFiles /\ PacketBacked(seller[m]) /\ buyer[seller[m].of] # NoFile
    BY DEF QuotesInv, QuotesTypeOK, SellersInv
  <1>2. seller[m].of \in BIds /\ seller[m].supplier \in Suppliers
    BY <1>1 DEF MFiles
  <1> QED  BY <1>1, <1>2 DEF Invited

(* A request that has loaded a buyer's or a supplier's file.               *)
LEMMA LoadBStep ==
  ASSUME QuotesInv, NEW c \in Callers, Request(c) \/ UNCHANGED requests,
         NEW b \in BIds, buyer[b] # NoFile, NEW cause \in BCauses, NEW new \in BFiles,
         LoadB(c, b, cause, new),
         QuotesBacked(Willing, seller, b, new),
         b \in bound => new.req # NoReq,
         LostB(buyer[b], new) \subseteq IF cause = "structure" THEN Fields ELSE {}
  PROVE  QuotesInv'
  <1> DEFINE w == [cause |-> cause, id |-> b, write |-> new, stale |-> FALSE]
  <1>1. w \in Works /\ w # NoWork
    <2>1. w \in [cause : BCauses, id : BIds, write : BFiles, stale : BOOLEAN]
      OBVIOUS
    <2> HIDE DEF w
    <2> QED  BY <2>1, QuotesNulls DEF Works
  <1>2. Excused(w) = IF cause = "structure" THEN Fields ELSE {}
    BY DEF Excused, BCauses
  <1>3. Takes(c, w)
    BY CallsStay DEF LoadB, Loaded, Takes
  <1>4. BWriteOK(Willing, buyer, seller, bound, w)
    BY <1>2 DEF BWriteOK, BCauses
  <1>5. RequestOK(Willing, buyer, seller, bound, w)
    BY <1>4 DEF RequestOK, BCauses, MCauses
  <1> QED  BY <1>1, <1>3, <1>5, TakesStep

LEMMA LoadMStep ==
  ASSUME QuotesInv, NEW c \in Callers, Request(c) \/ UNCHANGED requests,
         NEW m \in MIds, seller[m] # NoFile,
         NEW cause \in MCauses, NEW new \in MFiles,
         LoadM(c, m, cause, new),
         PacketBacked(new), new.of = seller[m].of, new.supplier = seller[m].supplier,
         LostM(seller[m], new) \subseteq IF cause = "build" THEN {"selection"} ELSE {}
  PROVE  QuotesInv'
  <1> DEFINE w == [cause |-> cause, id |-> m, write |-> new, stale |-> FALSE]
  <1>1. w \in Works /\ w # NoWork
    <2>1. w \in [cause : MCauses, id : MIds, write : MFiles, stale : BOOLEAN]
      OBVIOUS
    <2> HIDE DEF w
    <2> QED  BY <2>1, QuotesNulls DEF Works
  <1>2. Excused(w) = IF cause = "build" THEN {"selection"} ELSE {}
    BY DEF Excused, MCauses
  <1>3. Takes(c, w)
    BY CallsStay DEF LoadM, Loaded, Takes
  <1>4. MWriteOK(seller, w)
    BY <1>2 DEF MWriteOK
  <1>5. RequestOK(Willing, buyer, seller, bound, w)
    BY <1>4 DEF RequestOK, BuyerWrites, BCauses, MCauses
  <1> QED  BY <1>1, <1>3, <1>5, TakesStep

-----------------------------------------------------------------------------
(* The steps that read and begin a request, or go on with one.             *)
LEMMA StructureStep ==
  ASSUME QuotesInv, NEW c \in Callers, NEW b \in BIds, StructureRequirement(c, b)
  PROVE  QuotesInv'
  <1>1. Request(c) /\ buyer[b] # NoFile /\ LoadB(c, b, "structure", Structured(buyer[b]))
    BY DEF StructureRequirement
  <1>2. buyer[b] \in BFiles /\ QuotesBacked(Willing, seller, b, buyer[b])
    BY <1>1, BuyerKnown
  <1>3. /\ Structured(buyer[b]) \in BFiles
        /\ QuotesBacked(Willing, seller, b, Structured(buyer[b]))
        /\ Structured(buyer[b]).req # NoReq
        /\ LostB(buyer[b], Structured(buyer[b])) \subseteq Fields
    BY <1>2, QuoteFileStructured
  <1>4. "structure" \in BCauses
    BY DEF BCauses
  <1> QED  BY <1>1, <1>3, <1>4, LoadBStep

LEMMA FollowUpStep ==
  ASSUME QuotesInv, NEW c \in Callers, NEW b \in BIds, NEW message \in BuyerMessages,
         FollowUp(c, b, message)
  PROVE  QuotesInv'
  <1> DEFINE new == FollowedUp(buyer[b], message)
  <1>1. Request(c) /\ b \in bound /\ LoadB(c, b, "followup", new)
    BY DEF FollowUp
  <1>2. buyer[b] # NoFile /\ buyer[b].req # NoReq
    BY <1>1 DEF QuotesInv, ChatInv
  <1>3. buyer[b] \in BFiles /\ QuotesBacked(Willing, seller, b, buyer[b])
    BY <1>2, BuyerKnown
  <1>4. /\ new \in BFiles /\ QuotesBacked(Willing, seller, b, new) /\ new.req # NoReq
        /\ LostB(buyer[b], new) = {}
    BY <1>2, <1>3, QuoteFileFollowedUp
  <1>5. "followup" \in BCauses
    BY DEF BCauses
  <1> HIDE DEF new
  <1> QED  BY <1>1, <1>2, <1>4, <1>5, LoadBStep

LEMMA DraftStep ==
  ASSUME QuotesInv, NEW c \in Callers, NEW b \in BIds, DraftSupplierInquiry(c, b)
  PROVE  QuotesInv'
  <1> DEFINE w == [cause |-> "draft", id |-> b, text |-> buyer[b].req]
  <1>1. buyer[b] # NoFile /\ buyer[b].req # NoReq
    BY DEF DraftSupplierInquiry
  <1>2. Takes(c, w)
    BY CallsStay DEF DraftSupplierInquiry, Takes
  <1>3. buyer[b].req \in SUBSET Fields
    BY <1>1, BuyerKnown DEF BFiles
  <1>4. w \in Works
    BY <1>3 DEF Works
  <1>5. RequestOK(Willing, buyer, seller, bound, w)
    BY <1>1 DEF RequestOK, BuyerWrites, BCauses, MCauses
  <1> QED  BY <1>2, <1>4, <1>5, TakesStep

LEMMA InquiryStep ==
  ASSUME QuotesInv, NEW c \in Callers, DraftInquiry(c)
  PROVE  QuotesInv'
  <1> DEFINE b == work[c].id
             new == Inquired(buyer[b], work[c].text)
  <1>1. Serves(c, {"draft"}) /\ LoadB(c, b, "inquiry", new) /\ UNCHANGED requests
    BY DEF DraftInquiry
  <1>2. /\ work[c] \in Works /\ work[c].cause = "draft"
        /\ RequestOK(Willing, buyer, seller, bound, work[c])
    BY <1>1, RequestKnown
  <1>3. b \in BIds /\ work[c].text \in SUBSET Fields /\ buyer[b] # NoFile
    BY <1>2, QuoteWork DEF RequestOK
  <1>4. /\ buyer[b] \in BFiles /\ QuotesBacked(Willing, seller, b, buyer[b])
        /\ b \in bound => buyer[b].req # NoReq
    BY <1>3, BuyerKnown
  <1>5. /\ new \in BFiles /\ QuotesBacked(Willing, seller, b, new) /\ new.req = buyer[b].req
        /\ LostB(buyer[b], new) = {}
    BY <1>3, <1>4, QuoteFileInquired
  <1>6. "inquiry" \in BCauses
    BY DEF BCauses
  <1> HIDE DEF new, b
  <1> QED  BY <1>1, <1>3, <1>4, <1>5, <1>6, LoadBStep

LEMMA SimulateStep ==
  ASSUME QuotesInv, NEW c \in Callers, NEW b \in BIds, RunFeasibility(c, b)
  PROVE  QuotesInv'
  <1> DEFINE new == Simulated(buyer[b], Able(buyer[b]))
  <1>1. Request(c) /\ buyer[b] # NoFile /\ LoadB(c, b, "simulate", new)
    BY DEF RunFeasibility
  <1>2. /\ buyer[b] \in BFiles /\ QuotesBacked(Willing, seller, b, buyer[b])
        /\ b \in bound => buyer[b].req # NoReq
    BY <1>1, BuyerKnown
  <1>3. Able(buyer[b]) \subseteq Willing
    BY <1>2, AbleAreWilling DEF QuotesInv, QuotesBacked, ResponseBacked
  <1>4. /\ new \in BFiles /\ QuotesBacked(Willing, seller, b, new) /\ new.req = buyer[b].req
        /\ LostB(buyer[b], new) = {}
    BY <1>2, <1>3, QuoteFileSimulated
  <1>5. "simulate" \in BCauses
    BY DEF BCauses
  <1> HIDE DEF new
  <1> QED  BY <1>1, <1>2, <1>4, <1>5, LoadBStep

LEMMA UnavailableStep ==
  ASSUME QuotesInv, NEW c \in Callers, LeadTimeUnavailable(c)
  PROVE  QuotesInv'
  <1>1. Takes(c, NoWork)
    BY DEF LeadTimeUnavailable, Takes, QuotesInv, QuotesTypeOK
  <1> QED  BY <1>1, TakesStep

LEMMA SelectPathStep ==
  ASSUME QuotesInv, NEW c \in Callers, NEW b \in BIds, SelectPath(c, b)
  PROVE  QuotesInv'
  <1> DEFINE new == Selected(buyer[b])
             w(s) == [cause |-> "order", id |-> b, supplier |-> s, write |-> new,
                      stale |-> FALSE]
  <1>1. buyer[b] # NoFile /\ buyer[b].report # NoReport
    BY DEF SelectPath
  <1>2. PICK s \in buyer[b].report : Takes(c, w(s))
    BY CallsStay DEF SelectPath, Takes
  <1>3. /\ buyer[b] \in BFiles /\ QuotesBacked(Willing, seller, b, buyer[b])
        /\ b \in bound => buyer[b].req # NoReq
    BY <1>1, BuyerKnown
  <1>4. s \in Suppliers
    BY <1>1, <1>2, <1>3 DEF BFiles
  <1>5. /\ new \in BFiles /\ QuotesBacked(Willing, seller, b, new) /\ new.req = buyer[b].req
        /\ new.report # NoReport /\ LostB(buyer[b], new) = {}
    BY <1>1, <1>2, <1>3, QuoteFileSelected
  <1> HIDE DEF new
  <1>6. w(s) \in Works
    BY <1>4, <1>5 DEF Works
  <1>7. BWriteOK(Willing, buyer, seller, bound, w(s))
    BY <1>1, <1>3, <1>5 DEF BWriteOK
  <1>8. RequestOK(Willing, buyer, seller, bound, w(s))
    BY <1>7 DEF RequestOK, MCauses
  <1> QED  BY <1>2, <1>6, <1>8, TakesStep

LEMMA DispatchStep ==
  ASSUME QuotesInv, NEW c \in Callers, NEW b \in BIds, DispatchInquiry(c, b)
  PROVE  QuotesInv'
  <1> DEFINE w(chosen) == [cause |-> "dispatch", id |-> b, todo |-> chosen]
  <1>1. buyer[b] # NoFile
    BY DEF DispatchInquiry
  <1>2. PICK chosen \in SUBSET Suppliers : Takes(c, w(chosen))
    BY CallsStay DEF DispatchInquiry, Takes
  <1>3. w(chosen) \in Works
    BY <1>2 DEF Works
  <1>4. RequestOK(Willing, buyer, seller, bound, w(chosen))
    BY <1>1 DEF RequestOK, BuyerWrites, BCauses, MCauses
  <1> QED  BY <1>2, <1>3, <1>4, TakesStep

LEMMA AppendStep ==
  ASSUME QuotesInv, NEW c \in Callers, NEW m \in MIds,
         NEW cause \in {"append", "respond"}, AppendSupplierMessage(c, m, cause)
  PROVE  QuotesInv'
  <1>1. /\ Request(c) /\ seller[m] # NoFile /\ seller[m].messages < MaxMessages
        /\ LoadM(c, m, cause, Appended(seller[m]))
    BY DEF AppendSupplierMessage, Appended
  <1>2. seller[m] \in MFiles /\ PacketBacked(seller[m])
    BY <1>1, SellerKnown
  <1>3. /\ Appended(seller[m]) \in MFiles /\ PacketBacked(Appended(seller[m]))
        /\ Appended(seller[m]).of = seller[m].of
        /\ Appended(seller[m]).supplier = seller[m].supplier
        /\ LostM(seller[m], Appended(seller[m])) = {}
    BY <1>1, <1>2, PacketFileAppended
  <1>4. cause \in MCauses
    BY DEF MCauses
  <1> QED  BY <1>1, <1>3, <1>4, LoadMStep

LEMMA BuildStep ==
  ASSUME QuotesInv, NEW c \in Callers, NEW m \in MIds, BuildResponsePacket(c, m)
  PROVE  QuotesInv'
  <1>1. /\ Request(c) \/ UNCHANGED requests
        /\ seller[m] # NoFile /\ seller[m].messages > 0
        /\ LoadM(c, m, "build", Built(seller[m]))
    BY DEF BuildResponsePacket, Built
  <1>2. seller[m] \in MFiles /\ PacketBacked(seller[m])
    BY <1>1, SellerKnown
  <1>3. /\ Built(seller[m]) \in MFiles /\ PacketBacked(Built(seller[m]))
        /\ Built(seller[m]).of = seller[m].of
        /\ Built(seller[m]).supplier = seller[m].supplier
        /\ LostM(seller[m], Built(seller[m])) \subseteq {"selection"}
    BY <1>1, <1>2, PacketFileBuilt
  <1>4. "build" \in MCauses
    BY DEF MCauses
  <1> QED  BY <1>1, <1>3, <1>4, LoadMStep

LEMMA ChooseStep ==
  ASSUME QuotesInv, NEW c \in Callers, NEW m \in MIds, SelectSupplier(c, m)
  PROVE  QuotesInv'
  <1>1. /\ UNCHANGED requests /\ seller[m] # NoFile
        /\ LoadM(c, m, "select", Chosen(seller[m]))
    BY DEF SelectSupplier, Chosen
  <1>2. seller[m] \in MFiles /\ PacketBacked(seller[m])
    BY <1>1, SellerKnown
  <1>3. /\ Chosen(seller[m]) \in MFiles /\ PacketBacked(Chosen(seller[m]))
        /\ Chosen(seller[m]).of = seller[m].of
        /\ Chosen(seller[m]).supplier = seller[m].supplier
        /\ LostM(seller[m], Chosen(seller[m])) = {}
    BY <1>2, PacketFileChosen
  <1>4. "select" \in MCauses
    BY DEF MCauses
  <1> QED  BY <1>1, <1>3, <1>4, LoadMStep

LEMMA SubmitStep ==
  ASSUME QuotesInv, NEW c \in Callers, NEW m \in MIds, SubmitResponse(c, m)
  PROVE  QuotesInv'
  <1> DEFINE w == [cause |-> "push", id |-> seller[m].of, supplier |-> seller[m].supplier,
                   packet |-> seller[m].packet]
  <1>1. seller[m] # NoFile /\ seller[m].packet > 0
    BY DEF SubmitResponse
  <1>2. Takes(c, w)
    BY CallsStay DEF SubmitResponse, Takes
  <1>3. /\ seller[m].of \in BIds /\ seller[m].supplier \in Suppliers
        /\ buyer[seller[m].of] # NoFile
        /\ Invited(seller, seller[m].of, seller[m].supplier)
    BY <1>1, SellerKnown
  <1>4. seller[m].packet \in 1..MaxMessages
    <2>1. seller[m].packet \in 0..MaxMessages
      BY <1>1, SellerKnown DEF MFiles
    <2> QED  BY <1>1, <2>1, MessagesBound
  <1>5. w \in Works
    BY <1>3, <1>4 DEF Works
  <1>6. RequestOK(Willing, buyer, seller, bound, w)
    BY <1>3 DEF RequestOK, BuyerWrites, BCauses, MCauses
  <1> QED  BY <1>2, <1>5, <1>6, TakesStep

LEMMA IntakeStep ==
  ASSUME QuotesInv, NEW c \in Callers, IntakeSupplierResponse(c)
  PROVE  QuotesInv'
  <1> DEFINE b == work[c].id
             response == OfPacket(work[c].packet)
             new == TakenIn(buyer[b], work[c].supplier, response)
  <1>1. Serves(c, {"push"}) /\ LoadB(c, b, "intake", new) /\ UNCHANGED requests
    BY DEF IntakeSupplierResponse
  <1>2. /\ work[c] \in Works /\ work[c].cause = "push"
        /\ RequestOK(Willing, buyer, seller, bound, work[c])
    BY <1>1, RequestKnown
  <1>3. /\ b \in BIds /\ work[c].supplier \in Suppliers /\ work[c].packet \in 1..MaxMessages
        /\ buyer[b] # NoFile /\ Invited(seller, b, work[c].supplier)
    BY <1>2, QuoteWork DEF RequestOK
  <1>4. /\ buyer[b] \in BFiles /\ QuotesBacked(Willing, seller, b, buyer[b])
        /\ b \in bound => buyer[b].req # NoReq
    BY <1>3, BuyerKnown
  <1>7. /\ response \in Responses /\ response # NoResponse
        /\ ResponseBacked(seller, b, work[c].supplier, response)
    BY <1>3, MessagesBound DEF OfPacket, NoResponse, Responses, ResponseBacked
  <1>5. /\ new \in BFiles /\ QuotesBacked(Willing, seller, b, new) /\ new.req = buyer[b].req
        /\ LostB(buyer[b], new) = {}
    <2> HIDE DEF response
    <2> QED  BY <1>3, <1>4, <1>7, QuoteFileTakenIn
  <1>6. "intake" \in BCauses
    BY DEF BCauses
  <1> HIDE DEF new, b
  <1> QED  BY <1>1, <1>3, <1>4, <1>5, <1>6, LoadBStep

LEMMA RollupStep ==
  ASSUME QuotesInv, NEW c \in Callers, NEW b \in BIds, SubmitRollup(c, b)
  PROVE  QuotesInv'
  <1>1. Request(c) /\ buyer[b] # NoFile
    BY DEF SubmitRollup
  <1>2. PICK r \in Rollups :
          LoadB(c, b, "intake", TakenIn(buyer[b], r.supplier, OfRollup(r.accepts)))
    BY DEF SubmitRollup
  <1> DEFINE response == OfRollup(r.accepts)
             new == TakenIn(buyer[b], r.supplier, response)
  <1>3. r.supplier \in Suppliers /\ r.accepts \in BOOLEAN
        /\ r = [supplier |-> r.supplier, accepts |-> r.accepts]
    BY RollupsOfSuppliers
  <1>4. /\ response \in Responses /\ response # NoResponse
        /\ ResponseBacked(seller, b, r.supplier, response)
    BY <1>3, MessagesBound DEF OfRollup, NoResponse, Responses, ResponseBacked
  <1>5. /\ buyer[b] \in BFiles /\ QuotesBacked(Willing, seller, b, buyer[b])
        /\ b \in bound => buyer[b].req # NoReq
    BY <1>1, BuyerKnown
  <1>6. /\ new \in BFiles /\ QuotesBacked(Willing, seller, b, new) /\ new.req = buyer[b].req
        /\ LostB(buyer[b], new) = {}
    <2> HIDE DEF response
    <2> QED  BY <1>3, <1>4, <1>5, QuoteFileTakenIn
  <1>7. "intake" \in BCauses
    BY DEF BCauses
  <1>8. LoadB(c, b, "intake", new)
    BY <1>2
  <1> HIDE DEF new
  <1> QED  BY <1>1, <1>5, <1>6, <1>7, <1>8, LoadBStep

LEMMA CrashStep ==
  ASSUME QuotesInv, RequestsLost
  PROVE  QuotesInv'
  <1>1. PICK lost \in SUBSET Callers :
          work' = [c \in Callers |-> IF c \in lost THEN NoWork ELSE work[c]]
    BY DEF RequestsLost
  <1>2. UNCHANGED <<buyer, bound, seller, said, requests>>
    BY DEF RequestsLost
  <1>3. Willing' = Willing
    BY <1>2, WillingStays
  <1>4. QuotesTypeOK'
    BY <1>1, <1>2 DEF QuotesInv, QuotesTypeOK
  <1>5. BuyersInv' /\ SellersInv' /\ ChatInv'
    BY <1>2, <1>3 DEF QuotesInv, BuyersInv, SellersInv, ChatInv
  <1>6. RequestsInv'
    BY <1>1, <1>2, <1>3 DEF QuotesInv, RequestsInv
  <1> QED  BY <1>4, <1>5, <1>6 DEF QuotesInv

-----------------------------------------------------------------------------
(* The steps that write a file.                                            *)

(* A request that does not hold a file that changes is as it was, and one  *)
(* that does has become stale.                                             *)
LEMMA OthersStay ==
  ASSUME QuotesInv, said' = said, FilesKept(buyer, buyer', seller, seller'),
         \A b \in bound' : b \in bound \/ buyer[b] = NoFile,
         NEW d \in Callers, work[d] # NoWork,
         \/ /\ work'[d] = work[d]
            /\ work[d].cause \in BuyerWrites => buyer'[work[d].id] = buyer[work[d].id]
            /\ work[d].cause \in MCauses => seller'[work[d].id] = seller[work[d].id]
         \/ "write" \in DOMAIN work[d] /\ work'[d] = [work[d] EXCEPT !.stale = TRUE]
  PROVE  work'[d] \in Works /\ RequestOK(Willing', buyer', seller', bound', work'[d])
  <1>1. work[d] \in Works /\ RequestOK(Willing, buyer, seller, bound, work[d])
    BY DEF QuotesInv, QuotesTypeOK, RequestsInv
  <1>2. Willing' = Willing
    BY WillingStays
  <1>3. CASE /\ work'[d] = work[d]
             /\ work[d].cause \in BuyerWrites => buyer'[work[d].id] = buyer[work[d].id]
             /\ work[d].cause \in MCauses => seller'[work[d].id] = seller[work[d].id]
    BY <1>1, <1>2, <1>3, RequestLater
  <1>4. CASE "write" \in DOMAIN work[d] /\ work'[d] = [work[d] EXCEPT !.stale = TRUE]
    <2>1. /\ work'[d] \in Works /\ work'[d].stale
          /\ RequestOK(Willing, buyer, seller, bound, work'[d])
      BY <1>1, <1>4, StaleWork, StaleRequest
    <2> QED  BY <1>2, <2>1, RequestLater
  <1> QED  BY <1>3, <1>4

(* A file that is made anew is in nobody's hands.                          *)
LEMMA NewBuyerStep ==
  ASSUME QuotesInv, NEW c \in Callers, NEW b \in BIds, Request(c),
         buyer[b] = NoFile, NEW w \in BFiles, QuotesBacked(Willing, seller, b, w),
         buyer' = [buyer EXCEPT ![b] = w],
         UNCHANGED <<seller, said, work>>,
         \/ bound' = bound
         \/ bound' = bound \cup {b} /\ w.req # NoReq
  PROVE  QuotesInv'
  <1>1. requests' \in 0..MaxRequests
    BY CallsStay
  <1>2. buyer' \in [BIds -> BFiles \cup {NoFile}] /\ w # NoFile
    BY QuotesNulls DEF QuotesInv, QuotesTypeOK
  <1>3. buyer'[b] = w /\ \A a \in BIds : a # b => buyer'[a] = buyer[a]
    BY DEF QuotesInv, QuotesTypeOK
  <1>4. QuotesTypeOK'
    BY <1>1, <1>2 DEF QuotesInv, QuotesTypeOK
  <1>5. Willing' = Willing
    BY WillingStays
  <1>6. FilesKept(buyer, buyer', seller, seller')
    BY <1>2, <1>3 DEF FilesKept
  <1>7. BuyersInv'
    BY <1>3, <1>5 DEF QuotesInv, BuyersInv
  <1>8. SellersInv'
    <2> SUFFICES ASSUME NEW m \in MIds, seller[m] # NoFile
                 PROVE  buyer'[seller[m].of] # NoFile /\ PacketBacked(seller[m])
      BY DEF SellersInv
    <2> QED  BY <1>6, SellerKnown DEF FilesKept
  <1>9. ChatInv'
    BY <1>2, <1>3 DEF QuotesInv, QuotesTypeOK, ChatInv
  <1>10. RequestsInv'
    <2> SUFFICES ASSUME NEW d \in Callers, work[d] # NoWork
                 PROVE  RequestOK(Willing', buyer', seller', bound', work'[d])
      BY DEF RequestsInv
    <2>1. work[d] \in Works /\ RequestOK(Willing, buyer, seller, bound, work[d])
      BY DEF QuotesInv, QuotesTypeOK, RequestsInv
    <2>2. work[d].cause \in BuyerWrites => buyer'[work[d].id] = buyer[work[d].id]
      BY <1>3, <2>1, QuoteWork DEF RequestOK, BWriteOK
    <2> QED  BY <1>6, <2>2, OthersStay
  <1> QED  BY <1>4, <1>7, <1>8, <1>9, <1>10 DEF QuotesInv

LEMMA CreateStep ==
  ASSUME QuotesInv, NEW c \in Callers, NEW b \in BIds, NEW message \in BuyerMessages,
         CreateBWorkspace(c, b, message) \/ CreateInChat(c, b, message)
  PROVE  QuotesInv'
  <1> DEFINE w == NewBWorkspace(message)
             v == StructuredInChat(w)
  <1>1. /\ w \in BFiles /\ QuotesBacked(Willing, seller, b, w)
        /\ v \in BFiles /\ QuotesBacked(Willing, seller, b, v) /\ v.req # NoReq
    BY QuoteFileNew
  <1>2. /\ Request(c) /\ buyer[b] = NoFile /\ UNCHANGED <<seller, said, work>>
        /\ \/ buyer' = [buyer EXCEPT ![b] = w] /\ bound' = bound
           \/ buyer' = [buyer EXCEPT ![b] = v] /\ bound' = bound \cup {b}
    BY DEF CreateBWorkspace, CreateInChat
  <1> HIDE DEF w, v
  <1>3. CASE buyer' = [buyer EXCEPT ![b] = w] /\ bound' = bound
    BY <1>1, <1>2, <1>3, NewBuyerStep
  <1>4. CASE buyer' = [buyer EXCEPT ![b] = v] /\ bound' = bound \cup {b}
    BY <1>1, <1>2, <1>4, NewBuyerStep
  <1> QED  BY <1>2, <1>3, <1>4

(* Who else holds the file that is saved becomes stale.                    *)
LEMMA SavedWork ==
  ASSUME QuotesInv, NEW c \in Callers, NEW next, work' = AfterSave(work, c, next)
  PROVE  /\ DOMAIN work' = Callers /\ work'[c] = next
         /\ \A d \in Callers : d # c =>
              work'[d] = IF Holds(work[d], work[c].id) THEN [work[d] EXCEPT !.stale = TRUE]
                         ELSE work[d]
  BY DEF QuotesInv, QuotesTypeOK, AfterSave

LEMMA SaveBuyerStep ==
  ASSUME QuotesInv, NEW c \in Callers, SaveBWorkspace(c)
  PROVE  QuotesInv'
  <1> DEFINE w == work[c]
             next == IF w.cause = "order"
                     THEN [cause |-> "mark", id |-> w.id, supplier |-> w.supplier]
                     ELSE NoWork
  <1>1. /\ buyer' = [buyer EXCEPT ![w.id] = w.write] /\ work' = AfterSave(work, c, next)
        /\ UNCHANGED <<bound, seller, said, requests>>
    BY DEF SaveBWorkspace
  <1>2. /\ w \in Works /\ w.cause \in BuyerWrites
        /\ RequestOK(Willing, buyer, seller, bound, w)
    BY RequestKnown DEF SaveBWorkspace, BuyerWrites
  <1>3. /\ w.id \in BIds /\ w.write \in BFiles /\ w.write # NoFile
        /\ buyer[w.id] # NoFile /\ QuotesBacked(Willing, seller, w.id, w.write)
        /\ w.id \in bound => w.write.req # NoReq
    BY <1>2, QuoteWork, QuotesNulls DEF RequestOK, BWriteOK
  <1>4. next \in Works \cup {NoWork}
    <2>1. w.cause = "order" => w.supplier \in Suppliers
      BY <1>2, QuoteWork
    <2> QED  BY <1>3, <2>1 DEF Works
  <1> HIDE DEF next
  <1>5. buyer' \in [BIds -> BFiles \cup {NoFile}]
    BY <1>1, <1>3 DEF QuotesInv, QuotesTypeOK
  <1>6. buyer'[w.id] = w.write /\ \A a \in BIds : a # w.id => buyer'[a] = buyer[a]
    BY <1>1, <1>3 DEF QuotesInv, QuotesTypeOK
  <1>7. FilesKept(buyer, buyer', seller, seller')
    BY <1>1, <1>3, <1>6 DEF FilesKept
  <1>8. Willing' = Willing
    BY <1>1, WillingStays
  <1>9. /\ DOMAIN work' = Callers /\ work'[c] = next
        /\ \A d \in Callers : d # c =>
             work'[d] = IF Holds(work[d], w.id) THEN [work[d] EXCEPT !.stale = TRUE]
                        ELSE work[d]
    BY <1>1, SavedWork
  <1>10. ASSUME NEW d \in Callers, d # c, work[d] # NoWork
         PROVE  work'[d] \in Works /\ RequestOK(Willing', buyer', seller', bound', work'[d])
    <2>1. work[d] \in Works
      BY <1>10 DEF QuotesInv, QuotesTypeOK
    <2>2. CASE Holds(work[d], w.id)
      BY <1>1, <1>7, <1>9, <1>10, <2>2, OthersStay DEF Holds
    <2>3. CASE ~Holds(work[d], w.id)
      <3>1. work[d].cause \in BuyerWrites => work[d].id \in BIds /\ work[d].id # w.id
        BY <1>10, <2>1, <2>3, QuoteWork DEF Holds
      <3>2. work[d].cause \in BuyerWrites => buyer'[work[d].id] = buyer[work[d].id]
        BY <1>6, <3>1
      <3> QED  BY <1>1, <1>7, <1>9, <1>10, <2>3, <3>2, OthersStay
    <2> QED  BY <2>2, <2>3
  <1>11. \A d \in Callers : d # c /\ work[d] = NoWork => work'[d] = NoWork
    BY <1>9 DEF Holds
  <1>12. work' \in [Callers -> Works \cup {NoWork}]
    <2>1. \A d \in Callers : work'[d] \in Works \cup {NoWork}
      BY <1>4, <1>9, <1>10, <1>11
    <2>2. work' = [d \in Callers |-> work'[d]]
      BY <1>1, <1>9 DEF AfterSave
    <2> QED  BY <2>1, <2>2
  <1>13. QuotesTypeOK'
    BY <1>1, <1>5, <1>12 DEF QuotesInv, QuotesTypeOK
  <1>14. BuyersInv'
    BY <1>1, <1>3, <1>6, <1>8 DEF QuotesInv, BuyersInv
  <1>15. SellersInv'
    <2> SUFFICES ASSUME NEW m \in MIds, seller[m] # NoFile
                 PROVE  buyer'[seller[m].of] # NoFile /\ PacketBacked(seller[m])
      BY <1>1 DEF SellersInv
    <2> QED  BY <1>7, SellerKnown DEF FilesKept
  <1>16. ChatInv'
    <2> SUFFICES ASSUME NEW a \in bound
                 PROVE  buyer'[a] # NoFile /\ buyer'[a].req # NoReq
      BY <1>1 DEF ChatInv
    <2>1. a \in BIds /\ buyer[a] # NoFile /\ buyer[a].req # NoReq
      BY DEF QuotesInv, QuotesTypeOK, ChatInv
    <2> QED  BY <1>3, <1>6, <2>1
  <1>17. RequestsInv'
    <2> SUFFICES ASSUME NEW d \in Callers, work'[d] # NoWork
                 PROVE  RequestOK(Willing', buyer', seller', bound', work'[d])
      BY DEF RequestsInv
    <2>1. CASE d # c
      BY <1>10, <1>11, <2>1
    <2>2. CASE d = c
      BY <1>9, <2>2 DEF next, RequestOK, BuyerWrites, BCauses, MCauses
    <2> QED  BY <2>1, <2>2
  <1> QED  BY <1>13, <1>14, <1>15, <1>16, <1>17 DEF QuotesInv

LEMMA SaveSellerStep ==
  ASSUME QuotesInv, NEW c \in Callers, SaveMWorkspace(c)
  PROVE  QuotesInv'
  <1> DEFINE w == work[c]
             next == IF w.cause = "respond" THEN [cause |-> "packet", id |-> w.id] ELSE NoWork
  <1>1. /\ seller' = [seller EXCEPT ![w.id] = w.write] /\ work' = AfterSave(work, c, next)
        /\ UNCHANGED <<buyer, bound, said, requests>>
    BY DEF SaveMWorkspace
  <1>2. /\ w \in Works /\ w.cause \in MCauses
        /\ RequestOK(Willing, buyer, seller, bound, w)
    BY RequestKnown DEF SaveMWorkspace
  <1>3. /\ w.id \in MIds /\ w.write \in MFiles /\ w.write # NoFile
        /\ seller[w.id] # NoFile /\ PacketBacked(w.write)
        /\ w.write.of = seller[w.id].of /\ w.write.supplier = seller[w.id].supplier
    BY <1>2, QuoteWork, QuotesNulls DEF RequestOK, MWriteOK
  <1>4. next \in Works \cup {NoWork}
    BY <1>3 DEF Works
  <1> HIDE DEF next
  <1>5. seller' \in [MIds -> MFiles \cup {NoFile}]
    BY <1>1, <1>3 DEF QuotesInv, QuotesTypeOK
  <1>6. seller'[w.id] = w.write /\ \A m \in MIds : m # w.id => seller'[m] = seller[m]
    BY <1>1, <1>3 DEF QuotesInv, QuotesTypeOK
  <1>7. FilesKept(buyer, buyer', seller, seller')
    BY <1>1, <1>3, <1>6 DEF FilesKept
  <1>8. Willing' = Willing
    BY <1>1, WillingStays
  <1>9. /\ DOMAIN work' = Callers /\ work'[c] = next
        /\ \A d \in Callers : d # c =>
             work'[d] = IF Holds(work[d], w.id) THEN [work[d] EXCEPT !.stale = TRUE]
                        ELSE work[d]
    BY <1>1, SavedWork
  <1>10. ASSUME NEW d \in Callers, d # c, work[d] # NoWork
         PROVE  work'[d] \in Works /\ RequestOK(Willing', buyer', seller', bound', work'[d])
    <2>1. work[d] \in Works
      BY <1>10 DEF QuotesInv, QuotesTypeOK
    <2>2. CASE Holds(work[d], w.id)
      BY <1>1, <1>7, <1>9, <1>10, <2>2, OthersStay DEF Holds
    <2>3. CASE ~Holds(work[d], w.id)
      <3>1. work[d].cause \in MCauses => work[d].id \in MIds /\ work[d].id # w.id
        BY <1>10, <2>1, <2>3, QuoteWork DEF Holds
      <3>2. work[d].cause \in MCauses => seller'[work[d].id] = seller[work[d].id]
        BY <1>6, <3>1
      <3> QED  BY <1>1, <1>7, <1>9, <1>10, <2>3, <3>2, OthersStay
    <2> QED  BY <2>2, <2>3
  <1>11. \A d \in Callers : d # c /\ work[d] = NoWork => work'[d] = NoWork
    BY <1>9 DEF Holds
  <1>12. work' \in [Callers -> Works \cup {NoWork}]
    <2>1. \A d \in Callers : work'[d] \in Works \cup {NoWork}
      BY <1>4, <1>9, <1>10, <1>11
    <2>2. work' = [d \in Callers |-> work'[d]]
      BY <1>1, <1>9 DEF AfterSave
    <2> QED  BY <2>1, <2>2
  <1>13. QuotesTypeOK'
    BY <1>1, <1>5, <1>12 DEF QuotesInv, QuotesTypeOK
  <1>14. BuyersInv'
    <2> SUFFICES ASSUME NEW b \in BIds, buyer[b] # NoFile
                 PROVE  QuotesBacked(Willing, seller', b, buyer[b])
      BY <1>1, <1>8 DEF BuyersInv
    <2> QED  BY <1>7, BuyerKnown, BackedLater
  <1>15. SellersInv'
    <2> SUFFICES ASSUME NEW m \in MIds, seller'[m] # NoFile
                 PROVE  buyer[seller'[m].of] # NoFile /\ PacketBacked(seller'[m])
      BY <1>1 DEF SellersInv
    <2> QED  BY <1>3, <1>6, SellerKnown
  <1>16. ChatInv'
    BY <1>1 DEF QuotesInv, ChatInv
  <1>17. RequestsInv'
    <2> SUFFICES ASSUME NEW d \in Callers, work'[d] # NoWork
                 PROVE  RequestOK(Willing', buyer', seller', bound', work'[d])
      BY DEF RequestsInv
    <2>1. CASE d # c
      BY <1>10, <1>11, <2>1
    <2>2. CASE d = c
      BY <1>9, <2>2 DEF next, RequestOK, BuyerWrites, BCauses, MCauses
    <2> QED  BY <2>1, <2>2
  <1> QED  BY <1>13, <1>14, <1>15, <1>16, <1>17 DEF QuotesInv

(* A supplier's workspace is made, and the dispatch goes on with the next. *)
LEMMA ReceiveStep ==
  ASSUME QuotesInv, NEW c \in Callers, NEW m \in MIds, NEW s \in Suppliers,
         ReceiveSupplierInquiry(c, m, s)
  PROVE  QuotesInv'
  <1> DEFINE w == work[c]
             file == NewMWorkspace(w.id, s)
             next == IF w.todo = {s} THEN NoWork ELSE [w EXCEPT !.todo = @ \ {s}]
  <1>1. /\ seller[m] = NoFile /\ seller' = [seller EXCEPT ![m] = file]
        /\ work' = [work EXCEPT ![c] = next]
        /\ UNCHANGED <<buyer, bound, said, requests>>
    BY DEF ReceiveSupplierInquiry
  <1>2. /\ w \in Works /\ w.cause = "dispatch"
        /\ RequestOK(Willing, buyer, seller, bound, w)
    BY RequestKnown DEF ReceiveSupplierInquiry
  <1>3. w \in [cause : {"dispatch"}, id : BIds, todo : SUBSET Suppliers] /\ buyer[w.id] # NoFile
    BY <1>2 DEF RequestOK, Works, BCauses, MCauses
  <1>4. /\ file \in MFiles /\ file # NoFile /\ PacketBacked(file) /\ file.of = w.id
    BY <1>3, PacketFileNew, QuotesNulls DEF NewMWorkspace
  <1>5. /\ next \in Works \cup {NoWork}
        /\ next # NoWork => next.cause = "dispatch" /\ next.id = w.id
    <2> DEFINE v == [w EXCEPT !.todo = @ \ {s}]
    <2>1. v \in [cause : {"dispatch"}, id : BIds, todo : SUBSET Suppliers] /\ v.id = w.id
      BY <1>3
    <2> HIDE DEF v
    <2>2. v \in Works /\ v.cause = "dispatch"
      BY <2>1 DEF Works
    <2>3. next \in {v, NoWork}
      BY DEF v
    <2> QED  BY <2>1, <2>2, <2>3
  <1> HIDE DEF next, file
  <1>6. seller' \in [MIds -> MFiles \cup {NoFile}]
    BY <1>1, <1>4 DEF QuotesInv, QuotesTypeOK
  <1>7. seller'[m] = file /\ \A n \in MIds : n # m => seller'[n] = seller[n]
    BY <1>1 DEF QuotesInv, QuotesTypeOK
  <1>8. FilesKept(buyer, buyer', seller, seller')
    BY <1>1, <1>7 DEF FilesKept
  <1>9. Willing' = Willing
    BY <1>1, WillingStays
  <1>10. QuotesTypeOK'
    BY <1>1, <1>5, <1>6 DEF QuotesInv, QuotesTypeOK
  <1>11. BuyersInv'
    <2> SUFFICES ASSUME NEW b \in BIds, buyer[b] # NoFile
                 PROVE  QuotesBacked(Willing, seller', b, buyer[b])
      BY <1>1, <1>9 DEF BuyersInv
    <2> QED  BY <1>8, BuyerKnown, BackedLater
  <1>12. SellersInv'
    <2> SUFFICES ASSUME NEW n \in MIds, seller'[n] # NoFile
                 PROVE  buyer[seller'[n].of] # NoFile /\ PacketBacked(seller'[n])
      BY <1>1 DEF SellersInv
    <2> QED  BY <1>3, <1>4, <1>7, SellerKnown
  <1>13. ChatInv'
    BY <1>1 DEF QuotesInv, ChatInv
  <1>14. RequestsInv'
    <2> SUFFICES ASSUME NEW d \in Callers, work'[d] # NoWork
                 PROVE  RequestOK(Willing', buyer', seller', bound', work'[d])
      BY DEF RequestsInv
    <2>1. CASE d = c
      <3>1. work'[d] = next
        BY <1>1, <2>1 DEF QuotesInv, QuotesTypeOK
      <3> QED  BY <1>1, <1>3, <1>5, <3>1 DEF RequestOK, BuyerWrites, BCauses, MCauses
    <2>2. CASE d # c
      <3>1. work'[d] = work[d]
        BY <1>1, <2>2 DEF QuotesInv, QuotesTypeOK
      <3>2. work[d] \in Works /\ RequestOK(Willing, buyer, seller, bound, work[d])
        BY <3>1 DEF QuotesInv, QuotesTypeOK, RequestsInv
      <3>3. work[d].cause \in MCauses => seller'[work[d].id] = seller[work[d].id]
        BY <1>1, <1>7, <3>2, QuoteWork DEF RequestOK, MWriteOK
      <3> QED  BY <1>1, <1>8, <3>1, <3>3, OthersStay
    <2> QED  BY <2>1, <2>2
  <1> QED  BY <1>10, <1>11, <1>12, <1>13, <1>14 DEF QuotesInv

-----------------------------------------------------------------------------
LEMMA QuotesStep ==
  ASSUME QuotesInv, [QuotesNext]_quotesVars
  PROVE  QuotesInv'
  <1>1. CASE UNCHANGED quotesVars
    <2>1. UNCHANGED <<buyer, bound, seller, said, work, requests>>
      BY <1>1 DEF quotesVars
    <2>2. Willing' = Willing
      BY <2>1, WillingStays
    <2> QED  BY <2>1, <2>2
             DEF QuotesInv, QuotesTypeOK, BuyersInv, SellersInv, ChatInv, RequestsInv
  <1>2. CASE RequestsLost
    BY <1>2, CrashStep
  <1>3. ASSUME NEW c \in Callers, NEW b \in BIds, NEW message \in BuyerMessages,
               \/ CreateBWorkspace(c, b, message) \/ CreateInChat(c, b, message)
               \/ FollowUp(c, b, message)
        PROVE  QuotesInv'
    BY <1>3, CreateStep, FollowUpStep
  <1>4. ASSUME NEW c \in Callers, NEW b \in BIds,
               \/ StructureRequirement(c, b) \/ DraftSupplierInquiry(c, b)
               \/ RunFeasibility(c, b) \/ SelectPath(c, b) \/ DispatchInquiry(c, b)
               \/ SubmitRollup(c, b)
        PROVE  QuotesInv'
    BY <1>4, StructureStep, DraftStep, SimulateStep, SelectPathStep, DispatchStep, RollupStep
  <1>5. ASSUME NEW c \in Callers, NEW m \in MIds,
               \/ \E s \in Suppliers : ReceiveSupplierInquiry(c, m, s)
               \/ AppendSupplierMessage(c, m, "append") \/ SubmitSupplierResponse(c, m)
               \/ BuildResponsePacket(c, m) \/ SelectSupplier(c, m) \/ SubmitResponse(c, m)
        PROVE  QuotesInv'
    BY <1>5, ReceiveStep, AppendStep, BuildStep, ChooseStep, SubmitStep
    DEF SubmitSupplierResponse
  <1>6. ASSUME NEW c \in Callers,
               \/ DraftInquiry(c) \/ SaveBWorkspace(c) \/ LeadTimeUnavailable(c)
               \/ SaveMWorkspace(c) \/ IntakeSupplierResponse(c)
        PROVE  QuotesInv'
    BY <1>6, InquiryStep, SaveBuyerStep, UnavailableStep, SaveSellerStep, IntakeStep
  <1> QED  BY <1>1, <1>2, <1>3, <1>4, <1>5, <1>6 DEF QuotesNext

LEMMA QuotesBegin ==
  ASSUME QuotesInit
  PROVE  QuotesInv
  <1>1. QuotesTypeOK
    BY RequestsBound DEF QuotesInit, QuotesTypeOK
  <1> QED  BY <1>1 DEF QuotesInit, QuotesInv, BuyersInv, SellersInv, ChatInv, RequestsInv

(* Requests hold what the files will still bear out when it is written.    *)
THEOREM QuotesInvariance == QuotesSpec => []QuotesInv
  <1>1. QuotesInit => QuotesInv
    BY QuotesBegin
  <1>2. QuotesInv /\ [QuotesNext]_quotesVars => QuotesInv'
    BY QuotesStep
  <1> QED  BY <1>1, <1>2, PTL DEF QuotesSpec

(* Files and requests are of the kinds that save_b_workspace and           *)
(* save_m_workspace write (TypeOK of QuoteCollection).                     *)
THEOREM QuotesTypeCorrect == QuotesSpec => []QuotesTypeOK
  <1>1. QuotesInv => QuotesTypeOK
    BY DEF QuotesInv
  <1> QED  BY <1>1, QuotesInvariance, PTL

(* Whatever was written over, a status says no more than its file holds,   *)
(* delivery paths are of suppliers who responded, and who agreed or whose  *)
(* rollup accepts, and a packet was taken in only of a supplier who was    *)
(* sent the inquiry (intake_supplier_response, submit_rollup_to_b_side,    *)
(* run_feasibility_simulation, build_response_packet_from_messages).       *)
THEOREM QuotesAreBacked == QuotesSpec => []RecordsBacked
  <1>1. QuotesInv => RecordsBacked
    <2> SUFFICES ASSUME QuotesInv PROVE RecordsBacked
      OBVIOUS
    <2>1. ASSUME NEW b \in BIds, buyer[b] # NoFile
          PROVE  /\ StatusBacked(buyer[b])
                 /\ buyer[b].report # NoReport =>
                      /\ buyer[b].report \subseteq Responded(buyer[b])
                      /\ \A s \in buyer[b].report : Agreed(s) \/ s \in Accepting
                 /\ \A s \in Suppliers :
                      /\ buyer[b].responses[s].packet > 0 =>
                           \E m \in MIds : /\ seller[m] # NoFile
                                           /\ seller[m].of = b /\ seller[m].supplier = s
                      /\ \A accepts \in buyer[b].responses[s].rollup :
                           [supplier |-> s, accepts |-> accepts] \in Rollups
      BY <2>1, BuyerKnown DEF QuotesBacked, ResponseBacked, Willing, Invited
    <2>2. ASSUME NEW m \in MIds, seller[m] # NoFile
          PROVE  /\ buyer[seller[m].of] # NoFile
                 /\ seller[m].packet <= seller[m].messages
                 /\ seller[m].status = "response_collecting" => seller[m].messages > 0
                 /\ seller[m].status = "response_draft_ready" => seller[m].packet > 0
      BY <2>2, SellerKnown DEF PacketBacked
    <2> QED  BY <2>1, <2>2 DEF RecordsBacked
  <1> QED  BY <1>1, QuotesInvariance, PTL

(* Who writes a file: a save, or the request that makes it.                *)
BuyerWritten ==
  \/ buyer' = buyer
  \/ \E c \in Callers : SaveBWorkspace(c)
  \/ \E b \in BIds : \E w : buyer[b] = NoFile /\ buyer' = [buyer EXCEPT ![b] = w]

SellerWritten ==
  \/ seller' = seller
  \/ \E c \in Callers : SaveMWorkspace(c)
  \/ \E m \in MIds : \E f : seller[m] = NoFile /\ seller' = [seller EXCEPT ![m] = f]

LEMMA FileWriters == [QuotesNext]_quotesVars => BuyerWritten /\ SellerWritten
  <1> SUFFICES ASSUME [QuotesNext]_quotesVars
               PROVE  BuyerWritten /\ SellerWritten
    OBVIOUS
  <1>1. CASE UNCHANGED quotesVars
    BY <1>1 DEF quotesVars, BuyerWritten, SellerWritten
  <1>2. CASE RequestsLost
    BY <1>2 DEF RequestsLost, BuyerWritten, SellerWritten
  <1>3. ASSUME NEW c \in Callers, NEW b \in BIds, NEW message \in BuyerMessages,
               \/ CreateBWorkspace(c, b, message) \/ CreateInChat(c, b, message)
               \/ FollowUp(c, b, message)
        PROVE  BuyerWritten /\ SellerWritten
    BY <1>3 DEF CreateBWorkspace, CreateInChat, LoadB, FollowUp, BuyerWritten, SellerWritten
  <1>4. ASSUME NEW c \in Callers, NEW b \in BIds,
               \/ StructureRequirement(c, b) \/ DraftSupplierInquiry(c, b)
               \/ RunFeasibility(c, b) \/ SelectPath(c, b) \/ DispatchInquiry(c, b)
               \/ SubmitRollup(c, b)
        PROVE  BuyerWritten /\ SellerWritten
    BY <1>4 DEF LoadB, StructureRequirement, DraftSupplierInquiry, RunFeasibility, SelectPath,
       DispatchInquiry, SubmitRollup, BuyerWritten, SellerWritten
  <1>5. ASSUME NEW c \in Callers, NEW m \in MIds,
               \/ \E s \in Suppliers : ReceiveSupplierInquiry(c, m, s)
               \/ AppendSupplierMessage(c, m, "append") \/ SubmitSupplierResponse(c, m)
               \/ BuildResponsePacket(c, m) \/ SelectSupplier(c, m) \/ SubmitResponse(c, m)
        PROVE  BuyerWritten /\ SellerWritten
    BY <1>5 DEF LoadM, ReceiveSupplierInquiry, AppendSupplierMessage, SubmitSupplierResponse,
       BuildResponsePacket, SelectSupplier, SubmitResponse, BuyerWritten, SellerWritten
  <1>6. ASSUME NEW c \in Callers,
               \/ DraftInquiry(c) \/ SaveBWorkspace(c) \/ LeadTimeUnavailable(c)
               \/ SaveMWorkspace(c) \/ IntakeSupplierResponse(c)
        PROVE  BuyerWritten /\ SellerWritten
    <2>1. CASE DraftInquiry(c) \/ LeadTimeUnavailable(c) \/ IntakeSupplierResponse(c)
      BY <2>1 DEF LoadB, DraftInquiry, LeadTimeUnavailable, IntakeSupplierResponse,
         BuyerWritten, SellerWritten
    <2>2. CASE SaveBWorkspace(c)
      <3>1. seller' = seller
        BY <2>2 DEF SaveBWorkspace
      <3> QED  BY <2>2, <3>1 DEF BuyerWritten, SellerWritten
    <2>3. CASE SaveMWorkspace(c)
      <3>1. buyer' = buyer
        BY <2>3 DEF SaveMWorkspace
      <3> QED  BY <2>3, <3>1 DEF BuyerWritten, SellerWritten
    <2> QED  BY <1>6, <2>1, <2>2, <2>3
  <1> QED  BY <1>1, <1>2, <1>3, <1>4, <1>5, <1>6 DEF QuotesNext

(* Nothing that a workspace holds is lost but by a stale write             *)
(* (save_b_workspace, save_m_workspace).                                   *)
THEOREM QuotesKeepContent == QuotesSpec => ContentKept
  <1> DEFINE BKept == \A b \in BIds : buyer[b] # NoFile /\ buyer'[b] # buyer[b] =>
                        \E c \in Callers :
                          /\ Holds(work[c], b)
                          /\ \/ work[c].stale
                             \/ LostB(buyer[b], buyer'[b]) \subseteq Excused(work[c])
             MKept == \A m \in MIds : seller[m] # NoFile /\ seller'[m] # seller[m] =>
                        \E c \in Callers :
                          /\ Holds(work[c], m)
                          /\ \/ work[c].stale
                             \/ LostM(seller[m], seller'[m]) \subseteq Excused(work[c])
  <1>1. ASSUME QuotesInv, [QuotesNext]_quotesVars
        PROVE  BKept
    <2>1. \/ buyer' = buyer
          \/ \E c \in Callers : SaveBWorkspace(c)
          \/ \E b \in BIds : \E w : buyer[b] = NoFile /\ buyer' = [buyer EXCEPT ![b] = w]
      BY <1>1, FileWriters DEF BuyerWritten
    <2>2. ASSUME NEW c \in Callers, SaveBWorkspace(c)
          PROVE  BKept
      <3>1. buyer' = [buyer EXCEPT ![work[c].id] = work[c].write]
        BY <2>2 DEF SaveBWorkspace
      <3>2. /\ work[c] \in Works /\ work[c].cause \in BuyerWrites /\ work[c] # NoWork
            /\ RequestOK(Willing, buyer, seller, bound, work[c])
        BY <1>1, <2>2, RequestKnown DEF SaveBWorkspace, BuyerWrites, Serves
      <3>3. /\ work[c].id \in BIds /\ "write" \in DOMAIN work[c]
            /\ work[c].stale
                 \/ LostB(buyer[work[c].id], work[c].write) \subseteq Excused(work[c])
        BY <3>2, QuoteWork DEF RequestOK, BWriteOK
      <3> SUFFICES ASSUME NEW b \in BIds, buyer'[b] # buyer[b]
                   PROVE  /\ Holds(work[c], b)
                          /\ work[c].stale
                               \/ LostB(buyer[b], buyer'[b]) \subseteq Excused(work[c])
        OBVIOUS
      <3>4. b = work[c].id /\ buyer'[b] = work[c].write
        BY <1>1, <3>1 DEF QuotesInv, QuotesTypeOK
      <3> QED  BY <3>2, <3>3, <3>4 DEF Holds
    <2>3. ASSUME NEW b \in BIds, NEW w, buyer[b] = NoFile, buyer' = [buyer EXCEPT ![b] = w]
          PROVE  BKept
      BY <1>1, <2>3 DEF QuotesInv, QuotesTypeOK
    <2> QED  BY <2>1, <2>2, <2>3
  <1>2. ASSUME QuotesInv, [QuotesNext]_quotesVars
        PROVE  MKept
    <2>1. \/ seller' = seller
          \/ \E c \in Callers : SaveMWorkspace(c)
          \/ \E m \in MIds : \E f : seller[m] = NoFile /\ seller' = [seller EXCEPT ![m] = f]
      BY <1>2, FileWriters DEF SellerWritten
    <2>2. ASSUME NEW c \in Callers, SaveMWorkspace(c)
          PROVE  MKept
      <3>1. seller' = [seller EXCEPT ![work[c].id] = work[c].write]
        BY <2>2 DEF SaveMWorkspace
      <3>2. /\ work[c] \in Works /\ work[c].cause \in MCauses /\ work[c] # NoWork
            /\ RequestOK(Willing, buyer, seller, bound, work[c])
        BY <1>2, <2>2, RequestKnown DEF SaveMWorkspace, Serves
      <3>3. /\ work[c].id \in MIds /\ "write" \in DOMAIN work[c]
            /\ work[c].stale
                 \/ LostM(seller[work[c].id], work[c].write) \subseteq Excused(work[c])
        BY <3>2, QuoteWork DEF RequestOK, MWriteOK
      <3> SUFFICES ASSUME NEW m \in MIds, seller'[m] # seller[m]
                   PROVE  /\ Holds(work[c], m)
                          /\ work[c].stale
                               \/ LostM(seller[m], seller'[m]) \subseteq Excused(work[c])
        OBVIOUS
      <3>4. m = work[c].id /\ seller'[m] = work[c].write
        BY <1>2, <3>1 DEF QuotesInv, QuotesTypeOK
      <3> QED  BY <3>2, <3>3, <3>4 DEF Holds
    <2>3. ASSUME NEW m \in MIds, NEW f, seller[m] = NoFile, seller' = [seller EXCEPT ![m] = f]
          PROVE  MKept
      BY <1>2, <2>3 DEF QuotesInv, QuotesTypeOK
    <2> QED  BY <2>1, <2>2, <2>3
  <1>3. QuotesInv /\ [QuotesNext]_quotesVars =>
          [/\ \A b \in BIds : buyer[b] # NoFile /\ buyer'[b] # buyer[b] =>
                \E c \in Callers :
                  /\ Holds(work[c], b)
                  /\ work[c].stale
                       \/ LostB(buyer[b], buyer'[b]) \subseteq Excused(work[c])
           /\ \A m \in MIds : seller[m] # NoFile /\ seller'[m] # seller[m] =>
                \E c \in Callers :
                  /\ Holds(work[c], m)
                  /\ work[c].stale
                       \/ LostM(seller[m], seller'[m]) \subseteq Excused(work[c])]_quotesVars
    BY <1>1, <1>2
  <1> QED  BY <1>3, QuotesInvariance, PTL DEF QuotesSpec, ContentKept
=============================================================================
