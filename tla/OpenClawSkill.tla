--------------------------- MODULE OpenClawSkill ---------------------------
(***************************************************************************)
(* Chat events from OpenClaw.  A conversation is bound to a project by its *)
(* first message; later ones complete the buyer's requirement; once it is  *)
(* complete an inquiry to suppliers is drafted, and a message of approval  *)
(* hands the project's pending drafts to OpenClaw, which sends them.       *)
(*                                                                         *)
(* Bindings, drafts and workspaces are JSON files, read and written by     *)
(* worker threads without a lock.  A conversation stands for the five      *)
(* fields that find_binding compares.                                      *)
(***************************************************************************)
EXTENDS BWorkspace

CONSTANTS
  Conversations,
  Projects,     \* project ids an event may name, of no workspace too
  DraftIds,
  Texts,        \* the texts of the events
  NoDraft, NoTask,
  MaxCalls      \* bound: events and requests in a behaviour

(* A text, by what the parsers find in it: the fields it gives, and those   *)
(* whose name alone is in it, which are not missed either.                 *)
Messages == [gives : SUBSET Fields, names : SUBSET Fields]

ASSUME TextsParse == Texts \subseteq Messages
ASSUME CallsBound == MaxCalls \in Nat
ASSUME ProjectsOfWorkspaces == BIds \subseteq Projects

VARIABLES  \* with buyer
  bindings,   \* the conversation binding files
  drafts,     \* the message draft files
  handed,     \* how often a draft was among a reply's outbound_messages
  task,       \* the event or request each caller handles
  contested,  \* drafts that two callers decided on at the same time
  crossed,    \* conversations of which two callers made a binding at the same time
  calls       \* events and requests begun

history == <<contested, crossed>>
vars == <<buyer, bindings, drafts, handed, task, history, calls>>

Bindings ==
  [conversation : Conversations, mode : {"b_side"}, project : BIds, workspace : BIds]
    \cup [conversation : Conversations, mode : {"m_side"}, project : Projects, workspace : {NoFile}]

Drafts == [project : BIds, status : {"pending_approval", "approved", "rejected"}]

Tasks ==
  [kind : {"structure", "bind"}, project : BIds, conversation : Conversations, message : Messages]
    \cup [kind : {"save"}, project : BIds, message : Messages, write : BFiles]
    \cup [kind : {"draft"}, project : BIds]
    \cup [kind : {"supplier"}, project : Projects, conversation : Conversations]
    \cup [kind : {"decide"}, verdict : {"approved", "rejected"}, inChat : BOOLEAN,
          todo : SUBSET DraftIds,               \* of the pending list
          checked : DraftIds \cup {NoDraft},    \* read, and to be written
          done : SUBSET DraftIds]

ASSUME Nulls ==
  /\ NoFile \notin BFiles /\ \A given \in SUBSET Fields : given # NoReq
  /\ NoDraft \notin Drafts /\ NoDraft \notin DraftIds /\ NoTask \notin Tasks

TypeOK ==
  /\ buyer \in [BIds -> BFiles \cup {NoFile}]
  /\ bindings \subseteq Bindings
  /\ drafts \in [DraftIds -> Drafts \cup {NoDraft}]
  /\ handed \in [DraftIds -> Nat]
  /\ task \in [Callers -> Tasks \cup {NoTask}]
  /\ contested \subseteq DraftIds
  /\ crossed \subseteq Conversations
  /\ calls \in 0..MaxCalls

Init ==
  /\ buyer = [b \in BIds |-> NoFile]
  /\ bindings = {}
  /\ drafts = [d \in DraftIds |-> NoDraft]
  /\ handed = [d \in DraftIds |-> 0]
  /\ task = [c \in Callers |-> NoTask]
  /\ contested = {} /\ crossed = {}
  /\ calls = 0

(* A new event or request, taken by an idle worker thread.                 *)
Call(c) == task[c] = NoTask /\ calls < MaxCalls /\ calls' = calls + 1

Doing(c, kinds) == task[c] # NoTask /\ task[c].kind \in kinds

Become(c, t) == task' = [task EXCEPT ![c] = t]

(* What is missing of a requirement, given the message that is answered.   *)
Missing(req, message) == Fields \ (req \cup message.names)

(* What follows when the requirement is known: a draft if it is complete.  *)
DraftOrAnswer(c, project, req, message) ==
  Become(c, IF Missing(req, message) = {} THEN [kind |-> "draft", project |-> project] ELSE NoTask)

BindingsOf(v) == {b \in bindings : b.conversation = v}

(* Callers that found no binding of a conversation and will make one.      *)
Making(v) == {c \in Callers : Doing(c, {"structure", "bind", "supplier"}) /\ task[c].conversation = v}

BeginBinding(v) == crossed' = IF Making(v) = {} THEN crossed ELSE crossed \cup {v}

-----------------------------------------------------------------------------
(* adapt_openclaw_event.  Words of approval, then of rejection, come first *)
(* in any event.  Else the mode is the one the event states, that of the   *)
(* binding, or a guess from the words, so that a message may be of either  *)
(* mode; a binding makes one of mode b_side a follow-up.  The project is   *)
(* the one the event names, else the binding's.                            *)

(* Mutant: the conversation is bound before the requirement is saved.      *)
BindAtOnce(c, v, b, message) ==
  /\ Call(c)
  /\ BindingsOf(v) = {}
  /\ buyer[b] = NoFile
  /\ buyer' = [buyer EXCEPT ![b] = NewBWorkspace(message.gives)]
  /\ bindings' = bindings \cup {[conversation |-> v, mode |-> "b_side", project |-> b, workspace |-> b]}
  /\ Become(c, [kind |-> "structure", project |-> b, conversation |-> v, message |-> message])
  /\ BeginBinding(v)
  /\ UNCHANGED <<drafts, handed, contested>>

(* _handle_b_side_new: the workspace, its requirement, the binding and,    *)
(* when nothing is missing, the inquiry draft, one file after the other.   *)
HandleBSideNew(c, v, b, message) ==
  /\ Call(c)
  /\ BindingsOf(v) = {}
  /\ buyer[b] = NoFile
  /\ buyer' = [buyer EXCEPT ![b] = NewBWorkspace(message.gives)]
  /\ Become(c, [kind |-> "structure", project |-> b, conversation |-> v, message |-> message])
  /\ BeginBinding(v)
  /\ UNCHANGED <<bindings, drafts, handed, contested>>

StructureInChat(c) ==
  /\ Doing(c, {"structure"})
  /\ buyer' = [buyer EXCEPT ![task[c].project] = StructuredInChat(@)]
  /\ Become(c, [task[c] EXCEPT !.kind = "bind"])
  /\ UNCHANGED <<bindings, drafts, handed, history, calls>>

(* The binding, and what follows it in _handle_b_side_new.                 *)
CreateBinding(c) ==
  /\ Doing(c, {"bind"})
  /\ LET t == task[c]
     IN  /\ bindings' = bindings \cup {[conversation |-> t.conversation, mode |-> "b_side",
                                        project |-> t.project, workspace |-> t.project]}
         /\ DraftOrAnswer(c, t.project, buyer[t.project].req, t.message)
  /\ UNCHANGED <<buyer, drafts, handed, history, calls>>

(* create_draft; nothing asks for drafts that are pending already.         *)
CreateDraft(c, d) ==
  /\ Doing(c, {"draft"})
  /\ drafts[d] = NoDraft
  /\ drafts' = [drafts EXCEPT ![d] = [project |-> task[c].project, status |-> "pending_approval"]]
  /\ Become(c, NoTask)
  /\ UNCHANGED <<buyer, bindings, handed, history, calls>>

(* _handle_b_side_followup, on the workspace of the binding; a supplier's  *)
(* binding has none, and the event is answered with an error.              *)
HandleBSideFollowup(c, v, message) ==
  /\ Call(c)
  /\ \E binding \in BindingsOf(v) :
       /\ binding.workspace # NoFile
       /\ Become(c, [kind |-> "save", project |-> binding.project, message |-> message,
                     write |-> FollowedUp(buyer[binding.workspace], message.gives)])
  /\ UNCHANGED <<buyer, bindings, drafts, handed, history>>

SaveFollowup(c) ==
  /\ Doing(c, {"save"})
  /\ buyer' = [buyer EXCEPT ![task[c].project] = task[c].write]
  /\ DraftOrAnswer(c, task[c].project, task[c].write.req, task[c].message)
  /\ UNCHANGED <<bindings, drafts, handed, history, calls>>

(* _handle_m_side: a supplier's conversation gets a binding if it has none,*)
(* to whatever project the event names: nothing asks whether there is one. *)
(* No supplier's workspace has the keys that _append_to_m_workspace looks  *)
(* for, so that nothing else is written.                                   *)
HandleMSide(c, v, project) ==
  /\ Call(c)
  /\ BindingsOf(v) = {}
  /\ Become(c, [kind |-> "supplier", project |-> project, conversation |-> v])
  /\ BeginBinding(v)
  /\ UNCHANGED <<buyer, bindings, drafts, handed, contested>>

BindSupplier(c) ==
  /\ Doing(c, {"supplier"})
  /\ bindings' = bindings \cup {[conversation |-> task[c].conversation, mode |-> "m_side",
                                 project |-> task[c].project, workspace |-> NoFile]}
  /\ Become(c, NoTask)
  /\ UNCHANGED <<buyer, drafts, handed, history, calls>>

-----------------------------------------------------------------------------
(* Approval and rejection of drafts.                                       *)

Pending(project) ==
  {d \in DraftIds : drafts[d] # NoDraft /\ drafts[d].project = project
                      /\ drafts[d].status = "pending_approval"}

Decide(c, verdict, inChat, todo) ==
  /\ Call(c)
  /\ Become(c, [kind |-> "decide", verdict |-> verdict, inChat |-> inChat, todo |-> todo,
                checked |-> NoDraft, done |-> {}])
  /\ UNCHANGED <<buyer, bindings, drafts, handed, history>>

(* _handle_approval, _handle_rejection: the list of pending drafts is read *)
(* once, of the project that is named or of the conversation's.            *)
HandleDecision(c, verdict, project) == Decide(c, verdict, TRUE, Pending(project))

(* The endpoints that approve or reject one draft.                         *)
DecideDraft(c, verdict, d) == drafts[d] # NoDraft /\ Decide(c, verdict, FALSE, {d})

(* Mutant: approve_draft does not ask for the status.                      *)
CheckNothing(c, d) ==
  /\ Doing(c, {"decide"}) /\ d \in task[c].todo /\ task[c].checked = NoDraft
  /\ Become(c, [task[c] EXCEPT !.todo = @ \ {d}, !.checked = d])
  /\ contested' = IF \E e \in Callers : Doing(e, {"decide"}) /\ task[e].checked = d
                  THEN contested \cup {d} ELSE contested
  /\ UNCHANGED <<buyer, bindings, drafts, handed, crossed, calls>>

(* approve_draft and reject_draft read the draft again: if it is decided,  *)
(* DraftStateError ends the whole request, with those already approved.    *)
CheckDraft(c, d) ==
  /\ Doing(c, {"decide"}) /\ d \in task[c].todo /\ task[c].checked = NoDraft
  /\ Become(c, IF drafts[d].status = "pending_approval"
               THEN [task[c] EXCEPT !.todo = @ \ {d}, !.checked = d] ELSE NoTask)
  /\ contested' = IF \E e \in Callers : Doing(e, {"decide"}) /\ task[e].checked = d
                  THEN contested \cup {d} ELSE contested
  /\ UNCHANGED <<buyer, bindings, drafts, handed, crossed, calls>>

SaveDraft(c) ==
  /\ Doing(c, {"decide"}) /\ task[c].checked # NoDraft
  /\ drafts' = [drafts EXCEPT ![task[c].checked].status = task[c].verdict]
  /\ Become(c, [task[c] EXCEPT !.checked = NoDraft, !.done = @ \cup {task[c].checked}])
  /\ UNCHANGED <<buyer, bindings, handed, history, calls>>

(* Only a chat message of approval has the drafts in its reply; OpenClaw   *)
(* sends what it finds there.                                              *)
Answer(c) ==
  /\ Doing(c, {"decide"}) /\ task[c].todo = {} /\ task[c].checked = NoDraft
  /\ handed' = [d \in DraftIds |->
                  IF task[c].inChat /\ task[c].verdict = "approved" /\ d \in task[c].done
                  THEN handed[d] + 1 ELSE handed[d]]
  /\ Become(c, NoTask)
  /\ UNCHANGED <<buyer, bindings, drafts, history, calls>>

(* The process stops, or a request fails between two of its writes.        *)
Crash ==
  /\ \E lost \in SUBSET Callers : task' = [c \in Callers |-> IF c \in lost THEN NoTask ELSE task[c]]
  /\ UNCHANGED <<buyer, bindings, drafts, handed, history, calls>>

Next ==
  \/ \E c \in Callers :
       \/ \E v \in Conversations :
            \/ \E message \in Texts : \/ \E b \in BIds : HandleBSideNew(c, v, b, message)
                                         \/ HandleBSideFollowup(c, v, message)
            \/ \E project \in Projects : HandleMSide(c, v, project)
       \/ \E verdict \in {"approved", "rejected"} :
            \/ \E project \in Projects : HandleDecision(c, verdict, project)
            \/ \E d \in DraftIds : DecideDraft(c, verdict, d)
       \/ StructureInChat(c) \/ CreateBinding(c) \/ SaveFollowup(c) \/ BindSupplier(c)
       \/ \E d \in DraftIds : CreateDraft(c, d) \/ CheckDraft(c, d)
       \/ SaveDraft(c) \/ Answer(c)
  \/ Crash

Spec == Init /\ [][Next]_vars

-----------------------------------------------------------------------------
(* A draft is handed to OpenClaw at most once, and only if it is approved  *)
(* and stays so, however often a chat message or a client approves or      *)
(* rejects, unless two callers decided on it at the same time: approve_draft*)
(* reads the status and writes it without a lock.                          *)
HandedOnce ==
  \A d \in DraftIds \ contested :
    handed[d] <= 1 /\ (handed[d] = 1 => drafts[d].status = "approved")

(* A conversation has one project, and a binding or a draft of a buyer's   *)
(* conversation leads to a workspace with a structured requirement, when   *)
(* the process stops between any two of the four files too.  Two first     *)
(* messages handled at the same time make two bindings of a conversation   *)
(* (find_binding, create_binding); a supplier's conversation is bound to   *)
(* what its event names, which need not exist (_handle_m_side).            *)
BindingsSound ==
  /\ \A v \in Conversations \ crossed : Cardinality(BindingsOf(v)) <= 1
  /\ \A b \in bindings : b.workspace # NoFile =>
       buyer[b.project] # NoFile /\ buyer[b.project].req # NoReq
  /\ \A d \in DraftIds : drafts[d] # NoDraft =>
       \E b \in bindings : b.mode = "b_side" /\ b.project = drafts[d].project
=============================================================================
