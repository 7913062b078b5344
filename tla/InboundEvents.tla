--------------------------- MODULE InboundEvents ---------------------------
(***************************************************************************)
(* Inbound OpenClaw events in Aivan: create_rfq_from_event and the ledger  *)
(* processed_inbound_events that should make it idempotent.                *)
(*                                                                         *)
(* OpenClaw delivers a message at least once, each delivery an HTTP        *)
(* request.  A request looks its idempotency key up; a recorded result is  *)
(* replayed, otherwise the event is executed and committed, and then the   *)
(* result is recorded in a second transaction.  Requests run concurrently  *)
(* over one SQLite database (see DraftApproval for the write lock); the    *)
(* conversation bindings live in the memory of the process.                *)
(***************************************************************************)
EXTENDS Naturals, FiniteSets

CONSTANTS
  Messages,        \* the messages users and suppliers send
  Requests,        \* HTTP requests, each one delivery of a message
  NoRequest, NoMessage, Blank,
  MaxActive,       \* requests handled at the same time
  MaxCrashes       \* bound: process crashes in a behaviour

(* A message is [shape, conv, id, kind, named, text]: the body's shape     *)
(* ("native" events carry a message id, "invoke" bodies - user_input or    *)
(* WeChat content - have none), its conversation, its message id, the      *)
(* class that classify_event gives it, whether the sender names a project  *)
(* (event.project_id) and its text.                                        *)
ASSUME MessageShape ==
  \A m \in Messages :
    /\ m.shape \in {"native", "invoke"}
    /\ m.kind \in {"status", "reply", "rfq"}
    /\ m.named \in BOOLEAN
(* OpenClaw names each message once.                                       *)
ASSUME UniqueIds ==
  \A m, n \in Messages :
    m.shape = "native" /\ n.shape = "native" /\ m.id # Blank
      /\ m.conv = n.conv /\ m.id = n.id => m = n
ASSUME Names == NoRequest \notin Requests /\ NoMessage \notin Messages
ASSUME FiniteRequests == IsFiniteSet(Requests)
ASSUME Bounds == MaxActive \in Nat \ {0} /\ MaxCrashes \in Nat

Conversations == {m.conv : m \in Messages}

(* _normalize_invoke_payload passes native events on and builds the others *)
(* without a message id.                                                   *)
MessageId(m) == IF m.shape = "native" THEN m.id ELSE Blank

(* build_inbound_idempotency_key: no key only when both parts are blank.   *)
NoKey == <<Blank, Blank>>
(* Mutant: the key is the conversation alone.                              *)
KeyOfConversation(m) == <<m.conv, Blank>>
Key(m) == <<m.conv, MessageId(m)>>
Keys == {Key(m) : m \in Messages} \ {NoKey}

VARIABLES
  ledger,     \* committed ledger: the request whose result a key replays
  projects,   \* committed projects, each named by the request that created it
  born,       \* created_at of the project a request tried to create, or 0
  bindings,   \* conversation -> project, in process memory
  executed,   \* requests whose execution was committed
  notified,   \* requests that sent the user a notice
  writer,     \* the request whose transaction holds the write lock
  pc, msg,    \* where each request is, and its message
  attached,   \* project that classify_event validated for the request
  project,    \* project the request works on
  answer,     \* request whose result a request was answered with
  crashes     \* process crashes so far

vars == <<ledger, projects, born, bindings, executed, notified, writer, pc, msg,
          attached, project, answer, crashes>>

Holding == {"owning", "replied", "noticed", "sealing"}
Running == Holding \cup {"finding", "creating", "working", "late", "recording", "inserting"}
Ended == {"done", "failed", "lost"}

MaybeRequest == Requests \cup {NoRequest}

TypeOK ==
  /\ ledger \in [Keys -> MaybeRequest]
  /\ projects \subseteq Requests
  /\ born \in [Requests -> Nat]
  /\ bindings \in [Conversations -> MaybeRequest]
  /\ executed \subseteq Requests
  /\ notified \subseteq Requests
  /\ writer \in MaybeRequest
  /\ pc \in [Requests -> {"new"} \cup Running \cup Ended]
  /\ msg \in [Requests -> Messages \cup {NoMessage}]
  /\ attached \in [Requests -> MaybeRequest]
  /\ project \in [Requests -> MaybeRequest]
  /\ answer \in [Requests -> MaybeRequest]
  /\ crashes \in 0 .. MaxCrashes

InFlight == {r \in Requests : pc[r] \in Running}

(* ProjectRepository.get_by_conversation: the committed project with the   *)
(* latest created_at.                                                      *)
OfConversation(c) == {p \in projects : msg[p].conv = c}
Latest(c) ==
  IF OfConversation(c) = {} THEN {NoRequest}
  ELSE {p \in OfConversation(c) : \A q \in OfConversation(c) : born[q] <= born[p]}

Init ==
  /\ ledger = [k \in Keys |-> NoRequest]
  /\ projects = {}
  /\ born = [r \in Requests |-> 0]
  /\ bindings = [c \in Conversations |-> NoRequest]
  /\ executed = {}
  /\ notified = {}
  /\ writer = NoRequest
  /\ pc = [r \in Requests |-> "new"]
  /\ msg = [r \in Requests |-> NoMessage]
  /\ attached = [r \in Requests |-> NoRequest]
  /\ project = [r \in Requests |-> NoRequest]
  /\ answer = [r \in Requests |-> NoRequest]
  /\ crashes = 0

-----------------------------------------------------------------------------
Goto(r, label) == pc' = [pc EXCEPT ![r] = label]
Answers(r, s) == answer' = [answer EXCEPT ![r] = s] /\ Goto(r, "done")

(* The first write of a transaction waits for the lock; a transaction that *)
(* created the project has it already ("owning").                          *)
Locks(r) ==
  \/ pc[r] = "working" /\ writer = NoRequest
  \/ pc[r] = "owning"

(* Commit of an execution: the project it created becomes visible.         *)
Executes(r) ==
  /\ writer' = NoRequest
  /\ executed' = executed \cup {r}
  /\ projects' = IF project[r] = r THEN projects \cup {r} ELSE projects

(* An exception leaves the handler: the skill routes answer with an error  *)
(* envelope and get_db closes the session, which rolls back.               *)
Raises(r) ==
  /\ Goto(r, "failed")
  /\ writer' = IF writer = r THEN NoRequest ELSE writer
  /\ UNCHANGED <<ledger, projects, born, bindings, executed, notified, msg, attached,
                 project, answer, crashes>>

-----------------------------------------------------------------------------
(* create_rfq_from_event up to the ledger lookup, and classify_event.      *)
Recorded(m) == Key(m) # NoKey /\ ledger[Key(m)] # NoRequest

Receive(r, m) ==
  /\ pc[r] = "new"
  /\ Cardinality(InFlight) < MaxActive
  /\ msg' = [msg EXCEPT ![r] = m]
  /\ UNCHANGED <<ledger, projects, born, bindings, executed, notified, writer, project, crashes>>

Replay(r, m) ==
  /\ Receive(r, m)
  /\ Recorded(m)
  /\ Answers(r, ledger[Key(m)])
  /\ UNCHANGED attached

(* The project the sender names, if it exists; else the conversation's.    *)
Attachments(m) ==
  (IF m.named THEN projects ELSE {})
    \cup (IF m.conv = Blank THEN {NoRequest} ELSE Latest(m.conv))

(* Mutant: an event is executed although its result is recorded.           *)
ClassifyAlways(r, m) ==
  /\ Receive(r, m)
  /\ \E p \in Attachments(m) : attached' = [attached EXCEPT ![r] = p]
  /\ Goto(r, "finding")
  /\ UNCHANGED answer

Classify(r, m) ==
  /\ Receive(r, m)
  /\ ~Recorded(m)
  /\ \E p \in Attachments(m) : attached' = [attached EXCEPT ![r] = p]
  /\ Goto(r, "finding")
  /\ UNCHANGED answer

(* _get_or_create_project: the validated project, else the bound one, else *)
(* the conversation's; a binding may name a project that was rolled back,  *)
(* and it is not consulted when the event names a project.                 *)
Hint(r) ==
  IF attached[r] # NoRequest THEN attached[r]
  ELSE IF msg[r].named THEN NoRequest ELSE bindings[msg[r].conv]

(* Mutant: the bound project is used without asking the database for it.   *)
TrustsBinding(r) ==
  IF Hint(r) # NoRequest THEN {Hint(r)} ELSE Latest(msg[r].conv)

Candidates(r) == IF Hint(r) \in projects THEN {Hint(r)} ELSE Latest(msg[r].conv)

FindsProject(r, p) ==
  /\ pc[r] = "finding"
  /\ p \in Candidates(r) \ {NoRequest}
  /\ Goto(r, "working")
  /\ bindings' = [bindings EXCEPT ![msg[r].conv] = p]
  /\ project' = [project EXCEPT ![r] = p]
  /\ UNCHANGED <<ledger, projects, born, executed, notified, writer, msg, attached,
                 answer, crashes>>

(* A new project gets its created_at before its INSERT gets the lock.      *)
FindsNoProject(r) ==
  /\ pc[r] = "finding"
  /\ NoRequest \in Candidates(r)
  /\ born' = [born EXCEPT ![r] = 1 + Cardinality({s \in Requests : born[s] > 0})]
  /\ Goto(r, "creating")
  /\ UNCHANGED <<ledger, projects, bindings, executed, notified, writer, msg, attached,
                 project, answer, crashes>>

(* The INSERT takes the lock; the binding is published before the commit.  *)
CreateProject(r) ==
  /\ pc[r] = "creating"
  /\ writer = NoRequest
  /\ writer' = r
  /\ project' = [project EXCEPT ![r] = r]
  /\ bindings' = [bindings EXCEPT ![msg[r].conv] = r]
  /\ Goto(r, "owning")
  /\ UNCHANGED <<ledger, projects, born, executed, notified, msg, attached, answer, crashes>>

-----------------------------------------------------------------------------
(* Execution by kind.                                                      *)

(* _record_non_rfq_event commits and only then asks GLTG.                  *)
ExecuteStatus(r) ==
  /\ Locks(r)
  /\ msg[r].kind = "status"
  /\ Executes(r)
  /\ Goto(r, "late")
  /\ UNCHANGED <<ledger, born, bindings, notified, msg, attached, project, answer, crashes>>

(* _handle_supplier_reply_event writes events first.                       *)
ReplyWrites(r) ==
  /\ Locks(r)
  /\ msg[r].kind = "reply"
  /\ writer' = r
  /\ Goto(r, "replied")
  /\ UNCHANGED <<ledger, projects, born, bindings, executed, notified, msg, attached,
                 project, answer, crashes>>

(* With a requirement GLTG is asked before the commit, without one after   *)
(* it; which of the two a project has is left open here.                   *)
ReplyCommits(r, next) ==
  /\ pc[r] = "replied"
  /\ next \in {"recording", "late"}
  /\ Executes(r)
  /\ Goto(r, next)
  /\ UNCHANGED <<ledger, born, bindings, notified, msg, attached, project, answer, crashes>>

ReplyRaises(r) == pc[r] = "replied" /\ Raises(r)

(* The RFQ pipeline: LLM, context and GLTG calls come before the writes,   *)
(* the notice to the user goes out before the commit.                      *)
RfqRaises(r) ==
  /\ pc[r] \in {"working", "owning"}
  /\ msg[r].kind = "rfq"
  /\ Raises(r)

RfqWrites(r, notify) ==
  /\ Locks(r)
  /\ msg[r].kind = "rfq"
  /\ writer' = r
  /\ notified' = IF notify THEN notified \cup {r} ELSE notified
  /\ Goto(r, "noticed")
  /\ UNCHANGED <<ledger, projects, born, bindings, executed, msg, attached, project,
                 answer, crashes>>

(* Mutant: the execution is not committed before its result is recorded.   *)
RfqRecordsUncommitted(r) ==
  /\ pc[r] = "noticed"
  /\ writer' = NoRequest
  /\ Goto(r, "recording")
  /\ UNCHANGED <<ledger, projects, born, bindings, executed, notified, msg, attached,
                 project, answer, crashes>>

RfqCommits(r) ==
  /\ pc[r] = "noticed"
  /\ Executes(r)
  /\ Goto(r, "recording")
  /\ UNCHANGED <<ledger, born, bindings, notified, msg, attached, project, answer, crashes>>

(* The simulation after the commit.                                        *)
GltgAnswers(r) ==
  /\ pc[r] = "late"
  /\ Goto(r, "recording")
  /\ UNCHANGED <<ledger, projects, born, bindings, executed, notified, writer, msg,
                 attached, project, answer, crashes>>

GltgRaises(r) == pc[r] = "late" /\ Raises(r)

-----------------------------------------------------------------------------
(* InboundEventRepository.record and the second commit.  A request that    *)
(* finds the key taken keeps its own result as the answer.                 *)
RecordCheck(r) ==
  /\ pc[r] = "recording"
  /\ IF Key(msg[r]) = NoKey \/ Recorded(msg[r])
     THEN Answers(r, r)
     ELSE Goto(r, "inserting") /\ UNCHANGED answer
  /\ UNCHANGED <<ledger, projects, born, bindings, executed, notified, writer, msg,
                 attached, project, crashes>>

(* Mutant: no unique index on the key.                                     *)
InsertWithoutIndex(r) ==
  /\ pc[r] = "inserting"
  /\ writer = NoRequest
  /\ Goto(r, "sealing")
  /\ writer' = r
  /\ UNCHANGED <<ledger, projects, born, bindings, executed, notified, msg, attached,
                 project, answer, crashes>>

(* The unique index: IntegrityError, rollback, and the row that won.       *)
RecordInsert(r) ==
  /\ pc[r] = "inserting"
  /\ writer = NoRequest
  /\ IF Recorded(msg[r])
     THEN Answers(r, r) /\ UNCHANGED writer
     ELSE Goto(r, "sealing") /\ writer' = r /\ UNCHANGED answer
  /\ UNCHANGED <<ledger, projects, born, bindings, executed, notified, msg, attached,
                 project, crashes>>

RecordCommit(r) ==
  /\ pc[r] = "sealing"
  /\ ledger' = [ledger EXCEPT ![Key(msg[r])] = r]
  /\ writer' = NoRequest
  /\ Answers(r, r)
  /\ UNCHANGED <<projects, born, bindings, executed, notified, msg, attached, project, crashes>>

(* sqlite3's busy timeout, five seconds.                                   *)
LockTimeout(r) ==
  /\ pc[r] \in {"creating", "working", "inserting"}
  /\ writer \notin {NoRequest, r}
  /\ Raises(r)

-----------------------------------------------------------------------------
(* Mutant: the restart leaves blanks where there was no binding.           *)
CrashBlanksBindings ==
  /\ crashes < MaxCrashes
  /\ InFlight # {}
  /\ crashes' = crashes + 1
  /\ pc' = [r \in Requests |-> IF r \in InFlight THEN "lost" ELSE pc[r]]
  /\ writer' = NoRequest
  /\ bindings' = [c \in Conversations |-> Blank]
  /\ UNCHANGED <<ledger, projects, born, executed, notified, msg, attached, project, answer>>

(* The process dies: transactions roll back, bindings are forgotten.       *)
Crash ==
  /\ crashes < MaxCrashes
  /\ InFlight # {}
  /\ crashes' = crashes + 1
  /\ pc' = [r \in Requests |-> IF r \in InFlight THEN "lost" ELSE pc[r]]
  /\ writer' = NoRequest
  /\ bindings' = [c \in Conversations |-> NoRequest]
  /\ UNCHANGED <<ledger, projects, born, executed, notified, msg, attached, project, answer>>

Arrive(r) == \E m \in Messages : Replay(r, m) \/ Classify(r, m)

Proceed(r) ==
  \/ \E p \in Requests : FindsProject(r, p)
  \/ FindsNoProject(r)
  \/ CreateProject(r)
  \/ ExecuteStatus(r)
  \/ ReplyWrites(r)
  \/ \E next \in {"recording", "late"} : ReplyCommits(r, next)
  \/ ReplyRaises(r)
  \/ RfqRaises(r)
  \/ \E notify \in BOOLEAN : RfqWrites(r, notify)
  \/ RfqCommits(r)
  \/ GltgAnswers(r)
  \/ GltgRaises(r)
  \/ RecordCheck(r)
  \/ RecordInsert(r)
  \/ RecordCommit(r)
  \/ LockTimeout(r)

Next == Crash \/ \E r \in Requests : Arrive(r) \/ Proceed(r)

Spec == Init /\ [][Next]_vars

-----------------------------------------------------------------------------
(* Properties.                                                             *)

(* A recorded result is never replaced, however many duplicates of the     *)
(* event race to record theirs.                                            *)
LedgerWriteOnce ==
  [][\A k \in Keys : ledger[k] # NoRequest => ledger'[k] = ledger[k]]_vars

(* What the ledger replays really happened: the execution was committed,   *)
(* it was for this key, and the project it names exists - after crashes    *)
(* between the two commits as well.                                        *)
LedgerIsBacked ==
  \A k \in Keys : ledger[k] # NoRequest =>
    /\ ledger[k] \in executed
    /\ Key(msg[ledger[k]]) = k
    /\ project[ledger[k]] \in projects

(* A successful answer stands for a committed execution of the same        *)
(* message, provided messages carry ids of their own.                      *)
SameMessage(m, n) == MessageId(m) # Blank => m = n

AnsweredWasExecuted ==
  \A r \in Requests : pc[r] = "done" =>
    /\ answer[r] \in executed
    /\ SameMessage(msg[r], msg[answer[r]])

(* An execution works on a committed project, and on one of another        *)
(* conversation only if a message of its own conversation named that very  *)
(* project: bindings, even to projects that were rolled back, never lead   *)
(* anywhere else.                                                          *)
Linked(c, p) ==
  \/ msg[p].conv = c
  \/ \E s \in Requests : msg[s] # NoMessage /\ msg[s].conv = c /\ msg[s].named /\ attached[s] = p

WorkStaysInConversation ==
  \A r \in executed : project[r] \in projects /\ Linked(msg[r].conv, project[r])

(* Once a delivery of an event has been answered and no other is in        *)
(* flight, it stays so: every later delivery is replayed, and the event is *)
(* never executed and its notice never sent again.  Duplicates need an     *)
(* overlap, or a delivery that was not answered.                           *)
Acknowledged(k) ==
  /\ \E r \in Requests : pc[r] = "done" /\ Key(msg[r]) = k
  /\ \A r \in InFlight : Key(msg[r]) # k

OfKey(R, k) == {r \in R : Key(msg[r]) = k}

AcknowledgedIsFinal ==
  [][\A k \in Keys : Acknowledged(k) =>
        /\ Acknowledged(k)'
        /\ OfKey(executed, k)' = OfKey(executed, k)
        /\ OfKey(notified, k)' = OfKey(notified, k)]_vars

-----------------------------------------------------------------------------
(* What the documentation says and the code refutes.                       *)

(* db/models/execution.py:21-23: "A retried or duplicated inbound event    *)
(* must not create duplicate projects, RFQs, drafts, or execution events." *)
ExecutedOnce ==
  \A r, s \in executed : Key(msg[r]) = Key(msg[s]) /\ Key(msg[r]) # NoKey => r = s

(* api/main.py:193-195: the /invoke shapes keep what they need "so         *)
(* follow-up supplier/buyer turns attach to the existing project": a       *)
(* message that is answered has itself been executed.                      *)
FollowUpIsExecuted ==
  \A r \in Requests : pc[r] = "done" => \E s \in executed : msg[s] = msg[r]
=============================================================================
