----------------------- MODULE InboundEvents_proofs -----------------------
(***************************************************************************)
(* Safety of inbound events for every set of messages and requests, every  *)
(* number of workers and crashes.                                          *)
(*                                                                         *)
(* The argument: the write lock marks who is inside a transaction          *)
(* (LockInv); the place of a request says whether it has executed and on   *)
(* what project (PlaceInv); bindings and attachments only ever lead to     *)
(* projects that the conversation created or named (LinkInv); so what the  *)
(* ledger holds, and what a request was answered with, is a committed      *)
(* execution of the same key (LedgerInv, AnswerInv).                       *)
(***************************************************************************)
EXTENDS InboundEvents, FiniteSetTheorems, TLAPS

(* Who is inside a writing transaction holds the lock.                     *)
LockInv == \A r \in Requests : pc[r] \in Holding <=> writer = r

(* A request has a message from its first step on.                         *)
Begun(r) == r \in Requests /\ msg[r] \in Messages
MessageInv == \A r \in Requests : pc[r] # "new" <=> msg[r] # NoMessage

(* What the place of a request says of its execution and its project.      *)
Recording == {"late", "recording", "inserting", "sealing"}
PlaceInv ==
  /\ \A r \in Requests :
       /\ pc[r] = "working" => project[r] \in projects
       /\ pc[r] = "owning" => project[r] = r
       /\ pc[r] \in {"replied", "noticed"} => project[r] = r \/ project[r] \in projects
       /\ pc[r] \in Recording => r \in executed
       /\ pc[r] \in {"inserting", "sealing"} => Key(msg[r]) # NoKey
       /\ pc[r] = "sealing" => ledger[Key(msg[r])] = NoRequest
  /\ \A r \in executed : pc[r] \in Recording \cup Ended /\ project[r] \in projects
  /\ \A r \in notified : pc[r] # "new"

(* Projects, bindings and attachments lead to requests that have begun,    *)
(* and stay within what the conversation created or named.                 *)
Leads(c, p) == Begun(p) /\ Linked(c, p)
LinkInv ==
  /\ \A p \in projects : Begun(p)
  /\ \A c \in Conversations : bindings[c] # NoRequest => Leads(c, bindings[c])
  /\ \A r \in Requests :
       /\ attached[r] # NoRequest => Begun(r) /\ Leads(msg[r].conv, attached[r])
       /\ project[r] # NoRequest => Begun(r) /\ Leads(msg[r].conv, project[r])

LedgerInv ==
  \A k \in Keys : ledger[k] # NoRequest =>
    /\ ledger[k] \in executed
    /\ Key(msg[ledger[k]]) = k

(* An answer is an execution with the same key, and the key is recorded.   *)
AnswerInv ==
  \A r \in Requests : pc[r] = "done" =>
    /\ answer[r] \in executed
    /\ Key(msg[r]) = Key(msg[answer[r]])
    /\ Key(msg[r]) # NoKey => ledger[Key(msg[r])] # NoRequest

IInv == /\ TypeOK
        /\ LockInv
        /\ MessageInv
        /\ PlaceInv
        /\ LinkInv
        /\ LedgerInv
        /\ AnswerInv

-----------------------------------------------------------------------------
(* A step is a crash or a step of one request; every proof below splits on *)
(* these cases.                                                            *)
Finds(r) ==
  \/ \E p \in Requests : FindsProject(r, p)
  \/ FindsNoProject(r)
  \/ CreateProject(r)
Writes(r) == ReplyWrites(r) \/ \E notify \in BOOLEAN : RfqWrites(r, notify)
Commits(r) ==
  \/ ExecuteStatus(r)
  \/ \E next \in {"recording", "late"} : ReplyCommits(r, next)
  \/ RfqCommits(r)
Gives(r) == ReplyRaises(r) \/ RfqRaises(r) \/ GltgRaises(r) \/ LockTimeout(r)
Records(r) == RecordCheck(r) \/ RecordInsert(r) \/ RecordCommit(r)

(* Next is the disjunction of these cases.                                 *)
LEMMA NextSteps ==
  Next => \/ Crash
          \/ \E r \in Requests : \/ Arrive(r) \/ Finds(r) \/ Writes(r) \/ Commits(r)
                                 \/ GltgAnswers(r) \/ Gives(r) \/ Records(r)
  BY DEF Next, Proceed, Finds, Writes, Commits, Gives, Records

(* The key of a message is none, or a key of the ledger.                   *)
LEMMA KeyOfMessage ==
  ASSUME NEW m \in Messages, Key(m) # NoKey PROVE Key(m) \in Keys
  BY DEF Keys

(* Two messages with a common key that has a message id are the same.      *)
LEMMA SameKey ==
  ASSUME NEW m \in Messages, NEW n \in Messages, Key(m) = Key(n)
  PROVE  SameMessage(m, n)
  BY UniqueIds, MessageShape DEF Key, MessageId, SameMessage

(* How many requests have named a project is a number.                     *)
LEMMA BornIsNumber == Cardinality({s \in Requests : born[s] > 0}) \in Nat
  BY FiniteRequests, FS_Subset, FS_CardinalityType

-----------------------------------------------------------------------------
(* Types.                                                                  *)

(* Initial values have their types.                                        *)
LEMMA TypeInit == Init => TypeOK
  BY Bounds DEF Init, TypeOK, MaybeRequest, Running, Holding, Ended

(* Every step keeps the types.                                             *)
LEMMA TypeStep == TypeOK /\ MessageInv /\ [Next]_vars => TypeOK'
<1> SUFFICES ASSUME TypeOK, MessageInv, [Next]_vars PROVE TypeOK'
  OBVIOUS
<1> USE DEF TypeOK, MessageInv, MaybeRequest, Running, Holding, Ended, Goto
<1>1. CASE Crash
  BY <1>1, Bounds DEF Crash, InFlight
<1>2. ASSUME NEW r \in Requests, Arrive(r) PROVE TypeOK'
  <2> PICK m \in Messages : Replay(r, m) \/ Classify(r, m)
    BY <1>2 DEF Arrive
  <2>1. CASE Replay(r, m)
    BY <2>1, KeyOfMessage DEF Replay, Receive, Answers, Recorded
  <2>2. CASE Classify(r, m)
    BY <2>2 DEF Classify, Receive, Attachments, Latest, OfConversation
  <2>3. QED
    BY <2>1, <2>2
<1>3. ASSUME NEW r \in Requests, Finds(r) PROVE TypeOK'
  <2>1. CASE \E p \in Requests : FindsProject(r, p)
    BY <2>1 DEF FindsProject, Conversations
  <2>2. CASE FindsNoProject(r)
    BY <2>2, BornIsNumber DEF FindsNoProject
  <2>3. CASE CreateProject(r)
    BY <2>3 DEF CreateProject, Conversations
  <2>4. QED
    BY <1>3, <2>1, <2>2, <2>3 DEF Finds
<1>4. ASSUME NEW r \in Requests, Writes(r) PROVE TypeOK'
  BY <1>4 DEF Writes, ReplyWrites, RfqWrites, Locks
<1>5. ASSUME NEW r \in Requests, Commits(r) PROVE TypeOK'
  BY <1>5 DEF Commits, ExecuteStatus, ReplyCommits, RfqCommits, Executes, Locks
<1>6. ASSUME NEW r \in Requests, GltgAnswers(r) PROVE TypeOK'
  BY <1>6 DEF GltgAnswers
<1>7. ASSUME NEW r \in Requests, Gives(r) PROVE TypeOK'
  BY <1>7 DEF Gives, ReplyRaises, RfqRaises, GltgRaises, LockTimeout, Raises
<1>8. ASSUME NEW r \in Requests, Records(r) PROVE TypeOK'
  <2>1. CASE RecordCheck(r)
    BY <2>1 DEF RecordCheck, Answers
  <2>2. CASE RecordInsert(r)
    BY <2>2 DEF RecordInsert, Answers
  <2>3. CASE RecordCommit(r)
    BY <2>3, KeyOfMessage DEF RecordCommit, Answers
  <2>4. QED
    BY <1>8, <2>1, <2>2, <2>3 DEF Records
<1>9. CASE UNCHANGED vars
  BY <1>9 DEF vars
<1>10. QED
  BY <1>1, <1>2, <1>3, <1>4, <1>5, <1>6, <1>7, <1>8, <1>9, NextSteps

(* The lock is free at the start.                                          *)
LEMMA LockInit == Init => LockInv
  BY Names DEF Init, LockInv, Holding

(* A first write takes the free lock; commit, rollback and crash free it.  *)
LEMMA LockStep == TypeOK /\ LockInv /\ [Next]_vars => LockInv'
<1> SUFFICES ASSUME TypeOK, LockInv, [Next]_vars PROVE LockInv'
  OBVIOUS
<1> USE Names DEF TypeOK, LockInv, MaybeRequest, Running, Holding, Ended, Goto
<1>1. CASE Crash
  BY <1>1 DEF Crash, InFlight
<1>2. ASSUME NEW r \in Requests, Arrive(r) PROVE LockInv'
  <2> PICK m \in Messages : Replay(r, m) \/ Classify(r, m)
    BY <1>2 DEF Arrive
  <2>1. CASE Replay(r, m)
    BY <2>1 DEF Replay, Receive, Answers
  <2>2. CASE Classify(r, m)
    BY <2>2 DEF Classify, Receive, Attachments
  <2>3. QED
    BY <2>1, <2>2
<1>3. ASSUME NEW r \in Requests, Finds(r) PROVE LockInv'
  <2>1. CASE \E p \in Requests : FindsProject(r, p)
    BY <2>1 DEF FindsProject
  <2>2. CASE FindsNoProject(r)
    BY <2>2 DEF FindsNoProject
  <2>3. CASE CreateProject(r)
    BY <2>3 DEF CreateProject
  <2>4. QED
    BY <1>3, <2>1, <2>2, <2>3 DEF Finds
<1>4. ASSUME NEW r \in Requests, Writes(r) PROVE LockInv'
  BY <1>4 DEF Writes, ReplyWrites, RfqWrites, Locks
<1>5. ASSUME NEW r \in Requests, Commits(r) PROVE LockInv'
  BY <1>5 DEF Commits, ExecuteStatus, ReplyCommits, RfqCommits, Executes, Locks
<1>6. ASSUME NEW r \in Requests, GltgAnswers(r) PROVE LockInv'
  BY <1>6 DEF GltgAnswers
<1>7. ASSUME NEW r \in Requests, Gives(r) PROVE LockInv'
  BY <1>7 DEF Gives, ReplyRaises, RfqRaises, GltgRaises, LockTimeout, Raises
<1>8. ASSUME NEW r \in Requests, Records(r) PROVE LockInv'
  <2>1. CASE RecordCheck(r)
    BY <2>1 DEF RecordCheck, Answers
  <2>2. CASE RecordInsert(r)
    BY <2>2 DEF RecordInsert, Answers
  <2>3. CASE RecordCommit(r)
    BY <2>3 DEF RecordCommit, Answers
  <2>4. QED
    BY <1>8, <2>1, <2>2, <2>3 DEF Records
<1>9. CASE UNCHANGED vars
  BY <1>9 DEF vars
<1>10. QED
  BY <1>1, <1>2, <1>3, <1>4, <1>5, <1>6, <1>7, <1>8, <1>9, NextSteps

(* No request has begun.                                                   *)
LEMMA MessageInit == Init => MessageInv
  BY DEF Init, MessageInv

(* A request receives its message with its first step, and only then.      *)
LEMMA MessageStep == TypeOK /\ MessageInv /\ [Next]_vars => MessageInv'
<1> SUFFICES ASSUME TypeOK, MessageInv, [Next]_vars PROVE MessageInv'
  OBVIOUS
<1> USE Names DEF TypeOK, MessageInv, MaybeRequest, Running, Holding, Ended, Goto
<1>1. CASE Crash
  BY <1>1 DEF Crash, InFlight
<1>2. ASSUME NEW r \in Requests, Arrive(r) PROVE MessageInv'
  <2> PICK m \in Messages : Replay(r, m) \/ Classify(r, m)
    BY <1>2 DEF Arrive
  <2>1. CASE Replay(r, m)
    BY <2>1 DEF Replay, Receive, Answers
  <2>2. CASE Classify(r, m)
    BY <2>2 DEF Classify, Receive
  <2>3. QED
    BY <2>1, <2>2
<1>3. ASSUME NEW r \in Requests, Finds(r) PROVE MessageInv'
  <2>1. CASE \E p \in Requests : FindsProject(r, p)
    BY <2>1 DEF FindsProject
  <2>2. CASE FindsNoProject(r)
    BY <2>2 DEF FindsNoProject
  <2>3. CASE CreateProject(r)
    BY <2>3 DEF CreateProject
  <2>4. QED
    BY <1>3, <2>1, <2>2, <2>3 DEF Finds
<1>4. ASSUME NEW r \in Requests, Writes(r) PROVE MessageInv'
  BY <1>4 DEF Writes, ReplyWrites, RfqWrites, Locks
<1>5. ASSUME NEW r \in Requests, Commits(r) PROVE MessageInv'
  BY <1>5 DEF Commits, ExecuteStatus, ReplyCommits, RfqCommits, Executes, Locks
<1>6. ASSUME NEW r \in Requests, GltgAnswers(r) PROVE MessageInv'
  BY <1>6 DEF GltgAnswers
<1>7. ASSUME NEW r \in Requests, Gives(r) PROVE MessageInv'
  BY <1>7 DEF Gives, ReplyRaises, RfqRaises, GltgRaises, LockTimeout, Raises
<1>8. ASSUME NEW r \in Requests, Records(r) PROVE MessageInv'
  <2>1. CASE RecordCheck(r)
    BY <2>1 DEF RecordCheck, Answers
  <2>2. CASE RecordInsert(r)
    BY <2>2 DEF RecordInsert, Answers
  <2>3. CASE RecordCommit(r)
    BY <2>3 DEF RecordCommit, Answers
  <2>4. QED
    BY <1>8, <2>1, <2>2, <2>3 DEF Records
<1>9. CASE UNCHANGED vars
  BY <1>9 DEF vars
<1>10. QED
  BY <1>1, <1>2, <1>3, <1>4, <1>5, <1>6, <1>7, <1>8, <1>9, NextSteps

(* No request has begun.                                                   *)
LEMMA PlaceInit == Init => PlaceInv
  BY DEF Init, PlaceInv, Recording

(* A request works on a project it found or created, executes once, and asks *)
(* the ledger under the lock before it records.                            *)
LEMMA PlaceStep == TypeOK /\ LockInv /\ MessageInv /\ PlaceInv /\ [Next]_vars => PlaceInv'
<1> SUFFICES ASSUME TypeOK, LockInv, MessageInv, PlaceInv, [Next]_vars PROVE PlaceInv'
  OBVIOUS
<1> USE Names DEF LockInv, TypeOK, MessageInv, PlaceInv, MaybeRequest, Running, Holding, Ended, Recording, Goto
<1>1. CASE Crash
  BY <1>1 DEF Crash, InFlight
<1>2. ASSUME NEW r \in Requests, Arrive(r) PROVE PlaceInv'
  <2> PICK m \in Messages : Replay(r, m) \/ Classify(r, m)
    BY <1>2 DEF Arrive
  <2>1. CASE Replay(r, m)
    BY <2>1 DEF Replay, Receive, Answers
  <2>2. CASE Classify(r, m)
    BY <2>2 DEF Classify, Receive
  <2>3. QED
    BY <2>1, <2>2
<1>3. ASSUME NEW r \in Requests, Finds(r) PROVE PlaceInv'
  <2>1. CASE \E p \in Requests : FindsProject(r, p)
    BY <2>1 DEF FindsProject, Candidates, Latest, OfConversation
  <2>2. CASE FindsNoProject(r)
    BY <2>2 DEF FindsNoProject
  <2>3. CASE CreateProject(r)
    BY <2>3 DEF CreateProject
  <2>4. QED
    BY <1>3, <2>1, <2>2, <2>3 DEF Finds
<1>4. ASSUME NEW r \in Requests, Writes(r) PROVE PlaceInv'
  BY <1>4 DEF Writes, ReplyWrites, RfqWrites, Locks
<1>5. ASSUME NEW r \in Requests, Commits(r) PROVE PlaceInv'
  BY <1>5 DEF Commits, ExecuteStatus, ReplyCommits, RfqCommits, Executes, Locks
<1>6. ASSUME NEW r \in Requests, GltgAnswers(r) PROVE PlaceInv'
  BY <1>6 DEF GltgAnswers
<1>7. ASSUME NEW r \in Requests, Gives(r) PROVE PlaceInv'
  BY <1>7 DEF Gives, ReplyRaises, RfqRaises, GltgRaises, LockTimeout, Raises
<1>8. ASSUME NEW r \in Requests, Records(r) PROVE PlaceInv'
  <2>1. CASE RecordCheck(r)
    BY <2>1 DEF RecordCheck, Answers, Recorded
  <2>2. CASE RecordInsert(r)
    BY <2>2 DEF RecordInsert, Answers, Recorded
  <2>3. CASE RecordCommit(r)
    BY <2>3, KeyOfMessage DEF RecordCommit, Answers
  <2>4. QED
    BY <1>8, <2>1, <2>2, <2>3 DEF Records
<1>9. CASE UNCHANGED vars
  BY <1>9 DEF vars
<1>10. QED
  BY <1>1, <1>2, <1>3, <1>4, <1>5, <1>6, <1>7, <1>8, <1>9, NextSteps

(* Nothing is bound.                                                       *)
LEMMA LinkInit == Init => LinkInv
  BY DEF Init, LinkInv

(* A message that is classified leads to a project it names or to one of   *)
(* its conversation; the links of requests that have begun stay.           *)
LEMMA LinkClassify ==
  ASSUME TypeOK, MessageInv, PlaceInv, LinkInv, NEW r \in Requests, NEW m \in Messages,
         Classify(r, m)
  PROVE  LinkInv'
<1>1. /\ UNCHANGED <<projects, bindings, project>>
      /\ msg' = [msg EXCEPT ![r] = m]
      /\ msg[r] = NoMessage
      /\ ~Begun(r)
  BY Names DEF Classify, Receive, TypeOK, MessageInv, Begun
<1>2. PICK p \in Attachments(m) : attached' = [attached EXCEPT ![r] = p]
  BY DEF Classify
<1>3. p = NoRequest \/ (p \in projects /\ (m.named \/ msg[p].conv = m.conv))
  BY <1>2 DEF Attachments, Latest, OfConversation
<1>4. ASSUME NEW s \in Requests, s # r PROVE msg'[s] = msg[s] /\ attached'[s] = attached[s]
  BY <1>1, <1>2, <1>4 DEF TypeOK
<1>5. msg'[r] = m /\ attached'[r] = p
  BY <1>1, <1>2 DEF TypeOK
<1>6. ASSUME NEW s \in Requests, Begun(s) PROVE Begun(s)' /\ msg'[s] = msg[s]
  BY <1>1, <1>4, <1>6 DEF Begun
<1>7. ASSUME NEW d, NEW q, Leads(d, q) PROVE Leads(d, q)'
  <2>1. Begun(q)' /\ msg'[q] = msg[q]
    BY <1>6, <1>7 DEF Leads, Begun
  <2>2. CASE msg[q].conv = d
    BY <2>1, <2>2 DEF Leads, Linked
  <2>3. CASE \E s \in Requests : msg[s] # NoMessage /\ msg[s].conv = d /\ msg[s].named
                                /\ attached[s] = q
    BY <1>1, <1>4, <2>1, <2>3 DEF Leads, Linked
  <2>4. QED
    BY <1>7, <2>2, <2>3 DEF Leads, Linked
<1>8. Begun(r)'
  BY <1>5 DEF Begun
<1>9. p # NoRequest => Leads(m.conv, p)'
  <2> SUFFICES ASSUME p # NoRequest PROVE Leads(m.conv, p)'
    OBVIOUS
  <2>1. p \in projects /\ Begun(p) /\ Begun(p)' /\ msg'[p] = msg[p]
    BY <1>3, <1>6 DEF LinkInv, Begun
  <2>2. CASE m.named
    BY <1>5, <2>1, <2>2, Names DEF Leads, Linked
  <2>3. CASE msg[p].conv = m.conv
    BY <2>1, <2>3 DEF Leads, Linked
  <2>4. QED
    BY <1>3, <2>2, <2>3
<1>10. project[r] = NoRequest
  BY <1>1 DEF LinkInv
<1>11. ASSUME NEW s \in Requests
       PROVE  /\ attached'[s] # NoRequest => Begun(s)' /\ Leads(msg[s].conv, attached[s])'
              /\ project'[s] # NoRequest => Begun(s)' /\ Leads(msg[s].conv, project[s])'
  <2>1. CASE s = r
    BY <1>1, <1>5, <1>8, <1>9, <1>10, <2>1
  <2>2. CASE s # r
    BY <1>1, <1>4, <1>6, <1>7, <2>2 DEF LinkInv
  <2>3. QED
    BY <2>1, <2>2
<1>12. \A q \in projects' : Begun(q)'
  BY <1>1, <1>6 DEF LinkInv, Begun
<1>13. \A d \in Conversations : bindings'[d] # NoRequest => Leads(d, bindings[d])'
  BY <1>1, <1>7 DEF LinkInv
<1>14. QED
  BY <1>11, <1>12, <1>13 DEF LinkInv

(* Bindings and attachments stay within what was created or named.         *)
LEMMA LinkStep == TypeOK /\ MessageInv /\ PlaceInv /\ LinkInv /\ [Next]_vars => LinkInv'
<1> SUFFICES ASSUME TypeOK, MessageInv, PlaceInv, LinkInv, [Next]_vars PROVE LinkInv'
  OBVIOUS
<1> USE Names DEF LinkInv, Leads, Linked, Begun, Conversations, TypeOK, MessageInv, PlaceInv, MaybeRequest, Running, Holding, Ended, Recording, Goto
<1>1. CASE Crash
  BY <1>1 DEF Crash, InFlight
<1>2. ASSUME NEW r \in Requests, Arrive(r) PROVE LinkInv'
  <2> PICK m \in Messages : Replay(r, m) \/ Classify(r, m)
    BY <1>2 DEF Arrive
  <2>1. CASE Replay(r, m)
    BY <2>1 DEF Replay, Receive, Answers
  <2>2. CASE Classify(r, m)
    BY <2>2, LinkClassify
  <2>3. QED
    BY <2>1, <2>2
<1>3. ASSUME NEW r \in Requests, Finds(r) PROVE LinkInv'
  <2>1. CASE \E p \in Requests : FindsProject(r, p)
    BY <2>1, SMTT(20) DEF FindsProject, Candidates, Latest, OfConversation, Hint
  <2>2. CASE FindsNoProject(r)
    BY <2>2 DEF FindsNoProject
  <2>3. CASE CreateProject(r)
    BY <2>3 DEF CreateProject
  <2>4. QED
    BY <1>3, <2>1, <2>2, <2>3 DEF Finds
<1>4. ASSUME NEW r \in Requests, Writes(r) PROVE LinkInv'
  BY <1>4, SMTT(20) DEF Writes, ReplyWrites, RfqWrites, Locks
<1>5. ASSUME NEW r \in Requests, Commits(r) PROVE LinkInv'
  <2>1. pc[r] # "new" /\ UNCHANGED <<msg, attached, bindings, project>>
    BY <1>5 DEF Commits, ExecuteStatus, ReplyCommits, RfqCommits, Locks
  <2>2. projects' \subseteq projects \cup {r}
    BY <1>5 DEF Commits, ExecuteStatus, ReplyCommits, RfqCommits, Executes
  <2>3. QED
    BY <2>1, <2>2
<1>6. ASSUME NEW r \in Requests, GltgAnswers(r) PROVE LinkInv'
  BY <1>6 DEF GltgAnswers
<1>7. ASSUME NEW r \in Requests, Gives(r) PROVE LinkInv'
  BY <1>7 DEF Gives, ReplyRaises, RfqRaises, GltgRaises, LockTimeout, Raises
<1>8. ASSUME NEW r \in Requests, Records(r) PROVE LinkInv'
  <2>1. CASE RecordCheck(r)
    BY <2>1 DEF RecordCheck, Answers
  <2>2. CASE RecordInsert(r)
    BY <2>2 DEF RecordInsert, Answers
  <2>3. CASE RecordCommit(r)
    BY <2>3 DEF RecordCommit, Answers
  <2>4. QED
    BY <1>8, <2>1, <2>2, <2>3 DEF Records
<1>9. CASE UNCHANGED vars
  BY <1>9 DEF vars
<1>10. QED
  BY <1>1, <1>2, <1>3, <1>4, <1>5, <1>6, <1>7, <1>8, <1>9, NextSteps

(* The ledger is empty.                                                    *)
LEMMA LedgerInit == Init => LedgerInv
  BY DEF Init, LedgerInv

(* Only a committed execution is recorded, under its own key.              *)
LEMMA LedgerStep == TypeOK /\ MessageInv /\ PlaceInv /\ LedgerInv /\ [Next]_vars => LedgerInv'
<1> SUFFICES ASSUME TypeOK, MessageInv, PlaceInv, LedgerInv, [Next]_vars PROVE LedgerInv'
  OBVIOUS
<1> USE Names DEF LedgerInv, TypeOK, MessageInv, PlaceInv, MaybeRequest, Running, Holding, Ended, Recording, Goto
<1>1. CASE Crash
  BY <1>1 DEF Crash, InFlight
<1>2. ASSUME NEW r \in Requests, Arrive(r) PROVE LedgerInv'
  <2> PICK m \in Messages : Replay(r, m) \/ Classify(r, m)
    BY <1>2 DEF Arrive
  <2>1. CASE Replay(r, m)
    BY <2>1 DEF Replay, Receive, Answers
  <2>2. CASE Classify(r, m)
    BY <2>2 DEF Classify, Receive
  <2>3. QED
    BY <2>1, <2>2
<1>3. ASSUME NEW r \in Requests, Finds(r) PROVE LedgerInv'
  <2>1. CASE \E p \in Requests : FindsProject(r, p)
    BY <2>1 DEF FindsProject
  <2>2. CASE FindsNoProject(r)
    BY <2>2 DEF FindsNoProject
  <2>3. CASE CreateProject(r)
    BY <2>3 DEF CreateProject
  <2>4. QED
    BY <1>3, <2>1, <2>2, <2>3 DEF Finds
<1>4. ASSUME NEW r \in Requests, Writes(r) PROVE LedgerInv'
  BY <1>4 DEF Writes, ReplyWrites, RfqWrites, Locks
<1>5. ASSUME NEW r \in Requests, Commits(r) PROVE LedgerInv'
  BY <1>5 DEF Commits, ExecuteStatus, ReplyCommits, RfqCommits, Executes, Locks
<1>6. ASSUME NEW r \in Requests, GltgAnswers(r) PROVE LedgerInv'
  BY <1>6 DEF GltgAnswers
<1>7. ASSUME NEW r \in Requests, Gives(r) PROVE LedgerInv'
  BY <1>7 DEF Gives, ReplyRaises, RfqRaises, GltgRaises, LockTimeout, Raises
<1>8. ASSUME NEW r \in Requests, Records(r) PROVE LedgerInv'
  <2>1. CASE RecordCheck(r)
    BY <2>1 DEF RecordCheck, Answers
  <2>2. CASE RecordInsert(r)
    BY <2>2 DEF RecordInsert, Answers
  <2>3. CASE RecordCommit(r)
    BY <2>3, KeyOfMessage DEF RecordCommit, Answers
  <2>4. QED
    BY <1>8, <2>1, <2>2, <2>3 DEF Records
<1>9. CASE UNCHANGED vars
  BY <1>9 DEF vars
<1>10. QED
  BY <1>1, <1>2, <1>3, <1>4, <1>5, <1>6, <1>7, <1>8, <1>9, NextSteps

(* Nothing is answered.                                                    *)
LEMMA AnswerInit == Init => AnswerInv
  BY DEF Init, AnswerInv

(* An answer is the ledger's, or the execution of the request itself.      *)
LEMMA AnswerStep == TypeOK /\ MessageInv /\ PlaceInv /\ LedgerInv /\ AnswerInv /\ [Next]_vars => AnswerInv'
<1> SUFFICES ASSUME TypeOK, MessageInv, PlaceInv, LedgerInv, AnswerInv, [Next]_vars PROVE AnswerInv'
  OBVIOUS
<1> USE Names DEF LedgerInv, AnswerInv, TypeOK, MessageInv, PlaceInv, MaybeRequest, Running, Holding, Ended, Recording, Goto
<1>1. CASE Crash
  BY <1>1 DEF Crash, InFlight
<1>2. ASSUME NEW r \in Requests, Arrive(r) PROVE AnswerInv'
  <2> PICK m \in Messages : Replay(r, m) \/ Classify(r, m)
    BY <1>2 DEF Arrive
  <2>1. CASE Replay(r, m)
    BY <2>1, KeyOfMessage DEF Replay, Receive, Answers, Recorded
  <2>2. CASE Classify(r, m)
    BY <2>2 DEF Classify, Receive
  <2>3. QED
    BY <2>1, <2>2
<1>3. ASSUME NEW r \in Requests, Finds(r) PROVE AnswerInv'
  <2>1. CASE \E p \in Requests : FindsProject(r, p)
    BY <2>1 DEF FindsProject
  <2>2. CASE FindsNoProject(r)
    BY <2>2 DEF FindsNoProject
  <2>3. CASE CreateProject(r)
    BY <2>3 DEF CreateProject
  <2>4. QED
    BY <1>3, <2>1, <2>2, <2>3 DEF Finds
<1>4. ASSUME NEW r \in Requests, Writes(r) PROVE AnswerInv'
  BY <1>4 DEF Writes, ReplyWrites, RfqWrites, Locks
<1>5. ASSUME NEW r \in Requests, Commits(r) PROVE AnswerInv'
  BY <1>5 DEF Commits, ExecuteStatus, ReplyCommits, RfqCommits, Executes, Locks
<1>6. ASSUME NEW r \in Requests, GltgAnswers(r) PROVE AnswerInv'
  BY <1>6 DEF GltgAnswers
<1>7. ASSUME NEW r \in Requests, Gives(r) PROVE AnswerInv'
  BY <1>7 DEF Gives, ReplyRaises, RfqRaises, GltgRaises, LockTimeout, Raises
<1>8. ASSUME NEW r \in Requests, Records(r) PROVE AnswerInv'
  <2>1. CASE RecordCheck(r)
    BY <2>1 DEF RecordCheck, Answers, Recorded
  <2>2. CASE RecordInsert(r)
    BY <2>2 DEF RecordInsert, Answers, Recorded
  <2>3. CASE RecordCommit(r)
    BY <2>3, KeyOfMessage DEF RecordCommit, Answers
  <2>4. QED
    BY <1>8, <2>1, <2>2, <2>3 DEF Records
<1>9. CASE UNCHANGED vars
  BY <1>9 DEF vars
<1>10. QED
  BY <1>1, <1>2, <1>3, <1>4, <1>5, <1>6, <1>7, <1>8, <1>9, NextSteps

-----------------------------------------------------------------------------
(* The inductive invariant and what follows from it.                       *)

(* Every reachable state satisfies the inductive invariant.                *)
THEOREM Invariance == Spec => []IInv
<1>1. Init => IInv
  BY TypeInit, LockInit, MessageInit, PlaceInit, LinkInit, LedgerInit, AnswerInit DEF IInv
<1>2. IInv /\ [Next]_vars => IInv'
  BY TypeStep, LockStep, MessageStep, PlaceStep, LinkStep, LedgerStep, AnswerStep DEF IInv
<1>3. QED
  BY <1>1, <1>2, PTL DEF Spec

(* The ledger, the projects and the requests stay within their types.      *)
THEOREM TypeCorrect == Spec => []TypeOK
  BY Invariance, PTL DEF IInv

(* What the ledger replays is a committed execution of its key, on a       *)
(* committed project.                                                      *)
THEOREM LedgerRecordsExecutions == Spec => []LedgerIsBacked
<1>1. IInv => LedgerIsBacked
  BY DEF IInv, LedgerInv, PlaceInv, LedgerIsBacked
<1>2. QED
  BY <1>1, Invariance, PTL

(* A request is answered with a committed execution of its own message.    *)
THEOREM AnswersAreExecutions == Spec => []AnsweredWasExecuted
<1>1. ASSUME IInv, NEW r \in Requests, pc[r] = "done"
      PROVE  answer[r] \in executed /\ SameMessage(msg[r], msg[answer[r]])
  <2>1. answer[r] \in executed /\ Key(msg[r]) = Key(msg[answer[r]])
    BY <1>1 DEF IInv, AnswerInv
  <2>2. msg[r] \in Messages
    BY <1>1 DEF IInv, TypeOK, MessageInv
  <2>3. msg[answer[r]] \in Messages
    BY <1>1, <2>1 DEF IInv, TypeOK, MessageInv, PlaceInv, Recording, Ended
  <2>4. QED
    BY <2>1, <2>2, <2>3, SameKey
<1>2. IInv => AnsweredWasExecuted
  BY <1>1 DEF AnsweredWasExecuted
<1>3. QED
  BY <1>2, Invariance, PTL

(* An execution works on a committed project that its conversation created *)
(* or named.                                                               *)
THEOREM ExecutionsStayInConversation == Spec => []WorkStaysInConversation
<1>1. IInv => WorkStaysInConversation
  BY Names DEF IInv, TypeOK, PlaceInv, LinkInv, Leads, WorkStaysInConversation
<1>2. QED
  BY <1>1, Invariance, PTL

(* Only the commit of a record changes the ledger.                         *)
LEMMA LedgerChanges == [Next]_vars => UNCHANGED ledger \/ \E r \in Requests : RecordCommit(r)
  BY DEF Next, Arrive, Proceed, vars, Crash, Replay, Classify, Receive, FindsProject,
         FindsNoProject, CreateProject, ExecuteStatus, ReplyWrites, ReplyCommits, RfqWrites,
         RfqCommits, GltgAnswers, ReplyRaises, RfqRaises, GltgRaises, LockTimeout, Raises,
         RecordCheck, RecordInsert

(* A recorded result is never replaced.                                    *)
THEOREM RecordsStand == Spec => LedgerWriteOnce
<1>1. IInv /\ [Next]_vars =>
        [\A k \in Keys : ledger[k] # NoRequest => ledger'[k] = ledger[k]]_vars
  BY LedgerChanges DEF IInv, TypeOK, PlaceInv, Recording, RecordCommit
<1>2. QED
  BY <1>1, Invariance, PTL DEF Spec, LedgerWriteOnce

-----------------------------------------------------------------------------
(* After the answer.                                                       *)

(* What a step may do to request s: an answer and a message stay, a        *)
(* request comes into flight only with an unrecorded key, and only one in  *)
(* flight executes or notifies.                                            *)
Moves(s) ==
  /\ pc[s] = "done" => pc'[s] = "done"
  /\ msg[s] # NoMessage => msg'[s] = msg[s]
  /\ s \in InFlight' => s \in InFlight \/ ~Recorded(msg'[s])
  /\ s \in executed' <=> s \in executed \/ (s \in InFlight /\ s \in executed')
  /\ s \in notified' <=> s \in notified \/ (s \in InFlight /\ s \in notified')

(* Every step moves every request so.                                      *)
LEMMA MovesStep ==
  ASSUME TypeOK, MessageInv, [Next]_vars, NEW s \in Requests
  PROVE  Moves(s)
<1> USE Names DEF TypeOK, MessageInv, MaybeRequest, Moves, InFlight, Running, Holding, Ended, Goto
<1>1. CASE Crash
  BY <1>1 DEF Crash, InFlight
<1>2. ASSUME NEW r \in Requests, Arrive(r) PROVE Moves(s)
  <2> PICK m \in Messages : Replay(r, m) \/ Classify(r, m)
    BY <1>2 DEF Arrive
  <2>1. CASE Replay(r, m)
    BY <2>1 DEF Replay, Receive, Answers
  <2>2. CASE Classify(r, m)
    BY <2>2 DEF Classify, Receive
  <2>3. QED
    BY <2>1, <2>2
<1>3. ASSUME NEW r \in Requests, Finds(r) PROVE Moves(s)
  <2>1. CASE \E p \in Requests : FindsProject(r, p)
    BY <2>1 DEF FindsProject
  <2>2. CASE FindsNoProject(r)
    BY <2>2 DEF FindsNoProject
  <2>3. CASE CreateProject(r)
    BY <2>3 DEF CreateProject
  <2>4. QED
    BY <1>3, <2>1, <2>2, <2>3 DEF Finds
<1>4. ASSUME NEW r \in Requests, Writes(r) PROVE Moves(s)
  BY <1>4 DEF Writes, ReplyWrites, RfqWrites, Locks
<1>5. ASSUME NEW r \in Requests, Commits(r) PROVE Moves(s)
  BY <1>5 DEF Commits, ExecuteStatus, ReplyCommits, RfqCommits, Executes, Locks
<1>6. ASSUME NEW r \in Requests, GltgAnswers(r) PROVE Moves(s)
  BY <1>6 DEF GltgAnswers
<1>7. ASSUME NEW r \in Requests, Gives(r) PROVE Moves(s)
  BY <1>7 DEF Gives, ReplyRaises, RfqRaises, GltgRaises, LockTimeout, Raises
<1>8. ASSUME NEW r \in Requests, Records(r) PROVE Moves(s)
  <2>1. CASE RecordCheck(r)
    BY <2>1 DEF RecordCheck, Answers, Recorded
  <2>2. CASE RecordInsert(r)
    BY <2>2 DEF RecordInsert, Answers, Recorded
  <2>3. CASE RecordCommit(r)
    BY <2>3 DEF RecordCommit, Answers
  <2>4. QED
    BY <1>8, <2>1, <2>2, <2>3 DEF Records
<1>9. CASE UNCHANGED vars
  BY <1>9 DEF vars
<1>10. QED
  BY <1>1, <1>2, <1>3, <1>4, <1>5, <1>6, <1>7, <1>8, <1>9, NextSteps

(* An event whose delivery was answered, and of which no delivery is in    *)
(* flight, is never executed and never notified again.                     *)
THEOREM AcknowledgedEventsAreFinal == Spec => AcknowledgedIsFinal
<1> DEFINE Final(k) == /\ Acknowledged(k)'
                       /\ OfKey(executed, k)' = OfKey(executed, k)
                       /\ OfKey(notified, k)' = OfKey(notified, k)
<1>1. ASSUME IInv, [Next]_vars, NEW k \in Keys, Acknowledged(k)
      PROVE  Final(k)
  <2>1. PICK r \in Requests : pc[r] = "done" /\ Key(msg[r]) = k
    BY <1>1 DEF Acknowledged
  <2>2. ledger[k] # NoRequest /\ k # NoKey
    BY <1>1, <2>1 DEF IInv, AnswerInv, Keys
  <2>3. \A s \in Requests : Moves(s)
    BY <1>1, MovesStep DEF IInv
  <2>4. pc'[r] = "done" /\ Key(msg'[r]) = k
    BY <1>1, <2>1, <2>3 DEF Moves, IInv, MessageInv
  <2>5. \A s \in InFlight : Key(msg[s]) # k /\ msg'[s] = msg[s]
    BY <1>1, <2>3 DEF Acknowledged, Moves, IInv, MessageInv, InFlight, Running, Holding
  <2>6. ledger'[k] = ledger[k]
    BY <1>1, <2>2, LedgerChanges DEF IInv, TypeOK, PlaceInv, Recording, RecordCommit
  <2>7. ASSUME NEW s \in InFlight' PROVE Key(msg'[s]) # k
    <3>1. s \in InFlight \/ ~Recorded(msg'[s])
      BY <2>3, <2>7 DEF Moves, InFlight
    <3>2. QED
      BY <2>2, <2>5, <3>1 DEF Recorded
  <2>8. Acknowledged(k)'
    BY <2>4, <2>7 DEF Acknowledged
  <2>9. ASSUME NEW R, NEW S, R \subseteq Requests, S \subseteq Requests,
               \A s \in R : pc[s] # "new",
               \A s \in Requests : s \in S <=> s \in R \/ (s \in InFlight /\ s \in S)
        PROVE  {s \in S : Key(msg'[s]) = k} = {s \in R : Key(msg[s]) = k}
    <3>1. \A s \in R : msg'[s] = msg[s]
      BY <1>1, <2>3, <2>9 DEF Moves, IInv, MessageInv
    <3>2. QED
      BY <2>5, <2>9, <3>1
  <2>10. OfKey(executed, k)' = OfKey(executed, k)
    BY <1>1, <2>3, <2>9, TypeStep
       DEF OfKey, Moves, IInv, TypeOK, PlaceInv, Recording, Ended
  <2>11. OfKey(notified, k)' = OfKey(notified, k)
    BY <1>1, <2>3, <2>9, TypeStep DEF OfKey, Moves, IInv, TypeOK, PlaceInv
  <2>12. QED
    BY <2>8, <2>10, <2>11
<1>2. IInv /\ [Next]_vars => [\A k \in Keys : Acknowledged(k) => Final(k)]_vars
  BY <1>1
<1>3. QED
  BY <1>2, Invariance, PTL DEF Spec, AcknowledgedIsFinal
=============================================================================
