--------------------------- MODULE DraftApproval ---------------------------
(***************************************************************************)
(* Human approval of outbound drafts in Aivan (src/src/aivan).             *)
(*                                                                         *)
(* Every outbound message is a row of inquiry_drafts.  FastAPI runs the    *)
(* synchronous handlers that change those rows in a thread pool, one       *)
(* SQLAlchemy session each, over one SQLite database:                      *)
(*   approve   POST /drafts/{id}/approve: load, check, UPDATE, send, commit*)
(*   reject    POST /drafts/{id}/reject : load, check, UPDATE, commit      *)
(*   reply     a supplier reply: supersede the pending customer quotes and *)
(*             create a new one, ask GLTG, commit                          *)
(*   rfq       a user or customer message: create supplier inquiries, send *)
(*             the user a notice, commit                                   *)
(* SQLite lets one transaction write at a time: the first INSERT or UPDATE *)
(* of a session takes the write lock and commit or rollback frees it.      *)
(* SELECTs run outside the transaction and see the last commit; a row that *)
(* a session has loaded keeps the loaded attributes (the identity map),    *)
(* so what a handler checked may be stale by the time it writes.           *)
(***************************************************************************)
EXTENDS Naturals, FiniteSets

CONSTANTS
  InquiryDrafts,   \* ids of supplier inquiries and other counterparty drafts
  QuoteDrafts,     \* ids of customer quote emails
  NoticeDrafts,    \* ids of user-control notices (target_role "user")
  ImDrafts,        \* inquiries addressed over IM (trade_salesperson_agent)
  Requests,        \* HTTP requests, each handled once
  NoRequest, NoDraft,
  MaxActive,       \* worker threads: requests handled at the same time
  MaxCrashes       \* bound: process crashes in a behaviour

Drafts == InquiryDrafts \cup QuoteDrafts \cup NoticeDrafts

ASSUME DraftKinds ==
  /\ InquiryDrafts \cap QuoteDrafts = {}
  /\ InquiryDrafts \cap NoticeDrafts = {}
  /\ QuoteDrafts \cap NoticeDrafts = {}
  /\ ImDrafts \subseteq InquiryDrafts
  /\ NoDraft \notin Drafts
ASSUME RequestNames == NoRequest \notin Requests
ASSUME Bounds == MaxActive \in Nat \ {0} /\ MaxCrashes \in Nat

VARIABLES
  stored,     \* committed status of each row
  working,    \* status of each row as the writing transaction sees it
  writer,     \* the request whose transaction holds the write lock
  pc,         \* where each request is
  op,         \* what each request does
  target,     \* the draft a request approves, rejects or sends
  loaded,     \* status of target in the request's session (identity map)
  delivered,  \* pairs <<d, r>>: r's send of d reached the channel
  crashes     \* process crashes so far

vars == <<stored, working, writer, pc, op, target, loaded, delivered, crashes>>

Status == {"absent", "pending_approval", "approved", "sent", "rejected", "superseded"}
Decided == Status \ {"absent", "pending_approval"}
Waiting == {"approving", "rejecting", "replying", "planning"}  \* no lock yet
Writing == {"sending", "quoting", "drafting", "simulating", "notifying",
            "committing"}
Ended   == {"done", "conflict", "failed", "lost"}

TypeOK ==
  /\ stored \in [Drafts -> Status]
  /\ working \in [Drafts -> Status]
  /\ writer \in Requests \cup {NoRequest}
  /\ pc \in [Requests -> {"new"} \cup Waiting \cup Writing \cup Ended]
  /\ op \in [Requests -> {"none", "approve", "reject", "reply", "rfq"}]
  /\ target \in [Requests -> Drafts \cup {NoDraft}]
  /\ loaded \in [Requests -> Status]
  /\ delivered \subseteq (Drafts \X Requests)
  /\ crashes \in 0 .. MaxCrashes

InFlight == {r \in Requests : pc[r] \in Waiting \cup Writing}

PendingQuotes(row) == {q \in QuoteDrafts : row[q] = "pending_approval"}

(* Earlier traffic may have left drafts that wait for approval; only one   *)
(* of them is a customer quote.                                            *)
Init ==
  /\ stored \in {f \in [Drafts -> {"absent", "pending_approval"}] :
                   /\ \A n \in NoticeDrafts : f[n] = "absent"
                   /\ \A p, q \in PendingQuotes(f) : p = q}
  /\ working = stored
  /\ writer = NoRequest
  /\ pc = [r \in Requests |-> "new"]
  /\ op = [r \in Requests |-> "none"]
  /\ target = [r \in Requests |-> NoDraft]
  /\ loaded = [r \in Requests |-> "absent"]
  /\ delivered = {}
  /\ crashes = 0

-----------------------------------------------------------------------------
(* Transactions (SQLite and the SQLAlchemy session, external).             *)

Goto(r, label) == pc' = [pc EXCEPT ![r] = label]

(* The first write of r's session: it waits until no other transaction     *)
(* writes, and starts from the last commit.                                *)
TakesLock(r) == writer = NoRequest /\ writer' = r

Rollback == working' = stored /\ writer' = NoRequest

(* sqlite3's busy timeout: "database is locked" after five seconds.        *)
LockTimeout(r) ==
  /\ pc[r] \in Waiting
  /\ writer # NoRequest
  /\ Goto(r, "failed")
  /\ UNCHANGED <<stored, working, writer, op, target, loaded, delivered, crashes>>

Commit(r) ==
  /\ pc[r] = "committing"
  /\ stored' = working
  /\ writer' = NoRequest
  /\ Goto(r, "done")
  /\ UNCHANGED <<working, op, target, loaded, delivered, crashes>>

(* A request occupies one worker thread from its first statement on.       *)
Begins(r, kind, label) ==
  /\ pc[r] = "new"
  /\ Cardinality(InFlight) < MaxActive
  /\ op' = [op EXCEPT ![r] = kind]
  /\ Goto(r, label)

-----------------------------------------------------------------------------
(* Approve: _do_approve_draft, DraftRepository.approve, send_if_approved.  *)

(* The handler loads the row and answers 404 or 409 unless it is pending.  *)
LoadsTarget(r, d) ==
  /\ target' = [target EXCEPT ![r] = d]
  /\ loaded' = [loaded EXCEPT ![r] = stored[d]]
  /\ UNCHANGED <<stored, working, writer, delivered, crashes>>

(* Mutant: the handler does not look at the status it loaded.              *)
ApproveAnyStatus(r, d) ==
  /\ Begins(r, "approve", "approving")
  /\ target' = [target EXCEPT ![r] = d]
  /\ loaded' = [loaded EXCEPT ![r] = "pending_approval"]
  /\ UNCHANGED <<stored, working, writer, delivered, crashes>>

ApproveLoad(r, d) ==
  /\ Begins(r, "approve", IF stored[d] = "pending_approval" THEN "approving" ELSE "conflict")
  /\ LoadsTarget(r, d)

(* DraftRepository.approve looks the row up again, but the session answers *)
(* with the object it already has; the UPDATE names the row by its key.    *)
ApproveUpdate(r) ==
  /\ pc[r] = "approving"
  /\ loaded[r] = "pending_approval"
  /\ TakesLock(r)
  /\ working' = [stored EXCEPT ![target[r]] = "approved"]
  /\ loaded' = [loaded EXCEPT ![r] = "approved"]
  /\ Goto(r, "sending")
  /\ UNCHANGED <<stored, op, target, delivered, crashes>>

(* Mutant: no channel policy.                                              *)
EveryChannelAllowed(d) == d \in Drafts

(* Channel policy: counterparties are reached by email only.  The refusal  *)
(* is a response, not an error: the draft is committed as approved.        *)
PolicyAllows(d) == d \notin ImDrafts

(* Mutant: a refused send is tried again, for ever.                        *)
RefusalRetried(r) ==
  /\ pc[r] = "sending"
  /\ loaded[r] = "approved"
  /\ ~PolicyAllows(target[r])
  /\ UNCHANGED vars

ApproveRefused(r) ==
  /\ pc[r] = "sending"
  /\ loaded[r] = "approved"
  /\ ~PolicyAllows(target[r])
  /\ Goto(r, "committing")
  /\ UNCHANGED <<stored, working, writer, op, target, loaded, delivered, crashes>>

(* A successful send and mark_sent.                                        *)
Delivers(r) ==
  /\ delivered' = delivered \cup {<<target[r], r>>}
  /\ working' = [working EXCEPT ![target[r]] = "sent"]
  /\ loaded' = [loaded EXCEPT ![r] = "sent"]
  /\ Goto(r, "committing")
  /\ UNCHANGED <<stored, writer, op, target, crashes>>

(* Mutant: the caller marks the row without reading the outcome.           *)
OutcomeIgnored(r) ==
  /\ delivered' \in {delivered, delivered \cup {<<target[r], r>>}}
  /\ working' = [working EXCEPT ![target[r]] = "sent"]
  /\ Goto(r, "committing")
  /\ UNCHANGED <<stored, writer, op, target, loaded, crashes>>

(* Mutant: a failed send puts the draft back in the queue.                 *)
FailureReopens(r) ==
  /\ delivered' \in {delivered, delivered \cup {<<target[r], r>>}}
  /\ working' = [working EXCEPT ![target[r]] = "pending_approval"]
  /\ Goto(r, "committing")
  /\ UNCHANGED <<stored, writer, op, target, loaded, crashes>>

(* A send that reports failure leaves the row as it is; after a timeout    *)
(* the message may have arrived all the same.                              *)
FailsToDeliver(r) ==
  /\ delivered' \in {delivered, delivered \cup {<<target[r], r>>}}
  /\ Goto(r, "committing")
  /\ UNCHANGED <<stored, working, writer, op, target, loaded, crashes>>

ApproveSend(r) ==
  /\ pc[r] = "sending"
  /\ loaded[r] = "approved"
  /\ PolicyAllows(target[r])
  /\ Delivers(r) \/ FailsToDeliver(r)

-----------------------------------------------------------------------------
(* Reject: _do_reject_draft, DraftRepository.reject.                       *)

RejectLoad(r, d) ==
  /\ Begins(r, "reject", IF stored[d] = "pending_approval" THEN "rejecting" ELSE "conflict")
  /\ LoadsTarget(r, d)

RejectUpdate(r) ==
  /\ pc[r] = "rejecting"
  /\ loaded[r] = "pending_approval"
  /\ TakesLock(r)
  /\ working' = [stored EXCEPT ![target[r]] = "rejected"]
  /\ loaded' = [loaded EXCEPT ![r] = "rejected"]
  /\ Goto(r, "committing")
  /\ UNCHANGED <<stored, op, target, delivered, crashes>>

-----------------------------------------------------------------------------
(* Supplier reply: _handle_supplier_reply_event.                           *)

ReplyBegins(r) ==
  /\ Begins(r, "reply", "replying")
  /\ UNCHANGED <<stored, working, writer, target, loaded, delivered, crashes>>

(* Appending EVENT_CLASSIFIED is the first write: from here on the handler *)
(* queries under the write lock.                                           *)
ReplyWrites(r) ==
  /\ pc[r] = "replying"
  /\ TakesLock(r)
  /\ working' = stored
  /\ Goto(r, "quoting")
  /\ UNCHANGED <<stored, op, target, loaded, delivered, crashes>>

(* Mutants: nothing is retired; the retired status is one the table does   *)
(* not know.                                                               *)
SupersedeNothing(row) == row
SupersedeMisspelt(row) ==
  [d \in Drafts |-> IF d \in PendingQuotes(row) THEN "supersede" ELSE row[d]]

Supersede(row) == [d \in Drafts |-> IF d \in PendingQuotes(row) THEN "superseded" ELSE row[d]]

(* _create_customer_quote_email_draft: a reply that yields buyer options   *)
(* retires the pending quotes and drafts a new one.                        *)
ReplyQuotes(r, q) ==
  /\ pc[r] = "quoting"
  /\ q \in QuoteDrafts
  /\ working[q] = "absent"
  /\ working' = [Supersede(working) EXCEPT ![q] = "pending_approval"]
  /\ Goto(r, "simulating")
  /\ UNCHANGED <<stored, writer, op, target, loaded, delivered, crashes>>

ReplyHasNoOptions(r) ==
  /\ pc[r] = "quoting"
  /\ Goto(r, "simulating")
  /\ UNCHANGED <<stored, working, writer, op, target, loaded, delivered, crashes>>

ReplySimulated(r) ==
  /\ pc[r] = "simulating"
  /\ Goto(r, "committing")
  /\ UNCHANGED <<stored, working, writer, op, target, loaded, delivered, crashes>>

(* GLTGUnavailableError leaves the handler (the lead-time call before the  *)
(* options, or the simulation after them); get_db closes the session.      *)
ReplyRaises(r) ==
  /\ pc[r] \in {"quoting", "simulating"}
  /\ Rollback
  /\ Goto(r, "failed")
  /\ UNCHANGED <<stored, op, target, loaded, delivered, crashes>>

-----------------------------------------------------------------------------
(* RFQ: _create_rfq_from_event_inner and _send_user_control_notification.  *)

RfqBegins(r) ==
  /\ Begins(r, "rfq", "planning")
  /\ UNCHANGED <<stored, working, writer, target, loaded, delivered, crashes>>

(* A first message of a conversation: creating the project takes the lock  *)
(* before the requirement, the context and GLTG are asked for.             *)
RfqCreatesProject(r) ==
  /\ pc[r] = "planning"
  /\ TakesLock(r)
  /\ working' = stored
  /\ Goto(r, "drafting")
  /\ UNCHANGED <<stored, op, target, loaded, delivered, crashes>>

(* S is empty when a gate blocked the RFQ, no supplier has an email or a   *)
(* dependency is down; the notice n is created in every case, and it is    *)
(* already approved when the user to notify is known.                      *)
RfqDrafts(r, S, n, ownerKnown) ==
  /\ \/ pc[r] = "planning" /\ TakesLock(r)
     \/ pc[r] = "drafting" /\ UNCHANGED writer
  /\ S \subseteq {d \in InquiryDrafts \ ImDrafts : stored[d] = "absent"}
  /\ n \in NoticeDrafts
  /\ stored[n] = "absent"
  /\ working' = [d \in Drafts |->
                   IF d \in S THEN "pending_approval"
                   ELSE IF d # n THEN stored[d]
                   ELSE IF ownerKnown THEN "approved" ELSE "pending_approval"]
  /\ target' = [target EXCEPT ![r] = n]
  /\ loaded' = [loaded EXCEPT ![r] = working'[n]]
  /\ Goto(r, IF ownerKnown THEN "notifying" ELSE "committing")
  /\ UNCHANGED <<stored, op, delivered, crashes>>

(* Any other exception leaves the handler; get_db closes the session.      *)
RfqRaises(r) ==
  /\ \/ pc[r] = "planning" /\ UNCHANGED <<working, writer>>
     \/ pc[r] = "drafting" /\ Rollback
  /\ Goto(r, "failed")
  /\ UNCHANGED <<stored, op, target, loaded, delivered, crashes>>

(* The notice goes out before the transaction commits.                     *)
RfqNotify(r) ==
  /\ pc[r] = "notifying"
  /\ Delivers(r) \/ FailsToDeliver(r)

-----------------------------------------------------------------------------
(* The process dies: open transactions are rolled back, no request in      *)
(* flight is answered; the service restarts on the same database.          *)
Crash ==
  /\ crashes < MaxCrashes
  /\ InFlight # {}
  /\ crashes' = crashes + 1
  /\ pc' = [r \in Requests |-> IF r \in InFlight THEN "lost" ELSE pc[r]]
  /\ Rollback
  /\ UNCHANGED <<stored, op, target, loaded, delivered>>

Arrive(r) ==
  \/ \E d \in Drafts : ApproveLoad(r, d) \/ RejectLoad(r, d)
  \/ ReplyBegins(r)
  \/ RfqBegins(r)

Proceed(r) ==
  \/ LockTimeout(r)
  \/ ApproveUpdate(r)
  \/ ApproveRefused(r)
  \/ ApproveSend(r)
  \/ RejectUpdate(r)
  \/ ReplyWrites(r)
  \/ \E q \in QuoteDrafts : ReplyQuotes(r, q)
  \/ ReplyHasNoOptions(r)
  \/ ReplySimulated(r)
  \/ ReplyRaises(r)
  \/ RfqCreatesProject(r)
  \/ RfqRaises(r)
  \/ \E S \in SUBSET InquiryDrafts, n \in NoticeDrafts, known \in BOOLEAN :
       RfqDrafts(r, S, n, known)
  \/ RfqNotify(r)
  \/ Commit(r)

Next == Crash \/ \E r \in Requests : Arrive(r) \/ Proceed(r)

Spec == Init /\ [][Next]_vars

(* A thread that runs is scheduled, every client call times out, and a     *)
(* wait for the lock ends in the lock or in a timeout.                     *)
Fairness == \A r \in Requests : WF_vars(Proceed(r))
FairSpec == Spec /\ Fairness

-----------------------------------------------------------------------------
(* Properties.                                                             *)

(* A message leaves only through an approval request for that very draft,  *)
(* and then by email; the one exception is the notice an RFQ sends to the  *)
(* user.  Holds across crashes, retries and stale sessions.                *)
DeliveryAuthorised ==
  \A m \in delivered :
    /\ m[1] \notin ImDrafts
    /\ target[m[2]] = m[1]
    /\ op[m[2]] = "approve" \/ (op[m[2]] = "rfq" /\ m[1] \in NoticeDrafts)

(* A row that the database calls sent has reached the channel, whichever   *)
(* of the requests that raced for it committed last.                       *)
SentWasDelivered ==
  \A d \in Drafts : stored[d] = "sent" => \E r \in Requests : <<d, r>> \in delivered

(* However supplier replies interleave, at most one customer quote of the  *)
(* project waits for approval (supersede_customer_quote_drafts).           *)
OneLiveQuote == \A p, q \in PendingQuotes(stored) : p = q

(* A decision is never reopened: no commit makes a decided row pending or  *)
(* removes it, not even that of a session whose copy of the row is stale.  *)
DecisionNotReopened ==
  [][\A d \in Drafts : stored[d] \in Decided => stored'[d] \in Decided]_vars

(* The race window is exactly the overlap of requests: once a row is       *)
(* decided and no approve or reject of it is in flight, it stays so: later *)
(* requests for it are refused, its status never changes and it is never   *)
(* delivered again.                                                        *)
Settled(d) ==
  /\ stored[d] \in Decided
  /\ \A r \in InFlight : target[r] # d

SettledIsFinal ==
  [][\A d \in Drafts : Settled(d) =>
        /\ Settled(d)'
        /\ stored'[d] = stored[d]
        /\ \A r \in Requests : <<d, r>> \in delivered' => <<d, r>> \in delivered]_vars

(* Nobody waits forever: a request that arrived is answered, fails or is   *)
(* lost in a crash, although the write lock is held while messages are     *)
(* sent.                                                                   *)
EveryRequestEnds ==
  \A r \in Requests : (r \in InFlight) ~> (pc[r] \in Ended)
-----------------------------------------------------------------------------
(* Refinement.  When requests do not overlap (MaxActive = 1) and no crash  *)
(* interrupts one, drafts go through the lifecycle of DraftLifecycle.      *)
Posts(d) == Cardinality({r \in Requests : <<d, r>> \in delivered})

Lifecycle == INSTANCE DraftLifecycle WITH
               status <- stored, posts <- [d \in Drafts |-> Posts(d)]

ImplementsLifecycle == Lifecycle!Spec

-----------------------------------------------------------------------------
(* What the documentation says and overlapping requests or a failed send   *)
(* refute.                                                                 *)

(* draft_repo.py:105-106: superseding is done "so that stale drafts cannot *)
(* be approved or sent after a newer supplier reply regenerates buyer      *)
(* options".                                                               *)
SupersededStaysUnsent ==
  [][\A q \in QuoteDrafts : stored[q] = "superseded" =>
        /\ stored'[q] = "superseded"
        /\ \A r \in Requests : <<q, r>> \in delivered' => <<q, r>> \in delivered]_vars

(* approval_state.py:9-11: "a failed send must NEVER be left as            *)
(* ``approved``": a request whose send failed is answered, yet its draft   *)
(* is approved.                                                            *)
FailedSendNotApproved ==
  \A r \in Requests :
    pc[r] = "done" /\ loaded[r] = "approved" => stored[target[r]] # "approved"
=============================================================================
