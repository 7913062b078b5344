----------------------- MODULE DraftApproval_proofs -----------------------
(***************************************************************************)
(* Safety of draft approval for every set of drafts and requests, every    *)
(* number of worker threads and crashes.                                   *)
(*                                                                         *)
(* The argument: the write lock makes the uncommitted rows the property of *)
(* one request (LockInv); compared with the last commit those rows differ  *)
(* only where a decision was still open or in the row that the lock holder *)
(* targets (DirtyInv); and what a request may send is fixed by the place   *)
(* it has reached (PlaceInv).                                              *)
(*                                                                         *)
(* With one worker thread and no crash more is true: a session never holds *)
(* a stale row (SerialInv), and the handlers implement DraftLifecycle.     *)
(***************************************************************************)
EXTENDS DraftApproval, FiniteSetTheorems, TLAPS

(* Who writes holds the lock; with the lock free nothing is uncommitted.   *)
LockInv ==
  /\ \A r \in Requests : pc[r] \in Writing <=> writer = r
  /\ writer = NoRequest => working = stored

(* Uncommitted changes leave decided rows decided, and touch at most one   *)
(* of them: the target of the request that holds the lock.                 *)
DirtyInv ==
  \A d \in Drafts :
    /\ stored[d] \in Decided => working[d] \in Decided
    /\ stored[d] \in Decided /\ working[d] # stored[d] =>
         writer \in Requests /\ target[writer] = d

(* What the place of a request says of its operation and its target.       *)
PlaceInv ==
  \A r \in Requests :
    /\ pc[r] = "new" => target[r] = NoDraft
    /\ pc[r] \in {"approving", "sending"} => op[r] = "approve" /\ target[r] \in Drafts
    /\ pc[r] = "rejecting" => op[r] = "reject" /\ target[r] \in Drafts
    /\ pc[r] \in {"planning", "drafting"} => op[r] = "rfq"
    /\ pc[r] = "notifying" => op[r] = "rfq" /\ target[r] \in NoticeDrafts

(* Only a request that has sent may own a delivery.                        *)
DeliveredInv ==
  \A m \in delivered : pc[m[2]] \in {"committing"} \cup Ended

SentInv ==
  \A d \in Drafts : working[d] = "sent" \/ stored[d] = "sent" =>
    \E r \in Requests : <<d, r>> \in delivered

QuoteInv ==
  \A p, q \in QuoteDrafts :
    /\ working[p] = "pending_approval" /\ working[q] = "pending_approval" => p = q
    /\ stored[p] = "pending_approval" /\ stored[q] = "pending_approval" => p = q

IInv == /\ TypeOK
        /\ LockInv
        /\ DirtyInv
        /\ PlaceInv
        /\ DeliveredInv
        /\ DeliveryAuthorised
        /\ SentInv
        /\ QuoteInv

-----------------------------------------------------------------------------
(* A step is a crash or a step of one request; every proof below splits on *)
(* these cases.                                                            *)
Step(r) ==
  \/ \E d \in Drafts : ApproveLoad(r, d)
  \/ \E d \in Drafts : RejectLoad(r, d)
  \/ ReplyBegins(r)
  \/ RfqBegins(r)
  \/ LockTimeout(r)
  \/ ApproveUpdate(r)
  \/ ApproveRefused(r)
  \/ ApproveSend(r)
  \/ RejectUpdate(r)
  \/ ReplyWrites(r)
  \/ \E q \in QuoteDrafts : ReplyQuotes(r, q)
  \/ ReplyHasNoOptions(r)
  \/ ReplySimulated(r)
  \/ ReplyRaises(r)
  \/ RfqCreatesProject(r)
  \/ RfqRaises(r)
  \/ \E S \in SUBSET InquiryDrafts, n \in NoticeDrafts, known \in BOOLEAN :
       RfqDrafts(r, S, n, known)
  \/ RfqNotify(r)
  \/ Commit(r)

(* Next is the disjunction of these cases.                                 *)
LEMMA NextSteps == Next => Crash \/ \E r \in Requests : Step(r)
  BY DEF Next, Arrive, Proceed, Step

-----------------------------------------------------------------------------
(* Initial rows, requests and bounds have their types.                     *)
LEMMA TypeInit == Init => TypeOK
  BY Bounds, DraftKinds DEF Init, TypeOK, Status, Waiting, Writing, Ended, Drafts

(* What a request sends is a draft: typing needs the places of requests.   *)
LEMMA TypeStep == TypeOK /\ PlaceInv /\ [Next]_vars => TypeOK'
<1> SUFFICES ASSUME TypeOK, PlaceInv, [Next]_vars PROVE TypeOK'
  OBVIOUS
<1> USE DEF TypeOK, Status, Waiting, Writing, Ended, Goto, Rollback, TakesLock,
            Begins, LoadsTarget, Drafts
<1>1. CASE Crash
  BY <1>1, Bounds DEF Crash, InFlight
<1>2. CASE \E r \in Requests : Step(r)
  <2> PICK r \in Requests : Step(r)
    BY <1>2
  <2>1. CASE \E d \in Drafts : ApproveLoad(r, d) \/ RejectLoad(r, d)
    BY <2>1 DEF ApproveLoad, RejectLoad
  <2>2. CASE ReplyBegins(r) \/ RfqBegins(r) \/ LockTimeout(r)
    BY <2>2 DEF ReplyBegins, RfqBegins, LockTimeout
  <2>3. CASE ApproveUpdate(r) \/ RejectUpdate(r)
    BY <2>3 DEF ApproveUpdate, RejectUpdate
  <2>4. CASE ApproveRefused(r) \/ Commit(r)
    BY <2>4 DEF ApproveRefused, Commit
  <2>5. CASE ApproveSend(r) \/ RfqNotify(r)
    BY <2>5 DEF ApproveSend, RfqNotify, Delivers, FailsToDeliver, PlaceInv
  <2>6. CASE ReplyWrites(r) \/ ReplyHasNoOptions(r) \/ ReplySimulated(r) \/ ReplyRaises(r)
    BY <2>6 DEF ReplyWrites, ReplyHasNoOptions, ReplySimulated, ReplyRaises
  <2>7. CASE \E q \in QuoteDrafts : ReplyQuotes(r, q)
    BY <2>7 DEF ReplyQuotes, Supersede
  <2>8. CASE RfqCreatesProject(r) \/ RfqRaises(r)
    BY <2>8 DEF RfqCreatesProject, RfqRaises
  <2>9. CASE \E S \in SUBSET InquiryDrafts, n \in NoticeDrafts, known \in BOOLEAN :
               RfqDrafts(r, S, n, known)
    BY <2>9 DEF RfqDrafts
  <2>10. QED
    BY <2>1, <2>2, <2>3, <2>4, <2>5, <2>6, <2>7, <2>8, <2>9 DEF Step
<1>3. CASE UNCHANGED vars
  BY <1>3 DEF vars
<1>4. QED
  BY <1>1, <1>2, <1>3, NextSteps

(* No request has begun.                                                   *)
LEMMA PlaceInit == Init => PlaceInv
  BY DEF Init, PlaceInv

(* Each step takes its request to the next place and keeps the others'.    *)
LEMMA PlaceStep == TypeOK /\ PlaceInv /\ [Next]_vars => PlaceInv'
<1> SUFFICES ASSUME TypeOK, PlaceInv, [Next]_vars PROVE PlaceInv'
  OBVIOUS
<1> USE DEF TypeOK, PlaceInv, Goto, Begins, LoadsTarget
<1>1. CASE Crash
  BY <1>1 DEF Crash
<1>2. CASE \E r \in Requests : Step(r)
  <2> PICK r \in Requests : Step(r)
    BY <1>2
  <2>1. CASE \E d \in Drafts : ApproveLoad(r, d) \/ RejectLoad(r, d)
    BY <2>1 DEF ApproveLoad, RejectLoad
  <2>2. CASE ReplyBegins(r) \/ RfqBegins(r) \/ LockTimeout(r)
    BY <2>2 DEF ReplyBegins, RfqBegins, LockTimeout
  <2>3. CASE ApproveUpdate(r) \/ RejectUpdate(r)
    BY <2>3 DEF ApproveUpdate, RejectUpdate
  <2>4. CASE ApproveRefused(r) \/ Commit(r)
    BY <2>4 DEF ApproveRefused, Commit
  <2>5. CASE ApproveSend(r) \/ RfqNotify(r)
    BY <2>5 DEF ApproveSend, RfqNotify, Delivers, FailsToDeliver
  <2>6. CASE ReplyWrites(r) \/ ReplyHasNoOptions(r) \/ ReplySimulated(r) \/ ReplyRaises(r)
    BY <2>6 DEF ReplyWrites, ReplyHasNoOptions, ReplySimulated, ReplyRaises
  <2>7. CASE \E q \in QuoteDrafts : ReplyQuotes(r, q)
    BY <2>7 DEF ReplyQuotes
  <2>8. CASE RfqCreatesProject(r) \/ RfqRaises(r)
    BY <2>8 DEF RfqCreatesProject, RfqRaises
  <2>9. CASE \E S \in SUBSET InquiryDrafts, n \in NoticeDrafts, known \in BOOLEAN :
               RfqDrafts(r, S, n, known)
    BY <2>9 DEF RfqDrafts, Drafts
  <2>10. QED
    BY <2>1, <2>2, <2>3, <2>4, <2>5, <2>6, <2>7, <2>8, <2>9 DEF Step
<1>3. CASE UNCHANGED vars
  BY <1>3 DEF vars
<1>4. QED
  BY <1>1, <1>2, <1>3, NextSteps


-----------------------------------------------------------------------------
(* The write lock.                                                         *)

(* The lock is free and nothing is uncommitted at the start.               *)
LEMMA LockInit == Init => LockInv
  BY RequestNames DEF Init, LockInv, Writing

(* Every first write takes the free lock; commit and rollback free it.      *)
LEMMA LockStep == TypeOK /\ LockInv /\ [Next]_vars => LockInv'
<1> SUFFICES ASSUME TypeOK, LockInv, [Next]_vars PROVE LockInv'
  OBVIOUS
<1> USE RequestNames DEF TypeOK, LockInv, Goto, Begins, LoadsTarget, TakesLock, Rollback, Waiting, Writing, Ended
<1>1. CASE Crash
  BY <1>1 DEF Crash, InFlight
<1>2. CASE \E r \in Requests : Step(r)
  <2> PICK r \in Requests : Step(r)
    BY <1>2
  <2>1. CASE \E d \in Drafts : ApproveLoad(r, d) \/ RejectLoad(r, d)
    BY <2>1 DEF ApproveLoad, RejectLoad
  <2>2. CASE ReplyBegins(r) \/ RfqBegins(r) \/ LockTimeout(r)
    BY <2>2 DEF ReplyBegins, RfqBegins, LockTimeout
  <2>3. CASE ApproveUpdate(r) \/ RejectUpdate(r)
    BY <2>3 DEF ApproveUpdate, RejectUpdate
  <2>4. CASE ApproveRefused(r) \/ Commit(r)
    BY <2>4 DEF ApproveRefused, Commit
  <2>5. CASE ApproveSend(r) \/ RfqNotify(r)
    BY <2>5 DEF ApproveSend, RfqNotify, Delivers, FailsToDeliver
  <2>6. CASE ReplyWrites(r) \/ ReplyHasNoOptions(r) \/ ReplySimulated(r) \/ ReplyRaises(r)
    BY <2>6 DEF ReplyWrites, ReplyHasNoOptions, ReplySimulated, ReplyRaises
  <2>7. CASE \E q \in QuoteDrafts : ReplyQuotes(r, q)
    BY <2>7 DEF ReplyQuotes
  <2>8. CASE RfqCreatesProject(r) \/ RfqRaises(r)
    BY <2>8 DEF RfqCreatesProject, RfqRaises
  <2>9. CASE \E S \in SUBSET InquiryDrafts, n \in NoticeDrafts, known \in BOOLEAN :
               RfqDrafts(r, S, n, known)
    BY <2>9 DEF RfqDrafts
  <2>10. QED
    BY <2>1, <2>2, <2>3, <2>4, <2>5, <2>6, <2>7, <2>8, <2>9 DEF Step
<1>3. CASE UNCHANGED vars
  BY <1>3 DEF vars
<1>4. QED
  BY <1>1, <1>2, <1>3, NextSteps

(* Initially the working rows are the committed rows.                      *)
LEMMA DirtyInit == Init => DirtyInv
  BY DEF Init, DirtyInv

(* A transaction starts from the last commit and changes decided rows only *)
(* where its request points.                                               *)
LEMMA DirtyStep == TypeOK /\ PlaceInv /\ LockInv /\ DirtyInv /\ [Next]_vars => DirtyInv'
<1> SUFFICES ASSUME TypeOK, PlaceInv, LockInv, DirtyInv, [Next]_vars PROVE DirtyInv'
  OBVIOUS
<1> USE DEF TypeOK, PlaceInv, LockInv, DirtyInv, Goto, Begins, LoadsTarget, TakesLock, Rollback, Waiting, Writing, Ended, Decided, Status
<1>1. CASE Crash
  BY <1>1 DEF Crash, InFlight
<1>2. CASE \E r \in Requests : Step(r)
  <2> PICK r \in Requests : Step(r)
    BY <1>2
  <2>1. CASE \E d \in Drafts : ApproveLoad(r, d) \/ RejectLoad(r, d)
    BY <2>1 DEF ApproveLoad, RejectLoad
  <2>2. CASE ReplyBegins(r) \/ RfqBegins(r) \/ LockTimeout(r)
    BY <2>2 DEF ReplyBegins, RfqBegins, LockTimeout
  <2>3. CASE ApproveUpdate(r) \/ RejectUpdate(r)
    BY <2>3 DEF ApproveUpdate, RejectUpdate
  <2>4. CASE ApproveRefused(r) \/ Commit(r)
    BY <2>4 DEF ApproveRefused, Commit
  <2>5. CASE ApproveSend(r) \/ RfqNotify(r)
    BY <2>5 DEF ApproveSend, RfqNotify, Delivers, FailsToDeliver
  <2>6. CASE ReplyWrites(r) \/ ReplyHasNoOptions(r) \/ ReplySimulated(r) \/ ReplyRaises(r)
    BY <2>6 DEF ReplyWrites, ReplyHasNoOptions, ReplySimulated, ReplyRaises
  <2>7. CASE \E q \in QuoteDrafts : ReplyQuotes(r, q)
    BY <2>7 DEF ReplyQuotes, Supersede, PendingQuotes, Drafts
  <2>8. CASE RfqCreatesProject(r) \/ RfqRaises(r)
    BY <2>8 DEF RfqCreatesProject, RfqRaises
  <2>9. CASE \E S \in SUBSET InquiryDrafts, n \in NoticeDrafts, known \in BOOLEAN :
               RfqDrafts(r, S, n, known)
    BY <2>9 DEF RfqDrafts, Drafts
  <2>10. QED
    BY <2>1, <2>2, <2>3, <2>4, <2>5, <2>6, <2>7, <2>8, <2>9 DEF Step
<1>3. CASE UNCHANGED vars
  BY <1>3 DEF vars
<1>4. QED
  BY <1>1, <1>2, <1>3, NextSteps

-----------------------------------------------------------------------------
(* Deliveries.                                                             *)

(* Nothing has been delivered at the start.                                *)
LEMMA DeliveryInit == Init => DeliveredInv /\ DeliveryAuthorised
  BY DEF Init, DeliveredInv, DeliveryAuthorised

(* A delivery is made by the request whose target it is, after which that  *)
(* request changes neither its operation nor its target.                   *)
LEMMA DeliveryStep == TypeOK /\ PlaceInv /\ DeliveredInv /\ DeliveryAuthorised /\ [Next]_vars => (DeliveredInv /\ DeliveryAuthorised)'
<1> SUFFICES ASSUME TypeOK, PlaceInv, DeliveredInv, DeliveryAuthorised, [Next]_vars PROVE (DeliveredInv /\ DeliveryAuthorised)'
  OBVIOUS
<1> USE DEF TypeOK, PlaceInv, DeliveredInv, DeliveryAuthorised, Goto, Begins, LoadsTarget, Waiting, Writing, Ended
<1>1. CASE Crash
  BY <1>1 DEF Crash, InFlight
<1>2. CASE \E r \in Requests : Step(r)
  <2> PICK r \in Requests : Step(r)
    BY <1>2
  <2>1. CASE \E d \in Drafts : ApproveLoad(r, d) \/ RejectLoad(r, d)
    BY <2>1 DEF ApproveLoad, RejectLoad
  <2>2. CASE ReplyBegins(r) \/ RfqBegins(r) \/ LockTimeout(r)
    BY <2>2 DEF ReplyBegins, RfqBegins, LockTimeout
  <2>3. CASE ApproveUpdate(r) \/ RejectUpdate(r)
    BY <2>3 DEF ApproveUpdate, RejectUpdate
  <2>4. CASE ApproveRefused(r) \/ Commit(r)
    BY <2>4 DEF ApproveRefused, Commit
  <2>5. CASE ApproveSend(r) \/ RfqNotify(r)
    BY <2>5, DraftKinds DEF ApproveSend, RfqNotify, Delivers, FailsToDeliver, PolicyAllows, Drafts
  <2>6. CASE ReplyWrites(r) \/ ReplyHasNoOptions(r) \/ ReplySimulated(r) \/ ReplyRaises(r)
    BY <2>6 DEF ReplyWrites, ReplyHasNoOptions, ReplySimulated, ReplyRaises
  <2>7. CASE \E q \in QuoteDrafts : ReplyQuotes(r, q)
    BY <2>7 DEF ReplyQuotes
  <2>8. CASE RfqCreatesProject(r) \/ RfqRaises(r)
    BY <2>8 DEF RfqCreatesProject, RfqRaises
  <2>9. CASE \E S \in SUBSET InquiryDrafts, n \in NoticeDrafts, known \in BOOLEAN :
               RfqDrafts(r, S, n, known)
    BY <2>9 DEF RfqDrafts
  <2>10. QED
    BY <2>1, <2>2, <2>3, <2>4, <2>5, <2>6, <2>7, <2>8, <2>9 DEF Step
<1>3. CASE UNCHANGED vars
  BY <1>3 DEF vars
<1>4. QED
  BY <1>1, <1>2, <1>3, NextSteps

(* No row is sent at the start.                                            *)
LEMMA SentInit == Init => SentInv
  BY DEF Init, SentInv

(* mark_sent follows a delivery, and deliveries are never undone.          *)
LEMMA SentStep == TypeOK /\ PlaceInv /\ SentInv /\ [Next]_vars => SentInv'
<1> SUFFICES ASSUME TypeOK, PlaceInv, SentInv, [Next]_vars PROVE SentInv'
  OBVIOUS
<1> USE DEF TypeOK, PlaceInv, SentInv, Goto, LoadsTarget, TakesLock, Rollback
<1>1. CASE Crash
  BY <1>1 DEF Crash
<1>2. CASE \E r \in Requests : Step(r)
  <2> PICK r \in Requests : Step(r)
    BY <1>2
  <2>1. CASE \E d \in Drafts : ApproveLoad(r, d) \/ RejectLoad(r, d)
    BY <2>1 DEF ApproveLoad, RejectLoad
  <2>2. CASE ReplyBegins(r) \/ RfqBegins(r) \/ LockTimeout(r)
    BY <2>2 DEF ReplyBegins, RfqBegins, LockTimeout
  <2>3. CASE ApproveUpdate(r) \/ RejectUpdate(r)
    BY <2>3 DEF ApproveUpdate, RejectUpdate
  <2>4. CASE ApproveRefused(r) \/ Commit(r)
    BY <2>4 DEF ApproveRefused, Commit
  <2>5. CASE ApproveSend(r) \/ RfqNotify(r)
    BY <2>5 DEF ApproveSend, RfqNotify, Delivers, FailsToDeliver
  <2>6. CASE ReplyWrites(r) \/ ReplyHasNoOptions(r) \/ ReplySimulated(r) \/ ReplyRaises(r)
    BY <2>6 DEF ReplyWrites, ReplyHasNoOptions, ReplySimulated, ReplyRaises
  <2>7. CASE \E q \in QuoteDrafts : ReplyQuotes(r, q)
    BY <2>7 DEF ReplyQuotes, Supersede
  <2>8. CASE RfqCreatesProject(r) \/ RfqRaises(r)
    BY <2>8 DEF RfqCreatesProject, RfqRaises
  <2>9. CASE \E S \in SUBSET InquiryDrafts, n \in NoticeDrafts, known \in BOOLEAN :
               RfqDrafts(r, S, n, known)
    BY <2>9 DEF RfqDrafts, Drafts
  <2>10. QED
    BY <2>1, <2>2, <2>3, <2>4, <2>5, <2>6, <2>7, <2>8, <2>9 DEF Step
<1>3. CASE UNCHANGED vars
  BY <1>3 DEF vars
<1>4. QED
  BY <1>1, <1>2, <1>3, NextSteps

-----------------------------------------------------------------------------
(* Customer quotes.                                                        *)

(* At most one quote is pending at the start.                              *)
LEMMA QuoteInit == Init => QuoteInv
  BY DEF Init, QuoteInv, PendingQuotes

(* A new quote is drafted in the transaction that retires the others; no   *)
(* other step makes a quote pending.                                       *)
LEMMA QuoteStep == TypeOK /\ PlaceInv /\ QuoteInv /\ [Next]_vars => QuoteInv'
<1> SUFFICES ASSUME TypeOK, PlaceInv, QuoteInv, [Next]_vars PROVE QuoteInv'
  OBVIOUS
<1> USE DEF TypeOK, PlaceInv, QuoteInv, Goto, LoadsTarget, TakesLock, Rollback
<1>1. CASE Crash
  BY <1>1 DEF Crash, Drafts
<1>2. CASE \E r \in Requests : Step(r)
  <2> PICK r \in Requests : Step(r)
    BY <1>2
  <2>1. CASE \E d \in Drafts : ApproveLoad(r, d) \/ RejectLoad(r, d)
    BY <2>1 DEF ApproveLoad, RejectLoad
  <2>2. CASE ReplyBegins(r) \/ RfqBegins(r) \/ LockTimeout(r)
    BY <2>2 DEF ReplyBegins, RfqBegins, LockTimeout
  <2>3. CASE ApproveUpdate(r) \/ RejectUpdate(r)
    BY <2>3 DEF ApproveUpdate, RejectUpdate, Drafts
  <2>4. CASE ApproveRefused(r) \/ Commit(r)
    BY <2>4 DEF ApproveRefused, Commit
  <2>5. CASE ApproveSend(r) \/ RfqNotify(r)
    BY <2>5 DEF ApproveSend, RfqNotify, Delivers, FailsToDeliver, Drafts
  <2>6. CASE ReplyWrites(r) \/ ReplyHasNoOptions(r) \/ ReplySimulated(r) \/ ReplyRaises(r)
    BY <2>6 DEF ReplyWrites, ReplyHasNoOptions, ReplySimulated, ReplyRaises
  <2>7. CASE \E q \in QuoteDrafts : ReplyQuotes(r, q)
    BY <2>7 DEF ReplyQuotes, Supersede, PendingQuotes, Drafts
  <2>8. CASE RfqCreatesProject(r) \/ RfqRaises(r)
    BY <2>8 DEF RfqCreatesProject, RfqRaises
  <2>9. CASE \E S \in SUBSET InquiryDrafts, n \in NoticeDrafts, known \in BOOLEAN :
               RfqDrafts(r, S, n, known)
    BY <2>9, DraftKinds DEF RfqDrafts, Drafts
  <2>10. QED
    BY <2>1, <2>2, <2>3, <2>4, <2>5, <2>6, <2>7, <2>8, <2>9 DEF Step
<1>3. CASE UNCHANGED vars
  BY <1>3 DEF vars
<1>4. QED
  BY <1>1, <1>2, <1>3, NextSteps

-----------------------------------------------------------------------------
(* The inductive invariant and what follows from it.                       *)

(* Every reachable state satisfies the inductive invariant.                *)
THEOREM Invariance == Spec => []IInv
<1>1. Init => IInv
  BY TypeInit, LockInit, DirtyInit, PlaceInit, DeliveryInit, SentInit, QuoteInit DEF IInv
<1>2. IInv /\ [Next]_vars => IInv'
  BY TypeStep, LockStep, DirtyStep, PlaceStep, DeliveryStep, SentStep, QuoteStep DEF IInv
<1>3. QED
  BY <1>1, <1>2, PTL DEF Spec

(* The rows, the lock and the requests of inquiry_drafts stay within their *)
(* types.                                                                  *)
THEOREM TypeCorrect == Spec => []TypeOK
  BY Invariance, PTL DEF IInv

(* No message leaves without an approval request for its draft (or as the  *)
(* notice of an RFQ), and none to a counterparty over IM.                  *)
THEOREM DeliveriesAreAuthorised == Spec => []DeliveryAuthorised
  BY Invariance, PTL DEF IInv

(* A row committed as sent has been delivered.                             *)
THEOREM SentMeansDelivered == Spec => []SentWasDelivered
<1>1. IInv => SentWasDelivered
  BY DEF IInv, SentInv, SentWasDelivered
<1>2. QED
  BY <1>1, Invariance, PTL

(* At most one customer quote waits for approval.                          *)
THEOREM AtMostOneLiveQuote == Spec => []OneLiveQuote
<1>1. IInv => OneLiveQuote
  BY DEF IInv, QuoteInv, OneLiveQuote, PendingQuotes
<1>2. QED
  BY <1>1, Invariance, PTL

(* Only Commit changes committed rows.                                     *)
LEMMA StoredChanges ==
  [Next]_vars => UNCHANGED stored \/ \E r \in Requests : Commit(r)
  BY DEF Next, Arrive, Proceed, vars, Crash, ApproveLoad, RejectLoad, LoadsTarget,
         ReplyBegins, RfqBegins, LockTimeout, ApproveUpdate, ApproveRefused, ApproveSend,
         RfqNotify, Delivers, FailsToDeliver, RejectUpdate, ReplyWrites, ReplyQuotes,
         ReplyHasNoOptions, ReplySimulated, ReplyRaises, RfqCreatesProject, RfqRaises,
         RfqDrafts

(* Only a request in flight adds a delivery, of its own target.            *)
LEMMA DeliveredChanges ==
  [Next]_vars => \/ UNCHANGED delivered
                 \/ \E r \in InFlight : delivered' \subseteq delivered \cup {<<target[r], r>>}
<1> USE DEF InFlight, Writing
<1>1. ASSUME NEW r \in Requests, ApproveSend(r) \/ RfqNotify(r)
      PROVE  r \in InFlight /\ delivered' \subseteq delivered \cup {<<target[r], r>>}
  BY <1>1 DEF ApproveSend, RfqNotify, Delivers, FailsToDeliver
<1>2. QED
  BY <1>1 DEF Next, Arrive, Proceed, vars, Crash, ApproveLoad, RejectLoad, LoadsTarget,
         ReplyBegins, RfqBegins, LockTimeout, ApproveUpdate, ApproveRefused,
         RejectUpdate, ReplyWrites, ReplyQuotes, ReplyHasNoOptions, ReplySimulated,
         ReplyRaises, RfqCreatesProject, RfqRaises, RfqDrafts, Commit

(* No commit, however stale the session behind it, reopens a decision.     *)
THEOREM DecisionsStand == Spec => DecisionNotReopened
<1>1. IInv /\ [Next]_vars =>
        [\A d \in Drafts : stored[d] \in Decided => stored'[d] \in Decided]_vars
  BY StoredChanges DEF IInv, DirtyInv, Commit
<1>2. QED
  BY <1>1, Invariance, PTL DEF Spec, DecisionNotReopened

(* A request in flight keeps its target; one that aims at a row, on        *)
(* arrival or for a new notice, finds that row undecided.                  *)
LEMMA TargetsInFlight ==
  ASSUME TypeOK, PlaceInv, [Next]_vars, NEW t \in InFlight'
  PROVE  \/ t \in InFlight /\ target'[t] = target[t]
         \/ target'[t] = NoDraft
         \/ target'[t] \in Drafts /\ stored[target'[t]] \notin Decided
<1> USE DEF TypeOK, PlaceInv, InFlight, Waiting, Writing, Ended, Goto, Begins, LoadsTarget,
            Decided
<1>1. CASE Crash
  BY <1>1 DEF Crash
<1>2. CASE \E r \in Requests : Step(r)
  <2> PICK r \in Requests : Step(r)
    BY <1>2
  <2>1. CASE \E d \in Drafts : ApproveLoad(r, d) \/ RejectLoad(r, d)
    BY <2>1 DEF ApproveLoad, RejectLoad
  <2>2. CASE ReplyBegins(r) \/ RfqBegins(r) \/ LockTimeout(r)
    BY <2>2 DEF ReplyBegins, RfqBegins, LockTimeout
  <2>3. CASE ApproveUpdate(r) \/ RejectUpdate(r)
    BY <2>3 DEF ApproveUpdate, RejectUpdate
  <2>4. CASE ApproveRefused(r) \/ Commit(r)
    BY <2>4 DEF ApproveRefused, Commit
  <2>5. CASE ApproveSend(r) \/ RfqNotify(r)
    BY <2>5 DEF ApproveSend, RfqNotify, Delivers, FailsToDeliver
  <2>6. CASE ReplyWrites(r) \/ ReplyHasNoOptions(r) \/ ReplySimulated(r) \/ ReplyRaises(r)
    BY <2>6 DEF ReplyWrites, ReplyHasNoOptions, ReplySimulated, ReplyRaises
  <2>7. CASE \E q \in QuoteDrafts : ReplyQuotes(r, q)
    BY <2>7 DEF ReplyQuotes
  <2>8. CASE RfqCreatesProject(r) \/ RfqRaises(r)
    BY <2>8 DEF RfqCreatesProject, RfqRaises
  <2>9. CASE \E S \in SUBSET InquiryDrafts, n \in NoticeDrafts, known \in BOOLEAN :
               RfqDrafts(r, S, n, known)
    BY <2>9 DEF RfqDrafts, Drafts
  <2>10. QED
    BY <2>1, <2>2, <2>3, <2>4, <2>5, <2>6, <2>7, <2>8, <2>9 DEF Step
<1>3. CASE UNCHANGED vars
  BY <1>3 DEF vars
<1>4. QED
  BY <1>1, <1>2, <1>3, NextSteps

(* Once the last request that could have read a row before its decision    *)
(* has ended, the row and its deliveries are final.                        *)
THEOREM SettledRowsAreFinal == Spec => SettledIsFinal
<1> DEFINE Frozen(d) == /\ Settled(d)'
                        /\ stored'[d] = stored[d]
                        /\ \A r \in Requests : <<d, r>> \in delivered' => <<d, r>> \in delivered
<1>1. ASSUME IInv, [Next]_vars, NEW d \in Drafts, Settled(d)
      PROVE  Frozen(d)
  <2>1. stored'[d] = stored[d]
    <3>1. CASE \E r \in Requests : Commit(r)
      <4> PICK r \in Requests : Commit(r)
        BY <3>1
      <4>1. writer = r /\ target[r] # d
        BY <1>1 DEF IInv, LockInv, Commit, Settled, InFlight, Writing
      <4>2. QED
        BY <1>1, <4>1 DEF IInv, DirtyInv, Commit, Settled
    <3>2. QED
      BY <1>1, <3>1, StoredChanges
  <2>2. ASSUME NEW r \in Requests, <<d, r>> \in delivered' PROVE <<d, r>> \in delivered
    BY <1>1, <2>2, DeliveredChanges DEF Settled
  <2>3. ASSUME NEW r \in InFlight' PROVE target'[r] # d
    BY <1>1, <2>3, TargetsInFlight, DraftKinds DEF IInv, Settled
  <2>4. Settled(d)'
    BY <1>1, <2>1, <2>3 DEF Settled
  <2>5. QED
    BY <2>1, <2>2, <2>4
<1>2. IInv /\ [Next]_vars => [\A d \in Drafts : Settled(d) => Frozen(d)]_vars
  BY <1>1
<1>3. QED
  BY <1>2, Invariance, PTL DEF Spec, SettledIsFinal

-----------------------------------------------------------------------------
(* Requests one at a time: the refinement of DraftLifecycle.               *)

(* With one worker thread at most one request is in flight.                *)
Alone == \A r, s \in InFlight : r = s

(* What a request alone in the service read is still what is committed;    *)
(* before it sends, it has approved the draft.                             *)
ReadInv ==
  \A r \in Requests :
    /\ pc[r] \in {"approving", "sending", "rejecting"} => stored[target[r]] = "pending_approval"
    /\ pc[r] = "notifying" => stored[target[r]] = "absent"
    /\ pc[r] \in {"quoting", "drafting"} => working = stored
    /\ pc[r] \in {"sending", "notifying"} => working[target[r]] = "approved"

(* What a transaction may have made of a row, seen from the last commit.   *)
WorkInv ==
  \A d \in Drafts : working[d] # stored[d] =>
    \/ stored[d] = "absent" /\ working[d] = "pending_approval"
    \/ stored[d] = "absent" /\ d \in NoticeDrafts /\ working[d] \in {"approved", "sent"}
    \/ /\ stored[d] = "pending_approval"
       /\ working[d] \in {"approved", "sent", "rejected", "superseded"}

(* A draft whose message may be out is decided in the database, or in the  *)
(* transaction of the request that sent it; and one request sent it.       *)
PostInv ==
  /\ \A m \in delivered :
       \/ stored[m[1]] \in {"approved", "sent"}
       \/ pc[m[2]] = "committing" /\ working[m[1]] \in {"approved", "sent"}
  /\ \A m, n \in delivered : m[1] = n[1] => m[2] = n[2]

SerialInv == Alone /\ ReadInv /\ WorkInv /\ PostInv

(* One at a time and uninterrupted.                                        *)
Serial == MaxActive = 1 /\ MaxCrashes = 0

(* A request that begins under Serial finds no other in flight.            *)
LEMMA BeginsAlone ==
  ASSUME Serial, Alone, Cardinality(InFlight) < MaxActive
  PROVE  InFlight = {}
<1> SUFFICES ASSUME NEW r \in InFlight PROVE FALSE
  OBVIOUS
<1>1. InFlight = {r}
  BY DEF Alone
<1>2. QED
  BY <1>1, FS_Singleton DEF Serial

(* Nothing has begun and nothing is uncommitted or delivered.              *)
LEMMA SerialInit == Init => SerialInv
  BY DEF Init, SerialInv, Alone, ReadInv, WorkInv, PostInv, InFlight, Waiting, Writing

(* A request begins only when none is in flight; no step takes up a        *)
(* request that has ended.                                                 *)
LEMMA AloneStep == Serial /\ TypeOK /\ Alone /\ [Next]_vars => Alone'
<1> SUFFICES ASSUME Serial, TypeOK, Alone, [Next]_vars PROVE Alone'
  OBVIOUS
<1> USE DEF TypeOK, Alone, InFlight, Waiting, Writing, Goto, Begins, LoadsTarget
<1>1. CASE Crash
  BY <1>1 DEF Crash
<1>2. CASE \E r \in Requests : Step(r)
  <2> PICK r \in Requests : Step(r)
    BY <1>2
  <2>1. CASE \E d \in Drafts : ApproveLoad(r, d) \/ RejectLoad(r, d)
    BY <2>1, BeginsAlone DEF ApproveLoad, RejectLoad
  <2>2. CASE ReplyBegins(r) \/ RfqBegins(r) \/ LockTimeout(r)
    BY <2>2, BeginsAlone DEF ReplyBegins, RfqBegins, LockTimeout
  <2>3. CASE ApproveUpdate(r) \/ RejectUpdate(r)
    BY <2>3 DEF ApproveUpdate, RejectUpdate
  <2>4. CASE ApproveRefused(r) \/ Commit(r)
    BY <2>4 DEF ApproveRefused, Commit
  <2>5. CASE ApproveSend(r) \/ RfqNotify(r)
    BY <2>5 DEF ApproveSend, RfqNotify, Delivers, FailsToDeliver
  <2>6. CASE ReplyWrites(r) \/ ReplyHasNoOptions(r) \/ ReplySimulated(r) \/ ReplyRaises(r)
    BY <2>6 DEF ReplyWrites, ReplyHasNoOptions, ReplySimulated, ReplyRaises
  <2>7. CASE \E q \in QuoteDrafts : ReplyQuotes(r, q)
    BY <2>7 DEF ReplyQuotes
  <2>8. CASE RfqCreatesProject(r) \/ RfqRaises(r)
    BY <2>8 DEF RfqCreatesProject, RfqRaises
  <2>9. CASE \E S \in SUBSET InquiryDrafts, n \in NoticeDrafts, known \in BOOLEAN :
               RfqDrafts(r, S, n, known)
    BY <2>9 DEF RfqDrafts
  <2>10. QED
    BY <2>1, <2>2, <2>3, <2>4, <2>5, <2>6, <2>7, <2>8, <2>9 DEF Step
<1>3. CASE UNCHANGED vars
  BY <1>3 DEF vars
<1>4. QED
  BY <1>1, <1>2, <1>3, NextSteps

(* The request in flight works on what it read, and no other interferes.   *)
LEMMA SerialStep ==
  Serial /\ TypeOK /\ PlaceInv /\ LockInv /\ SerialInv /\ [Next]_vars
    => (ReadInv /\ WorkInv /\ PostInv)'
<1> SUFFICES ASSUME Serial, TypeOK, PlaceInv, LockInv, SerialInv, [Next]_vars
             PROVE  (ReadInv /\ WorkInv /\ PostInv)'
  OBVIOUS
<1> USE DEF TypeOK, PlaceInv, LockInv, SerialInv, Alone, ReadInv, WorkInv, PostInv, InFlight,
            Waiting, Writing, Status, Goto, Begins, LoadsTarget, TakesLock, Rollback
<1>1. CASE Crash
  BY <1>1 DEF Crash, Serial
<1>2. CASE \E r \in Requests : Step(r)
  <2> PICK r \in Requests : Step(r)
    BY <1>2
  <2>1. CASE \E d \in Drafts : ApproveLoad(r, d) \/ RejectLoad(r, d)
    BY <2>1 DEF ApproveLoad, RejectLoad
  <2>2. CASE ReplyBegins(r) \/ RfqBegins(r) \/ LockTimeout(r)
    BY <2>2 DEF ReplyBegins, RfqBegins, LockTimeout
  <2>3. CASE ApproveUpdate(r) \/ RejectUpdate(r)
    BY <2>3 DEF ApproveUpdate, RejectUpdate
  <2>4. CASE ApproveRefused(r) \/ Commit(r)
    BY <2>4 DEF ApproveRefused, Commit
  <2>5. CASE ApproveSend(r) \/ RfqNotify(r)
    <3> USE DEF Drafts
    <3>1. /\ pc[r] \in {"sending", "notifying"} /\ target[r] \in Drafts
          /\ \/ stored[target[r]] = "pending_approval"
             \/ stored[target[r]] = "absent" /\ target[r] \in NoticeDrafts
          /\ UNCHANGED <<stored, target>>
          /\ pc' = [pc EXCEPT ![r] = "committing"]
          /\ delivered' \in {delivered, delivered \cup {<<target[r], r>>}}
      BY <2>5 DEF ApproveSend, RfqNotify, Delivers, FailsToDeliver
    <3>2. working' \in {working, [working EXCEPT ![target[r]] = "sent"]}
      BY <2>5 DEF ApproveSend, RfqNotify, Delivers, FailsToDeliver
    <3>3. working[target[r]] \in {"approved", "sent"}
      BY <3>1
    <3>4. \A m \in delivered : stored[m[1]] \in {"approved", "sent"} /\ m[1] # target[r]
      BY <3>1
    <3>5. ReadInv'
      BY <3>1
    <3>6. WorkInv'
      BY <3>1, <3>2, <3>3
    <3>7. PostInv'
      BY <3>1, <3>2, <3>3, <3>4
    <3>8. QED
      BY <3>5, <3>6, <3>7
  <2>6. CASE ReplyWrites(r) \/ ReplyHasNoOptions(r) \/ ReplySimulated(r) \/ ReplyRaises(r)
    BY <2>6 DEF ReplyWrites, ReplyHasNoOptions, ReplySimulated, ReplyRaises
  <2>7. CASE \E q \in QuoteDrafts : ReplyQuotes(r, q)
    BY <2>7 DEF ReplyQuotes, Supersede, PendingQuotes, Drafts
  <2>8. CASE RfqCreatesProject(r) \/ RfqRaises(r)
    BY <2>8 DEF RfqCreatesProject, RfqRaises
  <2>9. CASE \E S \in SUBSET InquiryDrafts, n \in NoticeDrafts, known \in BOOLEAN :
               RfqDrafts(r, S, n, known)
    <3> USE DEF Drafts
    <3> PICK S \in SUBSET InquiryDrafts, n \in NoticeDrafts, known \in BOOLEAN :
               RfqDrafts(r, S, n, known)
      BY <2>9
    <3> USE DEF RfqDrafts
    <3>1. \A m \in delivered : stored[m[1]] \in {"approved", "sent"}
      OBVIOUS
    <3>2. working'[n] = (IF known THEN "approved" ELSE "pending_approval") /\ target'[r] = n
      BY DraftKinds
    <3>3. ReadInv'
      BY <3>2
    <3>4. WorkInv'
      OBVIOUS
    <3>5. PostInv'
      BY <3>1
    <3>6. QED
      BY <3>3, <3>4, <3>5
  <2>10. QED
    BY <2>1, <2>2, <2>3, <2>4, <2>5, <2>6, <2>7, <2>8, <2>9 DEF Step
<1>3. CASE UNCHANGED vars
  BY <1>3 DEF vars
<1>4. QED
  BY <1>1, <1>2, <1>3, NextSteps

(* The requests that delivered d, according to D; one at most when no two  *)
(* did.                                                                    *)
Posters(D, d) == {r \in Requests : <<d, r>> \in D}

(* Posts counts them.                                                      *)
LEMMA PostsDef == \A d \in Drafts : /\ Posts(d) = Cardinality(Posters(delivered, d))
                                    /\ Posts(d)' = Cardinality(Posters(delivered', d))
  BY DEF Posts, Posters

(* Without two deliveries of one draft the count is 0 or 1.                *)
LEMMA PostCount ==
  ASSUME NEW D, \A m, n \in D : m[1] = n[1] => m[2] = n[2], NEW d \in Drafts
  PROVE  Cardinality(Posters(D, d)) = IF \E r \in Requests : <<d, r>> \in D THEN 1 ELSE 0
<1>1. CASE \E r \in Requests : <<d, r>> \in D
  <2> PICK r \in Requests : <<d, r>> \in D
    BY <1>1
  <2>1. ASSUME NEW s \in Requests, <<d, s>> \in D PROVE s = r
    <3>1. <<d, s>>[1] = <<d, r>>[1] /\ <<d, s>>[2] = s /\ <<d, r>>[2] = r
      OBVIOUS
    <3>2. QED
      BY <2>1, <3>1
  <2>2. Posters(D, d) = {r}
    BY <2>1 DEF Posters
  <2>3. QED
    BY <1>1, <2>2, FS_Singleton
<1>2. CASE ~\E r \in Requests : <<d, r>> \in D
  <2>1. Posters(D, d) = {}
    BY <1>2 DEF Posters
  <2>2. QED
    BY <1>2, <2>1, FS_EmptySet
<1>3. QED
  BY <1>1, <1>2

(* Only the two sends deliver.                                             *)
LEMMA SendSteps ==
  [Next]_vars => UNCHANGED delivered \/ \E r \in Requests : ApproveSend(r) \/ RfqNotify(r)
  BY DEF Next, Arrive, Proceed, vars, Crash, ApproveLoad, RejectLoad, LoadsTarget,
         ReplyBegins, RfqBegins, LockTimeout, ApproveUpdate, ApproveRefused,
         RejectUpdate, ReplyWrites, ReplyQuotes, ReplyHasNoOptions, ReplySimulated,
         ReplyRaises, RfqCreatesProject, RfqRaises, RfqDrafts, Commit

(* A first message of an undecided draft is a Post of the lifecycle.       *)
LEMMA SendPosts ==
  ASSUME TypeOK, PlaceInv, SerialInv, SerialInv', NEW r \in Requests,
         ApproveSend(r) \/ RfqNotify(r), delivered' # delivered,
         NEW t \in Drafts, t = target[r]
  PROVE  Lifecycle!Post(t)
<1> USE DEF TypeOK, SerialInv, PostInv
<1>1. /\ pc[r] \in {"sending", "notifying"} 
      /\ \/ stored[t] = "pending_approval"
         \/ stored[t] = "absent" /\ t \in NoticeDrafts
      /\ UNCHANGED stored
      /\ delivered' = delivered \cup {<<t, r>>}
  BY DEF ApproveSend, RfqNotify, Delivers, FailsToDeliver, PlaceInv, ReadInv, Drafts
<1>2. \A m \in delivered : m[1] # t
  BY <1>1 DEF Alone, InFlight, Writing, Drafts
<1>3. Posts(t) = 0
  <2>1. Posters(delivered, t) = {}
    BY <1>2 DEF Posters
  <2>2. QED
    BY <2>1, FS_EmptySet, PostsDef
<1>4. Posts(t)' = 1
  <2>1. <<t, r>> \in delivered'
    BY <1>1
  <2>2. QED
    BY <2>1, PostCount, PostsDef
<1>5. ASSUME NEW d \in Drafts, d # t
      PROVE  Posts(d)' = Posts(d)
  <2>1. \A s \in Requests : <<d, s>> \in delivered' <=> <<d, s>> \in delivered
    BY <1>1, <1>5
  <2>2. Posters(delivered', d) = Posters(delivered, d)
    BY <2>1 DEF Posters
  <2>3. QED
    BY <2>2, PostsDef
<1>6. [d \in Drafts |-> Posts(d)]' = [[d \in Drafts |-> Posts(d)] EXCEPT ![t] = 1]
  <2>1. \A d \in Drafts : Posts(d)' = IF d = t THEN 1 ELSE Posts(d)
    BY <1>4, <1>5
  <2>2. QED
    BY ONLY <2>1
<1>7. QED
  BY <1>1, <1>3, <1>6 DEF Lifecycle!Post

(* A commit takes every draft to one of its successors in the lifecycle.   *)
LEMMA CommitSettles ==
  ASSUME TypeOK, SentInv, SerialInv, SerialInv', NEW r \in Requests, Commit(r)
  PROVE  Lifecycle!Settle
<1> USE DEF TypeOK, SerialInv
<1>1. stored' = working /\ UNCHANGED delivered
  BY DEF Commit
<1>2. UNCHANGED [d \in Drafts |-> Posts(d)]
  BY <1>1 DEF Posts
<1>3. ASSUME NEW d \in Drafts PROVE stored'[d] \in Lifecycle!Successors(d)
  <2>1. Posts(d) = IF \E s \in Requests : <<d, s>> \in delivered THEN 1 ELSE 0
    <3>1. \A m, n \in delivered : m[1] = n[1] => m[2] = n[2]
      BY DEF PostInv
    <3>2. Cardinality(Posters(delivered, d))
            = IF \E s \in Requests : <<d, s>> \in delivered THEN 1 ELSE 0
      BY <3>1, PostCount
    <3>3. QED
      BY <3>2, PostsDef
  <2>2. working[d] \in {"pending_approval", "rejected", "superseded"} /\ working[d] # stored[d]
          => Posts(d) = 0
    <3>1. \A s \in Requests : <<d, s>> \in delivered =>
            stored[d] \in {"approved", "sent"} \/ working[d] \in {"approved", "sent"}
      BY DEF PostInv
    <3>2. QED
      BY <2>1, <3>1 DEF WorkInv
  <2>3. working[d] = "sent" => Posts(d) = 1
    BY <2>1 DEF SentInv
  <2>4. QED
    BY <1>1, <2>2, <2>3 DEF WorkInv, Lifecycle!Successors
<1>4. QED
  BY <1>1, <1>2, <1>3 DEF Lifecycle!Settle, Status

(* When requests do not overlap and no crash interrupts one, every         *)
(* behaviour of the handlers is one of DraftLifecycle: a draft is decided  *)
(* once and for good, and posted at most once, while it is undecided.      *)
THEOREM SerialImplementsLifecycle ==
  ASSUME MaxActive = 1, MaxCrashes = 0
  PROVE  Spec => ImplementsLifecycle
<1>0. Serial
  BY DEF Serial
<1>1. Init => Lifecycle!Init
  <2> SUFFICES ASSUME Init PROVE Lifecycle!Init
    OBVIOUS
  <2>1. \A d \in Drafts : Posts(d) = 0
    BY PostCount, PostsDef DEF Init
  <2>2. QED
    BY <2>1 DEF Init, Lifecycle!Init
<1>2. Init => SerialInv
  BY SerialInit
<1>3. IInv /\ SerialInv /\ [Next]_vars => SerialInv'
  BY <1>0, AloneStep, SerialStep DEF IInv, SerialInv
<1>4. IInv /\ SerialInv /\ SerialInv' /\ [Next]_vars => [Lifecycle!Next]_(Lifecycle!vars)
  <2> SUFFICES ASSUME IInv, SerialInv, SerialInv', [Next]_vars
               PROVE  Lifecycle!Next \/ UNCHANGED Lifecycle!vars
    OBVIOUS
  <2>1. CASE \E r \in Requests : Commit(r)
    BY <2>1, CommitSettles DEF IInv, Lifecycle!Next
  <2>2. CASE UNCHANGED stored /\ UNCHANGED delivered
    BY <2>2 DEF Lifecycle!vars, Posts
  <2>3. CASE delivered' # delivered
    <3>1. PICK r \in Requests : ApproveSend(r) \/ RfqNotify(r)
      BY <2>3, SendSteps
    <3>2. PICK t \in Drafts : t = target[r]
      BY <3>1 DEF IInv, PlaceInv, ApproveSend, RfqNotify, Drafts
    <3>3. Lifecycle!Post(t)
      BY <2>3, <3>1, <3>2, SendPosts DEF IInv
    <3>4. QED
      BY <3>3 DEF Lifecycle!Next
  <2>4. QED
    BY <2>1, <2>2, <2>3, StoredChanges
<1>5. QED
  BY <1>1, <1>2, <1>3, <1>4, Invariance, PTL DEF Spec, ImplementsLifecycle, Lifecycle!Spec
=============================================================================
