----------------------------- MODULE Rfq_proofs -----------------------------
(***************************************************************************)
(* How an RFQ is kept and how it is structured, for any number of          *)
(* requests, workers and crashes, and of runs, cases and modes: the        *)
(* document of a project (RfqDocument), and the benchmark (Benchmark),     *)
(* whose cases go through intake and gateway.                              *)
(*                                                                         *)
(* The document: whatever a request holds, loaded or pending, is of one    *)
(* piece and made of committed content and what the request itself adds    *)
(* (HeldInv); what a request stages contains what it has loaded, but for   *)
(* the replies that an RFQ turn leaves out (GrowInv).  All operations but  *)
(* the load, the first write of a reply, the commit and the failures are   *)
(* one kind of step, a staging (lemma Staging).                            *)
(*                                                                         *)
(* The benchmark: until a case is given up, the one that the run waits for *)
(* is alone at work; then provider and environment agree when it asks, and *)
(* it hears of its own call only (QuietInv).  Once a case was given up,    *)
(* some report, or the one still to come, does not pass its integrity gate *)
(* (TimeoutsInv).                                                          *)
(***************************************************************************)
EXTENDS RfqDocument, Benchmark, SequenceTheorems, TLAPS

HeldInv ==
  /\ Coherent(doc, priced) /\ Content(doc) \subseteq Done
  /\ \A r \in Requests :
       /\ Coherent(loaded[r], priced) /\ Content(loaded[r]) \subseteq Done
       /\ Coherent(pending[r], priced) /\ Content(pending[r]) \subseteq Done \cup {r}

Grows(r, d) ==
  /\ loaded[r].body \subseteq d.body
  /\ op[r] # "rfq" => loaded[r].replies \subseteq d.replies

GrowInv ==
  \A r \in Requests : pc[r] = "committing" /\ differs[r] => Grows(r, pending[r])

IInv == TypeOK /\ HeldInv /\ GrowInv /\ OnlyCommittedContent

(* The operations that write a document.                                   *)
Staged(r) ==
  \/ RfqBlocked(r)
  \/ RfqStops(r)
  \/ \E s \in Strategies : RfqReady(r, s)
  \/ ReplyWithoutRequirement(r)
  \/ \E withPrice \in BOOLEAN : ReplyAccumulates(r, withPrice)
  \/ \E s \in Strategies : UpdateStrategy(r, s)
  \/ \E asked \in Strategies \cup {NoStrategy} : RunGltg(r, asked)

(* What a request may stage: a document of one piece, with nothing in it   *)
(* but committed content and its own, that keeps what was loaded.          *)
Stageable(r, d, change) ==
  /\ Content(d) \subseteq Done \cup {r}
  /\ Coherent(d, priced')
  /\ change => Grows(r, d)

-----------------------------------------------------------------------------
(* The empty document is one, of one piece, with no content.               *)
LEMMA EmptyDocument ==
  Empty \in Documents /\ Coherent(Empty, priced) /\ Content(Empty) = {}
BY SMT DEF Empty, Documents, Coherent, Content

(* A document with other fields is a document.                             *)
LEMMA StrategyReplaced ==
  ASSUME NEW d \in Documents, NEW s \in Strategies
  PROVE  LET e == [d EXCEPT !.strategy = s]
         IN /\ e \in Documents
            /\ e.body = d.body /\ e.replies = d.replies
            /\ e.offer = d.offer /\ e.simulated = d.simulated
BY DEF Documents

LEMMA SimulationReplaced ==
  ASSUME NEW d \in Documents, NEW b \in SUBSET Requests, NEW s \in Strategies
  PROVE  /\ Simulated(d, b, s) \in Documents
         /\ Simulated(d, b, s).body = d.body
         /\ Simulated(d, b, s).replies = d.replies
         /\ Simulated(d, b, s).offer = d.offer
         /\ Simulated(d, b, s).simulated.body = b
<1> DEFINE m == [body |-> b, strategy |-> s]
           e == [d EXCEPT !.strategy = s, !.simulated = m]
<1>1. m \in Simulations /\ m.body = b
  BY DEF Simulations
<1> HIDE DEF m
<1>2. /\ e \in Documents /\ e.body = d.body /\ e.replies = d.replies
      /\ e.offer = d.offer /\ e.simulated = m
  BY <1>1 DEF Documents
<1>3. e = Simulated(d, b, s)
  BY DEF Simulated, m
<1> QED BY <1>1, <1>2, <1>3

LEMMA RepliesReplaced ==
  ASSUME NEW d \in Documents, NEW replies \in SUBSET Requests, NEW o \in Offers \cup {NoOffer}
  PROVE  /\ Replied(d, replies, o) \in Documents
         /\ Replied(d, replies, o).body = d.body
         /\ Replied(d, replies, o).replies = replies
         /\ Replied(d, replies, o).offer = o
         /\ Replied(d, replies, o).simulated = d.simulated
<1>1. Replied(d, replies, o) \in Documents
  BY DEF Documents, Replied
<1> QED BY <1>1 DEF Documents, Replied

(* The document of an RFQ turn: the merged requirement and nothing else.   *)
LEMMA RequirementDocument ==
  ASSUME NEW r \in Requests, loaded[r] \in Documents
  PROVE  /\ Requirement(r) \in Documents
         /\ Requirement(r).body = loaded[r].body \cup {r}
         /\ Requirement(r).replies = {}
         /\ Requirement(r).offer = NoOffer
         /\ Requirement(r).simulated = NoSimulation
BY SMT DEF Requirement, Empty, Documents

(* Coherence and content depend on what they are said of.                  *)
LEMMA RequirementStageable ==
  ASSUME IInv, NEW r \in Requests, NEW d \in Documents, op[r] = "rfq",
         d.body = loaded[r].body \cup {r}, d.replies = {}, d.offer = NoOffer,
         d.simulated # NoSimulation => d.simulated.body = d.body
  PROVE  Stageable(r, d, TRUE)
<1>1. Content(loaded[r]) \subseteq Done
  BY DEF IInv, HeldInv
<1>2. Content(d) \subseteq Done \cup {r}
  BY <1>1, SMT DEF Content
<1>3. Coherent(d, priced')
  BY SMT DEF Coherent
<1>4. Grows(r, d)
  BY SMT DEF Grows
<1> QED BY <1>2, <1>3, <1>4 DEF Stageable
(* A request that is being handled is not done, so its reply is in no      *)
(* loaded document.                                                        *)
LEMMA NotYetContent ==
  ASSUME IInv, NEW r \in Requests, pc[r] \in Running
  PROVE  r \notin Done /\ r \notin Content(doc)
         /\ \A q \in Requests : r \notin Content(loaded[q]) /\ (q # r => r \notin Content(pending[q]))
<1>1. r \notin Done
  BY SMT DEF Done, Running, Holding
<1> QED BY <1>1 DEF IInv, HeldInv

(* The document of a reply: the replies grow by it, and the options are    *)
(* generated from all priced ones.                                         *)
LEMMA ReplyStageable ==
  ASSUME IInv, NEW r \in Requests, NEW d \in Documents, NEW change,
         pc[r] \in Running, priced' = priced \/ priced' = priced \cup {r},
         d.body = loaded[r].body, d.replies = loaded[r].replies \cup {r},
         d.offer = BuyerOptions(r, d.replies, priced'), d.simulated = loaded[r].simulated
  PROVE  Stageable(r, d, change)
<1>1. loaded[r] \in Documents /\ Coherent(loaded[r], priced) /\ Content(loaded[r]) \subseteq Done
  BY DEF IInv, HeldInv, TypeOK
<1>2. loaded[r].body \subseteq Requests /\ d.replies \subseteq Requests
  BY <1>1, SMT DEF Documents
<1>3. loaded[r].body \subseteq Done /\ loaded[r].replies \subseteq Done
  BY <1>1, SMT DEF Content
<1>4. CASE d.replies \cap priced' = {}
  <2>1. d.offer = NoOffer
    BY <1>4 DEF BuyerOptions
  <2>2. Coherent(d, priced')
    BY <2>1, <1>4, <1>1, SMT DEF Coherent
  <2>3. Content(d) \subseteq Done \cup {r}
    BY <2>1, <1>3, SMT DEF Content
  <2> QED BY <2>2, <2>3, SMT DEF Stageable, Grows
<1>5. CASE d.replies \cap priced' # {}
  <2> DEFINE o == [by |-> r, from |-> d.replies \cap priced', body |-> loaded[r].body]
  <2>1. d.offer = o
    BY <1>5 DEF BuyerOptions
  <2>2. o \in Offers
    BY <1>2, SMT DEF Offers
  <2>3. o # NoOffer
    BY <2>2, Nulls
  <2>4. o.by = r /\ o.from = d.replies \cap priced' /\ o.body = loaded[r].body
    OBVIOUS
  <2> HIDE DEF o
  <2>5. Coherent(d, priced')
    BY <2>1, <2>3, <2>4, <1>1, SMT DEF Coherent
  <2>6. Content(d) \subseteq Done \cup {r}
    BY <2>1, <2>3, <2>4, <1>3, SMT DEF Content
  <2> QED BY <2>5, <2>6, SMT DEF Stageable, Grows
<1> QED BY <1>4, <1>5

(* A document that differs from the loaded one in strategy and simulation  *)
(* only.                                                                   *)
LEMMA FieldStageable ==
  ASSUME IInv, NEW r \in Requests, NEW d \in Documents, NEW change, priced' = priced,
         d.body = loaded[r].body, d.replies = loaded[r].replies, d.offer = loaded[r].offer,
         d.simulated # NoSimulation => d.simulated.body = d.body
  PROVE  Stageable(r, d, change)
<1>1. Coherent(loaded[r], priced) /\ Content(loaded[r]) \subseteq Done
  BY DEF IInv, HeldInv
<1>2. Coherent(d, priced')
  BY <1>1, SMT DEF Coherent
<1>3. Content(d) \subseteq Done
  BY <1>1, SMT DEF Content
<1> QED BY <1>2, <1>3, SMT DEF Stageable, Grows

(* Every operation that writes a document stages one that it may.          *)
LEMMA Staging ==
  ASSUME IInv, NEW r \in Requests, Staged(r)
  PROVE  /\ pc[r] \in {"loaded", "parsing"}
         /\ priced' = priced \/ priced' = priced \cup {r}
         /\ \E d \in Documents, change \in BOOLEAN : Stage(r, d, change) /\ Stageable(r, d, change)
<1> USE DEF At
<1>1. loaded[r] \in Documents /\ Coherent(loaded[r], priced)
  BY DEF IInv, TypeOK, HeldInv
<1>2. loaded[r].simulated # NoSimulation => loaded[r].simulated.body = loaded[r].body
  BY <1>1 DEF Coherent
<1>3. CASE RfqBlocked(r)
  <2>1. Stageable(r, Requirement(r), TRUE)
    BY <1>1, <1>3, RequirementDocument, RequirementStageable DEF RfqBlocked
  <2> QED BY <1>1, <1>3, <2>1, RequirementDocument DEF RfqBlocked
<1>4. CASE RfqStops(r)
  <2>1. Stageable(r, loaded[r], FALSE)
    BY <1>1, <1>2, <1>4, FieldStageable DEF RfqStops
  <2> QED BY <1>1, <1>4, <2>1 DEF RfqStops
<1>5. CASE \E s \in Strategies : RfqReady(r, s)
  <2>1. PICK s \in Strategies : RfqReady(r, s)
    BY <1>5
  <2> DEFINE q == Requirement(r)
             d == Simulated(q, q.body, s)
  <2>2. q \in Documents /\ q.body = loaded[r].body \cup {r} /\ q.replies = {} /\ q.offer = NoOffer
    BY <1>1, RequirementDocument
  <2>3. Stage(r, d, TRUE) /\ priced' = priced /\ pc[r] = "loaded" /\ op[r] = "rfq"
    BY <2>1 DEF RfqReady
  <2> HIDE DEF q
  <2>4. q.body \in SUBSET Requests
    BY <2>2, SMT DEF Documents
  <2>5. d \in Documents /\ d.body = q.body /\ d.replies = q.replies /\ d.offer = q.offer
        /\ d.simulated.body = q.body
    BY <2>2, <2>4, SimulationReplaced
  <2> HIDE DEF d
  <2>6. Stageable(r, d, TRUE)
    BY <2>2, <2>3, <2>5, RequirementStageable
  <2> QED BY <2>3, <2>5, <2>6
<1>6. CASE ReplyWithoutRequirement(r)
  <2>1. Stageable(r, Empty, FALSE)
    BY <1>1, <1>2, <1>6, FieldStageable DEF ReplyWithoutRequirement
  <2> QED BY <1>6, <2>1, EmptyDocument DEF ReplyWithoutRequirement
<1>7. CASE \E withPrice \in BOOLEAN : ReplyAccumulates(r, withPrice)
  <2>1. PICK withPrice \in BOOLEAN : ReplyAccumulates(r, withPrice)
    BY <1>7
  <2> DEFINE replies == loaded[r].replies \cup {r}
             o == BuyerOptions(r, replies, priced')
             d == Replied(loaded[r], replies, o)
  <2>2. /\ Stage(r, d, d # Aliased(r)) /\ pc[r] = "parsing"
        /\ priced' = priced \/ priced' = priced \cup {r}
    BY <2>1 DEF ReplyAccumulates
  <2>3. o \in Offers \cup {NoOffer} /\ replies \in SUBSET Requests
    BY <1>1, SMT DEF BuyerOptions, Offers, Documents
  <2> HIDE DEF o, replies
  <2>4. d \in Documents /\ d.body = loaded[r].body /\ d.replies = replies /\ d.offer = o
        /\ d.simulated = loaded[r].simulated
    BY <1>1, <2>3, RepliesReplaced
  <2> HIDE DEF d
  <2>5. d.offer = BuyerOptions(r, d.replies, priced') /\ d.replies = loaded[r].replies \cup {r}
    BY <2>4 DEF o, replies
  <2>6. Stageable(r, d, d # Aliased(r))
    BY <2>2, <2>4, <2>5, ReplyStageable DEF Running, Holding
  <2> QED BY <2>2, <2>4, <2>6
<1>8. CASE \E s \in Strategies : UpdateStrategy(r, s)
  <2>1. PICK s \in Strategies : UpdateStrategy(r, s)
    BY <1>8
  <2> DEFINE d == [loaded[r] EXCEPT !.strategy = s]
  <2>2. Stage(r, d, d # loaded[r]) /\ priced' = priced /\ pc[r] = "loaded"
    BY <2>1 DEF UpdateStrategy
  <2>3. d \in Documents /\ d.body = loaded[r].body /\ d.replies = loaded[r].replies
        /\ d.offer = loaded[r].offer /\ d.simulated = loaded[r].simulated
    BY <1>1, StrategyReplaced
  <2> HIDE DEF d
  <2>4. d.simulated # NoSimulation => d.simulated.body = d.body
    BY <1>2, <2>3
  <2>5. Stageable(r, d, d # loaded[r])
    BY <2>2, <2>3, <2>4, FieldStageable
  <2> QED BY <2>2, <2>3, <2>5
<1>9. CASE \E asked \in Strategies \cup {NoStrategy} : RunGltg(r, asked)
  <2>1. PICK asked \in Strategies \cup {NoStrategy} : RunGltg(r, asked)
    BY <1>9
  <2> DEFINE s == Chosen(r, asked)
             b == loaded[r].body
             d == Simulated(loaded[r], b, s)
  <2>2. PICK change \in {d # loaded[r], TRUE} : Stage(r, d, change)
    BY <2>1 DEF RunGltg
  <2>3. priced' = priced /\ pc[r] = "loaded"
    BY <2>1 DEF RunGltg
  <2>4. s \in Strategies /\ b \in SUBSET Requests
    BY <1>1, DefaultStrategy, SMT DEF Chosen, Documents
  <2> HIDE DEF s
  <2>5. d \in Documents /\ d.body = b /\ d.replies = loaded[r].replies
        /\ d.offer = loaded[r].offer /\ d.simulated.body = b
    BY <1>1, <2>4, SimulationReplaced
  <2> HIDE DEF d
  <2>6. Stageable(r, d, change)
    BY <2>3, <2>5, FieldStageable
  <2> QED BY <2>2, <2>3, <2>5, <2>6
<1> QED BY <1>3, <1>4, <1>5, <1>6, <1>7, <1>8, <1>9 DEF Staged

-----------------------------------------------------------------------------
(* The kinds of steps.                                                     *)
LEMMA StepKinds ==
  ASSUME NEW r \in Requests, Step(r)
  PROVE  (\E o \in Operations : Load(r, o)) \/ Staged(r) \/ ReplyParses(r) \/ Commit(r) \/ Raises(r)
BY DEF Step, Staged

(* A request that is done stays done.                                      *)
LEMMA DoneGrows ==
  ASSUME IInv, [Next]_vars
  PROVE  Done \subseteq Done'
<1> SUFFICES ASSUME NEW x \in Requests, pc[x] = "done" PROVE pc'[x] = "done"
  BY DEF Done
<1> USE DEF IInv, TypeOK, Goto
<1>1. CASE Crash
  BY <1>1 DEF Crash, InFlight, Running, Holding
<1>2. ASSUME NEW r \in Requests, Step(r)
      PROVE  pc'[x] = "done"
  <2>1. CASE \E o \in Operations : Load(r, o)
    BY <2>1 DEF Load
  <2>2. CASE Staged(r)
    BY <2>2, Staging DEF Stage
  <2>3. CASE ReplyParses(r)
    BY <2>3 DEF ReplyParses, At
  <2>4. CASE Commit(r)
    BY <2>4 DEF Commit
  <2>5. CASE Raises(r)
    BY <2>5 DEF Raises, Running, Holding
  <2> QED BY <1>2, <2>1, <2>2, <2>3, <2>4, <2>5, StepKinds
<1>3. CASE UNCHANGED vars
  BY <1>3 DEF vars
<1> QED BY <1>1, <1>2, <1>3 DEF Next

LEMMA TypePreserved ==
  ASSUME IInv, [Next]_vars
  PROVE  TypeOK'
<1> USE DEF IInv, TypeOK, Goto, Running, Holding
<1>1. CASE Crash
  BY <1>1, Bounds, SMT DEF Crash
<1>2. ASSUME NEW r \in Requests, Step(r)
      PROVE  TypeOK'
  <2>1. CASE \E o \in Operations : Load(r, o)
    BY <2>1 DEF Load
  <2>2. CASE Staged(r)
    <3>1. PICK d \in Documents, change \in BOOLEAN : Stage(r, d, change)
      BY <2>2, Staging
    <3>2. priced' \subseteq Requests
      BY <2>2, Staging
    <3> QED BY <3>1, <3>2 DEF Stage, Lock
  <2>3. CASE ReplyParses(r)
    BY <2>3 DEF ReplyParses, Lock
  <2>4. CASE Commit(r)
    <3>1. doc' \in Documents
      BY <2>4 DEF Commit
    <3>2. selected' \in Offers \cup {NoOffer}
      <4>1. pending[r].offer \in Offers \cup {NoOffer}
        BY SMT DEF Documents
      <4> QED BY <2>4, <4>1 DEF Commit
    <3> QED BY <2>4, <3>1, <3>2 DEF Commit
  <2>5. CASE Raises(r)
    BY <2>5 DEF Raises
  <2> QED BY <1>2, <2>1, <2>2, <2>3, <2>4, <2>5, StepKinds
<1>3. CASE UNCHANGED vars
  BY <1>3 DEF vars
<1> QED BY <1>1, <1>2, <1>3 DEF Next

(* A document that does not contain a reply that gets a price stays of one *)
(* piece.                                                                  *)
LEMMA CoherenceKept ==
  ASSUME NEW d, Coherent(d, priced), NEW r, r \notin Content(d),
         priced' = priced \/ priced' = priced \cup {r}
  PROVE  Coherent(d, priced')
<1>1. d.replies \cap priced' = d.replies \cap priced
  BY SMT DEF Content
<1> QED BY <1>1 DEF Coherent

LEMMA HeldPreserved ==
  ASSUME IInv, [Next]_vars
  PROVE  HeldInv'
<1> USE DEF IInv, Goto
<1>0. Done \subseteq Done'
  BY DoneGrows
<1>1. ASSUME UNCHANGED <<doc, priced, loaded, pending>>
      PROVE  HeldInv'
  BY <1>0, <1>1, SMT DEF HeldInv, Coherent, Content
<1>2. CASE Crash
  BY <1>1, <1>2 DEF Crash
<1>3. ASSUME NEW r \in Requests, Step(r)
      PROVE  HeldInv'
  <2>1. CASE \E o \in Operations : Load(r, o)
    <3>1. UNCHANGED <<doc, priced, pending>> /\ loaded' = [loaded EXCEPT ![r] = doc]
      BY <2>1 DEF Load
    <3>2. \A q \in Requests : loaded'[q] = loaded[q] \/ loaded'[q] = doc
      BY <3>1 DEF TypeOK
    <3> QED BY <1>0, <3>1, <3>2, SMT DEF HeldInv, Coherent, Content
  <2>2. CASE Staged(r)
    <3>1. PICK d \in Documents, change \in BOOLEAN : Stage(r, d, change) /\ Stageable(r, d, change)
      BY <2>2, Staging
    <3>2. pc[r] \in Running /\ (priced' = priced \/ priced' = priced \cup {r})
      BY <2>2, Staging DEF Running, Holding
    <3>3. UNCHANGED <<doc, loaded>> /\ pending'[r] = d
          /\ \A q \in Requests : q # r => pending'[q] = pending[q]
      BY <3>1 DEF Stage, TypeOK
    <3>4. Coherent(d, priced') /\ Content(d) \subseteq Done \cup {r}
      BY <3>1 DEF Stageable
    <3>5. /\ r \notin Content(doc)
          /\ \A q \in Requests : r \notin Content(loaded[q]) /\ (q # r => r \notin Content(pending[q]))
      BY <3>2, NotYetContent
    <3>6. /\ Coherent(doc, priced)'
          /\ \A q \in Requests : Coherent(loaded[q], priced)'
      BY <3>2, <3>3, <3>5, CoherenceKept DEF HeldInv, Coherent
    <3>7. \A q \in Requests : Coherent(pending[q], priced)'
      <4> TAKE q \in Requests
      <4>1. CASE q = r
        BY <4>1, <3>3, <3>4 DEF Coherent
      <4>2. CASE q # r
        BY <4>2, <3>2, <3>3, <3>5, CoherenceKept DEF HeldInv, Coherent
      <4> QED BY <4>1, <4>2
    <3>8. /\ Content(doc)' \subseteq Done'
          /\ \A q \in Requests : Content(loaded[q])' \subseteq Done'
      BY <1>0, <3>3 DEF HeldInv, Content
    <3>9. \A q \in Requests : Content(pending[q])' \subseteq Done' \cup {q}
      <4> TAKE q \in Requests
      <4>1. CASE q = r
        BY <1>0, <4>1, <3>3, <3>4 DEF Content
      <4>2. CASE q # r
        BY <1>0, <4>2, <3>3 DEF HeldInv, Content
      <4> QED BY <4>1, <4>2
    <3> QED BY <3>6, <3>7, <3>8, <3>9 DEF HeldInv
  <2>3. CASE ReplyParses(r)
    BY <1>1, <2>3 DEF ReplyParses
  <2>4. CASE Commit(r)
    <3>1. UNCHANGED <<priced, loaded, pending>> /\ (doc' = doc \/ doc' = pending[r])
      BY <2>4 DEF Commit
    <3>2. r \in Done'
      BY <2>4 DEF Commit, Done, TypeOK
    <3> QED BY <1>0, <3>1, <3>2, SMT DEF HeldInv, Coherent, Content
  <2>5. CASE Raises(r)
    BY <1>1, <2>5 DEF Raises
  <2> QED BY <1>3, <2>1, <2>2, <2>3, <2>4, <2>5, StepKinds
<1>4. CASE UNCHANGED vars
  BY <1>1, <1>4 DEF vars
<1> QED BY <1>2, <1>3, <1>4 DEF Next

LEMMA GrowPreserved ==
  ASSUME IInv, [Next]_vars
  PROVE  GrowInv'
<1> USE DEF IInv, TypeOK, Goto, GrowInv, Grows
<1>1. CASE Crash
  BY <1>1 DEF Crash, InFlight, Running, Holding
<1>2. ASSUME NEW r \in Requests, Step(r)
      PROVE  GrowInv'
  <2>1. CASE \E o \in Operations : Load(r, o)
    BY <2>1 DEF Load
  <2>2. CASE Staged(r)
    <3>1. PICK d \in Documents, change \in BOOLEAN : Stage(r, d, change) /\ Stageable(r, d, change)
      BY <2>2, Staging
    <3> QED BY <3>1 DEF Stage, Stageable
  <2>3. CASE ReplyParses(r)
    BY <2>3 DEF ReplyParses
  <2>4. CASE Commit(r)
    BY <2>4 DEF Commit
  <2>5. CASE Raises(r)
    BY <2>5 DEF Raises
  <2> QED BY <1>2, <2>1, <2>2, <2>3, <2>4, <2>5, StepKinds
<1>3. CASE UNCHANGED vars
  BY <1>3 DEF vars
<1> QED BY <1>1, <1>2, <1>3 DEF Next

LEMMA CommittedPreserved ==
  ASSUME IInv, [Next]_vars
  PROVE  OnlyCommittedContent'
<1> USE DEF IInv, Goto
<1>0. Done \subseteq Done' /\ HeldInv'
  BY DoneGrows, HeldPreserved
<1>1. Content(doc)' \subseteq Done'
  BY <1>0 DEF HeldInv
<1>2. ASSUME selected' = selected
      PROVE  OnlyCommittedContent'
  BY <1>0, <1>1, <1>2 DEF OnlyCommittedContent
<1>3. CASE Crash
  BY <1>2, <1>3 DEF Crash
<1>4. ASSUME NEW r \in Requests, Step(r)
      PROVE  OnlyCommittedContent'
  <2>1. CASE \E o \in Operations : Load(r, o)
    BY <1>2, <2>1 DEF Load
  <2>2. CASE Staged(r)
    BY <1>2, <2>2, Staging DEF Stage
  <2>3. CASE ReplyParses(r)
    BY <1>2, <2>3 DEF ReplyParses
  <2>4. CASE Commit(r)
    <3>1. CASE selected' = selected
      BY <1>2, <3>1
    <3>2. CASE selected' # selected
      <4>1. selected' = pending[r].offer /\ pending[r].offer # NoOffer
        BY <2>4, <3>2 DEF Commit, Selects
      <4>2. r \in Done'
        BY <2>4 DEF Commit, Done, TypeOK
      <4>3. {pending[r].offer.by} \cup pending[r].offer.from \subseteq Done'
        BY <1>0, <4>1, <4>2 DEF HeldInv, Content
      <4>4. pending[r].offer.body \subseteq Done'
        BY <1>0, <4>1, <4>2 DEF HeldInv, Content, Coherent
      <4> QED BY <1>1, <4>1, <4>3, <4>4 DEF OnlyCommittedContent
    <3> QED BY <3>1, <3>2
  <2>5. CASE Raises(r)
    BY <1>2, <2>5 DEF Raises
  <2> QED BY <1>4, <2>1, <2>2, <2>3, <2>4, <2>5, StepKinds
<1>5. CASE UNCHANGED vars
  BY <1>2, <1>5 DEF vars
<1> QED BY <1>3, <1>4, <1>5 DEF Next

(* Every reachable state satisfies the inductive invariant.                *)
THEOREM Invariance == Spec => []IInv
<1>1. Init => IInv
  <2> SUFFICES ASSUME Init PROVE IInv
    OBVIOUS
  <2>1. TypeOK
    BY EmptyDocument, Bounds DEF Init, TypeOK
  <2>2. Coherent(Empty, priced) /\ Content(Empty) \subseteq Done
    BY EmptyDocument
  <2>3. HeldInv
    BY <2>2 DEF Init, HeldInv
  <2>4. GrowInv /\ OnlyCommittedContent
    BY <2>2 DEF Init, GrowInv, OnlyCommittedContent
  <2> QED BY <2>1, <2>3, <2>4 DEF IInv
<1>2. IInv /\ [Next]_vars => IInv'
  BY TypePreserved, HeldPreserved, GrowPreserved, CommittedPreserved DEF IInv
<1> QED BY <1>1, <1>2, PTL DEF Spec

(* Every variable stays in its range.                                      *)
THEOREM TypeCorrect == Spec => []TypeOK
BY Invariance, PTL DEF IInv

(* The committed document is of one piece, however requests race.          *)
THEOREM DocumentIsCoherent == Spec => []DocumentCoherent
<1>1. IInv => DocumentCoherent
  BY DEF IInv, HeldInv, DocumentCoherent
<1> QED BY <1>1, Invariance, PTL

(* Nothing of a request that failed or still runs is committed.            *)
THEOREM CommittedContent == Spec => []OnlyCommittedContent
BY Invariance, PTL DEF IInv

-----------------------------------------------------------------------------
(* Content that every session in flight has loaded is not lost by a step.  *)
LEMMA CommitKeeps ==
  ASSUME IInv, NEW r \in Requests, Commit(r), NEW x
  PROVE  /\ x \in doc.body /\ x \in loaded[r].body => x \in doc'.body
         /\ op[r] # "rfq" /\ x \in doc.replies /\ x \in loaded[r].replies => x \in doc'.replies
BY DEF IInv, GrowInv, Grows, Commit

LEMMA SettledStep ==
  ASSUME IInv, [Next]_vars, NEW x \in Requests
  PROVE  /\ SettledTurn(x) => SettledTurn(x)'
         /\ SettledReply(x) => x \in doc'.replies /\ (SettledReply(x)' \/ RfqInFlight')
<1> USE DEF IInv, TypeOK, Goto, InFlight, SettledTurn, SettledReply
<1>1. ASSUME UNCHANGED <<doc, op, loaded>>, InFlight' \subseteq InFlight
      PROVE  /\ SettledTurn(x) => SettledTurn(x)'
             /\ SettledReply(x) => x \in doc'.replies /\ SettledReply(x)'
  BY <1>1
<1>2. CASE Crash
  BY <1>1, <1>2 DEF Crash, Running, Holding
<1>3. ASSUME NEW r \in Requests, Step(r)
      PROVE  /\ SettledTurn(x) => SettledTurn(x)'
             /\ SettledReply(x) => x \in doc'.replies /\ (SettledReply(x)' \/ RfqInFlight')
  <2>1. CASE \E o \in Operations : Load(r, o)
    <3>1. PICK o \in Operations : Load(r, o)
      BY <2>1
    <3>2. doc' = doc /\ loaded'[r] = doc /\ op'[r] = o /\ pc'[r] = "loaded"
          /\ \A q \in Requests \ {r} : loaded'[q] = loaded[q] /\ op'[q] = op[q] /\ pc'[q] = pc[q]
      BY <3>1 DEF Load
    <3>3. r \in InFlight'
      BY <3>2 DEF Running
    <3>4. SettledTurn(x) => SettledTurn(x)'
      BY <3>2
    <3>5. CASE o = "rfq"
      BY <3>2, <3>3, <3>4, <3>5 DEF RfqInFlight
    <3>6. CASE o # "rfq"
      BY <3>2, <3>4, <3>6
    <3> QED BY <3>5, <3>6
  <2>2. CASE Staged(r)
    <3>1. UNCHANGED <<doc, op, loaded>> /\ InFlight' \subseteq InFlight
      BY <2>2, Staging DEF Stage, Running, Holding
    <3> QED BY <1>1, <3>1
  <2>3. CASE ReplyParses(r)
    <3>1. UNCHANGED <<doc, op, loaded>> /\ InFlight' \subseteq InFlight
      BY <2>3 DEF ReplyParses, At, Running, Holding
    <3> QED BY <1>1, <3>1
  <2>4. CASE Commit(r)
    <3>1. UNCHANGED <<op, loaded>> /\ InFlight' \subseteq InFlight /\ r \in InFlight
      BY <2>4 DEF Commit, Running, Holding
    <3> QED BY <2>4, <3>1, CommitKeeps
  <2>5. CASE Raises(r)
    <3>1. UNCHANGED <<doc, op, loaded>> /\ InFlight' \subseteq InFlight
      BY <2>5 DEF Raises, Running, Holding
    <3> QED BY <1>1, <3>1
  <2> QED BY <1>3, <2>1, <2>2, <2>3, <2>4, <2>5, StepKinds
<1>4. CASE UNCHANGED vars
  BY <1>1, <1>4 DEF vars
<1> QED BY <1>2, <1>3, <1>4 DEF Next

(* Turns and replies are lost to overlaps only, replies to RFQ turns too.  *)
THEOREM SettledContent == Spec => SettledContentStays
<1>1. IInv /\ [Next]_vars =>
        [\A x \in Requests :
           /\ SettledTurn(x) => SettledTurn(x)'
           /\ SettledReply(x) => x \in doc'.replies /\ (SettledReply(x)' \/ RfqInFlight')]_vars
  BY SettledStep
<1> QED BY <1>1, Invariance, PTL DEF Spec, SettledContentStays

-----------------------------------------------------------------------------
(* The benchmark.                                                          *)

(* The parts of a thread's and of the run's variables.                     *)
Parts ==
  {"pc", "name", "model", "held", "reply", "answer", "raised", "heard", "awaited"}
MainParts == {"pc", "mode", "saved", "case", "options", "results"}

IsSequence(s) == Len(s) \in Nat /\ DOMAIN s = 1..Len(s) /\ s = [i \in 1..Len(s) |-> s[i]]

(* A thread that was given up does not hand in a result.                   *)
ShapeInv ==
  /\ HarnessTypeOK
  /\ \A t \in Threads : /\ DOMAIN thread[t] = Parts
                        /\ thread[t].awaited \in BOOLEAN
                        /\ ~thread[t].awaited => thread[t].pc # "done"
  /\ DOMAIN main = MainParts
  /\ main.case \in 0..Len(CaseList) /\ (main.pc = "waiting" => main.case > 0)
  /\ IsSequence(main.results) /\ (main.pc = "idle" => main.results = << >>)
  /\ IsSequence(reports)
  /\ Len(reports) <= Runs /\ (main.pc # "idle" => Len(reports) < Runs)

(* No case timed out: neither in this run nor, as far as the reports tell, *)
(* in an earlier one.                                                      *)
NoneTimedOut ==
  /\ \A i \in DOMAIN reports : reports[i].integrity
  /\ \A i \in DOMAIN main.results : ~main.results[i].timedOut

TimeoutsInv == NoneTimedOut => GivenUp = {}

(* As long as no case was given up, the case that the run waits for is the *)
(* only one at work and the only one that listens, ...                     *)
AloneInv ==
  /\ \A t \in Threads : thread[t].pc \notin {"new", "returned"} =>
       main.pc = "waiting" /\ t = ThisThread
  /\ \A t \in observers : main.pc = "waiting" /\ t = ThisThread /\ thread[t].pc # "done"

(* ... the provider it finds is the one of the mode, ...                   *)
ThreadOK(t, provider, cached) ==
  /\ t.pc \in {"provider", "publish", "take", "ask"} => t.name = provider
  /\ t.pc \in {"publish", "ask"} => t.held = BuildProvider(provider)
  /\ t.pc = "take" => cached = BuildProvider(provider)

ProviderInv ==
  /\ instance \in {"", BuildProvider(env.provider)}
  /\ \A t \in Threads : ThreadOK(thread[t], env.provider, instance)

(* ... and it hears of one call at most, its own.                          *)
HeardOK(t, by) ==
  /\ t.pc \notin {"judge", "done"} => t.heard = << >>
  /\ t.heard # << >> =>
       /\ t.heard = << t.heard[1] >> /\ t.heard[1].by = by
       /\ t.heard[1].used = ExpectedProvider /\ t.heard[1].ok => t.held = ExpectedProvider

HeardInv == \A t \in Threads : HeardOK(thread[t], t)

TruthInv ==
  /\ \A i \in DOMAIN main.results : Truthful(main.results[i])
  /\ \A i \in DOMAIN reports : reports[i].truthful

QuietInv == AloneInv /\ ProviderInv /\ HeardInv /\ TruthInv

HarnessInv ==
  /\ ShapeInv /\ TimeoutsInv /\ (GivenUp = {} => QuietInv)
  /\ ReportsTrusted

(* A case that is awaited is the one that the run waits for; what the      *)
(* skill replied to it, the skill replied in the mode that is on; and the  *)
(* results are those of the cases in their order.                          *)
AtWork(t) == t.awaited /\ t.pc \notin {"new", "returned"}

SkillInv ==
  /\ \A t \in Threads : AtWork(thread[t]) => main.pc = "waiting" /\ t = ThisThread
  /\ \A t \in Threads : thread[t].reply # NoReply => AtWork(thread[t]) /\ env.skill
  /\ Len(main.results) = IF main.pc = "waiting" THEN main.case - 1 ELSE main.case
  /\ ReadyBySkill

-----------------------------------------------------------------------------
(* Sequences: results, reports and the calls that a thread heard of.       *)
LEMMA AppendToSequence ==
  ASSUME NEW s, IsSequence(s), NEW e
  PROVE  /\ IsSequence(Append(s, e)) /\ Len(Append(s, e)) = Len(s) + 1
         /\ DOMAIN Append(s, e) = 1..Len(s) + 1
         /\ \A i \in 1..Len(s) : Append(s, e)[i] = s[i]
         /\ Append(s, e)[Len(s) + 1] = e
  <1> DEFINE T == {s[i] : i \in 1..Len(s)} \cup {e}
  <1>1. s \in Seq(T)
    <2>1. s \in [1..Len(s) -> T] /\ Len(s) \in Nat
      BY DEF IsSequence
    <2> QED  BY <2>1, SeqDef
  <1>2. e \in T
    OBVIOUS
  <1> HIDE DEF T
  <1>3. /\ Append(s, e) \in Seq(T) /\ Len(Append(s, e)) = Len(s) + 1
        /\ \A i \in 1..Len(s) : Append(s, e)[i] = s[i]
        /\ Append(s, e)[Len(s) + 1] = e
    BY <1>1, <1>2
  <1> DEFINE q == Append(s, e)
  <1>4. q \in Seq(T) /\ Len(q) = Len(s) + 1
    BY <1>3
  <1> HIDE DEF q
  <1>5. PICK n \in Nat : q \in [1..n -> T]
    BY <1>4, SeqDef
  <1>6. DOMAIN q = 1..Len(q) /\ Len(q) \in Nat
    BY <1>4
  <1>7. q = [i \in 1..Len(q) |-> q[i]]
    BY <1>5, <1>6
  <1>8. IsSequence(q)
    BY <1>6, <1>7 DEF IsSequence
  <1> QED  BY <1>3, <1>6, <1>8 DEF q

LEMMA NoElements == IsSequence(<< >>) /\ Len(<< >>) = 0 /\ DOMAIN << >> = {}
  BY DEF IsSequence

LEMMA OneElement ==
  ASSUME NEW e
  PROVE  /\ Append(<< >>, e) = << e >> /\ << e >> # << >>
         /\ DOMAIN << e >> = {1} /\ << e >>[1] = e /\ Last(<< e >>) = e
  <1>1. Append(<< >>, e) = << e >>
    OBVIOUS
  <1>2. DOMAIN << e >> = {1} /\ << e >>[1] = e /\ Len(<< e >>) = 1 /\ << e >> # << >>
    OBVIOUS
  <1> QED  BY <1>1, <1>2 DEF Last

(* What is true of a result that is appended and of the others is true of  *)
(* all, and the other way round.                                           *)
LEMMA AppendedElements ==
  ASSUME NEW s, IsSequence(s), NEW e
  PROVE  {Append(s, e)[i] : i \in DOMAIN Append(s, e)} = {s[i] : i \in DOMAIN s} \cup {e}
  <1>1. Len(s) \in Nat /\ DOMAIN s = 1..Len(s)
    BY DEF IsSequence
  <1>2. 1..Len(s) + 1 = 1..Len(s) \cup {Len(s) + 1}
    BY <1>1
  <1> QED  BY <1>1, <1>2, AppendToSequence

-----------------------------------------------------------------------------
(* What a case makes of the calls it heard of.                             *)
LEMMA ReadyCase ==
  ASSUME NEW t, NEW mode, RunCase(t, mode).ready
  PROVE  LET reply == thread[t].reply
         IN /\ SpokenOf(reply) \cap {"product", "category"} # {}
            /\ "destination" \in SpokenOf(reply)
            /\ Language[t] # "en" =>
                 {"quantity", "destination", "delivery"} \subseteq reply.fields
  <1> DEFINE r == CaseRequirement(t)
             reply == thread[t].reply
             source(f) == RecordedSource(Language[t], reply, thread[t].answer, f)
  <1>1. /\ \A f \in {"quantity", "delivery"} : HasValue(r, f)
        /\ \E f \in {"product", "category"} : IsAuthoritative(r, f)
        /\ IsAuthoritative(r, "destination")
    BY DEF RunCase, Ready, MissingFields
  <1>2. /\ \A f \in Fields : r.recorded[f] = source(f)
        /\ r.named = reply.named /\ r.listed = reply.listed
    BY DEF CaseRequirement, StructureRequirement
  <1>3. {"quantity", "product", "category", "destination", "delivery"} \subseteq Fields
    BY DEF Fields, NeededFields
  <1>4. ASSUME NEW f \in Fields, IsAuthoritative(r, f)
        PROVE  f \in SpokenOf(reply)
    <2>1. source(f) = "language_skill" => f \in reply.fields
      BY DEF RecordedSource
    <2> QED  BY <1>2, <1>4, <2>1 DEF IsAuthoritative, FieldSource, SpokenOf
  <1>5. ASSUME NEW f \in Fields, Language[t] # "en", HasValue(r, f), f # "category"
        PROVE  f \in reply.fields
    <2>1. ~CallsModel(Language[t], reply)
      BY <1>5 DEF CallsModel
    <2>2. source(f) # "" => f \in reply.fields
      BY <2>1 DEF RecordedSource
    <2> QED  BY <1>2, <1>5, <2>2 DEF HasValue
  <1>6. HasValue(r, "destination")
    BY <1>1 DEF IsAuthoritative
  <1> HIDE DEF r, source, reply
  <1>7. /\ SpokenOf(reply) \cap {"product", "category"} # {}
        /\ "destination" \in SpokenOf(reply)
        /\ Language[t] # "en" =>
             {"quantity", "destination", "delivery"} \subseteq reply.fields
    BY <1>1, <1>3, <1>4, <1>5, <1>6
  <1> QED  BY <1>7 DEF reply

LEMMA TruthfulCase ==
  ASSUME NEW t, HeardOK(thread[t], t), NEW mode
  PROVE  Truthful(RunCase(t, mode))
  <1> DEFINE heard == thread[t].heard
             result == RunCase(t, mode)
  <1>1. /\ result.own = (\A i \in DOMAIN heard : heard[i].by = t)
        /\ result.asked = thread[t].held /\ result.status = LocalCallStatus(t, mode)
    BY DEF RunCase
  <1>2. result.own
    <2>1. CASE heard = << >>
      BY <1>1, <2>1, NoElements
    <2>2. CASE heard # << >>
      <3>1. heard = << heard[1] >> /\ heard[1].by = t
        BY <2>2 DEF HeardOK
      <3>2. DOMAIN heard = {1}
        BY <3>1, OneElement
      <3> QED  BY <1>1, <3>1, <3>2
    <2> QED  BY <2>1, <2>2
  <1>3. ASSUME result.status = "real_local_call"
        PROVE  result.asked = ExpectedProvider
    <2>1. /\ mode \in LocalModes /\ Invoked(heard)
          /\ Primary(heard).used = ExpectedProvider /\ Primary(heard).ok
      BY <1>1, <1>3 DEF LocalCallStatus
    <2>2. heard # << >>
      BY <2>1 DEF Invoked
    <2>3. /\ heard = << heard[1] >>
          /\ heard[1].used = ExpectedProvider /\ heard[1].ok =>
               thread[t].held = ExpectedProvider
      BY <2>2 DEF HeardOK
    <2>4. Primary(heard) = heard[1]
      BY <2>3, OneElement DEF Primary
    <2> QED  BY <1>1, <2>1, <2>3, <2>4
  <1> QED  BY <1>2, <1>3 DEF Truthful

LEMMA TimeoutIsTruthful ==
  ASSUME NEW t
  PROVE  /\ Truthful(TimeoutResult(t)) /\ TimeoutResult(t).timedOut
  BY DEF TimeoutResult, Truthful

-----------------------------------------------------------------------------
(* The steps of a thread through the gateway.                              *)
LEMMA EmitEffect ==
  ASSUME ShapeInv, NEW e
  PROVE  /\ DOMAIN Emit(e) = Threads
         /\ \A u \in Threads :
              /\ DOMAIN Emit(e)[u] = Parts
              /\ Emit(e)[u].pc = thread[u].pc /\ Emit(e)[u].name = thread[u].name
              /\ Emit(e)[u].held = thread[u].held /\ Emit(e)[u].awaited = thread[u].awaited
              /\ Emit(e)[u].reply = thread[u].reply
              /\ u \notin observers => Emit(e)[u] = thread[u]
              /\ Emit(e)[u].heard \in {thread[u].heard, Append(thread[u].heard, e)}
  BY DEF ShapeInv, Parts, Emit

(* A thread that is at work, and leaves its result to FinishCase.          *)
Working(t) == t.pc \notin {"new", "returned", "done"}

(* What a call does to the thread that makes it, and to who listens.       *)
LEMMA CallEffect ==
  ASSUME ShapeInv, NEW t \in Threads, NEW e,
         \/ thread' = [Emit(e) EXCEPT ![t].pc = "judge"]
         \/ \E a : thread' = [Emit(e) EXCEPT ![t].answer = a, ![t].pc = "judge"]
  PROVE  /\ DOMAIN thread' = Threads
         /\ \A u \in Threads : /\ DOMAIN thread'[u] = Parts
                               /\ thread'[u].awaited = thread[u].awaited
                               /\ thread'[u].reply = thread[u].reply
                               /\ u # t => thread'[u].pc = thread[u].pc
                               /\ u # t /\ u \notin observers => thread'[u] = thread[u]
         /\ thread'[t].pc = "judge" /\ thread'[t].held = thread[t].held
         /\ thread'[t].heard \in {thread[t].heard, Append(thread[t].heard, e)}
  <1> DEFINE f == Emit(e)
  <1>1. /\ DOMAIN f = Threads
        /\ \A u \in Threads :
             /\ DOMAIN f[u] = Parts
             /\ f[u].pc = thread[u].pc
             /\ f[u].held = thread[u].held /\ f[u].awaited = thread[u].awaited
             /\ f[u].reply = thread[u].reply
             /\ u \notin observers => f[u] = thread[u]
             /\ f[u].heard \in {thread[u].heard, Append(thread[u].heard, e)}
    BY EmitEffect
  <1>2. \/ thread' = [f EXCEPT ![t].pc = "judge"]
        \/ \E a : thread' = [f EXCEPT ![t].answer = a, ![t].pc = "judge"]
    OBVIOUS
  <1> HIDE DEF f
  <1>3. /\ DOMAIN thread' = Threads /\ \A u \in Threads : u # t => thread'[u] = f[u]
        /\ DOMAIN thread'[t] = Parts /\ thread'[t].pc = "judge"
        /\ thread'[t].held = f[t].held /\ thread'[t].awaited = f[t].awaited
        /\ thread'[t].heard = f[t].heard /\ thread'[t].reply = f[t].reply
    <2>1. CASE thread' = [f EXCEPT ![t].pc = "judge"]
      BY <1>1, <2>1 DEF Parts
    <2>2. CASE \E a : thread' = [f EXCEPT ![t].answer = a, ![t].pc = "judge"]
      <3>1. PICK a : thread' = [f EXCEPT ![t].answer = a, ![t].pc = "judge"]
        BY <2>2
      <3> QED  BY <1>1, <3>1 DEF Parts
    <2> QED  BY <1>2, <2>1, <2>2
  <1> QED  BY <1>1, <1>3

(* What any other step does to the thread that takes it.                   *)
Moves(t) ==
  /\ DOMAIN thread' = Threads /\ \A u \in Threads : u # t => thread'[u] = thread[u]
  /\ DOMAIN thread'[t] = Parts /\ thread'[t].awaited = thread[t].awaited
  /\ thread'[t].heard = thread[t].heard

LEMMA CanonicalizeMoves ==
  ASSUME ShapeInv, NEW t \in Threads, Canonicalize(t)
  PROVE  /\ UNCHANGED <<env, instance, observers>> /\ Moves(t)
         /\ thread[t].pc = "intake" /\ thread'[t].pc \in {"policy", "judge"}
  <1>1. PICK q \in {"policy", "judge"} : \E a, b :
          thread' = [thread EXCEPT ![t].reply = a, ![t].raised = b, ![t].pc = q]
    <2>1. PICK outcome \in {"json", "failed"}, sent \in SkillReplies :
            LET r == Requested(outcome, sent)
                reply == CanonicalizeRfq(env.skill, r)
                raises == env.skill /\ SkillFailed(r) /\ ~env.failSoft
            IN thread' = [thread EXCEPT
                 ![t].reply = Keep(t, reply, NoReply), ![t].raised = raises,
                 ![t].pc = IF ~raises /\ CallsModel(Language[t], reply)
                             THEN "policy" ELSE "judge"]
      BY DEF Canonicalize
    <2> DEFINE r == Requested(outcome, sent)
               reply == CanonicalizeRfq(env.skill, r)
               raises == env.skill /\ SkillFailed(r) /\ ~env.failSoft
               q == IF ~raises /\ CallsModel(Language[t], reply) THEN "policy" ELSE "judge"
               a == Keep(t, reply, NoReply)
    <2>2. thread' = [thread EXCEPT ![t].reply = a, ![t].raised = raises, ![t].pc = q]
      BY <2>1
    <2>3. q \in {"policy", "judge"}
      OBVIOUS
    <2> HIDE DEF q, a, raises
    <2> QED  BY <2>2, <2>3
  <1>2. Moves(t) /\ thread'[t].pc = q
    BY <1>1 DEF ShapeInv, HarnessTypeOK, Parts, Moves
  <1> QED  BY <1>1, <1>2 DEF Canonicalize, ThreadAt

LEMMA PolicyMoves ==
  ASSUME ShapeInv, NEW t \in Threads, PolicyRefuses(t) \/ PolicyAllows(t)
  PROVE  /\ UNCHANGED <<env, instance, observers>> /\ Moves(t)
         /\ thread[t].pc = "policy"
         /\ \/ thread'[t].pc = "judge"
            \/ thread'[t].pc = "provider" /\ thread'[t].name = env.provider
  <1>1. CASE PolicyRefuses(t)
    BY <1>1 DEF PolicyRefuses, ThreadGoto, ThreadAt, ShapeInv, HarnessTypeOK, Parts, Moves
  <1>2. CASE PolicyAllows(t)
    BY <1>2 DEF PolicyAllows, ThreadAt, ShapeInv, HarnessTypeOK, Parts, Moves
  <1> QED  BY <1>1, <1>2

LEMMA ProviderMoves ==
  ASSUME ShapeInv, NEW t \in Threads,
         \/ BuildInstance(t) \/ FindInstance(t) \/ PublishInstance(t) \/ TakeInstance(t)
  PROVE  /\ UNCHANGED <<env, observers>> /\ Moves(t) /\ thread'[t].name = thread[t].name
         /\ \/ /\ thread[t].pc = "provider" /\ thread'[t].pc = "publish"
               /\ thread'[t].held = BuildProvider(env.provider) /\ instance' = instance
            \/ /\ thread[t].pc = "provider" /\ thread'[t].pc = "take"
               /\ instance # "" /\ instance' = instance
            \/ /\ thread[t].pc = "publish" /\ thread'[t].pc = "take"
               /\ instance' = thread[t].held
            \/ /\ thread[t].pc = "take" /\ thread'[t].pc = "ask"
               /\ thread'[t].held = instance /\ instance' = instance
  <1>1. CASE BuildInstance(t)
    BY <1>1 DEF BuildInstance, ThreadAt, ShapeInv, HarnessTypeOK, Parts, Moves
  <1>2. CASE FindInstance(t)
    BY <1>2 DEF FindInstance, ThreadGoto, ThreadAt, ShapeInv, HarnessTypeOK, Parts, Moves
  <1>3. CASE PublishInstance(t)
    BY <1>3 DEF PublishInstance, ThreadGoto, ThreadAt, ShapeInv, HarnessTypeOK, Parts, Moves
  <1>4. CASE TakeInstance(t)
    BY <1>4 DEF TakeInstance, ThreadAt, ShapeInv, HarnessTypeOK, Parts, Moves
  <1> QED  BY <1>1, <1>2, <1>3, <1>4

(* The calls, with the event that each of them is.                         *)
LEMMA CallSteps ==
  ASSUME NEW t \in Threads, LlmDisabled(t) \/ Answered(t) \/ CallFails(t)
  PROVE  \E e : /\ \/ thread' = [Emit(e) EXCEPT ![t].pc = "judge"]
                   \/ \E a : thread' = [Emit(e) EXCEPT ![t].answer = a, ![t].pc = "judge"]
                /\ thread[t].pc \in {"policy", "ask"}
                /\ UNCHANGED <<env, instance, observers>>
                /\ e.by = t
                /\ e.used = ExpectedProvider /\ e.ok =>
                     thread[t].pc = "ask" /\ thread[t].name = ExpectedProvider
  <1>1. CASE LlmDisabled(t)
    <2> DEFINE e == Event(t, env.provider, "none", FALSE)
    <2>1. e.by = t /\ ~e.ok
      BY DEF Event
    <2>2. thread' = [Emit(e) EXCEPT ![t].pc = "judge"] /\ thread[t].pc = "policy"
      BY <1>1 DEF LlmDisabled, ThreadAt
    <2> HIDE DEF e
    <2> QED  BY <1>1, <2>1, <2>2 DEF LlmDisabled
  <1>2. CASE Answered(t)
    <2> DEFINE e == Event(t, thread[t].name, thread[t].name, TRUE)
    <2>1. e.by = t /\ e.used = thread[t].name
      BY DEF Event
    <2>2. PICK a \in Answers :
            thread' = [Emit(e) EXCEPT ![t].answer = Keep(t, a, NoAnswer),
                                       ![t].pc = "judge"]
      BY <1>2 DEF Answered
    <2>3. thread[t].pc = "ask"
      BY <1>2 DEF Answered, ThreadAt
    <2> HIDE DEF e
    <2> QED  BY <1>2, <2>1, <2>2, <2>3 DEF Answered
  <1>3. CASE CallFails(t) /\ thread[t].name = "mock"
    <2> DEFINE e == Event(t, "mock", "mock", TRUE)
    <2>1. e.by = t /\ e.used # ExpectedProvider
      BY DEF Event, ExpectedProvider
    <2>2. PICK a \in Answers :
            thread' = [Emit(e) EXCEPT ![t].answer = Keep(t, a, NoAnswer),
                                       ![t].pc = "judge"]
      BY <1>3 DEF CallFails
    <2>3. thread[t].pc = "ask"
      BY <1>3 DEF CallFails, ThreadAt
    <2> HIDE DEF e
    <2> QED  BY <1>3, <2>1, <2>2, <2>3 DEF CallFails
  <1>4. CASE CallFails(t) /\ thread[t].name # "mock"
    <2> DEFINE e == Event(t, thread[t].name, thread[t].name, FALSE)
    <2>1. e.by = t /\ ~e.ok
      BY DEF Event
    <2>2. thread' = [Emit(e) EXCEPT ![t].pc = "judge"] /\ thread[t].pc = "ask"
      BY <1>4 DEF CallFails, ThreadAt
    <2> HIDE DEF e
    <2> QED  BY <1>4, <2>1, <2>2 DEF CallFails
  <1> QED  BY <1>1, <1>2, <1>3, <1>4

LEMMA GatewayShape ==
  ASSUME ShapeInv, NEW t \in Threads, GatewayStep(t)
  PROVE  /\ UNCHANGED <<env, observers>> /\ DOMAIN thread' = Threads
         /\ \A u \in Threads : /\ DOMAIN thread'[u] = Parts
                               /\ thread'[u].awaited = thread[u].awaited
                               /\ u # t => thread'[u].pc = thread[u].pc
         /\ Working(thread[t]) /\ Working(thread'[t])
  <1>1. CASE LlmDisabled(t) \/ Answered(t) \/ CallFails(t)
    <2>1. PICK e : /\ \/ thread' = [Emit(e) EXCEPT ![t].pc = "judge"]
                      \/ \E a : thread' = [Emit(e) EXCEPT ![t].answer = a, ![t].pc = "judge"]
                   /\ thread[t].pc \in {"policy", "ask"}
                   /\ UNCHANGED <<env, instance, observers>>
      BY <1>1, CallSteps
    <2> QED  BY <2>1, CallEffect DEF Working
  <1>2. CASE Canonicalize(t)
    BY <1>2, CanonicalizeMoves DEF Moves, ShapeInv, Working
  <1>3. CASE PolicyRefuses(t) \/ PolicyAllows(t)
    BY <1>3, PolicyMoves DEF Moves, ShapeInv, Working
  <1>4. CASE BuildInstance(t) \/ FindInstance(t) \/ PublishInstance(t) \/ TakeInstance(t)
    BY <1>4, ProviderMoves DEF Moves, ShapeInv, Working
  <1> QED  BY <1>1, <1>2, <1>3, <1>4 DEF GatewayStep

(* A thread alone leaves the gateway as it should be.                      *)
LEMMA QuietThread ==
  ASSUME ShapeInv, QuietInv, NEW t \in Threads, Working(thread[t]), Working(thread'[t]),
         \A u \in Threads : u # t => thread'[u] = thread[u],
         UNCHANGED <<env, observers, main, reports>>,
         instance' \in {"", BuildProvider(env.provider)},
         ThreadOK(thread'[t], env.provider, instance'), HeardOK(thread'[t], t)
  PROVE  QuietInv'
  <1>1. ThisThread' = ThisThread
    BY DEF ThisThread
  <1>2. main.pc = "waiting" /\ t = ThisThread
    BY DEF QuietInv, AloneInv, Working
  <1>3. \A u \in Threads : u # t => thread[u].pc \in {"new", "returned"}
    BY <1>2 DEF QuietInv, AloneInv
  <1>4. AloneInv'
    BY <1>1, <1>2, <1>3 DEF QuietInv, AloneInv, Working
  <1>5. ProviderInv'
    <2>1. \A u \in Threads : u # t => ThreadOK(thread'[u], env.provider, instance')
      BY <1>3 DEF ThreadOK
    <2> QED  BY <2>1 DEF ProviderInv
  <1>6. HeardInv'
    BY DEF QuietInv, HeardInv
  <1>7. TruthInv'
    BY DEF QuietInv, TruthInv
  <1> QED  BY <1>4, <1>5, <1>6, <1>7 DEF QuietInv

LEMMA GatewayQuiet ==
  ASSUME ShapeInv, QuietInv, NEW t \in Threads, GatewayStep(t), UNCHANGED <<main, reports>>
  PROVE  QuietInv'
  <1>1. /\ Working(thread[t]) /\ Working(thread'[t]) /\ UNCHANGED <<env, observers>>
    BY GatewayShape
  <1>2. \A u \in observers : u = t
    BY <1>1 DEF QuietInv, AloneInv, Working
  <1>3. /\ ThreadOK(thread[t], env.provider, instance) /\ HeardOK(thread[t], t)
        /\ instance \in {"", BuildProvider(env.provider)}
    BY DEF QuietInv, ProviderInv, HeardInv
  <1>4. CASE LlmDisabled(t) \/ Answered(t) \/ CallFails(t)
    <2>1. PICK e : /\ \/ thread' = [Emit(e) EXCEPT ![t].pc = "judge"]
                      \/ \E a : thread' = [Emit(e) EXCEPT ![t].answer = a, ![t].pc = "judge"]
                   /\ thread[t].pc \in {"policy", "ask"} /\ instance' = instance
                   /\ e.by = t
                   /\ e.used = ExpectedProvider /\ e.ok =>
                        thread[t].pc = "ask" /\ thread[t].name = ExpectedProvider
      BY <1>4, CallSteps
    <2>2. /\ \A u \in Threads : u # t => thread'[u] = thread[u]
          /\ thread'[t].pc = "judge" /\ thread'[t].held = thread[t].held
          /\ thread'[t].heard \in {thread[t].heard, Append(thread[t].heard, e)}
      BY <1>2, <2>1, CallEffect
    <2>3. thread[t].heard = << >>
      BY <1>3, <2>1 DEF HeardOK
    <2>4. e.used = ExpectedProvider /\ e.ok => thread'[t].held = ExpectedProvider
      <3>1. thread[t].pc = "ask" /\ thread[t].name = ExpectedProvider =>
              thread[t].held = ExpectedProvider
        BY <1>3 DEF ThreadOK, BuildProvider, ExpectedProvider
      <3> QED  BY <2>1, <2>2, <3>1
    <2>5. HeardOK(thread'[t], t)
      <3>1. CASE thread'[t].heard = << >>
        BY <2>2, <3>1 DEF HeardOK
      <3>2. CASE thread'[t].heard = << e >>
        BY <2>1, <2>2, <2>4, <3>2, OneElement DEF HeardOK
      <3> QED  BY <2>2, <2>3, <3>1, <3>2, OneElement
    <2>6. ThreadOK(thread'[t], env.provider, instance')
      BY <2>2 DEF ThreadOK
    <2> QED  BY <1>1, <1>3, <2>1, <2>2, <2>5, <2>6, QuietThread
  <1>5. ASSUME Moves(t), instance' = instance,
               \/ thread'[t].pc \in {"policy", "judge"} /\ thread[t].pc \in {"intake", "policy"}
               \/ /\ thread[t].pc = "policy" /\ thread'[t].pc = "provider"
                  /\ thread'[t].name = env.provider
        PROVE  QuietInv'
    <2>1. ThreadOK(thread'[t], env.provider, instance')
      BY <1>5 DEF ThreadOK
    <2>2. thread[t].heard = << >>
      BY <1>3, <1>5 DEF HeardOK
    <2>3. HeardOK(thread'[t], t)
      BY <1>5, <2>2 DEF HeardOK, Moves
    <2> QED  BY <1>1, <1>3, <1>5, <2>1, <2>3, QuietThread DEF Moves
  <1>6. CASE Canonicalize(t)
    BY <1>5, <1>6, CanonicalizeMoves
  <1>7. CASE PolicyRefuses(t) \/ PolicyAllows(t)
    BY <1>5, <1>7, PolicyMoves
  <1>8. CASE BuildInstance(t) \/ FindInstance(t) \/ PublishInstance(t) \/ TakeInstance(t)
    <2>1. /\ Moves(t) /\ thread'[t].name = thread[t].name
          /\ \/ /\ thread[t].pc = "provider" /\ thread'[t].pc = "publish"
                /\ thread'[t].held = BuildProvider(env.provider) /\ instance' = instance
             \/ /\ thread[t].pc = "provider" /\ thread'[t].pc = "take"
                /\ instance # "" /\ instance' = instance
             \/ /\ thread[t].pc = "publish" /\ thread'[t].pc = "take"
                /\ instance' = thread[t].held
             \/ /\ thread[t].pc = "take" /\ thread'[t].pc = "ask"
                /\ thread'[t].held = instance /\ instance' = instance
      BY <1>8, ProviderMoves
    <2>2. /\ ThreadOK(thread'[t], env.provider, instance')
          /\ instance' \in {"", BuildProvider(env.provider)}
      BY <1>3, <2>1 DEF ThreadOK
    <2>3. thread[t].heard = << >>
      BY <1>3, <2>1 DEF HeardOK
    <2>4. HeardOK(thread'[t], t)
      BY <2>1, <2>3 DEF HeardOK, Moves
    <2> QED  BY <1>1, <2>1, <2>2, <2>4, QuietThread DEF Moves
  <1> QED  BY <1>4, <1>6, <1>7, <1>8 DEF GatewayStep

-----------------------------------------------------------------------------
(* Steps that leave the run alone.                                         *)
LEMMA SameRun ==
  ASSUME HarnessInv, UNCHANGED <<main, reports>>, GivenUp' = GivenUp,
         ShapeInv', GivenUp = {} => QuietInv'
  PROVE  HarnessInv'
  <1>1. TimeoutsInv'
    BY DEF HarnessInv, TimeoutsInv, NoneTimedOut
  <1>2. ReportsTrusted'
    BY DEF HarnessInv, ReportsTrusted, Passing
  <1> QED  BY <1>1, <1>2 DEF HarnessInv

LEMMA GatewayKeeps ==
  ASSUME HarnessInv, NEW t \in Threads, GatewayStep(t), UNCHANGED <<main, reports>>
  PROVE  HarnessInv'
  <1>1. /\ DOMAIN thread' = Threads /\ observers' = observers
        /\ \A u \in Threads : /\ DOMAIN thread'[u] = Parts
                              /\ thread'[u].awaited = thread[u].awaited
                              /\ u # t => thread'[u].pc = thread[u].pc
        /\ Working(thread'[t])
    BY GatewayShape DEF HarnessInv
  <1>2. ShapeInv'
    BY <1>1 DEF HarnessInv, ShapeInv, HarnessTypeOK, Working
  <1>3. GivenUp' = GivenUp
    BY <1>1 DEF GivenUp
  <1>4. GivenUp = {} => QuietInv'
    BY GatewayQuiet DEF HarnessInv
  <1> QED  BY <1>2, <1>3, <1>4, SameRun

LEMMA FinishKeeps ==
  ASSUME HarnessInv, NEW t \in Threads, FinishCase(t)
  PROVE  HarnessInv'
  <1> USE DEF HarnessInv
  <1>1. /\ thread[t].pc = "judge" /\ observers' = observers \ {t}
        /\ UNCHANGED <<env, instance, main, reports>>
    BY DEF FinishCase, ThreadAt
  <1>2. /\ DOMAIN thread' = Threads /\ \A u \in Threads : u # t => thread'[u] = thread[u]
        /\ thread[t].awaited => thread'[t] = [thread[t] EXCEPT !.pc = "done"]
        /\ ~thread[t].awaited => thread'[t] = [Returned EXCEPT !.awaited = FALSE]
    BY DEF FinishCase, ShapeInv, HarnessTypeOK
  <1>3. /\ DOMAIN thread'[t] = Parts /\ thread'[t].awaited = thread[t].awaited
        /\ thread[t].awaited => /\ thread'[t].pc = "done"
                                /\ thread'[t].heard = thread[t].heard
                                /\ thread'[t].held = thread[t].held
        /\ ~thread[t].awaited => thread'[t].pc = "returned"
    <2>1. CASE thread[t].awaited
      BY <1>2, <2>1 DEF ShapeInv, Parts
    <2>2. CASE ~thread[t].awaited
      <3> DEFINE r == [Returned EXCEPT !.awaited = FALSE]
      <3>1. DOMAIN r = Parts /\ r.pc = "returned" /\ r.awaited = FALSE
        BY DEF Returned, Idle, Parts
      <3> HIDE DEF r
      <3>2. thread'[t] = r
        BY <1>2, <2>2 DEF r
      <3> QED  BY <2>2, <3>1, <3>2 DEF ShapeInv
    <2> QED  BY <2>1, <2>2
  <1>4. ShapeInv'
    BY <1>1, <1>2, <1>3 DEF ShapeInv, HarnessTypeOK
  <1>5. GivenUp' = GivenUp
    BY <1>2, <1>3 DEF GivenUp
  <1>6. ASSUME GivenUp = {}
        PROVE  QuietInv'
    <2>1. QuietInv /\ thread[t].awaited
      BY <1>6 DEF GivenUp
    <2>2. ThisThread' = ThisThread
      BY <1>1 DEF ThisThread
    <2>3. main.pc = "waiting" /\ t = ThisThread
      BY <1>1, <2>1 DEF QuietInv, AloneInv
    <2>4. AloneInv'
      BY <1>1, <1>2, <2>1, <2>2, <2>3 DEF QuietInv, AloneInv
    <2>5. ProviderInv'
      <3>1. ThreadOK(thread'[t], env.provider, instance)
        BY <1>3, <2>1 DEF ThreadOK
      <3> QED  BY <1>1, <1>2, <2>1, <3>1 DEF QuietInv, ProviderInv
    <2>6. HeardInv'
      <3>1. HeardOK(thread'[t], t)
        BY <1>3, <2>1 DEF QuietInv, HeardInv, HeardOK
      <3> QED  BY <1>2, <2>1, <3>1 DEF QuietInv, HeardInv
    <2>7. TruthInv'
      BY <1>1, <2>1 DEF QuietInv, TruthInv
    <2> QED  BY <2>4, <2>5, <2>6, <2>7 DEF QuietInv
  <1> QED  BY <1>1, <1>4, <1>5, <1>6, SameRun

-----------------------------------------------------------------------------
(* Steps of the run.                                                       *)
LEMMA StartKeeps ==
  ASSUME HarnessInv, NEW mode, NEW options, StartRun(mode, options)
  PROVE  HarnessInv'
  <1> USE DEF HarnessInv
  <1>1. /\ main.pc = "idle" /\ Len(reports) < Runs
        /\ instance' = "" /\ UNCHANGED <<observers, thread, reports>>
    BY DEF StartRun, ResetProvider
  <1>2. /\ DOMAIN main' = MainParts /\ main'.pc = "next" /\ main'.case = 0
        /\ main'.results = << >>
    BY DEF StartRun, Stopped, MainParts
  <1>3. ShapeInv'
    <2>1. Len(CaseList) \in Nat
      BY ListOfCases
    <2>2. HarnessTypeOK'
      BY <1>1, <1>2 DEF ShapeInv, HarnessTypeOK
    <2>3. main'.case \in 0..Len(CaseList) /\ main'.pc # "waiting"
      BY <1>2, <2>1
    <2>4. IsSequence(main'.results)
      BY <1>2, NoElements
    <2> QED  BY <1>1, <1>2, <2>2, <2>3, <2>4 DEF ShapeInv
  <1>4. GivenUp' = GivenUp
    BY <1>1 DEF GivenUp
  <1>5. main.results = << >>
    BY <1>1 DEF ShapeInv
  <1>6. TimeoutsInv'
    BY <1>1, <1>4, <1>5, NoElements DEF TimeoutsInv, NoneTimedOut
  <1>8. ASSUME GivenUp = {}
        PROVE  QuietInv'
    <2>1. /\ \A t \in Threads : thread[t].pc \in {"new", "returned"}
          /\ observers = {}
      BY <1>1, <1>8 DEF QuietInv, AloneInv
    <2>2. AloneInv'
      BY <1>1, <2>1 DEF AloneInv
    <2>3. ProviderInv'
      BY <1>1, <2>1 DEF ProviderInv, ThreadOK
    <2>4. HeardInv'
      BY <1>1, <1>8 DEF QuietInv, HeardInv
    <2>5. TruthInv'
      BY <1>1, <1>2, <1>8, NoElements DEF QuietInv, TruthInv
    <2> QED  BY <2>2, <2>3, <2>4, <2>5 DEF QuietInv
  <1>9. ReportsTrusted'
    BY <1>1 DEF ReportsTrusted, Passing
  <1> QED  BY <1>3, <1>4, <1>6, <1>8, <1>9

(* The thread of a case is one of the threads there are.                   *)
LEMMA ThreadOfCase ==
  ASSUME ShapeInv, NEW k \in 1..Len(CaseList), main.pc # "idle"
  PROVE  <<Len(reports) + 1, k>> \in Threads
  <1>1. Len(reports) \in Nat /\ Len(reports) < Runs /\ Runs \in Nat
    BY RunsBound DEF ShapeInv, IsSequence
  <1>2. Len(reports) + 1 \in 1..Runs
    BY <1>1
  <1>3. DOMAIN CaseList = 1..Len(CaseList)
    BY ListOfCases
  <1> QED  BY <1>2, <1>3, ThreadOfEachCase DEF Cases

LEMMA SubmitKeeps ==
  ASSUME HarnessInv, SubmitCase
  PROVE  HarnessInv'
  <1> USE DEF HarnessInv
  <1> DEFINE t == <<Len(reports) + 1, main.case + 1>>
  <1>1. /\ main.pc = "next" /\ main.case < Len(CaseList)
        /\ observers' = observers \cup {t} /\ thread' = [thread EXCEPT ![t].pc = "intake"]
        /\ UNCHANGED <<env, instance, reports>>
    BY DEF SubmitCase, ThreadGoto
  <1>2. /\ DOMAIN main' = MainParts /\ main'.pc = "waiting" /\ main'.case = main.case + 1
        /\ main'.results = main.results
    BY DEF SubmitCase, ShapeInv, MainParts
  <1>3. main.case + 1 \in 1..Len(CaseList) /\ Len(CaseList) \in Nat
    BY <1>1, ListOfCases DEF ShapeInv
  <1>4. t \in Threads
    BY <1>1, <1>3, ThreadOfCase
  <1>5. ThisThread' = t
    BY <1>1, <1>2 DEF ThisThread
  <1> HIDE DEF t
  <1>6. /\ DOMAIN thread' = Threads /\ \A u \in Threads : u # t => thread'[u] = thread[u]
        /\ DOMAIN thread'[t] = Parts /\ thread'[t].pc = "intake"
        /\ thread'[t].awaited = thread[t].awaited /\ thread'[t].heard = thread[t].heard
    BY <1>1, <1>4 DEF ShapeInv, HarnessTypeOK, Parts
  <1>7. ShapeInv'
    <2>1. HarnessTypeOK'
      BY <1>1, <1>2, <1>4, <1>6 DEF ShapeInv, HarnessTypeOK
    <2>2. main'.case \in 0..Len(CaseList) /\ main'.case > 0
      BY <1>2, <1>3
    <2> QED  BY <1>1, <1>2, <1>6, <2>1, <2>2 DEF ShapeInv
  <1>8. GivenUp' = GivenUp
    BY <1>6 DEF GivenUp
  <1>9. TimeoutsInv'
    BY <1>1, <1>2, <1>8 DEF TimeoutsInv, NoneTimedOut
  <1>11. ASSUME GivenUp = {}
         PROVE  QuietInv'
    <2>1. /\ \A u \in Threads : thread[u].pc \in {"new", "returned"}
          /\ observers = {}
      BY <1>1, <1>11 DEF QuietInv, AloneInv
    <2>2. AloneInv'
      BY <1>1, <1>2, <1>5, <1>6, <2>1 DEF AloneInv
    <2>3. ProviderInv'
      <3>1. \A u \in Threads : ThreadOK(thread'[u], env.provider, instance)
        BY <1>6, <2>1 DEF ThreadOK
      <3> QED  BY <1>1, <1>11, <3>1 DEF QuietInv, ProviderInv
    <2>4. HeardInv'
      <3>1. thread[t].heard = << >>
        BY <1>4, <1>11, <2>1 DEF QuietInv, HeardInv, HeardOK
      <3>2. HeardOK(thread'[t], t)
        BY <1>6, <3>1 DEF HeardOK
      <3> QED  BY <1>6, <1>11, <3>2 DEF QuietInv, HeardInv
    <2>5. TruthInv'
      BY <1>1, <1>2, <1>11 DEF QuietInv, TruthInv
    <2> QED  BY <2>2, <2>3, <2>4, <2>5 DEF QuietInv
  <1>12. ReportsTrusted'
    BY <1>1 DEF ReportsTrusted, Passing
  <1> QED  BY <1>7, <1>8, <1>9, <1>11, <1>12

(* What appending a result makes of the run.                               *)
LEMMA AppendedResult ==
  ASSUME ShapeInv, NEW result, AppendResult(result)
  PROVE  /\ DOMAIN main' = MainParts /\ main'.pc \in {"next", "leaving"}
         /\ main'.case = main.case /\ IsSequence(main'.results)
         /\ main'.results = Append(main.results, result)
         /\ {main'.results[i] : i \in DOMAIN main'.results}
              = {main.results[i] : i \in DOMAIN main.results} \cup {result}
  <1>1. /\ DOMAIN main' = MainParts /\ main'.pc \in {"next", "leaving"}
        /\ main'.case = main.case /\ main'.results = Append(main.results, result)
    BY DEF AppendResult, ShapeInv, MainParts
  <1>2. IsSequence(main.results)
    BY DEF ShapeInv
  <1> QED  BY <1>1, <1>2, AppendToSequence, AppendedElements

LEMMA AppendedReport ==
  ASSUME IsSequence(reports), NEW report, reports' = Append(reports, report)
  PROVE  /\ IsSequence(reports') /\ Len(reports') = Len(reports) + 1
         /\ {reports'[i] : i \in DOMAIN reports'}
              = {reports[i] : i \in DOMAIN reports} \cup {report}
  BY AppendToSequence, AppendedElements

LEMMA WaitedFor ==
  ASSUME ShapeInv, main.pc = "waiting"
  PROVE  ThisThread \in Threads
  <1>1. main.case \in 1..Len(CaseList)
    BY ListOfCases DEF ShapeInv
  <1> QED  BY <1>1, ThreadOfCase DEF ThisThread

LEMMA TakeKeeps ==
  ASSUME HarnessInv, TakeResult
  PROVE  HarnessInv'
  <1> USE DEF HarnessInv
  <1> DEFINE t == ThisThread
             result == RunCase(t, main.mode)
  <1>1. /\ main.pc = "waiting" /\ thread[t].pc = "done"
        /\ AppendResult(result) /\ thread' = [thread EXCEPT ![t] = Returned]
        /\ UNCHANGED <<env, instance, observers, reports>>
    BY DEF TakeResult, ThreadAt
  <1>2. t \in Threads
    BY <1>1, WaitedFor
  <1> HIDE DEF t
  <1>3. /\ DOMAIN main' = MainParts /\ main'.pc \in {"next", "leaving"}
        /\ main'.case = main.case /\ IsSequence(main'.results)
        /\ {main'.results[i] : i \in DOMAIN main'.results}
             = {main.results[i] : i \in DOMAIN main.results} \cup {result}
    BY <1>1, AppendedResult
  <1>5. QuietInv => Truthful(result)
    BY <1>2, TruthfulCase DEF QuietInv, HeardInv
  <1>6. ~result.timedOut
    BY DEF RunCase
  <1> HIDE DEF result
  <1>7. /\ DOMAIN thread' = Threads /\ \A u \in Threads : u # t => thread'[u] = thread[u]
        /\ thread'[t] = Returned
    BY <1>1, <1>2 DEF ShapeInv, HarnessTypeOK
  <1>8. /\ DOMAIN Returned = Parts /\ Returned.pc = "returned"
        /\ Returned.awaited = TRUE /\ Returned.heard = << >>
    BY DEF Returned, Idle, Parts
  <1>9. thread[t].awaited
    BY <1>1, <1>2 DEF ShapeInv
  <1>10. ShapeInv'
    <2>1. HarnessTypeOK'
      BY <1>1, <1>3, <1>7 DEF ShapeInv, HarnessTypeOK
    <2>2. /\ main'.case \in 0..Len(CaseList) /\ main'.pc # "waiting" /\ main'.pc # "idle"
          /\ Len(reports') < Runs
      BY <1>1, <1>3 DEF ShapeInv
    <2>3. \A u \in Threads : /\ DOMAIN thread'[u] = Parts
                             /\ thread'[u].awaited \in BOOLEAN
                             /\ ~thread'[u].awaited => thread'[u].pc # "done"
      BY <1>7, <1>8 DEF ShapeInv
    <2> QED  BY <1>1, <1>3, <2>1, <2>2, <2>3 DEF ShapeInv
  <1>11. GivenUp' = GivenUp
    BY <1>2, <1>7, <1>8, <1>9 DEF GivenUp
  <1>12. TimeoutsInv'
    BY <1>1, <1>3, <1>11 DEF TimeoutsInv, NoneTimedOut
  <1>14. ASSUME GivenUp = {}
         PROVE  QuietInv'
    <2>1. \A u \in Threads : thread'[u].pc \in {"new", "returned"}
      BY <1>7, <1>8, <1>14 DEF QuietInv, AloneInv, t
    <2>2. observers = {}
      BY <1>1, <1>14 DEF QuietInv, AloneInv, t
    <2>3. AloneInv'
      BY <1>1, <2>1, <2>2 DEF AloneInv
    <2>4. ProviderInv'
      <3>1. \A u \in Threads : ThreadOK(thread'[u], env.provider, instance)
        BY <2>1 DEF ThreadOK
      <3> QED  BY <1>1, <1>14, <3>1 DEF QuietInv, ProviderInv
    <2>5. HeardInv'
      <3>1. HeardOK(thread'[t], t)
        BY <1>7, <1>8 DEF HeardOK
      <3> QED  BY <1>7, <1>14, <3>1 DEF QuietInv, HeardInv
    <2>6. TruthInv'
      BY <1>1, <1>3, <1>5, <1>14 DEF QuietInv, TruthInv
    <2> QED  BY <2>3, <2>4, <2>5, <2>6 DEF QuietInv
  <1>15. ReportsTrusted'
    BY <1>1 DEF ReportsTrusted, Passing
  <1> QED  BY <1>10, <1>11, <1>12, <1>14, <1>15

(* A case that is given up disturbs what follows, and its run says so.     *)
LEMMA GiveUpKeeps ==
  ASSUME HarnessInv, GiveUp
  PROVE  HarnessInv'
  <1> USE DEF HarnessInv
  <1> DEFINE t == ThisThread
             result == TimeoutResult(t)
  <1>1. /\ main.pc = "waiting" /\ thread[t].pc # "done" /\ AppendResult(result)
        /\ thread' = [thread EXCEPT ![t].awaited = FALSE, ![t].heard = << >>,
                                    ![t].reply = NoReply, ![t].answer = NoAnswer]
        /\ UNCHANGED <<env, instance, observers, reports>>
    BY DEF GiveUp, ThreadAt
  <1>2. t \in Threads
    BY <1>1, WaitedFor
  <1> HIDE DEF t
  <1>3. /\ DOMAIN main' = MainParts /\ main'.pc \in {"next", "leaving"}
        /\ main'.case = main.case /\ IsSequence(main'.results)
        /\ {main'.results[i] : i \in DOMAIN main'.results}
             = {main.results[i] : i \in DOMAIN main.results} \cup {result}
    BY <1>1, AppendedResult
  <1>4. result.timedOut
    BY TimeoutIsTruthful
  <1> HIDE DEF result
  <1>5. /\ DOMAIN thread' = Threads /\ \A u \in Threads : u # t => thread'[u] = thread[u]
        /\ DOMAIN thread'[t] = Parts /\ thread'[t].awaited = FALSE
        /\ thread'[t].pc = thread[t].pc
    BY <1>1, <1>2 DEF ShapeInv, HarnessTypeOK, Parts
  <1>6. ShapeInv'
    <2>1. HarnessTypeOK'
      BY <1>1, <1>3, <1>5 DEF ShapeInv, HarnessTypeOK
    <2>2. /\ main'.case \in 0..Len(CaseList) /\ main'.pc # "waiting" /\ main'.pc # "idle"
          /\ Len(reports') < Runs
      BY <1>1, <1>3 DEF ShapeInv
    <2>3. \A u \in Threads : /\ DOMAIN thread'[u] = Parts
                             /\ thread'[u].awaited \in BOOLEAN
                             /\ ~thread'[u].awaited => thread'[u].pc # "done"
      <3>1. thread[t].pc # "done"
        BY <1>1
      <3> QED  BY <1>5, <3>1 DEF ShapeInv
    <2> QED  BY <1>1, <1>3, <2>1, <2>2, <2>3 DEF ShapeInv
  <1>7. GivenUp' # {}
    BY <1>2, <1>5 DEF GivenUp
  <1>8. TimeoutsInv'
    BY <1>3, <1>4 DEF TimeoutsInv, NoneTimedOut
  <1>10. ReportsTrusted'
    BY <1>1 DEF ReportsTrusted, Passing
  <1> QED  BY <1>6, <1>7, <1>8, <1>10

LEMMA ExitKeeps ==
  ASSUME HarnessInv, ExitMode
  PROVE  HarnessInv'
  <1> USE DEF HarnessInv
  <1> DEFINE report == [integrity  |-> Integrity(main.results, main.mode),
                        capability |-> Capability(main.results, main.mode, main.options.limited),
                        truthful   |-> \A i \in DOMAIN main.results : Truthful(main.results[i])]
  <1>1. /\ main.pc \in {"next", "leaving"} /\ instance' = "" /\ main' = Stopped
        /\ reports' = Append(reports, report) /\ UNCHANGED <<observers, thread>>
    BY DEF ExitMode, Leaving, ResetProvider
  <1>2. /\ report.integrity => \A i \in DOMAIN main.results : ~main.results[i].timedOut
        /\ (\A i \in DOMAIN main.results : Truthful(main.results[i])) => report.truthful
    BY DEF Integrity
  <1> HIDE DEF report
  <1>3. /\ DOMAIN main' = MainParts /\ main'.pc = "idle" /\ main'.case = 0
        /\ main'.results = << >>
    BY <1>1 DEF Stopped, MainParts
  <1>4. IsSequence(reports) /\ Len(reports) \in Nat /\ Len(reports) < Runs
    BY <1>1 DEF ShapeInv, IsSequence
  <1>5. /\ IsSequence(reports') /\ Len(reports') = Len(reports) + 1
        /\ {reports'[i] : i \in DOMAIN reports'}
             = {reports[i] : i \in DOMAIN reports} \cup {report}
    BY <1>1, <1>4, AppendedReport
  <1>6. ShapeInv'
    <2>1. Len(CaseList) \in Nat /\ Runs \in Nat
      BY ListOfCases, RunsBound
    <2>2. HarnessTypeOK'
      BY <1>1, <1>3 DEF ShapeInv, HarnessTypeOK
    <2>3. main'.case \in 0..Len(CaseList) /\ main'.pc # "waiting"
      BY <1>3, <2>1
    <2>4. IsSequence(main'.results)
      BY <1>3, NoElements
    <2>5. Len(reports') <= Runs
      BY <1>4, <1>5, <2>1
    <2> QED  BY <1>1, <1>3, <1>5, <2>2, <2>3, <2>4, <2>5 DEF ShapeInv
  <1>7. GivenUp' = GivenUp
    BY <1>1 DEF GivenUp
  <1>8. TimeoutsInv'
    <2> SUFFICES ASSUME NoneTimedOut'
                 PROVE  GivenUp = {}
      BY <1>7 DEF TimeoutsInv
    <2>1. \A i \in DOMAIN reports' : reports'[i].integrity
      BY DEF NoneTimedOut
    <2>2. report.integrity /\ \A i \in DOMAIN reports : reports[i].integrity
      BY <1>5, <2>1
    <2> QED  BY <1>2, <2>2 DEF TimeoutsInv, NoneTimedOut
  <1>10. ASSUME GivenUp = {}
         PROVE  QuietInv'
    <2>1. /\ \A t \in Threads : thread[t].pc \in {"new", "returned"}
          /\ observers = {}
      BY <1>1, <1>10 DEF QuietInv, AloneInv
    <2>2. AloneInv'
      BY <1>1, <2>1 DEF AloneInv
    <2>3. ProviderInv'
      BY <1>1, <2>1 DEF ProviderInv, ThreadOK
    <2>4. HeardInv'
      BY <1>1, <1>10 DEF QuietInv, HeardInv
    <2>5. TruthInv'
      <3>1. \A i \in DOMAIN reports' : reports'[i].truthful
        BY <1>2, <1>5, <1>10 DEF QuietInv, TruthInv
      <3> QED  BY <1>3, <3>1, NoElements DEF TruthInv
    <2> QED  BY <2>2, <2>3, <2>4, <2>5 DEF QuietInv
  <1>11. ReportsTrusted'
    <2> SUFFICES ASSUME Passing'
                 PROVE  \A i \in DOMAIN reports' : reports'[i].truthful
      BY DEF ReportsTrusted
    <2>1. report.integrity /\ \A i \in DOMAIN reports : reports[i].integrity
      <3>1. \A i \in DOMAIN reports' : reports'[i].integrity
        BY DEF Passing
      <3> QED  BY <1>5, <3>1
    <2>2. GivenUp = {}
      BY <1>2, <2>1 DEF TimeoutsInv, NoneTimedOut
    <2>3. report.truthful /\ \A i \in DOMAIN reports : reports[i].truthful
      BY <1>2, <2>2 DEF QuietInv, TruthInv
    <2> QED  BY <1>5, <2>3
  <1> QED  BY <1>6, <1>7, <1>8, <1>10, <1>11

-----------------------------------------------------------------------------
LEMMA HarnessBegin ==
  ASSUME HarnessInit
  PROVE  HarnessInv
  <1>1. /\ instance = "" /\ observers = {} /\ thread = [t \in Threads |-> Idle]
        /\ main = Stopped /\ reports = << >>
    BY DEF HarnessInit, GatewayInit
  <1>2. /\ DOMAIN Idle = Parts /\ Idle.awaited = TRUE
        /\ Idle.pc = "new" /\ Idle.heard = << >>
    BY DEF Idle, Parts
  <1>3. /\ DOMAIN main = MainParts /\ main.pc = "idle" /\ main.case = 0
        /\ main.results = << >>
    BY <1>1 DEF Stopped, MainParts
  <1>4. \A t \in Threads : thread[t] = Idle
    BY <1>1
  <1>5. ShapeInv
    <2>1. Len(CaseList) \in Nat /\ Runs \in Nat
      BY ListOfCases, RunsBound
    <2>2. main.case \in 0..Len(CaseList)
      BY <1>3, <2>1
    <2>3. Len(reports) = 0
      BY <1>1, NoElements
    <2>4. Len(reports) <= Runs
      BY <2>1, <2>3
    <2>5. HarnessTypeOK
      BY <1>1, <1>3 DEF HarnessTypeOK
    <2>6. IsSequence(reports) /\ IsSequence(main.results)
      BY <1>1, <1>3, NoElements
    <2> QED  BY <1>2, <1>3, <1>4, <2>2, <2>4, <2>5, <2>6 DEF ShapeInv
  <1>6. GivenUp = {}
    BY <1>2, <1>4 DEF GivenUp
  <1>7. AloneInv
    BY <1>1, <1>2, <1>4 DEF AloneInv
  <1>8. ProviderInv
    BY <1>1, <1>2, <1>4 DEF ProviderInv, ThreadOK
  <1>9. HeardInv
    BY <1>2, <1>4 DEF HeardInv, HeardOK
  <1>10. TruthInv /\ ReportsTrusted
    BY <1>1, <1>3, NoElements DEF TruthInv, ReportsTrusted
  <1> QED  BY <1>5, <1>6, <1>7, <1>8, <1>9, <1>10 DEF HarnessInv, TimeoutsInv, QuietInv

LEMMA HarnessStep ==
  ASSUME HarnessInv, [HarnessNext]_harnessVars
  PROVE  HarnessInv'
  <1>1. CASE UNCHANGED harnessVars
    BY <1>1 DEF harnessVars, gatewayVars, HarnessInv, ShapeInv, HarnessTypeOK,
       TimeoutsInv, NoneTimedOut, GivenUp, QuietInv, AloneInv, ProviderInv, HeardInv,
       TruthInv, ReportsTrusted, Passing, ThisThread
  <1>2. ASSUME NEW mode \in Modes, NEW options \in Options, StartRun(mode, options)
        PROVE  HarnessInv'
    BY <1>2, StartKeeps
  <1>3. CASE RunStep
    BY <1>3, SubmitKeeps, TakeKeeps, GiveUpKeeps, ExitKeeps DEF RunStep
  <1>4. ASSUME NEW t \in Threads, CaseStep(t)
        PROVE  HarnessInv'
    BY <1>4, FinishKeeps, GatewayKeeps DEF CaseStep
  <1> QED  BY <1>1, <1>2, <1>3, <1>4 DEF HarnessNext

(* As long as no case was given up, the harness is as if it ran one case   *)
(* after the other.                                                        *)
THEOREM HarnessInvariance == HarnessSpec => []HarnessInv
  <1>1. HarnessInit => HarnessInv
    BY HarnessBegin
  <1>2. HarnessInv /\ [HarnessNext]_harnessVars => HarnessInv'
    BY HarnessStep
  <1> QED  BY <1>1, <1>2, PTL DEF HarnessSpec

(* When every report passes its integrity gate, each result tells of its   *)
(* own case's calls, and a real local call was answered by the local       *)
(* provider (run_benchmark, run_case).                                     *)
THEOREM HarnessReportsTrusted == HarnessSpec => []ReportsTrusted
  <1>1. HarnessInv => ReportsTrusted
    BY DEF HarnessInv
  <1> QED  BY <1>1, HarnessInvariance, PTL

(* The provider that is asked is the one whose name the policy has let     *)
(* pass, unless a case was given up (llm_complete_json, get_provider).     *)
THEOREM HarnessAsksAsChecked == HarnessSpec => []AskedAsChecked
  <1>1. HarnessInv => AskedAsChecked
    BY DEF HarnessInv, QuietInv, ProviderInv, ThreadOK, AskedAsChecked, ThreadAt
  <1> QED  BY <1>1, HarnessInvariance, PTL

-----------------------------------------------------------------------------
(* A reply is the skill's, of a mode that has it.                          *)
LEMMA ReplyFromSkill ==
  ASSUME ShapeInv, NEW t \in Threads, GatewayStep(t)
  PROVE  \A u \in Threads :
           \/ thread'[u].reply \in {thread[u].reply, NoReply}
           \/ u = t /\ env.skill /\ thread[t].awaited
  <1>1. CASE LlmDisabled(t) \/ Answered(t) \/ CallFails(t)
    <2>1. PICK e : \/ thread' = [Emit(e) EXCEPT ![t].pc = "judge"]
                   \/ \E a : thread' = [Emit(e) EXCEPT ![t].answer = a, ![t].pc = "judge"]
      BY <1>1, CallSteps
    <2> QED  BY <2>1, CallEffect
  <1>2. CASE Canonicalize(t)
    <2>1. PICK outcome \in {"json", "failed"}, sent \in SkillReplies :
            LET r == Requested(outcome, sent)
                reply == CanonicalizeRfq(env.skill, r)
                raises == env.skill /\ SkillFailed(r) /\ ~env.failSoft
            IN thread' = [thread EXCEPT
                 ![t].reply = Keep(t, reply, NoReply), ![t].raised = raises,
                 ![t].pc = IF ~raises /\ CallsModel(Language[t], reply)
                             THEN "policy" ELSE "judge"]
      BY <1>2 DEF Canonicalize
    <2> DEFINE r == Requested(outcome, sent)
               reply == CanonicalizeRfq(env.skill, r)
               b == env.skill /\ SkillFailed(r) /\ ~env.failSoft
               q == IF ~b /\ CallsModel(Language[t], reply) THEN "policy" ELSE "judge"
               a == Keep(t, reply, NoReply)
    <2>2. a = NoReply \/ (env.skill /\ thread[t].awaited)
      BY DEF Keep, CanonicalizeRfq
    <2>3. thread' = [thread EXCEPT ![t].reply = a, ![t].raised = b, ![t].pc = q]
      BY <2>1
    <2> HIDE DEF a, b, q
    <2>4. thread'[t].reply = a /\ \A u \in Threads : u # t => thread'[u] = thread[u]
      BY <2>3 DEF ShapeInv, HarnessTypeOK, Parts
    <2> QED  BY <2>2, <2>4
  <1>3. CASE PolicyRefuses(t)
    BY <1>3 DEF PolicyRefuses, ThreadGoto, ShapeInv, HarnessTypeOK, Parts
  <1>4. CASE PolicyAllows(t)
    BY <1>4 DEF PolicyAllows, ShapeInv, HarnessTypeOK, Parts
  <1>5. CASE BuildInstance(t)
    BY <1>5 DEF BuildInstance, ShapeInv, HarnessTypeOK, Parts
  <1>6. CASE FindInstance(t)
    BY <1>6 DEF FindInstance, ThreadGoto, ShapeInv, HarnessTypeOK, Parts
  <1>7. CASE PublishInstance(t)
    BY <1>7 DEF PublishInstance, ThreadGoto, ShapeInv, HarnessTypeOK, Parts
  <1>8. CASE TakeInstance(t)
    BY <1>8 DEF TakeInstance, ShapeInv, HarnessTypeOK, Parts
  <1> QED  BY <1>1, <1>2, <1>3, <1>4, <1>5, <1>6, <1>7, <1>8 DEF GatewayStep

LEMMA SkillInCaseStep ==
  ASSUME ShapeInv, SkillInv, NEW t \in Threads, CaseStep(t)
  PROVE  SkillInv'
  <1>1. UNCHANGED <<env, main, reports>>
    BY GatewayShape DEF CaseStep, FinishCase
  <1>2. ReadyBySkill' /\ ThisThread' = ThisThread
    BY <1>1 DEF SkillInv, ReadyBySkill, ThisThread
  <1>3. CASE FinishCase(t)
    <2>1. thread[t].pc = "judge" /\ \A u \in Threads : u # t => thread'[u] = thread[u]
      BY <1>3 DEF FinishCase, ThreadAt, ShapeInv, HarnessTypeOK
    <2>2. CASE thread[t].awaited
      <3>1. thread' = [thread EXCEPT ![t].pc = "done"]
        BY <1>3, <2>2 DEF FinishCase
      <3>2. /\ thread'[t].pc = "done" /\ thread'[t].reply = thread[t].reply
            /\ thread'[t].awaited
        BY <2>2, <3>1 DEF ShapeInv, HarnessTypeOK, Parts
      <3> QED  BY <1>1, <1>2, <2>1, <2>2, <3>2 DEF SkillInv, AtWork
    <2>3. CASE ~thread[t].awaited
      <3> DEFINE r == [Returned EXCEPT !.awaited = FALSE]
      <3>1. r.reply = NoReply /\ r.awaited = FALSE
        BY DEF Returned, Idle
      <3> HIDE DEF r
      <3>2. thread'[t] = r
        BY <1>3, <2>3 DEF r, FinishCase, ShapeInv, HarnessTypeOK
      <3> QED  BY <1>1, <1>2, <2>1, <3>1, <3>2 DEF SkillInv, AtWork
    <2> QED  BY <2>2, <2>3
  <1>4. CASE GatewayStep(t)
    <2>1. /\ \A u \in Threads : thread'[u].awaited = thread[u].awaited
          /\ \A u \in Threads : u # t => thread'[u].pc = thread[u].pc
          /\ Working(thread[t]) /\ Working(thread'[t])
      BY <1>4, GatewayShape
    <2>2. \A u \in Threads : AtWork(thread'[u]) <=> AtWork(thread[u])
      BY <2>1 DEF AtWork, Working
    <2>3. thread[t].awaited => AtWork(thread[t])
      BY <2>1 DEF AtWork, Working
    <2>4. \A u \in Threads : thread'[u].reply # NoReply => AtWork(thread[u]) /\ env.skill
      BY <1>4, <2>3, ReplyFromSkill DEF SkillInv
    <2> QED  BY <1>1, <1>2, <2>2, <2>4 DEF SkillInv
  <1> QED  BY <1>3, <1>4 DEF CaseStep

(* Between two cases nothing is at work and no reply is kept.              *)
LEMMA NoReplyKept ==
  ASSUME SkillInv, main.pc # "waiting"
  PROVE  \A t \in Threads : ~AtWork(thread[t]) /\ thread[t].reply = NoReply
  BY DEF SkillInv

(* A result is appended as that of the case the run has waited for.        *)
LEMMA ResultAppended ==
  ASSUME ShapeInv, SkillInv, NEW result, AppendResult(result),
         main.pc = "waiting", env' = env,
         result.ready =>
           /\ env.skill
           /\ SpokenOf(result.skill) \cap {"product", "category"} # {}
           /\ "destination" \in SpokenOf(result.skill)
           /\ CaseList[main.case].language # "en" =>
                {"quantity", "destination", "delivery"} \subseteq result.skill.fields
  PROVE  ReadyBySkill' /\ main'.pc # "waiting" /\ Len(main'.results) = main'.case
  <1> DEFINE n == Len(main.results)
  <1>1. /\ main'.pc \in {"next", "leaving"} /\ main'.case = main.case
        /\ main'.results = Append(main.results, result)
    BY AppendedResult
  <1>2. /\ DOMAIN main'.results = 1..n + 1 /\ Len(main'.results) = n + 1
        /\ \A i \in 1..n : main'.results[i] = main.results[i]
        /\ main'.results[n + 1] = result
        /\ n \in Nat /\ DOMAIN main.results = 1..n
    BY <1>1, AppendToSequence DEF ShapeInv, IsSequence
  <1>3. n = main.case - 1 /\ main.case \in Nat
    <2>1. Len(CaseList) \in Nat
      BY ListOfCases
    <2> QED  BY <2>1 DEF SkillInv, ShapeInv
  <1>4. n + 1 = main.case
    BY <1>3
  <1>5. \A i \in 1..n + 1 : i \in 1..n \/ i = n + 1
    BY <1>2
  <1> HIDE DEF n
  <1>6. ASSUME NEW i \in DOMAIN main'.results, main'.results[i].ready
        PROVE  /\ env.skill
               /\ SpokenOf(main'.results[i].skill) \cap {"product", "category"} # {}
               /\ "destination" \in SpokenOf(main'.results[i].skill)
               /\ CaseList[i].language # "en" =>
                    {"quantity", "destination", "delivery"}
                      \subseteq main'.results[i].skill.fields
    <2>1. CASE i \in 1..n
      BY <1>2, <1>6, <2>1 DEF SkillInv, ReadyBySkill
    <2>2. CASE i = n + 1
      BY <1>2, <1>4, <1>6, <2>2
    <2> QED  BY <1>2, <1>5, <2>1, <2>2
  <1> QED  BY <1>1, <1>2, <1>4, <1>6 DEF ReadyBySkill

LEMMA SkillInRunStep ==
  ASSUME ShapeInv, SkillInv, RunStep
  PROVE  SkillInv'
  <1>1. CASE SubmitCase
    <2> DEFINE t == <<Len(reports) + 1, main.case + 1>>
    <2>1. /\ main.pc = "next" /\ main.case < Len(CaseList)
          /\ thread' = [thread EXCEPT ![t].pc = "intake"] /\ UNCHANGED <<env, reports>>
      BY <1>1 DEF SubmitCase, ThreadGoto
    <2>2. /\ main'.pc = "waiting" /\ main'.case = main.case + 1
          /\ main'.results = main.results
      BY <1>1 DEF SubmitCase, ShapeInv, MainParts
    <2>3. ThisThread' = t
      BY <2>1, <2>2 DEF ThisThread
    <2>4. main.case \in Nat
      BY ListOfCases DEF ShapeInv
    <2> HIDE DEF t
    <2>5. \A u \in Threads : /\ thread'[u].reply = thread[u].reply
                             /\ u # t => thread'[u] = thread[u]
      BY <2>1 DEF ShapeInv, HarnessTypeOK, Parts
    <2>6. \A u \in Threads : thread'[u].reply = NoReply /\ (u # t => ~AtWork(thread'[u]))
      BY <2>1, <2>5, NoReplyKept
    <2>7. ReadyBySkill'
      BY <2>1, <2>2 DEF SkillInv, ReadyBySkill
    <2>8. Len(main'.results) = main'.case - 1
      BY <2>1, <2>2, <2>4 DEF SkillInv
    <2> QED  BY <2>2, <2>3, <2>6, <2>7, <2>8 DEF SkillInv
  <1>2. ASSUME main.pc = "waiting", env' = env, reports' = reports,
               NEW result, AppendResult(result),
               result.ready =>
                 /\ env.skill
                 /\ SpokenOf(result.skill) \cap {"product", "category"} # {}
                 /\ "destination" \in SpokenOf(result.skill)
                 /\ CaseList[main.case].language # "en" =>
                      {"quantity", "destination", "delivery"} \subseteq result.skill.fields,
               \A u \in Threads : u # ThisThread => thread'[u] = thread[u],
               thread'[ThisThread].reply = NoReply, ~AtWork(thread'[ThisThread])
        PROVE  SkillInv'
    <2>1. ReadyBySkill' /\ main'.pc # "waiting" /\ Len(main'.results) = main'.case
      BY <1>2, ResultAppended
    <2>2. \A u \in Threads : ~AtWork(thread'[u]) /\ thread'[u].reply = NoReply
      BY <1>2 DEF SkillInv
    <2> QED  BY <2>1, <2>2 DEF SkillInv
  <1>3. CASE TakeResult
    <2> DEFINE t == ThisThread
               result == RunCase(t, main.mode)
    <2>1. /\ main.pc = "waiting" /\ AppendResult(result)
          /\ thread' = [thread EXCEPT ![t] = Returned] /\ UNCHANGED <<env, reports>>
      BY <1>3 DEF TakeResult
    <2>2. t \in Threads /\ t[2] = main.case
      BY <2>1, WaitedFor DEF ThisThread
    <2>3. Language[t] = CaseList[main.case].language
      BY <2>2, ThreadOfEachCase
    <2>4. result.skill = thread[t].reply
      BY DEF RunCase
    <2>5. SpokenOf(NoReply) = {}
      BY DEF SpokenOf, NoReply
    <2>6. result.ready =>
            /\ SpokenOf(result.skill) \cap {"product", "category"} # {}
            /\ "destination" \in SpokenOf(result.skill)
            /\ CaseList[main.case].language # "en" =>
                 {"quantity", "destination", "delivery"} \subseteq result.skill.fields
      BY <2>3, <2>4, ReadyCase
    <2> HIDE DEF t, result
    <2>7. result.ready => env.skill
      BY <2>2, <2>4, <2>5, <2>6 DEF SkillInv
    <2>8. /\ \A u \in Threads : u # t => thread'[u] = thread[u]
          /\ thread'[t] = Returned
      BY <2>1, <2>2 DEF ShapeInv, HarnessTypeOK
    <2>9. Returned.reply = NoReply /\ Returned.pc = "returned"
      BY DEF Returned, Idle
    <2> QED  BY <1>2, <2>1, <2>6, <2>7, <2>8, <2>9 DEF t, AtWork
  <1>4. CASE GiveUp
    <2> DEFINE t == ThisThread
               result == TimeoutResult(t)
    <2>1. /\ main.pc = "waiting" /\ AppendResult(result) /\ UNCHANGED <<env, reports>>
          /\ thread' = [thread EXCEPT ![t].awaited = FALSE, ![t].heard = << >>,
                                      ![t].reply = NoReply, ![t].answer = NoAnswer]
      BY <1>4 DEF GiveUp
    <2>2. t \in Threads
      BY <2>1, WaitedFor
    <2>3. ~result.ready
      BY DEF TimeoutResult
    <2> HIDE DEF t, result
    <2>4. /\ \A u \in Threads : u # t => thread'[u] = thread[u]
          /\ thread'[t].reply = NoReply /\ thread'[t].awaited = FALSE
      BY <2>1, <2>2 DEF ShapeInv, HarnessTypeOK, Parts
    <2> QED  BY <1>2, <2>1, <2>3, <2>4 DEF t, AtWork
  <1>5. CASE ExitMode
    <2>1. main.pc # "waiting" /\ main' = Stopped /\ thread' = thread
      BY <1>5 DEF ExitMode, Leaving
    <2>2. main'.results = << >> /\ main'.case = 0 /\ main'.pc = "idle"
      BY <2>1 DEF Stopped
    <2> QED  BY <2>1, <2>2, NoReplyKept, NoElements DEF SkillInv, ReadyBySkill
  <1> QED  BY <1>1, <1>3, <1>4, <1>5 DEF RunStep

LEMMA SkillStep ==
  ASSUME ShapeInv, SkillInv, [HarnessNext]_harnessVars
  PROVE  SkillInv'
  <1>1. CASE UNCHANGED harnessVars
    BY <1>1 DEF harnessVars, gatewayVars, SkillInv, ReadyBySkill, ThisThread
  <1>2. ASSUME NEW mode \in Modes, NEW options \in Options, StartRun(mode, options)
        PROVE  SkillInv'
    <2>1. main.pc = "idle" /\ thread' = thread
      BY <1>2 DEF StartRun
    <2>2. main'.results = << >> /\ main'.case = 0 /\ main'.pc = "next"
      BY <1>2 DEF StartRun, Stopped
    <2> QED  BY <2>1, <2>2, NoReplyKept, NoElements DEF SkillInv, ReadyBySkill
  <1>3. ASSUME NEW t \in Threads, CaseStep(t)
        PROVE  SkillInv'
    BY <1>3, SkillInCaseStep
  <1> QED  BY <1>1, <1>2, <1>3, SkillInRunStep DEF HarnessNext

(* No case is ready in a mode without the language skill, nor without the  *)
(* skill speaking of product and destination, and for a message that is    *)
(* not in English only what the skill gave is used (run_case,              *)
(* structure_requirement, field_sources).                                  *)
THEOREM HarnessReadyBySkill == HarnessSpec => []ReadyBySkill
  <1>1. HarnessInit => SkillInv
    <2> SUFFICES ASSUME HarnessInit
                 PROVE  SkillInv
      OBVIOUS
    <2>1. thread = [t \in Threads |-> Idle] /\ main = Stopped
      BY DEF HarnessInit, GatewayInit
    <2>2. Idle.pc = "new" /\ Idle.reply = NoReply
      BY DEF Idle
    <2>3. main.results = << >> /\ main.case = 0 /\ main.pc = "idle"
      BY <2>1 DEF Stopped
    <2> QED  BY <2>1, <2>2, <2>3, NoElements DEF SkillInv, AtWork, ReadyBySkill
  <1>2. HarnessInv /\ SkillInv /\ [HarnessNext]_harnessVars => SkillInv'
    BY SkillStep DEF HarnessInv
  <1>3. SkillInv => ReadyBySkill
    BY DEF SkillInv
  <1> QED  BY <1>1, <1>2, <1>3, HarnessInvariance, PTL DEF HarnessSpec
=============================================================================
