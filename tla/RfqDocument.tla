---------------------------- MODULE RfqDocument ----------------------------
(***************************************************************************)
(* The document projects.requirement_json of one Aivan project.            *)
(*                                                                         *)
(* RFQ turns, supplier replies, strategy updates and GLTG runs all load    *)
(* the whole document, compute a new one and write it back in the          *)
(* transaction of their request.  A session keeps the value it loaded; an  *)
(* UPDATE is issued only if the ORM sees a difference to that value; the   *)
(* first write waits for SQLite's write lock (see DraftApproval).          *)
(*                                                                         *)
(* Replies and RFQ turns are named by the request that brought them.       *)
(***************************************************************************)
EXTENDS Naturals, FiniteSets

CONSTANTS
  Requests,        \* HTTP requests
  Operations,      \* what they do, of "rfq", "reply", "strategy", "gltg"
  Strategies,      \* sourcing strategies
  Default,         \* the strategy RFQStrategy(), one of them
  NoRequest, NoStrategy, NoSimulation, NoOffer,
  MaxActive,       \* requests handled at the same time
  MaxCrashes       \* bound: process crashes in a behaviour

ASSUME OperationNames == Operations \subseteq {"rfq", "reply", "strategy", "gltg"}
ASSUME DefaultStrategy == Default \in Strategies
ASSUME Bounds == MaxActive \in Nat \ {0} /\ MaxCrashes \in Nat

(* A document: the turns its requirement was structured from, the strategy *)
(* and the GLTG simulation, the accumulated supplier replies, and the      *)
(* buyer options: the reply that generated them (their ids are fresh), the *)
(* replies and the requirement they were computed from.                    *)
Simulations == [body : SUBSET Requests, strategy : Strategies]
Offers == [by : Requests, from : SUBSET Requests, body : SUBSET Requests]

ASSUME Nulls ==
  /\ NoRequest \notin Requests
  /\ NoStrategy \notin Strategies
  /\ NoSimulation \notin Simulations
  /\ NoOffer \notin Offers

Documents ==
  [body : SUBSET Requests,
   strategy : Strategies \cup {NoStrategy},
   simulated : Simulations \cup {NoSimulation},
   replies : SUBSET Requests,
   offer : Offers \cup {NoOffer}]

(* None and {} alike: no requirement can be loaded from it.                *)
Empty == [body |-> {}, strategy |-> NoStrategy, simulated |-> NoSimulation,
          replies |-> {}, offer |-> NoOffer]

VARIABLES
  doc,        \* the committed document
  selected,   \* the committed selected_option_json
  priced,     \* the replies with a unit price
  writer,     \* the request whose transaction holds the write lock
  pc, op,     \* where each request is, and what it does
  loaded,     \* the document in the request's session
  pending,    \* the document it writes
  differs,    \* whether the ORM sees a difference between the two
  crashes     \* process crashes so far

vars == <<doc, selected, priced, writer, pc, op, loaded, pending, differs, crashes>>

Holding == {"parsing", "committing"}
Running == {"loaded"} \cup Holding

TypeOK ==
  /\ doc \in Documents
  /\ selected \in Offers \cup {NoOffer}
  /\ priced \subseteq Requests
  /\ writer \in Requests \cup {NoRequest}
  /\ pc \in [Requests -> {"new", "done", "failed", "lost"} \cup Running]
  /\ op \in [Requests -> Operations \cup {"none"}]
  /\ loaded \in [Requests -> Documents]
  /\ pending \in [Requests -> Documents]
  /\ differs \in [Requests -> BOOLEAN]
  /\ crashes \in 0 .. MaxCrashes

InFlight == {r \in Requests : pc[r] \in Running}

(* The project exists: a status event, for one, creates it empty.          *)
Init ==
  /\ doc = Empty
  /\ selected = NoOffer
  /\ priced = {}
  /\ writer = NoRequest
  /\ pc = [r \in Requests |-> "new"]
  /\ op = [r \in Requests |-> "none"]
  /\ loaded = [r \in Requests |-> Empty]
  /\ pending = [r \in Requests |-> Empty]
  /\ differs = [r \in Requests |-> FALSE]
  /\ crashes = 0

-----------------------------------------------------------------------------
Goto(r, label) == pc' = [pc EXCEPT ![r] = label]
At(r, label, o) == pc[r] = label /\ op[r] = o

(* A handler looks the project up; everything it knows of the document it  *)
(* knows from here.                                                        *)
Load(r, o) ==
  /\ pc[r] = "new"
  /\ Cardinality(InFlight) < MaxActive
  /\ op' = [op EXCEPT ![r] = o]
  /\ loaded' = [loaded EXCEPT ![r] = doc]
  /\ Goto(r, "loaded")
  /\ UNCHANGED <<doc, selected, priced, writer, pending, differs, crashes>>

(* The first write of a transaction, which gets the lock.                  *)
Lock(r) == writer \in {NoRequest, r} /\ writer' = r

(* update_requirement with document d, compared with the loaded value.     *)
Stage(r, d, change) ==
  /\ Lock(r)
  /\ pending' = [pending EXCEPT ![r] = d]
  /\ differs' = [differs EXCEPT ![r] = change]
  /\ Goto(r, "committing")
  /\ UNCHANGED <<doc, selected, op, loaded, crashes>>

-----------------------------------------------------------------------------
(* Mutant: the turn is structured without what earlier turns said.         *)
RequirementAfresh(r) == [Empty EXCEPT !.body = {r}]

(* An RFQ turn is merged with the requirement that was loaded; the new     *)
(* document holds nothing else of the old one.                             *)
Requirement(r) == [Empty EXCEPT !.body = loaded[r].body \cup {r}]

(* The readiness gate keeps the raw requirement only.                      *)
RfqBlocked(r) ==
  /\ At(r, "loaded", "rfq")
  /\ Stage(r, Requirement(r), TRUE)
  /\ UNCHANGED priced

(* Too few suppliers, or a dependency is unavailable: only the notice and  *)
(* the event are written.                                                  *)
RfqStops(r) ==
  /\ At(r, "loaded", "rfq")
  /\ Stage(r, loaded[r], FALSE)
  /\ UNCHANGED priced

(* Document d with the GLTG simulation of requirement b under strategy s.  *)
Simulated(d, b, s) ==
  [d EXCEPT !.strategy = s, !.simulated = [body |-> b, strategy |-> s]]

RfqReady(r, s) ==
  /\ At(r, "loaded", "rfq")
  /\ Stage(r, Simulated(Requirement(r), Requirement(r).body, s), TRUE)
  /\ UNCHANGED priced

-----------------------------------------------------------------------------
(* A supplier reply: the first event row takes the lock, then the text is  *)
(* parsed.                                                                 *)
ReplyParses(r) ==
  /\ At(r, "loaded", "reply")
  /\ Lock(r)
  /\ Goto(r, "parsing")
  /\ UNCHANGED <<doc, selected, priced, op, loaded, pending, differs, crashes>>

ReplyWithoutRequirement(r) ==
  /\ At(r, "parsing", "reply")
  /\ loaded[r] = Empty
  /\ Stage(r, Empty, FALSE)
  /\ UNCHANGED priced

(* generate_buyer_options: none unless some reply has a price.             *)
BuyerOptions(r, replies, withPrice) ==
  IF replies \cap withPrice = {} THEN NoOffer
  ELSE [by |-> r, from |-> replies \cap withPrice, body |-> loaded[r].body]

(* dict() copies the document but not the list of replies in it: the reply *)
(* is appended to the loaded document too, if it has such a list.          *)
Aliased(r) ==
  IF loaded[r].replies = {} THEN loaded[r]
  ELSE [loaded[r] EXCEPT !.replies = @ \cup {r}]

Replied(d, replies, offer) == [d EXCEPT !.replies = replies, !.offer = offer]

(* The reply is added to those that were loaded and the options are        *)
(* generated from all of them.                                             *)
ReplyAccumulates(r, withPrice) ==
  /\ At(r, "parsing", "reply")
  /\ loaded[r] # Empty
  /\ priced' = IF withPrice THEN priced \cup {r} ELSE priced
  /\ LET replies == loaded[r].replies \cup {r}
         d == Replied(loaded[r], replies, BuyerOptions(r, replies, priced'))
     IN Stage(r, d, d # Aliased(r))

-----------------------------------------------------------------------------
(* POST /strategy replaces one field of the loaded document.               *)
UpdateStrategy(r, s) ==
  /\ At(r, "loaded", "strategy")
  /\ LET d == [loaded[r] EXCEPT !.strategy = s] IN Stage(r, d, d # loaded[r])
  /\ UNCHANGED priced

(* Mutant: no default.                                                     *)
NoDefault(r, asked) == IF asked # NoStrategy THEN asked ELSE loaded[r].strategy

(* The strategy of a GLTG run: of the body, else of the document, else the *)
(* default.                                                                *)
Chosen(r, asked) ==
  IF asked # NoStrategy THEN asked
  ELSE IF loaded[r].strategy # NoStrategy THEN loaded[r].strategy
  ELSE Default

(* Mutant: the document is read again after the simulation.                *)
RunGltgRereads(r, asked) ==
  /\ At(r, "loaded", "gltg")
  /\ Stage(r, Simulated(doc, loaded[r].body, Chosen(r, asked)), TRUE)
  /\ UNCHANGED priced

(* POST /run-gltg; simulations of equal inputs need not be equal.          *)
RunGltg(r, asked) ==
  /\ At(r, "loaded", "gltg")
  /\ LET d == Simulated(loaded[r], loaded[r].body, Chosen(r, asked))
     IN \E change \in {d # loaded[r], TRUE} : Stage(r, d, change)
  /\ UNCHANGED priced

-----------------------------------------------------------------------------
(* selected_option_json is a column of its own, set by replies that        *)
(* generated options.                                                      *)
Selects(r) == op[r] = "reply" /\ pending[r].offer # NoOffer

Commit(r) ==
  /\ pc[r] = "committing"
  /\ doc' = IF differs[r] THEN pending[r] ELSE doc
  /\ selected' = IF Selects(r) THEN pending[r].offer ELSE selected
  /\ writer' = NoRequest
  /\ Goto(r, "done")
  /\ UNCHANGED <<priced, op, loaded, pending, differs, crashes>>

(* Mutant: what was written before the exception is committed.             *)
RaisesAndCommits(r) ==
  /\ pc[r] \in Running
  /\ Goto(r, "failed")
  /\ doc' = IF pc[r] = "committing" /\ differs[r] THEN pending[r] ELSE doc
  /\ writer' = IF writer = r THEN NoRequest ELSE writer
  /\ UNCHANGED <<selected, priced, op, loaded, pending, differs, crashes>>

(* An exception (a lock timeout, a failing external call) rolls back.      *)
Raises(r) ==
  /\ pc[r] \in Running
  /\ Goto(r, "failed")
  /\ writer' = IF writer = r THEN NoRequest ELSE writer
  /\ UNCHANGED <<doc, selected, priced, op, loaded, pending, differs, crashes>>

Crash ==
  /\ crashes < MaxCrashes
  /\ InFlight # {}
  /\ crashes' = crashes + 1
  /\ pc' = [r \in Requests |-> IF r \in InFlight THEN "lost" ELSE pc[r]]
  /\ writer' = NoRequest
  /\ UNCHANGED <<doc, selected, priced, op, loaded, pending, differs>>

Step(r) ==
  \/ \E o \in Operations : Load(r, o)
  \/ RfqBlocked(r)
  \/ RfqStops(r)
  \/ ReplyParses(r)
  \/ ReplyWithoutRequirement(r)
  \/ \E withPrice \in BOOLEAN : ReplyAccumulates(r, withPrice)
  \/ \E s \in Strategies : RfqReady(r, s)
  \/ \E s \in Strategies : UpdateStrategy(r, s)
  \/ \E asked \in Strategies \cup {NoStrategy} : RunGltg(r, asked)
  \/ Commit(r)
  \/ Raises(r)

Next == Crash \/ \E r \in Requests : Step(r)

Spec == Init /\ [][Next]_vars

-----------------------------------------------------------------------------
(* Properties.                                                             *)

(* However stale the documents that race to be written, the committed one  *)
(* is of one piece: its options were computed from exactly its priced      *)
(* replies and from its requirement, and its simulation from its           *)
(* requirement.                                                            *)
Coherent(d, withPrice) ==
  /\ d.offer = NoOffer => d.replies \cap withPrice = {}
  /\ d.offer # NoOffer => d.offer.from = d.replies \cap withPrice /\ d.offer.body = d.body
  /\ d.simulated # NoSimulation => d.simulated.body = d.body

DocumentCoherent == Coherent(doc, priced)

(* Nothing of a request that failed, was rolled back or still runs is ever *)
(* part of the document or of the selected option.                         *)
Content(d) ==
  d.body \cup d.replies \cup (IF d.offer = NoOffer THEN {} ELSE {d.offer.by} \cup d.offer.from)

Done == {r \in Requests : pc[r] = "done"}

OnlyCommittedContent ==
  /\ Content(doc) \subseteq Done
  /\ selected # NoOffer => {selected.by} \cup selected.from \cup selected.body \subseteq Done

(* Content is lost to overlaps only.  A turn that every session in flight  *)
(* has loaded stays for ever; so does a reply, until an RFQ turn comes,    *)
(* which starts the document afresh.                                       *)
SettledTurn(x) == x \in doc.body /\ \A r \in InFlight : x \in loaded[r].body
SettledReply(x) ==
  /\ x \in doc.replies
  /\ \A r \in InFlight : op[r] # "rfq" /\ x \in loaded[r].replies
RfqInFlight == \E r \in InFlight : op[r] = "rfq"

SettledContentStays ==
  [][\A x \in Requests :
        /\ SettledTurn(x) => SettledTurn(x)'
        /\ SettledReply(x) => x \in doc'.replies /\ (SettledReply(x)' \/ RfqInFlight')]_vars

-----------------------------------------------------------------------------
(* What a comment says and the code refutes.                               *)

(* execution/rfq_execution.py:891: "accumulate all prior replies/          *)
(* lead_times": a reply that was answered, to a project with a             *)
(* requirement, is in the document (with no RFQ turn and no overlap).      *)
AnsweredReplyRecorded ==
  \A r \in Requests : pc[r] = "done" /\ op[r] = "reply" /\ loaded[r] # Empty => r \in doc.replies
=============================================================================
