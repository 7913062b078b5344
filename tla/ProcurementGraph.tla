-------------------------- MODULE ProcurementGraph --------------------------
(***************************************************************************)
(* The transaction database of the procurement graph: actors, projects,    *)
(* edges, inquiries, responses and what belongs to them, under programs    *)
(* that share one SQLite file.  A program has one session.  A SELECT       *)
(* outside a transaction sees the last commit; the first INSERT or UPDATE  *)
(* takes the write lock, which is kept to the commit.  Nothing rolls back: *)
(* a failing call ends the program, and closing the session discards what  *)
(* was not committed.  With GIRAFFE_DB_MODE=off the adapter keeps the same *)
(* rows in the memory of the program instead.                              *)
(*                                                                         *)
(* A row is named by its place in its table: rows are never deleted.       *)
(***************************************************************************)
EXTENDS CapabilityScripts

CONSTANTS
  Sessions,      \* sessions, one for each program that is started
  NoSession,
  ProgramNames,  \* the programs that are started, some of DOMAIN ProgramOf
  MaxActive,     \* bound: programs that run at a time
  MaxCrashes     \* bound: crashes of a behaviour

ASSUME NoSessionOutside == NoSession \notin Sessions

VARIABLES
  stored,   \* the committed tables
  work,     \* the tables as the writing transaction sees them
  writer,   \* owner of the write lock
  memory,   \* the tables of a program in off mode
  open,     \* sessions whose program runs
  program,  \* the program of a session
  mode,     \* its GIRAFFE_DB_MODE
  place,    \* where it is: the call of a submission, and whether a lookup missed
  local,    \* its variables: rows by name
  commits,  \* the submissions it has committed
  known,    \* what was committed when its current submission began
  counted,  \* what it has counted last, and its project at that time
  crashes

started == <<open, program, mode>>
graphVars == <<stored, work, writer, memory, started, place, local, commits, known, counted, crashes>>

-----------------------------------------------------------------------------
ProgramOf ==
  [idempotency |-> SuiteIdempotency, incomplete |-> SuiteIncompleteReply,
   conflicting |-> SuiteConflictingReply, lifecycle |-> SuiteFullLifecycle,
   graph |-> SuiteGraphConsistency, parity |-> SuiteParity,
   fiverun |-> SuiteFiveRun, e2e |-> FullLifecycle, verify |-> RunLifecycle,
   smoke |-> SmokeTest, roles |-> RoleSwitching, seed |-> Seed,
   professional |-> ProfessionalFree, learning |-> SchemaLearning]

ASSUME ProgramsExist == ProgramNames \subseteq DOMAIN ProgramOf

(* Only the parity suite and the end-to-end run may choose the off mode.   *)
ModesOf(p) == IF p \in {"parity", "e2e"} THEN {"on", "off"} ELSE {"on"}

(* The foreign keys of each table (of an event, that to the project only); *)
(* inquiry_id and response_id of an edge are plain columns.                *)
ProjectKeys == [buyer |-> "actors", supplier |-> "actors"]
RequirementKeys == [project |-> "projects", source |-> "actors"]
EdgeKeys == [project |-> "projects", from |-> "actors", to |-> "actors",
             parent |-> "edges"]
InquiryKeys == [project |-> "projects", edge |-> "edges", from |-> "actors",
                to |-> "actors", requirement |-> "requirements"]
ResponseKeys == [project |-> "projects", edge |-> "edges",
                 inquiry |-> "inquiries", from |-> "actors", to |-> "actors"]
RollupKeys == [project |-> "projects", supplier |-> "actors"]
EventKeys == [project |-> "projects"]
RoleKeys == [project |-> "projects", edge |-> "edges", actor |-> "actors",
             counterparty |-> "actors"]
NeedKeys == [project |-> "projects", creator |-> "actors"]
UpstreamInquiryKeys == [project |-> "projects", edge |-> "edges",
                        need |-> "needs", parent |-> "actors", to |-> "actors"]
UpstreamResponseKeys == [project |-> "projects", edge |-> "edges",
                         inquiry |-> "upstream_inquiries", need |-> "needs",
                         from |-> "actors"]
UpstreamOptionKeys == [project |-> "projects", need |-> "needs",
                       actor |-> "actors"]
ApprovalKeys == [project |-> "projects", need |-> "needs",
                 requester |-> "actors"]

ArtifactKeys == [project |-> "projects", owner |-> "actors"]
CadPacketKeys == [project |-> "projects", buyer |-> "actors",
                  supplier |-> "actors"]
ShopProfileKeys == [actor |-> "actors"]
MatchKeys == [project |-> "projects", actor |-> "actors",
              packet |-> "cad_packets", profile |-> "shop_profiles"]
FitReportKeys == [project |-> "projects", actor |-> "actors",
                  match |-> "matches"]
SchemaKeys == [schema |-> "schemas"]
ObservedKeys == [project |-> "projects", actor |-> "actors",
                 message |-> "messages", artifact |-> "artifacts"]
DecisionKeys == [proposal |-> "proposals"]
ValueKeys == [field |-> "fields", message |-> "messages"]
MessageKeys == [project |-> "projects", sender |-> "actors"]

ForeignKeys ==
  [actors |-> NoRef, projects |-> ProjectKeys, requirements |-> RequirementKeys,
   edges |-> EdgeKeys, inquiries |-> InquiryKeys, responses |-> ResponseKeys,
   rollups |-> RollupKeys, events |-> EventKeys, roles |-> RoleKeys,
   needs |-> NeedKeys, upstream_inquiries |-> UpstreamInquiryKeys,
   upstream_responses |-> UpstreamResponseKeys,
   upstream_options |-> UpstreamOptionKeys, approvals |-> ApprovalKeys,
   artifacts |-> ArtifactKeys, cad_packets |-> CadPacketKeys,
   shop_profiles |-> ShopProfileKeys, matches |-> MatchKeys,
   fit_reports |-> FitReportKeys, schemas |-> NoRef, fields |-> SchemaKeys,
   proposals |-> SchemaKeys, decisions |-> DecisionKeys,
   observed |-> ObservedKeys, values |-> ValueKeys, messages |-> MessageKeys,
   notices |-> NoRef]

Tables == DOMAIN ForeignKeys

Empty == [t \in Tables |-> << >>]

(* What the programs' variables name: rows of one table each.              *)
TableOf ==
  [buyer |-> "actors", supplier |-> "actors", supplier_b |-> "actors",
   supplier_c |-> "actors", f1 |-> "actors", f2 |-> "actors", t1 |-> "actors",
   p1 |-> "actors", project |-> "projects", req |-> "requirements",
   edge |-> "edges", edge_f1 |-> "edges", edge_f2 |-> "edges",
   inquiry |-> "inquiries", response |-> "responses", rollup |-> "rollups",
   event |-> "events", role |-> "roles", need |-> "needs", fabric |-> "needs",
   uinq_f1 |-> "upstream_inquiries", uinq_f2 |-> "upstream_inquiries",
   uresp |-> "upstream_responses", best |-> "upstream_options",
   fastest |-> "upstream_options", approval |-> "approvals",
   artifact |-> "artifacts", packet |-> "cad_packets",
   profile |-> "shop_profiles", match |-> "matches", report |-> "fit_reports",
   schema |-> "schemas", field |-> "fields", message |-> "messages",
   observed |-> "observed", gsm |-> "proposals", cmm |-> "proposals",
   proposal |-> "proposals", decision |-> "decisions", value |-> "values",
   notice |-> "notices"]

Names == DOMAIN TableOf

Unset == [n \in Names |-> 0]

-----------------------------------------------------------------------------
(* How the programs are written, which nothing but their text ensures.     *)

(* The tables that are looked up, and the programs that do not.            *)
Shared == {"actors", "projects"}
CreatesAnyway == {"smoke", "roles", "professional", "learning", "seed"}

(* A call names rows of the tables that its columns refer to.  What a      *)
(* column of links will hold is not known when an edge is inserted, and an *)
(* update leaves foreign keys alone.                                       *)
TypedCall(c) ==
  /\ c.op \in {"find", "insert", "update"} =>
       /\ c.table \in Tables /\ c.as \in Names /\ TableOf[c.as] = c.table
       /\ \A f \in DOMAIN c.ref : c.ref[f] \in Names \cup {""}
       /\ \A f \in DOMAIN c.ref \cap DOMAIN ForeignKeys[c.table] :
            c.ref[f] # "" => TableOf[c.ref[f]] = ForeignKeys[c.table][f]
  /\ c.op \in {"find", "insert"} =>
       /\ DOMAIN ForeignKeys[c.table] \subseteq DOMAIN c.ref
       /\ c.table = "edges" => /\ {"inquiry", "response"} \subseteq DOMAIN c.ref
                               /\ c.ref["inquiry"] = "" /\ c.ref["response"] = ""
  /\ c.op = "find" =>
       c.table \in Shared /\ (c.table = "projects" => c.ref["buyer"] = "buyer")
  /\ c.op = "update" => DOMAIN c.ref \cap DOMAIN ForeignKeys[c.table] = {}

Inserts(c, table) == c.op = "insert" /\ c.table = table
LinksEdge(c, column) ==
  c.op = "update" /\ c.table = "edges" /\ column \in DOMAIN c.ref

(* Call d leaves what call c has done: it makes no other row go by one of  *)
(* its names, and does not link what c has left bare or linked.            *)
Leaves(d, c) ==
  /\ d.op \in {"find", "insert"} => d.as \notin {c.as} \cup {c.ref[f] : f \in DOMAIN c.ref}
  /\ Inserts(c, "edges") => ~LinksEdge(d, "inquiry") /\ ~LinksEdge(d, "response")
  /\ LinksEdge(c, "inquiry") => ~LinksEdge(d, "inquiry")

(* What call j has done stands when the program comes to call i.           *)
Lasts(submission, j, i) ==
  j < i /\ \A l \in j + 1 .. i - 1 : Leaves(submission[l], submission[j])

(* An edge that is bare is linked to an inquiry that was asked on it, and   *)
(* then to responses to that inquiry.                                      *)
LinksInOrder(submission) ==
  \A i \in DOMAIN submission : LET c == submission[i] IN
    c.op = "update" /\ c.table = "edges" =>
      /\ DOMAIN c.ref \in {{}, {"inquiry"}, {"response"}}
      /\ LinksEdge(c, "inquiry") =>
           /\ \E j \in DOMAIN submission :
                /\ Lasts(submission, j, i)
                /\ Inserts(submission[j], "edges") /\ submission[j].as = c.as
           /\ \E j \in DOMAIN submission :
                /\ Lasts(submission, j, i)
                /\ Inserts(submission[j], "inquiries") /\ submission[j].as = c.ref["inquiry"]
                /\ submission[j].ref["edge"] = c.as
      /\ LinksEdge(c, "response") => \E j, k \in DOMAIN submission :
           /\ Lasts(submission, j, i) /\ Lasts(submission, k, i)
           /\ Inserts(submission[j], "responses") /\ submission[j].as = c.ref["response"]
           /\ submission[j].ref["edge"] = c.as
           /\ LinksEdge(submission[k], "inquiry") /\ submission[k].as = c.as
           /\ submission[k].ref["inquiry"] = submission[j].ref["inquiry"]

(* All is committed at once, and checked afterwards.                       *)
CommitsOnce(submission) ==
  \E m \in DOMAIN submission :
    /\ submission[m].op = "commit"
    /\ \A i \in 1 .. m - 1 : submission[i].op \in {"find", "insert", "update"}
    /\ \A i \in m + 1 .. Len(submission) : submission[i].op = "check"

IsList(s) == Len(s) \in Nat /\ DOMAIN s = 1 .. Len(s) /\ s = [i \in 1 .. Len(s) |-> s[i]]

ASSUME ProgramsFormed ==
  \A p \in DOMAIN ProgramOf :
    /\ IsList(ProgramOf[p])
    /\ \A k \in DOMAIN ProgramOf[p] : LET submission == ProgramOf[p][k] IN
         /\ IsList(submission)
         /\ CommitsOnce(submission) /\ LinksInOrder(submission)
         /\ \A i \in DOMAIN submission :
              /\ TypedCall(submission[i])
              /\ submission[i].op = "insert" /\ submission[i].table \in Shared =>
                   p \in CreatesAnyway

-----------------------------------------------------------------------------
(* What the lookups of a submission that begins now would find.            *)
Identities(tables) ==
  [actors   |-> {tables.actors[i].key : i \in DOMAIN tables.actors},
   projects |-> {<<tables.projects[i].ref.buyer, tables.projects[i].key>> :
                   i \in DOMAIN tables.projects}]

(* get_counts, of which no assertion compares other tables, with the        *)
(* project that get_or_create_project returned.                            *)
Counts(tables, project) ==
  [actors |-> Len(tables.actors), projects |-> Len(tables.projects), project |-> project]

Nowhere == [submission |-> 0, call |-> 0, missed |-> FALSE]

CallOf(k, i) == [submission |-> k, call |-> i, missed |-> FALSE]

GraphInit ==
  /\ stored = Empty /\ work = Empty /\ writer = NoSession
  /\ memory = [s \in Sessions |-> Empty]
  /\ open = {}
  /\ program = [s \in Sessions |-> ""]
  /\ mode = [s \in Sessions |-> "on"]
  /\ place = [s \in Sessions |-> Nowhere]
  /\ local = [s \in Sessions |-> Unset]
  /\ commits = [s \in Sessions |-> 0]
  /\ known = [s \in Sessions |-> Identities(Empty)]
  /\ counted = [s \in Sessions |-> Counts(Empty, 0)]
  /\ crashes = 0

-----------------------------------------------------------------------------
View(s) == CASE mode[s] = "off" -> memory[s]
             [] writer = s      -> work
             [] OTHER           -> stored

(* A program begins; the first thing that suite 1 does is to count.        *)
Begin(s, p, m) ==
  /\ program[s] = "" /\ Cardinality(open) < MaxActive
  /\ open' = open \cup {s}
  /\ program' = [program EXCEPT ![s] = p]
  /\ mode' = [mode EXCEPT ![s] = m]
  /\ place' = [place EXCEPT ![s] = CallOf(1, 1)]
  /\ known' = [known EXCEPT ![s] = Identities(stored)]
  /\ counted' = [counted EXCEPT ![s] = Counts(stored, 0)]
  /\ UNCHANGED <<stored, work, writer, memory, local, commits, crashes>>

(* The submission that a program is at, its call, and what that does: a     *)
(* lookup that missed goes on to insert.                                   *)
Ended(s) == place[s].submission > Len(ProgramOf[program[s]])
Submitting(s) == ProgramOf[program[s]][place[s].submission]
Calling(s) == Submitting(s)[place[s].call]

Calls(s, op) ==
  /\ s \in open /\ ~Ended(s)
  /\ op = IF place[s].missed THEN "insert" ELSE Calling(s).op

Continue(s) ==
  LET k == place[s].submission
      i == place[s].call
  IN place' = [place EXCEPT ![s] = IF i < Len(Submitting(s)) THEN CallOf(k, i + 1)
                                                             ELSE CallOf(k + 1, 1)]

Assign(s, name, row) == local' = [local EXCEPT ![s][name] = row]

Rows(s, ref) == [f \in DOMAIN ref |-> IF ref[f] = "" THEN 0 ELSE local[s][ref[f]]]

(* Mutant: a lookup that trusts only the session's own rows.               *)
FoundOwn(s, c) ==
  {i \in DOMAIN View(s)[c.table] : View(s)[c.table][i].key = c.key /\ View(s)[c.table][i].by[1] = s}

Found(s, c) ==
  {i \in DOMAIN View(s)[c.table] :
     /\ View(s)[c.table][i].key = c.key
     /\ c.table = "projects" =>
          View(s)[c.table][i].ref.buyer = local[s]["buyer"]}

(* get_or_create_*: the lookup, which names any of several rows it finds.  *)
Find(s) ==
  /\ Calls(s, "find")
  /\ LET c == Calling(s)
     IN IF Found(s, c) # {}
          THEN /\ \E i \in Found(s, c) : Assign(s, c.as, i)
               /\ Continue(s)
          ELSE /\ place' = [place EXCEPT ![s].missed = TRUE]
               /\ UNCHANGED local
  /\ UNCHANGED <<stored, work, writer, memory, started, commits, known, counted, crashes>>

(* A write waits for the lock and takes it, or goes to memory.             *)
Write(s, tables) ==
  IF mode[s] = "off"
    THEN memory' = [memory EXCEPT ![s] = tables] /\ UNCHANGED <<work, writer>>
    ELSE /\ writer \in {s, NoSession}
         /\ writer' = s /\ work' = tables
         /\ UNCHANGED memory

InsertRow(s) ==
  /\ Calls(s, "insert")
  /\ LET c == Calling(s)
         row == [ref |-> Rows(s, c.ref), key |-> c.key, status |-> c.status,
                 by |-> <<s, commits[s] + 1>>]
     IN /\ Write(s, [View(s) EXCEPT ![c.table] = Append(@, row)])
        /\ Assign(s, c.as, Len(View(s)[c.table]) + 1)
  /\ Continue(s)
  /\ UNCHANGED <<stored, started, commits, known, counted, crashes>>

(* Mutant: a link that is set is kept.                                     *)
UpdatedOnce(s, c, row) ==
  [row EXCEPT !.ref = [f \in DOMAIN @ |-> IF f \in DOMAIN c.ref /\ @[f] = 0
                                            THEN Rows(s, c.ref)[f] ELSE @[f]],
              !.status = IF c.status = "" THEN @ ELSE c.status]

Updated(s, c, row) ==
  [row EXCEPT !.ref = [f \in DOMAIN @ |-> IF f \in DOMAIN c.ref
                                            THEN Rows(s, c.ref)[f] ELSE @[f]],
              !.status = IF c.status = "" THEN @ ELSE c.status]

(* Mutant: the update names the rows by the status it replaces.            *)
UpdateEveryRow(s) ==
  /\ Calls(s, "update")
  /\ LET c == Calling(s)
         rows == View(s)[c.table]
     IN Write(s, [View(s) EXCEPT ![c.table] = [i \in DOMAIN rows |->
          IF rows[i].status = rows[local[s][c.as]].status THEN Updated(s, c, rows[i]) ELSE rows[i]]])
  /\ Continue(s)
  /\ UNCHANGED <<stored, started, local, commits, known, counted, crashes>>

UpdateRow(s) ==
  /\ Calls(s, "update")
  /\ LET c == Calling(s)
     IN Write(s, [View(s) EXCEPT ![c.table][local[s][c.as]] = Updated(s, c, @)])
  /\ Continue(s)
  /\ UNCHANGED <<stored, started, local, commits, known, counted, crashes>>

CommitSubmission(s) ==
  /\ Calls(s, "commit")
  /\ IF writer = s
       THEN stored' = work /\ work' = Empty /\ writer' = NoSession
       ELSE UNCHANGED <<stored, work, writer>>
  /\ commits' = [commits EXCEPT ![s] = @ + 1]
  /\ known' = [known EXCEPT ![s] = Identities(stored')]
  /\ Continue(s)
  /\ UNCHANGED <<memory, started, local, counted, crashes>>

(* The assertions that follow a commit read committed rows; those on       *)
(* numbers of rows remember what they counted for the next.                *)
CheckRows(s) ==
  /\ Calls(s, "check")
  /\ counted' = IF Calling(s).as = "counts"
                THEN [counted EXCEPT ![s] = Counts(View(s), local[s]["project"])] ELSE counted
  /\ Continue(s)
  /\ UNCHANGED <<stored, work, writer, memory, started, local, commits, known, crashes>>

(* Mutant: close commits what is open.                                     *)
CloseCommitted(s) ==
  /\ open' = open \ {s}
  /\ place' = [place EXCEPT ![s] = Nowhere]
  /\ local' = [local EXCEPT ![s] = Unset]
  /\ memory' = [memory EXCEPT ![s] = Empty]
  /\ known' = [known EXCEPT ![s] = Identities(Empty)]
  /\ counted' = [counted EXCEPT ![s] = Counts(Empty, 0)]
  /\ IF writer = s THEN writer' = NoSession /\ work' = Empty /\ stored' = work
                   ELSE UNCHANGED <<writer, work, stored>>
  /\ UNCHANGED <<program, mode, commits>>

(* close: what is not committed is gone.                                   *)
Close(s) ==
  /\ open' = open \ {s}
  /\ place' = [place EXCEPT ![s] = Nowhere]
  /\ local' = [local EXCEPT ![s] = Unset]
  /\ memory' = [memory EXCEPT ![s] = Empty]
  /\ known' = [known EXCEPT ![s] = Identities(Empty)]
  /\ counted' = [counted EXCEPT ![s] = Counts(Empty, 0)]
  /\ IF writer = s THEN writer' = NoSession /\ work' = Empty
                   ELSE UNCHANGED <<writer, work>>
  /\ UNCHANGED <<stored, program, mode, commits>>

End(s) == s \in open /\ Ended(s) /\ Close(s) /\ UNCHANGED crashes

LockTimeout(s) ==
  /\ Calls(s, "insert") \/ Calls(s, "update")
  /\ mode[s] = "on" /\ writer \notin {s, NoSession}
  /\ Close(s) /\ UNCHANGED crashes

Crash(s) ==
  /\ s \in open /\ crashes < MaxCrashes
  /\ crashes' = crashes + 1
  /\ Close(s)

GraphNext ==
  \E s \in Sessions :
    \/ \E p \in ProgramNames : \E m \in ModesOf(p) : Begin(s, p, m)
    \/ Find(s) \/ InsertRow(s) \/ UpdateRow(s)
    \/ CommitSubmission(s) \/ CheckRows(s) \/ End(s)
    \/ LockTimeout(s) \/ Crash(s)

GraphSpec == GraphInit /\ [][GraphNext]_graphVars

-----------------------------------------------------------------------------
(* The queries of check_graph_consistency.                                 *)
ListProjectEdges(tables, p) ==
  {i \in DOMAIN tables.edges : tables.edges[i].ref.project = p}
ListProjectInquiries(tables, p) ==
  {i \in DOMAIN tables.inquiries : tables.inquiries[i].ref.project = p}
ListProjectResponses(tables, p) ==
  {i \in DOMAIN tables.responses : tables.responses[i].ref.project = p}
ListProjectEvents(tables, p) ==
  SelectSeq(tables.events, LAMBDA e : e.ref.project = p)

CheckGraphConsistency(tables, p) ==
  LET edges == ListProjectEdges(tables, p)
      inquiries == ListProjectInquiries(tables, p)
  IN /\ \A i \in inquiries : tables.inquiries[i].ref.edge \in edges
     /\ \A r \in ListProjectResponses(tables, p) :
          tables.responses[r].ref.inquiry \in inquiries \cup {0}
     /\ \A e \in edges : LET edge == tables.edges[e] IN
          /\ edge.status \in {"SENT", "RESPONDED", "APPROVED"}
               => edge.ref.inquiry # 0
          /\ edge.status = "APPROVED" => edge.ref.response # 0

CheckForeignKeys(tables) ==
  \A t \in Tables : \A i \in DOMAIN tables[t] : \A f \in DOMAIN ForeignKeys[t] :
    tables[t][i].ref[f] \in 0..Len(tables[ForeignKeys[t][f]])

(* What each program asserts once it has committed.                        *)
EdgeLinks(s) ==
  LET edge == View(s).edges[local[s]["edge"]]
  IN /\ edge.ref.inquiry = local[s]["inquiry"]
     /\ edge.ref.response = local[s]["response"]
     /\ edge.status = "APPROVED"

(* Of a run's rows there are as many as there were runs.                   *)
Totals(s) ==
  /\ Len(View(s).actors) >= 2
  /\ \A t \in {"projects", "requirements", "inquiries", "responses", "rollups", "edges"} :
       Len(View(s)[t]) >= commits[s]
  /\ Len(View(s).events) >= 4 * commits[s]

(* The two quotes are kept, the edge names the later one, and an event     *)
(* tells of the revision.                                                  *)
QuoteRevised(s) ==
  /\ Cardinality({i \in DOMAIN View(s).responses :
                    View(s).responses[i].ref.inquiry = local[s]["inquiry"]}) = 2
  /\ View(s).edges[local[s]["edge"]].ref.response = local[s]["response"]
  /\ \E i \in DOMAIN ListProjectEvents(View(s), local[s]["project"]) :
       ListProjectEvents(View(s), local[s]["project"])[i].status
         = "SUPPLIER_RESPONSE_ROLLUP_GENERATED"

Timeline(s) ==
  LET events == ListProjectEvents(View(s), local[s]["project"])
  IN /\ Len(events) >= 7
     /\ Head(events).status = "ORDER_CONFIRMED"
     /\ Last(events).status = "ORDER_CLOSED"

EventsRecorded(s) ==
  \A i \in DOMAIN ProgramOf[program[s]][commits[s]] :
    LET c == ProgramOf[program[s]][commits[s]][i]
    IN c.table = "events" =>
         \E j \in DOMAIN ListProjectEvents(View(s), local[s]["project"]) :
           ListProjectEvents(View(s), local[s]["project"])[j].status = c.status

(* The manufacturer has both roles, and its response has been submitted.   *)
BothRoles(s) ==
  /\ {"MAIN_M_SIDE", "UPSTREAM_B_SIDE"} \subseteq
       {View(s).roles[i].status :
          i \in {j \in DOMAIN View(s).roles :
                   /\ View(s).roles[j].ref.project = local[s]["project"]
                   /\ View(s).roles[j].ref.actor = local[s]["supplier"]}}
  /\ View(s).projects[local[s]["project"]].status
       = "SUPPLIER_RESPONSE_SUBMITTED_TO_BUYER"

(* list_schema_fields: what was approved, once each, and nothing else.     *)
FieldsPromoted(s) ==
  LET approved == {i \in DOMAIN View(s).proposals :
                     /\ View(s).proposals[i].ref.schema = local[s]["schema"]
                     /\ View(s).proposals[i].status = "approved"}
  IN /\ Cardinality({i \in DOMAIN View(s).fields :
                       View(s).fields[i].ref.schema = local[s]["schema"]})
          = Cardinality(approved)
     /\ \A i \in approved :
          \E d \in DOMAIN View(s).decisions : View(s).decisions[d].ref.proposal = i

(* run_db_smoke_test finds what it wrote, and nothing else of its project.  *)
ReadBack(s) ==
  LET project == local[s]["project"]
  IN /\ View(s).projects[project].status = "CREATED"
     /\ ListProjectEdges(View(s), project) = {local[s]["edge"]}
     /\ Len(ListProjectEvents(View(s), project)) = 3
     /\ \E i \in DOMAIN View(s).roles :
          /\ View(s).roles[i].ref.edge = local[s]["edge"]
          /\ View(s).roles[i].ref.actor = local[s]["supplier"]
          /\ View(s).roles[i].status = "MAIN_M_SIDE"

(* Suite 1: a first submission adds two actors and a project, a second one *)
(* none, and it gets the same project.                                     *)
CountsAsExpected(s) ==
  LET was == counted[s]
      now == Counts(View(s), local[s]["project"])
      first == was.project = 0
  IN /\ now.actors = was.actors + (IF first THEN 2 ELSE 0)
     /\ now.projects = was.projects + (IF first THEN 1 ELSE 0)
     /\ ~first => now.project = was.project

(* Suite 2: its project has its three responses.                           *)
ThreeReplies(s) == Cardinality(ListProjectResponses(View(s), local[s]["project"])) = 3

(* Suite 5: all edges, one of which is the first of an unordered list, all  *)
(* inquiries and all responses of its project are its own.                 *)
ProjectIsItsOwn(s) ==
  LET tables == View(s)
      project == local[s]["project"]
  IN /\ \A e \in ListProjectEdges(tables, project) :
          /\ tables.edges[e].ref.inquiry = local[s]["inquiry"]
          /\ tables.edges[e].ref.response = local[s]["response"]
          /\ tables.edges[e].status = "APPROVED"
     /\ \A i \in ListProjectInquiries(tables, project) :
          tables.inquiries[i].ref.edge = local[s]["edge"]
     /\ \A r \in ListProjectResponses(tables, project) :
          tables.responses[r].ref.inquiry = local[s]["inquiry"]

(* The same program has been started in another session; another program   *)
(* that looks up the same actors has; others added rows since the last     *)
(* count.                                                                  *)
Again(s) == \E t \in Sessions \ {s} : program[t] = program[s]

ActorsOf(p) ==
  {c.key : c \in {d \in UNION {Range(ProgramOf[p][k]) : k \in DOMAIN ProgramOf[p]} :
                   d.op = "find" /\ d.table = "actors"}}

SharesActors(s) ==
  \E t \in Sessions \ {s} :
    program[t] # "" /\ ActorsOf(program[t]) \cap ActorsOf(program[s]) # {}

OthersAdded(s) ==
  \/ \E i \in DOMAIN stored.actors : i > counted[s].actors /\ stored.actors[i].by[1] # s
  \/ \E i \in DOMAIN stored.projects : i > counted[s].projects /\ stored.projects[i].by[1] # s

(* What the programs assert after a commit (bm_db_hardening,               *)
(* run_bm_e2e_with_db, verify_integration, the tests under scripts/) holds  *)
(* in either mode and whatever other programs do to the file, for all      *)
(* assertions on the program's own rows: links, totals, revision,          *)
(* timeline, consistency, events, roles, fields.  Three suites assert      *)
(* something about rows that may be others' too.  Suites 2 and 5 want      *)
(* their project to be theirs alone, and pass unless the same suite is     *)
(* started again on the file; suite 1 counts all rows, and passes unless a *)
(* program with its actors is started or others add rows while it counts.  *)
AssertionsHold ==
  \A s \in Sessions : Calls(s, "check") =>
    CASE Calling(s).as = "links"    -> EdgeLinks(s)
      [] Calling(s).as = "totals"   -> Totals(s)
      [] Calling(s).as = "revision" -> QuoteRevised(s)
      [] Calling(s).as = "timeline" -> Timeline(s) /\ EventsRecorded(s)
      [] Calling(s).as = "graph"    ->
           CheckGraphConsistency(View(s), local[s]["project"])
      [] Calling(s).as = "events"   -> EventsRecorded(s)
      [] Calling(s).as = "roles"    -> BothRoles(s)
      [] Calling(s).as = "fields"   -> FieldsPromoted(s)
      [] Calling(s).as = "readback" -> ReadBack(s)
      [] Calling(s).as = "counts"   -> SharesActors(s) \/ OthersAdded(s) \/ CountsAsExpected(s)
      [] Calling(s).as = "replies"  -> Again(s) \/ ThreeReplies(s)
      [] Calling(s).as = "own"      -> Again(s) \/ ProjectIsItsOwn(s)

(* What suite 1 says of its counts, and the code does not keep: they are   *)
(* of the rows this test adds, so that it "is independent of whatever      *)
(* other rows earlier suites wrote to the shared DB"                       *)
(* (bm_db_hardening.py:131-132).                                           *)
CountsIndependent ==
  \A s \in Sessions : Calls(s, "check") /\ Calling(s).as = "counts" => CountsAsExpected(s)

(* Every committed state is a graph: foreign keys hold although half of    *)
(* the programs do not switch them on, and what an edge names as its       *)
(* inquiry and response, without a foreign key, was asked and answered on  *)
(* that very edge.                                                         *)
GraphWhole ==
  /\ CheckForeignKeys(stored)
  /\ \A e \in DOMAIN stored.edges : LET ref == stored.edges[e].ref IN
       /\ ref.inquiry # 0 => stored.inquiries[ref.inquiry].ref.edge = e
       /\ ref.response # 0 => /\ stored.responses[ref.response].ref.edge = e
                              /\ stored.responses[ref.response].ref.inquiry = ref.inquiry

(* A submission is in the database with every row it makes, or with none,  *)
(* wherever its program failed or crashed.                                 *)
Made(submission, t) ==
  Cardinality({i \in DOMAIN submission : /\ submission[i].op = "insert"
                                         /\ submission[i].table = t})

SubmissionsWhole ==
  \A s \in Sessions : program[s] # "" =>
    \A k \in DOMAIN ProgramOf[program[s]], t \in Tables \ Shared :
      Cardinality({i \in DOMAIN stored[t] : stored[t][i].by = <<s, k>>})
        = IF mode[s] = "on" /\ k <= commits[s]
            THEN Made(ProgramOf[program[s]][k], t) ELSE 0

(* get_or_create_*: a submission that began when an actor or a project was *)
(* committed does not add another of the same identity: two of them come   *)
(* from programs that overlapped.  Programs that create actors without a   *)
(* lookup are left out.                                                    *)
LooksUp(s) == program[s] \notin CreatesAnyway

IdentitiesReused ==
  [][\A s \in Sessions : commits'[s] > commits[s] /\ LooksUp(s) =>
       /\ \A i \in DOMAIN stored'.actors \ DOMAIN stored.actors :
            stored'.actors[i].key \notin known[s].actors
       /\ \A i \in DOMAIN stored'.projects \ DOMAIN stored.projects :
            <<stored'.projects[i].ref.buyer, stored'.projects[i].key>> \notin known[s].projects]_graphVars
=============================================================================
