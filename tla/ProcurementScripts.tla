------------------------- MODULE ProcurementScripts -------------------------
(***************************************************************************)
(* The programs that work on the transaction database, each as the         *)
(* submissions it commits, each of these as its sequence of calls.  A call *)
(* names rows as the program's variables do (as, ref); key is what a row   *)
(* is looked up by.  Prices, texts and payloads are left out.              *)
(***************************************************************************)
EXTENDS Naturals, Sequences, SequencesExt

CONSTANT Runs   \* bound: repetitions of the loops over runs, messages, fields

ASSUME RunsPositive == Runs \in Nat \ {0}

DbCall(op, table, as, ref, key, status) ==
  [op |-> op, table |-> table, as |-> as, ref |-> ref, key |-> key,
   status |-> status]

NoRef == [f \in {} |-> ""]

Insert(table, as, ref, status) == DbCall("insert", table, as, ref, "", status)
Update(table, as, ref, status) == DbCall("update", table, as, ref, "", status)

(* Ends a submission, and what the program asserts of it afterwards.       *)
Commit == DbCall("commit", "", "", NoRef, "", "")
Check(what) == DbCall("check", "", what, NoRef, "", "")

-----------------------------------------------------------------------------
(* The calls of BMDbAdapter.                                               *)
GetOrCreateActor(as, name) == DbCall("find", "actors", as, NoRef, name, "active")

GetOrCreateProject(key, n) ==
  DbCall("find", "projects", "project",
       [buyer |-> "buyer", supplier |-> "supplier"], << key, n >>, "CREATED")

CreateRequirement ==
  Insert("requirements", "req",
         [project |-> "project", source |-> "buyer"], "structured")

CreateEdge(from, to, edge, status) ==
  Insert("edges", edge,
         [project |-> "project", from |-> from, to |-> to,
          inquiry |-> "", response |-> "", parent |-> ""], status)

CreateInquiry(to) ==
  Insert("inquiries", "inquiry",
         [project |-> "project", edge |-> "edge", from |-> "buyer", to |-> to,
          requirement |-> "req"], "SENT")

CreateResponse(from) ==
  Insert("responses", "response",
         [project |-> "project", edge |-> "edge", from |-> from,
          to |-> "buyer", inquiry |-> "inquiry"], "received")

CreateRollup ==
  Insert("rollups", "rollup",
         [project |-> "project", supplier |-> "supplier"], "can_accept_order")

UpdateEdge(ref, status) == Update("edges", "edge", ref, status)

UpdateProjectStatus(status) == Update("projects", "project", NoRef, status)

LogEvent(type) == Insert("events", "event", [project |-> "project"], type)

LogEvents(types) == [i \in DOMAIN types |-> LogEvent(types[i])]

-----------------------------------------------------------------------------
(* bm_db_hardening: an inquiry to one supplier, and what may follow it.    *)
InquiryTo(supplier) ==
  << CreateEdge("buyer", supplier, "edge", "DRAFT"), CreateInquiry(supplier),
     UpdateEdge([inquiry |-> "inquiry"], "SENT") >>

Linked == [response |-> "response"]

AnswerOf(supplier, status) ==
  << CreateResponse(supplier), UpdateEdge(Linked, status) >>

Submission(buyer, supplier, key, n) ==
  << GetOrCreateActor("buyer", buyer), GetOrCreateActor("supplier", supplier),
     GetOrCreateProject(key, n), CreateRequirement >> \o InquiryTo("supplier")

BaselineLifecycle(key) ==
  Submission("HardeningBuyer", "HardeningSupplier", key, 1)

(* An answered inquiry that becomes an order, with the order's events.     *)
Ordered(types) ==
  AnswerOf("supplier", "RESPONDED")
    \o << CreateRollup, UpdateEdge(NoRef, "APPROVED"),
          UpdateProjectStatus("ORDER_CONFIRMED") >>
    \o LogEvents(types)

SuiteIdempotency ==
  LET run == BaselineLifecycle("idempotency") \o << Commit, Check("counts") >>
  IN << run, run >>

SuiteIncompleteReply ==
  << << GetOrCreateActor("buyer", "IncompleteBuyer"),
        GetOrCreateActor("supplier", "IncompleteSupplierA"),
        GetOrCreateActor("supplier_b", "IncompleteSupplierB"),
        GetOrCreateActor("supplier_c", "IncompleteSupplierC"),
        GetOrCreateProject("incomplete", 1), CreateRequirement >>
     \o FlattenSeq([i \in 1..3 |->
          LET s == << "supplier", "supplier_b", "supplier_c" >>[i]
          IN InquiryTo(s) \o AnswerOf(s, "RESPONDED")])
     \o << Commit, Check("replies") >> >>

SuiteConflictingReply ==
  << Submission("ConflictBuyer", "ConflictSupplier", "conflicting", 1)
     \o AnswerOf("supplier", "RESPONDED")
     \o << LogEvent("M_SIDE_RECEIVED_BUYER_INQUIRY") >>
     \o AnswerOf("supplier", "")
     \o << LogEvent("SUPPLIER_RESPONSE_ROLLUP_GENERATED"), Commit,
           Check("revision") >> >>

SuiteFullLifecycle ==
  << Submission("LifecycleBuyer", "LifecycleSupplier", "lifecycle", 1)
     \o Ordered(<< "ORDER_CONFIRMED", "PRODUCTION_UPDATE_RECEIVED",
                   "PRODUCTION_UPDATE_RECEIVED", "QC_UPDATE_RECEIVED",
                   "EXCEPTION_REPORTED", "LOGISTICS_HANDOVER_RECEIVED",
                   "ORDER_CLOSED" >>)
     \o << Commit, Check("timeline") >> >>

SuiteGraphConsistency ==
  << BaselineLifecycle("graph") \o AnswerOf("supplier", "APPROVED")
     \o << Commit, Check("graph"), Check("own") >> >>

SuiteParity ==
  << Submission("ParityBuyer", "ParitySupplier", "parity", 1)
     \o Ordered(<< "ORDER_CONFIRMED" >>) \o << Commit, Check("links") >> >>

OrderEvents == << "ORDER_CONFIRMED", "PRODUCTION_UPDATE_RECEIVED",
                  "QC_UPDATE_RECEIVED", "LOGISTICS_HANDOVER_RECEIVED" >>

SuiteFiveRun ==
  [i \in 1..Runs |->
     Submission("FiveRunBuyer", "FiveRunSupplier", "five-run", i)
     \o AnswerOf("supplier", "APPROVED")
     \o << CreateRollup, UpdateProjectStatus("ORDER_CONFIRMED") >>
     \o LogEvents(OrderEvents) \o << Commit, Check("graph") >>]

(* run_bm_e2e_with_db and verify_integration.                              *)
FullLifecycle ==
  << Submission("E2EBuyer", "E2ESupplier", "e2e", 1)
     \o Ordered(OrderEvents) \o << Commit, Check("links"), Check("totals") >> >>

RunLifecycle ==
  [i \in 1..Runs |->
     Submission("VerifyBuyer", "VerifySupplier", "verify", i)
     \o Ordered(OrderEvents) \o << Commit, Check("totals"), Check("links") >>]

-----------------------------------------------------------------------------
(* run_db_smoke_test and run_role_switching_db_test use the repositories.  *)
CreateActor(as, name) == DbCall("insert", "actors", as, NoRef, name, "active")

CreateProject(key) ==
  DbCall("insert", "projects", "project",
       [buyer |-> "buyer", supplier |-> "supplier"], << key, 1 >>, "CREATED")

CreateChildEdge(to, edge) ==
  Insert("edges", edge,
         [project |-> "project", from |-> "supplier", to |-> to,
          inquiry |-> "", response |-> "", parent |-> "edge"], "SENT")

CreateRoleContext(as, actor, counterparty, edge, role) ==
  Insert("roles", as,
         [project |-> "project", edge |-> edge, actor |-> actor,
          counterparty |-> counterparty], role)

AddDependency(as, type) ==
  Insert("needs", as, [project |-> "project", creator |-> "supplier"], type)

CreateUpstreamInquiry(as, to, edge) ==
  Insert("upstream_inquiries", as,
         [project |-> "project", edge |-> edge, need |-> "fabric",
          parent |-> "supplier", to |-> to], "SENT")

CreateUpstreamResponse(as, from, edge, inquiry) ==
  Insert("upstream_responses", as,
         [project |-> "project", edge |-> edge, inquiry |-> inquiry,
          need |-> "fabric", from |-> from], "received")

CreateUpstreamOption(as, actor) ==
  Insert("upstream_options", as,
         [project |-> "project", need |-> "fabric", actor |-> actor], "pending")

AddApprovalRequest ==
  Insert("approvals", "approval",
         [project |-> "project", need |-> "fabric", requester |-> "supplier",
          option |-> ""], "PENDING")

SmokeTest ==
  << << CreateActor("buyer", "TestBuyer"),
        CreateActor("supplier", "TestManufacturer"), CreateProject("smoke"),
        CreateEdge("buyer", "supplier", "edge", "SENT"),
        CreateRoleContext("role", "buyer", "supplier", "edge", "ORIGINAL_BUYER"),
        CreateRoleContext("role", "supplier", "buyer", "edge", "MAIN_M_SIDE"),
        LogEvent("ROLE_CONTEXT_RESOLVED"), LogEvent("ROLE_CONTEXT_RESOLVED"),
        LogEvent("B_INQUIRY_CREATED"), Commit, Check("readback") >> >>

ActorsAndInquiry ==
  << CreateActor("buyer", "BuyerB"), CreateActor("supplier", "ManufacturerM"),
     CreateActor("f1", "FabricF1"), CreateActor("f2", "FabricF2"),
     CreateActor("t1", "TrimT1"), CreateActor("p1", "PackagingP1"),
     CreateProject("roles"), CreateEdge("buyer", "supplier", "edge", "SENT"),
     CreateRequirement, CreateInquiry("supplier"),
     LogEvent("B_INQUIRY_CREATED") >>

RolesAndDependencies ==
  << CreateRoleContext("role", "supplier", "buyer", "edge", "MAIN_M_SIDE"),
     LogEvent("ROLE_CONTEXT_RESOLVED"),
     LogEvent("M_SIDE_RECEIVED_BUYER_INQUIRY"),
     AddDependency("fabric", "fabric"), AddDependency("need", "trim"),
     AddDependency("need", "packaging"),
     LogEvent("UPSTREAM_DEPENDENCY_PLANNED"),
     CreateChildEdge("f1", "edge_f1"), CreateChildEdge("f2", "edge_f2"),
     CreateRoleContext("role", "supplier", "f1", "edge_f1", "UPSTREAM_B_SIDE"),
     LogEvent("ROLE_SWITCH_OCCURRED"),
     CreateRoleContext("role", "f1", "supplier", "edge_f1", "UPSTREAM_M_SIDE"),
     CreateRoleContext("role", "f2", "supplier", "edge_f2", "UPSTREAM_M_SIDE") >>

UpstreamReplies ==
  << CreateUpstreamInquiry("uinq_f1", "f1", "edge_f1"),
     CreateUpstreamInquiry("uinq_f2", "f2", "edge_f2"),
     LogEvent("UPSTREAM_INQUIRY_CREATED"),
     LogEvent("UPSTREAM_INQUIRY_DISPATCHED"),
     CreateUpstreamResponse("uresp", "f1", "edge_f1", "uinq_f1"),
     CreateUpstreamResponse("uresp", "f2", "edge_f2", "uinq_f2"),
     LogEvent("UPSTREAM_RESPONSE_RECEIVED"),
     LogEvent("UPSTREAM_RESPONSE_PARSED") >>

OptionApproved ==
  << CreateUpstreamOption("best", "f1"), CreateUpstreamOption("fastest", "f2"),
     LogEvent("UPSTREAM_OPTIONS_GENERATED"), AddApprovalRequest,
     LogEvent("UPSTREAM_OPTION_APPROVAL_REQUESTED"),
     Update("approvals", "approval", [option |-> "best"], "APPROVED"),
     Update("upstream_options", "best", NoRef, "approved"),
     LogEvent("UPSTREAM_OPTION_APPROVED") >>

RolledUpAndSubmitted ==
  << CreateRollup, LogEvent("SUPPLIER_RESPONSE_ROLLUP_GENERATED"),
     CreateResponse("supplier"), UpdateEdge(NoRef, "RESPONDED"),
     UpdateProjectStatus("SUPPLIER_RESPONSE_SUBMITTED_TO_BUYER"),
     LogEvent("SUPPLIER_RESPONSE_ROLLUP_SUBMITTED_TO_B_SIDE"), Commit,
     Check("events"), Check("roles") >>

RoleSwitching ==
  << ActorsAndInquiry \o RolesAndDependencies \o UpstreamReplies
     \o OptionApproved \o RolledUpAndSubmitted >>
=============================================================================
