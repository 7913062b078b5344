# Giraffe Agent: a verification project in TLA+

This directory models the parts of Giraffe Agent in which the order of events
matters, checks the models with TLC and proves the main safety properties of
its core with TLAPS. Paths below are relative to the repository.

## 1. The system

The repository holds three generations of one product, an agent that turns a
buyer's request into supplier inquiries, collects the replies and follows the
order:

* **Aivan** (`src/src/aivan`): a FastAPI service over one SQLite database
  (SQLAlchemy, WAL mode). Events come from OpenClaw (IM and e-mail bridge);
  everything that leaves for a customer or a supplier is a *draft* that a human
  approves. Beside it: quote-guidance packets (`gpm`), the model gateway
  (`llm`) and the benchmark harness (`telemetry`).
* **The file-based services** (`src/src/b_side`, `m_side`, `bm_bridge`,
  `merchandiser`, `logistics`, `openclaw_skill`, served by `src/api/main.py`):
  JSON files per entity, written by read-modify-write in worker threads.
* **The transaction database** (`src/bm_db_adapter.py`, `src/src/db`): a graph
  of actors, projects, edges, inquiries and responses in SQLite, written by
  programs (drivers, suites, seeds) that may share one file.

| component | state | operations | what makes it correct |
|---|---|---|---|
| Draft approval | rows of `inquiry_drafts` | create, approve and send, reject, supersede | nothing leaves unapproved; a decision stands; one live quote; what is "sent" was delivered |
| Inbound events | `processed_inbound_events`, `projects`, in-memory bindings | look up, classify, find or create project, execute, record | an event is executed once; a replay tells the truth; work lands in its own project |
| RFQ document | `projects.requirement_json` | RFQ, reply, strategy update, GLTG run | options agree with replies; what is lost, is lost to an overlap |
| Upstream procurement | six JSON files per project | plan, inquire, respond, make options, approve, roll up, submit | only approved options reach the buyer; one result of each request |
| Quote collection | B and M workspaces | structure, draft, dispatch, append, build packet, push, simulate, select | workspaces agree with the files behind them; content lost to stale writes only |
| Order follow-up | order, plan, task, milestone, media, exception files | bridge, supplier's messages, merchandiser's work, sign-off | no dangling reference; progress is taken back only as the handlers mean it |
| Logistics | shipments and events | bind, sync, webhook | duplicates count once; a status is that of an event on disk; late reports do not turn back |
| OpenClaw skill | bindings, draft files, workspaces | first message, follow-up, approve, reject | a draft is handed over once; a buyer's bindings lead to workspaces |
| GPM packets | memory cache over giraffe-db | create, get, list, approve, reject | cache and database agree; one verdict |
| Transaction database | SQLite tables, or memory | lookups, inserts, updates, commits of fourteen programs | submissions are whole; links and assertions hold; identities are reused |
| Model gateway | environment, cached provider, observers | check policy, build, call, retry, emit | whom the policy let pass is whom is asked |
| Requirement intake | none (functions) | language skill, model, deterministic parse, readiness | no requirement is ready unless the language skill speaks of its product and destination |
| Benchmark | mode, reports | run cases under modes with time limits | a report that passes its gates tells of its own cases |
| M-side communication | message files, send/receive machine | create, approve, send, receive, correlate | no unapproved inquiry is sent; replies reach their inquiry |
| Approval state machine | draft status | `approve_and_send`, `reject` | a failed send is recoverable, never sent twice |
| Account delegation | managed accounts | register, revoke, check | a revoked or expired account permits nothing |
| QC comparison, sourcing, risk, pricing, lead time, wording | none or own files | scoring, text | arithmetic and text, not protocol |

The last four rows have no module (section 6).

### How they interact

In Aivan a message reaches `/invoke` or one of three equivalent routes, is
normalised to an event, and runs `create_rfq_from_event` in the request's thread
and session. That call reads the ledger, classifies the event, finds or creates
the project, and then records a status, handles a supplier reply or runs the RFQ
pipeline, which structures the requirement through the model gateway; the last
two create drafts. Humans approve or reject drafts through other requests. All
requests share the database and the binding map.

In the file-based services a buyer's request makes a B workspace, over the API
or as a chat event; an inquiry drafted of it makes an M workspace for each
supplier; the suppliers' messages become response packets, which are pushed
into the B workspace; a simulation over the lead-time service makes delivery
paths of them; the path the buyer selects makes an order, an execution plan
with tasks and milestones, and shipments. Each of these is one or several files,
and one step reads what another wrote.

### What is hard here

* Requests overlap. In the database a `SELECT` runs outside the write
  transaction and sees the last commit; the first `INSERT` or `UPDATE` takes
  SQLite's single write lock, which is then kept to the commit, across LLM, GLTG
  and send calls. A row that a session has loaded stays as loaded, so a check
  may be stale when its `UPDATE` runs.
* Messages are sent inside transactions: a crash, a rollback or a timeout
  separates what was sent from what was recorded.
* One event takes two commits (execution, ledger), and deliveries are repeated.
* Bindings, the packets a failed write left, the cached provider and the
  observers are process memory.
* The file-based services have no lock at all. A load and a save are two steps,
  and what another request saves between them is undone.
* One operation writes several files; a crash or an exception may come after
  any of them.
* Threads that nobody waits for any more go on.

`PROJECT.json` lists these hazards one by one with their lines, and for each
the property that covers it.

## 2. The modules

| module | role |
|---|---|
| `DraftApproval` | the requests that change drafts, step by step |
| `DraftLifecycle` | what draft approval promises, without sessions and locks |
| `InboundEvents` | the path of an inbound event, from ledger lookup to ledger record |
| `RfqDocument` | the requirement document of a project under overlapping requests |
| `UpstreamProcurement` | the JSON files of upstream procurement under overlapping endpoint calls |
| `BWorkspace` | the buyer's workspace and what each request makes of it |
| `SupplierResponses` | what a supplier's messages come to in a response packet |
| `QuoteCollection` | from requirement to selected path; composes the two above with the suppliers' workspaces |
| `OpenClawSkill` | chat events over `BWorkspace`: bindings, drafts, decisions |
| `SupplierOrder` | the order file and the four messages that move it |
| `Merchandiser` | plans, tasks, milestones, media evidence, exceptions |
| `OrderFollowUp` | from selection to sign-off; composes the two above with the bridge |
| `Logistics` | shipments and tracking events |
| `GpmPackets` | packets in the memory of several instances over one giraffe-db |
| `ProcurementScripts`, `CapabilityScripts` | the programs on the transaction database, as sequences of calls |
| `ProcurementGraph` | the transaction database under these programs |
| `RequirementIntake` | which facts of a message are found, from which source |
| `LlmGateway` | policy, cached provider and observers as threads share them |
| `Benchmark` | the harness over `LlmGateway` |

`MC_M` holds instances of `M` for TLC, `M_proofs` the theorems about `M`. Three
modules of theorems are about more than one module: `BWorkspace_proofs` about
`OpenClawSkill` and `QuoteCollection`, which work on the same files (`buyer`),
`Rfq_proofs` about `RfqDocument` and `Benchmark`, with intake and gateway
below it, and `GiraffeDb_proofs` about `GpmPackets` and `ProcurementGraph`, what
is kept in the database. So that one module can extend both, the specifications
of `QuoteCollection`, `Benchmark` and `ProcurementGraph` go by names of their own
(`QuotesSpec`, `HarnessSpec`, `GraphSpec`).

### DraftApproval

State: `stored` is the committed status of each row, `working` the status as
the writing transaction sees it, `writer` the owner of the write lock. A
request `r` has a place `pc[r]`, an operation `op[r]`, the draft it aims at
(`target[r]`) and `loaded[r]`, the status of that draft in its SQLAlchemy
session: the identity map is why this is a variable of its own. `delivered`
records which request put which message on the channel.

Each action is a stretch of a handler between two points at which another
request can act: before a first write (wait for the lock), and around a call to
another service. Approval is load and check (`ApproveLoad`), update under the
lock (`ApproveUpdate`), policy refusal or send (`ApproveRefused`,
`ApproveSend`), `Commit`. A supplier reply takes the lock with its first event
row (`ReplyWrites`), supersedes and drafts (`ReplyQuotes`), asks GLTG
(`ReplySimulated`, `ReplyRaises`) and commits. An RFQ either takes the lock when
it creates its project (`RfqCreatesProject`) or later with its drafts
(`RfqDrafts`), sends the user a notice (`RfqNotify`) and commits. `LockTimeout` is
sqlite's five seconds, `Crash` the death of the process. Readiness gates,
missing suppliers and dependency recovery are the case of `RfqDrafts` with no
inquiry: they write the notice and nothing else into this table.

A failed send may or may not have reached the recipient (`FailsToDeliver`); the
client turns every exception into `success = False`, so the caller cannot tell.

### DraftLifecycle

A draft goes from absent to pending, and from pending to exactly one of
approved, sent, rejected, superseded; its message is posted at most once, and
never after a rejection or a replacement. `DraftApproval!ImplementsLifecycle`
maps `stored` and the number of deliveries to it. It holds when requests do not
overlap and no crash interrupts one (`draft_serial`). With overlap it does not,
and the properties of `draft_race` say what is left.

### InboundEvents

State: the committed `ledger`, the committed `projects` with `born`
(`created_at`), the in-memory `bindings`, who `executed` (a committed
execution), who `notified` the user, the lock, and per request its message,
the project `classify_event` `attached`, the `project` it works on and the
request whose result it was answered with. A project is named by the request
that created it.

`Key` is the idempotency key; channel and account are part of the conversation
here. A message has a shape, because `_normalize_invoke_payload` gives two of
the three accepted shapes no message id. It may name a project, which may
belong to another conversation (suppliers write from their own). The actions
follow `create_rfq_from_event`: `Replay` or `Classify`; `FindsProject`, or
`FindsNoProject` and `CreateProject` (the project's `created_at` is taken before
the `INSERT` waits for the lock, and the binding is published before the
commit); execution by kind; `GltgAnswers` or `GltgRaises` where the simulation
follows the commit; `RecordCheck`, `RecordInsert`, `RecordCommit`. What an
execution does to drafts is `DraftApproval`'s subject; here it is one commit and
possibly one notice.

### RfqDocument

State: `doc`, the committed `requirement_json` of one existing project;
`selected`, the committed `selected_option_json`; and per request the document
its session `loaded`, the `pending` one it writes, and `differs`, whether the
ORM compares the two as unequal and so issues an `UPDATE` at all.

A document keeps what tells versions apart: the turns its requirement was
structured from (`body`), the strategy, the inputs of its GLTG simulation, the
accumulated replies, and which reply generated the buyer options from which
replies. RFQ turns and replies are named by the request that brought them.

Each operation loads once (`Load`) and writes once (`Stage`), with everything
it read in between stale: `RfqBlocked`, `RfqStops` and `RfqReady` are the three
outcomes of the pipeline, `ReplyParses` is the lock that the first event row
takes before the reply is parsed, `ReplyAccumulates` and
`ReplyWithoutRequirement` its two outcomes, `UpdateStrategy` and `RunGltg` the
endpoints. `ReplyAccumulates` compares the new document with `Aliased`: the
handler copies the document with `dict()` and appends to the list inside, which
the loaded value shares.

The three Aivan modules are three views of one request path and are not
composed: they share the lock discipline (a first write waits, the lock is
kept to the commit), and `InboundEvents` uses of the other two only that an
execution is one commit.

### UpstreamProcurement

State: for each of the six files of a project its entries, `file`, and its
`form`: JSON, `"blank"` (truncated) or `"corrupt"` (what two overlapping writes
of different length leave). Per request: its place and operation, the entries it
has `made`, the `record` of an approval request in its hands, and the `buffer`
it is about to save. `accepted` and `submitted` are histories: every result the
approval gate returned, every rollup the buyer's side received.

The endpoints of `src/api/main.py` are plain functions, so FastAPI runs them in
worker threads; `upstream_store` opens, reads and writes without a lock. Each
load that is followed by another step is an action, and each save is two:
`Truncate` (`open(path, "w")`) and `Write`. What a request only creates or reads
before its first such load is one step with it (`Plan`, `Inquire`, `Respond`,
`OptionsFor`, `Approve`, `RollUp`, `Submit`). `Append` is `store_inquiry`,
`store_response` and `store_approval_request`, which differ in the file;
`Collect` and `Replace` are an iteration of `GET /upstream-options`; `Ask` or
`Find`, `Decide` or `Refused` are the approval. `Fails` is a load of a file that
is no JSON, an unknown approval request, or the lead time service raising in a
rollup. A request that fails at its first load changes nothing and is not
modelled; a dispatch reads one inquiry, changes none of the files and is left
out.

An entry is named by the request that created it, as the code names it by a
fresh UUID. A response says whether the supplier can supply and whether a flag
makes its option a risk; scores, prices and lead times choose among the viable
responses, and `Recommended` allows every choice they can make. Two files may be
read at different times by one request: the options of a new approval request
(`Ask`) need not be those among which the approved option was found.

What an order needs is what its plan finds in it: logistics always, fabric, trim
and packaging for apparel, testing for a destination, a quantity of fifty or
more, or a word of quality (`PlannedTypes`). Of a supplier's text, a phrase of
refusal anywhere outweighs the rest.

### BWorkspace, SupplierResponses, QuoteCollection

State: the B workspace files `buyer`, the M workspace files `seller`, the
workspaces that a chat conversation is `bound` to, and per caller its `work`: the
object it loaded and will write. `save_b_workspace` and `save_m_workspace` write
the whole file, so every request is a load (`Loaded`) and a save
(`SaveBWorkspace`, `SaveMWorkspace`), and `stale` records that the file has
changed in between. `BWorkspace` holds what each request makes of the object it
loaded, field by field (`Structured`, `FollowedUp`, `Inquired`, `TakenIn`,
`Simulated`, `Selected`).

A message or a requirement is the set of fields it gives. What a supplier says
is a story fixed at the start, message by message; `SupplierResponses` joins the
messages and looks for each fact in the whole text, as
`normalize_supplier_response_text` does. A figure is named by the message that
gives it. A response in a workspace is a packet's (`OfPacket`) or that of a
submitted rollup (`OfRollup`); the latest of a supplier counts. The second comes
from `POST /api/m-side/{id}/submit-rollup-to-b-side` (`SubmitRollup`), which writes
to any B workspace and asks for no inquiry and no M workspace. `Rollups` are the
rollups that may be in the store; how they get there is `UpstreamProcurement`'s
subject. Delivery paths are the suppliers they are of. Dispatch makes one M
workspace after the other, selection saves the B workspace and then marks each
M workspace of the supplier; a draft of an inquiry is made of one load and put
into another. `LeadTimeUnavailable` is the lead-time service raising in a
simulation.

The code's own facts that a reader may not expect: a refusal (or "full
capacity") anywhere in the messages outweighs agreement, so that a supplier who
refused first and agrees later never gets a path; the first matching figure
counts, so that a later correction of a price or a lead time is ignored; one
failing call of the lead-time service ends the simulation of all suppliers; a
push that read an older packet may replace a newer response; building a packet
takes "selected_by_buyer" back.

### OpenClawSkill

State: workspaces, `bindings`, `drafts`, how often each draft was `handed` to
OpenClaw in a reply, and each caller's `task`. `contested` and `crossed` record drafts decided, and conversations bound, by two
callers at the same time. A first message writes workspace, requirement,
binding and draft in this order (`HandleBSideNew`, `StructureInChat`,
`CreateBinding`, `CreateDraft`); a follow-up completes the requirement
(`HandleBSideFollowup`, `SaveFollowup`); a message of approval or refusal takes
the project's pending drafts (`HandleDecision`) and checks and rewrites one
after the other (`CheckDraft`, `SaveDraft`), as a client's request does with one
(`DecideDraft`). A text is the fields it gives and the fields whose name alone
is in it, which the adapter does not miss either. A supplier's event may name any
project and the adapter binds it unasked: `Projects` has one that is no
workspace's.

A draft approved through the endpoint is never handed to OpenClaw; when one of
several drafts was decided meanwhile, the approval stops there and those already
approved are in no reply. `_append_to_m_workspace` matches no workspace (none
has the keys it looks for), so a supplier's message changes nothing beyond its
binding.

### SupplierOrder, Merchandiser, OrderFollowUp

`SupplierOrder` is the order file with its nine milestones, and what an
acknowledgement, a production, a QC and a logistics message do to the object a
request has read. `Merchandiser` is the plans' files: tasks, then milestones,
then the plan that lists them (`PlanTasksAfterConfirmation`, `CreateMilestones`,
`WriteExecutionPlan`), uploads of media evidence, exceptions. `OrderFollowUp`
adds the bridge (`CreateOrder`, `MakePlan`, `LinkPlan` or `PlanWarning`,
`SelectPath`, `MarkSelectedByBuyer`), whose stages are the files it writes, and
the sign-off. `Crash` ends any set of callers between two writes; an exception
in a handler is the same step for one of them.

`_VALID_TRANSITIONS` is asked by no handler, so a late acknowledgement or
logistics message reopens a closed order; `ProgressKept` names these two cases
and allows no other. The text "不合格" contains "合格", so that a rejection in
Chinese alone is read as passed; the loop of `submit_logistics_update` ends at
"logistics_handover", before "shipped" (section 3, "What does not hold").
A sign-off needs no delivery; two orders of one B workspace
are possible.

### Logistics

State: the provider's `feed`, the `shipment` files, the event files that count as
new (`ingested`), each caller's `job`, and the shipments two requests worked on
at the same time (`raced`). `IngestTrackingNumber` and `IngestFromImMessage`
bind; `SyncTracking`, `SyncAllActive` and `Webhook` begin a job, `VisitShipment`
or `ProviderFails` takes the next shipment, `StoreEvent` writes an event file or
passes over one that was seen, `UpdateShipment` writes the shipment of the
copy read before. The copy, the hashes seen, and the batch are the job's own.

A message is read by four patterns of which the last
(`logistics_message_parser.py:32`) matches any word of ten letters: a shipment
may be bound to a word or a telephone number, and then gets no event. A crash
between events and shipment leaves events that count as known: the status stays
that of an older event (`StatusHasEvent` says it is still that of one).

### GpmPackets

State: `db` (giraffe-db), `late` (writes that timed out and may still be made),
`mem` and `durable` of each instance's store, the decision an instance is about
to write (`request`), and histories: the `verdicts` answered, the packets with an
unacknowledged write (`doubtful`), and those decided while another instance took
them for pending (`crossed`). Handlers are `async` and block their instance, so
an instance serves one request at a time. Save and update have three outcomes
each, by what giraffe-db does (`SaveThrough`, `SaveInMemory`, `SaveRaises`;
`UpdateThrough`, `UpdateInMemory`, `UpdateRaises`); `Restart` probes it anew.

### ProcurementScripts, CapabilityScripts, ProcurementGraph

A program is a sequence of submissions, a submission a sequence of calls, a call
a lookup-or-insert, an insert, an update, a check or a commit, on rows that it
names as its variables do. `ProcurementScripts` and `CapabilityScripts` write
down the fourteen programs: the suites of `bm_db_hardening.py`, the end-to-end
run, `verify_integration.py`, the tests under `scripts/` and the seed. `Runs`
bounds their loops.

`ProcurementGraph` executes them: `stored` is committed, `work` is what the
writing transaction sees, `writer` has SQLite's lock, `memory` are the tables of
a program with `GIRAFFE_DB_MODE=off`, `place` is the call of a submission that a
program is at. `Find` is the lookup of `get_or_create_*`; when it misses
(`missed`), the call goes on as an insert, which takes the lock. `InsertRow`,
`UpdateRow`, `CommitSubmission`, `CheckRows` are one call each; `LockTimeout` and
`Crash` end a program, whose session discards what it has not committed. A row is named by its
place in its table. `ForeignKeys` is the schema; of the links of an edge,
inquiry and response are plain columns, and only some programs switch foreign
keys on.

`Counts` are the counts of `get_counts` that a program asserts something about,
`counted` what suite 1 counted before and between its submissions. Running
`bm_db_hardening.py` twice on one file fails suites 1, 2 and 5, whose assertions
are about rows that the first run left (section 3, "What does not hold"). Edges of the role-switching, smoke and
professional-free tests are "SENT" without an inquiry, which
`check_graph_consistency` would report; these programs do not ask it.

### RequirementIntake, LlmGateway, Benchmark

`RequirementIntake` is the structuring of a message as functions: which of five
fields are found, from which source (`RecordedSource`), and whether they suffice
(`Ready`). The skill's reply gives values, and sources in a list of its own, where
a field may be `named` with a source or `listed` without one; `FieldSource` merges
them over the recorded ones. A category nobody stated has the value "general", so
that naming a source of it is enough for an authoritative product. `LlmGateway` runs them in threads over what a process shares:
`os.environ` (`env`), `_provider_instance`, `_call_observers`. Each read and write
of these is a step: the provider's name is read and checked (`PolicyRefuses`,
`LlmDisabled`, `PolicyAllows`), the instance read, built, published and read again
(`FindInstance`, `BuildInstance`, `PublishInstance`, `TakeInstance`), and asked
(`Answered`, `CallFails`, with Ollama's retries as `CompleteJson`).

`Benchmark` is the main thread of the harness over it: a mode overrides the
environment (`StartRun`), each case is handed to a thread (`SubmitCase`), its
result taken or the thread given up (`TakeResult`, `GiveUp`), and the mode left
(`ExitMode`) with a report and its gates. A thread that was given up goes on, in
whatever environment the next mode makes, and its calls reach the observers of
the next cases. Reports carry what the program cannot know: whether each
result heard of its own calls only, and whom it asked.

## 3. The runs

| run | bounds | checks |
|---|---|---|
| `draft_race` | 2 overlapping requests, 1 crash, 2 inquiries (one by IM), 2 quotes, 2 notices; 71,112 states | `DeliveryAuthorised`, `SentWasDelivered`, `OneLiveQuote`, `DecisionNotReopened`, `SettledIsFinal`, `EveryRequestEnds` |
| `draft_serial` | 3 requests, one at a time, no crash | `ImplementsLifecycle` |
| `inbound_race` | 3 overlapping deliveries of 3 messages in 2 conversations, 1 crash; 226,791 states | `LedgerWriteOnce`, `LedgerIsBacked`, `AnsweredWasExecuted`, `WorkStaysInConversation`, `AcknowledgedIsFinal` |
| `document_race` | 3 requests, 2 overlapping, 2 strategies, 1 crash; 44,073 states | `DocumentCoherent`, `OnlyCommittedContent`, `SettledContentStays` |
| `upstream_race` | 3 requests, 2 overlapping, 2 kinds of order (with logistics, with testing too), 1 crash, on a project with an inquiry, two responses and their options; about 632,000 states | `RollupsHoldApprovedOnly`, `OneResultOfARequest`, `OptionsOfOneGeneration`, `SettledEntriesStay` |
| `quote_collection` | 7 requests, 2 callers, 1 B workspace, 2 M workspaces, 2 suppliers, one of whom refuses first, a stored rollup of each, crashes anywhere; 1,208,141 states | `RecordsBacked`, `ContentKept` |
| `buyer_chat` | 6 events or requests, 2 callers, 2 conversations, 2 workspaces, a project without one, 2 drafts, crashes anywhere; 1,944,020 states | `HandedOnce`, `BindingsSound` |
| `order_followup` | 4 requests, 2 callers, 2 orders, 2 paths, 2 plans, crashes anywhere; 1,300,173 states | `RecordsAgree`, `ReferencesExist`, `ProgressKept` |
| `shipment_tracking` | 4 requests, 2 callers, 2 shipments, 3 events, 3 webhook batches, crashes anywhere; 977,254 states | `StatusHasEvent`, `IngestedOnce`, `LastEventAdvances` |
| `gpm_packets` | 6 requests and restarts, 2 instances, 2 packets; 105,516 states | `MemoryBacked`, `OneVerdict`, `DecisionStands` |
| `procurement_graph` | 2 of 14 programs, overlapping or one after the other, loops of 2, 1 crash; 125,598 states | `AssertionsHold`, `GraphWhole`, `SubmissionsWhole`, `IdentitiesReused` |
| `benchmark` | 2 runs of 2 cases (an English and a Chinese one) in any 2 of the modes A, C, E, with and without a time limit, 2 environments, 2 replies of the skill, 2 retries; 848,388 states | `ReportsTrusted`, `AskedAsChecked`, `ReadyBySkill`, `TimedRunEnds` |

All but `draft_race` and `benchmark` use symmetry; these two check liveness.
`quote_collection` permutes callers and M workspaces, not suppliers, whose
stories and rollups differ.

**Bounds.** `MaxActive`, or the number of callers, is the number of worker threads
in use; `MaxCrashes` the crashes of a behaviour; `MaxCalls` and
`MaxRequests` the requests. Two
overlapping requests are enough for every race over a row or a file: a check
and the decision that makes it stale, a load and the save that it undoes. What
differs is how many calls it takes to get there.

* Three deliveries allow a duplicate pair plus a follow-up that meets the state
  they leave, and a crash between any two steps. Two notices and two quotes let
  both requests of `draft_race` create one. Three requests are the smallest
  number in which a stale document overwrites content and a third then builds
  on it; four give 1,466,566 states and the same answer. But for what programs
  assert after a commit (`AssertionsHold`) the safety properties do not rest on
  these bounds: they are proved for any number of requests, rows, files,
  callers, runs and crashes (section 5).
* Three calls of upstream procurement let two race for a file and a third read
  what they left; the seed (`SomeFiles`) stands for the calls before them.
  `upstream_race` explores states up to the view `Live`, which leaves out the
  variables of requests that have ended, and a request's buffer or entries when
  it is past them: no action, and no checked property, reads them again.
* Seven requests are the way from an empty project to a selected path, so that
  every status is reached: a first chat message creates and structures, then
  follow draft, dispatch, the skill's combined action (append and build), push,
  simulation and selection; a submitted rollup shortens it by three. One supplier
  agrees and adds to it, and has a rollup that accepts; the other refuses and
  then agrees, and has one that declines.
* Four requests of `order_followup` are a selection, which makes order and plan,
  and any three that race on them; one task, one milestone type, one media and one
  exception are enough, as no handler relates two of them. Production messages
  name {QC, packaging} or {handover}; a QC message contains any of five sets of
  words.
* In `shipment_tracking` an event is in transit, delivered, or an exception
  without a time, reported in every order; a webhook may carry them late or
  twice. Six events of chat are a first message, a follow-up, an approval, and
  the same in the other conversation.
* In `procurement_graph` every pair of programs runs; a third program would meet
  nothing that two have not left. `benchmark` leaves out modes B and D, which
  differ from A and C in the language skill only.

Deadlock is not checked: a finite set of requests, all answered, is a
legitimate end.

**What the passing runs show.** However stale a session is, a decided draft is
never pending again; "sent" is never a lie; supplier replies never leave two
live quotes; only approvals and RFQ notices send, and never to a counterparty
over IM. A race needs an overlap: once the last request that read a row before
its decision has ended, row and deliveries are final. For events: the ledger is
written once per key, by an execution that was committed; a success answer is
the execution of that very message; and an event that was answered, with no
delivery in flight, is never executed again. The last one is the honest form of
idempotency: duplicates come from overlaps and from deliveries that were not
answered (a crash, or an error after the first commit), never from a retry of
an answered event.

For the document: whole-document writes lose updates when requests overlap, and
the runs say what they do not lose. The committed document is always of one
piece, options and simulation agreeing with the replies and the requirement
beside them; nothing of a request that failed is in it, even through a request
that loaded the document while the failed one ran; and what every request in
flight has seen stays, except that an RFQ turn starts the document afresh and
drops replies and options (not turns).

For upstream procurement: without locks the lists do lose entries, and a file
may end up unreadable; the runs say what that cannot do. A rollup, stored or
submitted, consists of results the gate returned, no risky option of an agent
among them, and never two of one approval request, although an approval request
may be decided by two calls at once. The options of a dependency are always
those of one call. An entry, or the fact that an approval request was decided,
is lost only when two saves of its file overlap or a crash falls between
truncation and write: not to any order of calls that do not overlap, failures
and rollups included.

For the file-based services, whatever saves undo one another: a workspace's
status says no more than the workspace holds; paths are of suppliers who
responded, and who agreed and had not refused before or have a rollup that
accepts; a packet is in it of suppliers only who were sent an inquiry of that
project, and every other response is a stored rollup's (`RecordsBacked`). What a selection, an order, a plan or a milestone
refers to is on disk after a crash between any two files (`ReferencesExist`).
Content and progress are lost to stale writes and to the few handlers that mean
it, which `ContentKept` and `ProgressKept` name (`Excused`). A draft is handed to
OpenClaw once unless two callers decide on it at the same moment; a buyer's
binding and a draft always lead to a structured workspace, while a supplier's
binding leads where its event said. A shipment's status is that of one
event on disk, an event counts once, and late reports turn nothing back, again
except for overlaps that are named (`raced`, a copy that is not what the file
holds).

For packets: memory and giraffe-db differ only on packets a write of which was
not acknowledged; a packet gets two verdicts only if two instances took it for
pending at once or a verdict was not acknowledged. Two instances may well decide
one packet differently: nothing asks giraffe-db again.

For the transaction database: submissions are whole or absent wherever a program
stops, the graph keeps its links although half of the programs do not switch
foreign keys on, each program finds what it asserts of its own rows whatever the
others do, and an actor or a project is doubled only by programs that overlapped. The assertions on rows that may be
others' hold with an exception each: those of suites 2 and 5 unless the same
suite is started again on the file, the counts of suite 1 unless a program with
its actors is, or others add actors or projects while it counts.

For the benchmark: the reports of a process can be trusted when every one of
them passes its integrity gate, and the provider asked is the one the policy let
pass when no case has timed out. Both conditions are needed. A case that is given
up goes on in the next mode's environment; it may ask a provider whose name was
never checked (against `llm/policy.py`: external providers always require an
explicit approval), or leave its provider in the cache to be asked by the next
case, and its events are counted as the next case's. That a timeout fails the
integrity gate is what makes the reports trustworthy (`run_case`: "prove a
local model actually ran and never silently fell back to mock"). A case is
ready only in a mode with the language skill and if the skill spoke of product
and destination, that is, gave a value or listed the field among its sources; for
a message that is not in English, it must have given the values (`ReadyBySkill`).
That the value of an English message is the skill's is more than the code keeps
(item 10 below).

**What does not hold.** The modules also define statements that the
repository's texts make and the code does not keep. They are no part of the
runs; TLC refutes each on the instance given.

1. `DraftApproval!SupersededStaysUnsent` (2 overlapping requests):
   `DraftRepository.approve` trusts the row its session loaded, and its `UPDATE`
   names the row by key only. A reply that commits in between supersedes the
   quote; the approval then overwrites the status and sends the quote.
   `draft_repo.py:105-106` says superseding exists so that this cannot happen.
   The same window lets an approval and a rejection both succeed, and one
   draft be sent twice.
2. `DraftApproval!FailedSendNotApproved` (1 request): `_do_approve_draft`
   ignores a failed send and commits "approved", which no later approval
   accepts. `approval_state.py:9-11` and `draft_repo.py:90` exclude that; the
   machine that would avoid it is not called by any endpoint.
3. `InboundEvents!ExecutedOnce` (2 overlapping deliveries of a message): the
   ledger is read before and written after the execution, in another
   transaction. Overlapping duplicates both execute, against
   `db/models/execution.py:21-23`.
4. `InboundEvents!FollowUpIsExecuted` (2 turns of an `/invoke` session, one
   after the other): `user_input` and WeChat bodies carry no message id, so all
   turns of a session share one key; from the second turn on, the user gets the
   first answer again and nothing is executed, against `api/main.py:194-195`.
5. `RfqDocument!AnsweredReplyRecorded` (a strategy update and 2 replies, one at
   a time): the second reply without a price changes the loaded list and the
   new one alike, the ORM sees no difference, and the reply, answered and in the
   event log, is in no document: against `execution/rfq_execution.py:891`
   ("accumulate all prior replies/lead_times"). A later priced reply does not
   bring it back.
6. `UpstreamProcurement!ApprovedFromPendingOnly` (2 approvals, one after the
   other): an approval request that is approved can be approved again, with
   another option or by another person, and the new result replaces the first,
   which a rollup may already have carried to the buyer. The gate is documented
   to approve "from a pending approval request" (`approval_gate.py:94`) but does
   not look at the status.
7. `GpmPackets!FailureDegrades` (1 request): a refused connection or a timeout of
   giraffe-db ends the request with an unhandled exception, because the client
   turns only `HTTPStatusError` into the error the store catches, against
   `giraffe_db_client.py:5-6` and `packet_store.py:4`.
8. `OrderFollowUp!ShippedIsRecorded` (a selection and a logistics message): the
   loop of `submit_logistics_update` completes "logistics_handover" and leaves by
   `break` (`logistics_update.py:96`), before lines 97-99 could complete "shipped",
   the milestone after it (`docs/CLAUDE_MSIDE_MVP_OPENCLAW_SKILL.md:683-693`).
   `RecordsAgree` therefore claims the handover of a shipped order only.
9. `ProcurementGraph!CountsIndependent` (on the instance of `procurement_graph`;
   two runs of suite 1, one after the other, are enough): the second run finds
   actors and project of the first, adds none, and asserts that it added two and
   one (`bm_db_hardening.py:164-169`). Its docstring says the suite is independent
   of "whatever other rows earlier suites wrote" (`:131-132`), the module's that
   the suites prove stability "under repeated runs" (`:4-6`). Suites 2 (`:307`) and
   5 (`:660-671`) fail likewise.
10. `Benchmark!ModelValuesAreProvisional` (on the instance of `benchmark`; one case
   in mode C): `field_sources` lets the skill's own sources win
   (`semantic_sources.py:77`), whether or not the skill gave the value. A reply that
   lists a destination or a category it has no value of, also one that could only
   be normalized (`language_skill.py:81-82`, `:120`), makes the model's value
   authoritative, and the requirement is ready. `semantic_sources.py:38-40` says
   of a model's values that "they never satisfy a readiness gate on their own".

## 4. Fairness

`EveryRequestEnds` assumes weak fairness of each request's own steps
(`DraftApproval!Fairness`): a thread that can run is scheduled, every client call
has a timeout (30 s for OpenClaw, its own for GLTG), and waiting for the lock
ends in the lock or in `LockTimeout`. Nothing is assumed of arrivals or crashes.
No strong fairness is needed, because a request that is denied the lock again
and again may time out.

`TimedRunEnds` assumes weak fairness of `RunStep`, the steps of the harness' own
thread: it runs, and `future.result(timeout=...)` returns. Nothing is assumed of
the threads of the cases or of the providers, which may never answer; a run
without a time limit need not end.

The other modules state no liveness: their requests are loads and saves of files
without waiting, and end unless the process stops; `ProcurementGraph` waits for
SQLite's lock only, and a program that waits too long ends (`LockTimeout`).

## 5. The proofs

The proof modules follow the same plan: an inductive invariant `IInv`, which TLC
checked first on the instance of the run, one lemma per conjunct saying that
every step keeps it, `Invariance`, and the properties as corollaries.

**Assumptions.** They use what the modules assume of their constants: the kinds
of drafts are disjoint, `NoRequest`, `NoMessage` and the other null values
(`Nulls`, `QuotesNulls`) differ from the values they stand beside, requests are
finitely many where the argument counts them (a worker pool), OpenClaw names
each message once, and the parts of `OrderFollowUp` share their threads, orders
and plans (`OneSystem`). What a supplier says consists of messages and a message
of fields (`StoriesAreTexts`, `FieldsOfMessages`), rollups are of known suppliers
(`RollupsOfSuppliers`), every workspace's id is a project's (`ProjectsOfWorkspaces`,
there may be other projects); the benchmark's cases are a
finite list, each with a thread in each run (`ListOfCases`, `ThreadOfEachCase`).
The programs on the transaction database are written as they are
(`ProgramsFormed`): a call names rows of the tables its columns refer to, a
submission commits once and at its end, a program that inserts actors or
projects without a lookup is one of five, and before a call that links an edge
the same submission has inserted what it links, on that edge, and done nothing
since to undo it. This is a fact about the text of fourteen programs, with no
session, lock or interleaving in it. TLC evaluates it for loops of two; that it
holds for other values of `Runs`, whose repetitions differ in a project's key
only, is assumed, because the prover would have to compute the sequences.
Nothing else is assumed; the bounds on calls, runs and crashes are any natural
numbers.

`DraftApproval_proofs`: the properties are not inductive because they speak of
committed rows only. `LockInv` makes the uncommitted rows one request's
property; `DirtyInv` says that they differ from the committed rows only where no
decision existed, or at the target of that request; `PlaceInv` ties the place of
a request to its operation and target; `SentInv` and `QuoteInv` extend the
properties to uncommitted rows. Proved: `TypeOK`, `DeliveryAuthorised`,
`SentWasDelivered`, `OneLiveQuote`, `DecisionNotReopened`, `SettledIsFinal`. The last needs two
lemmas besides the invariant: only `Commit` changes `stored`, and a request
that comes to aim at a row finds it undecided.

The refinement, `SerialImplementsLifecycle`, has the hypotheses `MaxActive = 1`
and `MaxCrashes = 0`, as in the run `draft_serial`: with overlap it is false
(approvals of one draft both post it; section 3 lists what the documents say
instead). `SerialInv` holds under them: one request is in flight (`Alone`), what it
read is still what is committed (`ReadInv`), a transaction moves a row only along
the lifecycle (`WorkInv`), and a message that is out belongs to one request and to
a draft decided in the database or in its transaction (`PostInv`). A send is then
the abstract `Post` or a stutter (`SendPosts`), a commit `Settle` (`CommitSettles`),
and every other step a stutter.

`InboundEvents_proofs`: `PlaceInv` says who has executed and on what project,
`LinkInv` that bindings and attachments lead only where a message of the
conversation led, `LedgerInv` and `AnswerInv` that records and answers are executions
of the same key. Proved: `TypeOK`, `LedgerWriteOnce`, `LedgerIsBacked`,
`AnsweredWasExecuted`, `WorkStaysInConversation`, `AcknowledgedIsFinal`.

`Rfq_proofs`, the document: `HeldInv` says that loaded and pending documents are
coherent and consist of committed content plus the request's own;
`GrowInv` that a pending document keeps the turns it loaded and, unless it is an
RFQ's, the replies. Coherence of a loaded document is kept although `priced` grows
under it, because only the request itself can price its own reply (lemma
`Staging` carries the common part of the actions that write). Proved: `TypeOK`,
`DocumentCoherent`, `OnlyCommittedContent`, `SettledContentStays`.

`Rfq_proofs`, the benchmark: nothing can be said of provider, environment and
observers once a case was given up, so the invariant has two parts. `QuietInv`
holds until then: the case the run waits for is alone at work and alone
listens (`AloneInv`); whatever name, instance or cached provider it holds is its
mode's (`ProviderInv`); and it has heard of its own call at most, made by the
provider it holds (`HeardInv`), so that its result is truthful (`TruthInv`).
`TimeoutsInv` is the bridge to the reports: when a case was given up, the run
under way has a result that timed out, or a report has already failed its gate
for one. When a mode is left and its report passes, no case was given up so far,
and `QuietInv` says that the report tells the truth; when one was, some report
does not pass and nothing is claimed. `ReadyBySkill` needs an invariant of its
own, `SkillInv`, which holds whether or not cases were given up: the case the run
waits for is the next in the list, its thread has kept no reply or one that the
skill gave in the mode that is on, and results are in the order of the cases; a
thread that was given up goes on under another mode, but its result is never
taken. Proved: `ReportsTrusted`,
`AskedAsChecked`, `ReadyBySkill`; the type invariant is a part of `ShapeInv`.

`UpstreamProcurement_proofs`: the properties speak of rollups and files, the
invariant of the buffers that will become files. `OptionInv`: every list of
options, in the file or about to be saved, is of one generation per dependency.
`ApprovalInv`: every list of approval requests, wherever it is, has one record
of each name, whose result the gate returned for that record; this needs that no
list has the record of a request that has not appended it (`Unnamed`).
`RollupInv` follows from the two at the moment a rollup is made. Proved:
`TypeOK`, `RollupsHoldApprovedOnly`, `OneResultOfARequest`,
`OptionsOfOneGeneration`, `SettledEntriesStay`. The last rests on one lemma,
`ListStep`: a step leaves a list alone, or begins a save that has every name of
the list, or truncates, or writes what it was to write.

The next three keep a copy of a file in each request. Their arguments share a
lemma on what only grows (`StepGrows`, `FilesGrow`): files are not removed and
keep some of their fields, so a stale copy stays true of what is on disk in the
respects that the property needs.

`BWorkspace_proofs`, the chat skill: `TaskInv`, `BoundInv` and `DraftsInv` say that what
a buyer's handler, a buyer's binding or a draft refers to exists and is
structured; of the projects that suppliers' events name nothing is assumed.
`MakingInv`: of a conversation that was not crossed one caller at most is making
a binding, and only while it has none. `DecideInv`, `CheckedInv`, `DoneInv` and
`HandedInv` follow a draft that was not contested: pending while it is checked,
decided and not yet handed out while its caller has it done, handed out once.
Proved: `TypeOK`, `HandedOnce`, `BindingsSound`.

`BWorkspace_proofs`, the quotes: the properties speak of files, the invariant
of the objects that requests have loaded and will save over them. `RequestsInv`
says of every such object what `BuyersInv` and `SellersInv` say of the files:
its status is backed by what it holds, those of whom it holds a packet have a
workspace and its other responses are stored rollups', its report names
suppliers who responded and agreed, in a message or a rollup, its packet
counts messages that are in it. A stale object stays true of the files as they
are by now because workspaces are never removed, and a supplier's workspace stays
that supplier's and that project's. The same invariant bounds what a save that
is not stale takes away (`BWriteOK`, `MWriteOK`), which is `ContentKept`. Proved:
`TypeOK`, `RecordsBacked`, `ContentKept`.

`OrderFollowUp_proofs`: `RecordInv` and `WorkInv` say the same of orders on disk
and of orders about to be written (`Sound`: status and milestones agree, the plan
is written), and `WorkInv` also what a message may undo of the order it read.
`BridgeInv` follows the five files of the bridge, `SelectedInv` the order of a
selected path, `PlanInv` the files of a plan in the order they are written,
`MediaInv` the media a milestone lists or is about to list. One lemma per message
(`AcknowledgedEffect` to `ClosedEffect`) says what it makes of an order. Proved:
`TypeOK`, `RecordsAgree`, `ReferencesExist`, `ProgressKept`.

`Logistics_proofs`: `FilesInv` and `JobInv` say that a shipment, a copy of it, and
the status and time that a job has collected so far are those of a new shipment
or of an event file (`Backed`, `RunOK`); the time a job has collected is not older
than its copy, whence `LastEventAdvances`. `SeenInv` says that the one job at a
shipment that was not raced has seen all its event files, which makes
`IngestedOnce` inductive. Proved: `TypeOK`, `StatusHasEvent`, `IngestedOnce`,
`LastEventAdvances`.

`GiraffeDb_proofs`, the packets: `FreshInv` says that a packet not yet created is nowhere,
`RequestInv` that an instance decides on what it has pending, `LateInv` that what
may still be written is of a doubtful packet. For the others, `PlaceInv` says
that whoever has a packet is durable exactly if giraffe-db has it, `BackedInv` that the
two agree on its being decided, `VerdictInv` that after a verdict nobody finds it
pending. Proved: `TypeOK`, `MemoryBacked`, `OneVerdict`, `DecisionStands`.

`GiraffeDb_proofs`, the transaction database: the properties speak of committed
tables, the invariant `GraphInv` of a transaction at any call of any submission.
`LockInv`: whoever has the lock has not committed the submission it is at, and a
session without the lock has only looked up since its last commit; so `stored`
stands still under a transaction, and one that begins to write begins from it.
`WriterInv` says of the tables of the writer (`Transaction`) that they extend
`stored` by rows of its own (`Extends`), as many in each table as the calls
before have inserted (`CountsOK`), and that what an earlier call did and no later
call undid is still so (`FactsOK`): an edge is bare, an inquiry or a response is on
the edge its program named, an edge is linked to that inquiry. The induction
over a submission is thus in its position, not in its text. An update that
links an edge finds by `LinksInOrder` and `FactsOK` what it links on that very edge
(lemma `LinkFacts`); a commit turns `CountsOK` into `SubmissionsWhole` (`CommitCounts`,
`MadeAtCommit`), which also needs that a committed row is by a committed
submission (`OriginInv`). `KnownInv` and `MissedInv` say that a lookup that missed
has seen all that was there when its submission began; the rest of the
transaction only adds, so the row it goes on to insert is still new. One lemma
per call and one for the end of a session (`FindStep` to `CloseStep`). Proved:
`GraphWhole`, `SubmissionsWhole`, `IdentitiesReused`.

**Left to TLC.** `EveryRequestEnds` and `TimedRunEnds`: liveness and `ENABLED` are
outside the prover's reach. `AssertionsHold`: each of its cases is about the last
rows of a few programs (a timeline, two roles, promoted fields) or about what
others have added meanwhile (counts, the replies of a project), and an
invariant for it would follow these programs call by call, which TLC enumerates
and a proof would repeat.

## 6. Not modelled, and limits

* **M-side communication** (`m_side/communication`): outbox, inbox, correlation
  and the send/receive machine are called by scripts and tests only, one call
  after the other; no endpoint reaches them.
* **Approval state machine** (`approve_and_send`): no endpoint, command or agent
  calls it.
* **Account delegation**, the **trade salesperson agent** of the command line:
  not called by the service; the agent appears as the IM drafts of
  `DraftApproval`.
* **QC comparison**: a model's verdict on images; **sourcing, platforms, risk,
  pricing, lead-time paths**: arithmetic over text evidence. The matcher of CAD
  packets and shops is called by a demo and tests only (its
  `can_make_in_house` holds although no single machine need meet every check).
* **Merchandiser**: functions that no endpoint calls (`mark_overdue`,
  `update_order_state`, `assert_transition_allowed`, the confirmation and
  rejection of media and the like), endpoints that create tasks or milestones
  without a plan, and the log of states, which no step reads.
* **Supplier profiles and quotes**, invitation tokens: written once per call, read
  by no other step. `submit_exception_report` writes an event that no step reads.
* The **tests and JSON demo scripts** (`run_role_switching_mvp.py`,
  `run_bm_e2e_mvp.py`, `run_integrated_post_confirmation_mvp.py` and others) drive
  the same functions one after the other.
* Contents of messages, requirements and options are left out, except where a
  module says which facts it keeps. `ReplyCommits` leaves open whether a project
  has a requirement, which decides whether GLTG is asked before or after the
  commit. The optional LLM classification is an input: a message has the class
  it is given.
* `/invoke` runs on the event loop and blocks it; the models let it interleave
  like the other routes, which includes every blocking schedule.
* `RfqDocument` has one project, which exists. The three Aivan modules of the
  request path are three views of it and are not composed.
* `UpstreamProcurement` writes a file with one system call: a list longer than
  Python's buffer (8 KiB) is written in several, and two of them could interleave
  into further forms of broken JSON, which `"corrupt"` stands for. In the other
  file-based modules a save is one step: a reader that finds a half-written file
  fails as at a crash of its request, and a process that stops in the middle of
  a write, leaving a file that is no JSON, is modelled in `UpstreamProcurement`
  only.
* `GpmPackets` leaves out the model's analysis and has one tenant; `GET /packets`
  shows fifty packets at most. `write_audit` is called by no handler.
* `ProcurementGraph` leaves out prices, texts and payloads, counts that programs
  print and assert nothing about, and tables no program writes.
* `Benchmark` keeps two cases and the flags a mode switches. No code installs an
  approval packet, so only the override lets an external provider be called.
  What a model puts under `extra` is left out. The language a case declares and
  the one detected in its text are one value here. No property depends on how
  Ollama retries; the retries are there as steps at which threads interleave.
  The harness' command line is not part of the repository.
* `false_ready` of a report is never true by the shape of the code and is left
  out; so are the figures the reports add up.
* Only SQLite is modelled. On another database, without a single writer,
  `OneLiveQuote` would not follow from the code.

## 7. Plan

1. `MSideCommunication`: the send/receive machine's table checked for
   reachability and for states that cannot end, once an endpoint reaches it.
2. `ApprovalState` against a version of `DraftLifecycle` with recoverable
   failures, once an endpoint calls it.
