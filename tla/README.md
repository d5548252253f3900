# TLA+ models of text2cypher-factory-rca

The repository answers questions about factory data: a question is turned into
Cypher by a LangGraph agent, validated, executed on Neo4j and shown with its
evidence. Around the agent, a FastAPI service takes a project from its first
upload through mapping, load and evaluation to `ready`, the only state in which it
may be queried. A Streamlit console and a web client are its two front ends.

This directory holds TLA+ specifications of the parts of that system whose
correctness depends on order, interleaving and failure, the TLC configurations
that check them, and TLAPS proofs about them. Paths are relative to the
repository; `app/` stands for `backend/app/`.

## 1. Inventory

| Part | State it keeps | Operations | Hard behaviour | What makes it correct |
|---|---|---|---|---|
| project registry `app/projects/registry.py` | SQLite tables: projects, project_transitions, project_artifacts, registry_settings | create, update, transition, record_artifact, activate, ensure_default | every call reads outside the lock and writes later; update writes the whole row | the log is a path of allowed edges; archived is final; the active project is not archived |
| lifecycle handlers `app/api/main.py`, `app/ingestion/workspace.py`, `app/mapping/workspace.py`, `app/schema_registry.py` | uploads, mapping.json, schema.yml, artifacts | profile, approve, load, promote, PATCH | handlers of many writes, overlapping, failing or stopping half-way | `ready` is reached only with integrity and evaluation of the data that is served |
| readiness gate `app/projects/readiness.py` | none: it reads everything else | inspect, promote | a conjunction of versions read one after another | whoever can query sees the evaluated data |
| external projects `app/projects/connectors.py`, `app/graph_projection/` | artifacts, receipts and nodes in Neo4j, lifecycle row | validate, approve, project, promote | replay and conflict of a key, a write with unknown outcome, a promotion of several transitions | a key has one content; a receipt means its nodes are there; what is attached was approved |
| graph loaders `app/services/project_load_service.py`, `app/etl/generic_loader.py`, `app/services/data_intake_service.py`, `app/etl/load.py` | lock files, run.json with an approval token, Neo4j access mode, graph | dry_run, load | two services, two lock files, one server; errors in `finally`; stops | one load per lock, back to reader mode, a recorded success is true |
| mapping preview and load `app/mapping/workspace.py`, `app/etl/generic_loader.py` | approved mapping, graph | dry run, approve, load | counted twice, by hand and by the loader; rows that repeat, lack or misspell | what is loaded is what the dry run showed |
| agent `app/agent/workflow.py`, `state.py`, `graph.py`, `checkpoints.py`, `app/services/query_service.py` | checkpointed run state | guard, generate, validate, correct, execute, finalize, invoke, resume | resume from an old checkpoint, overlapping runners, deadlines, correction loop | only validated statements run; evidence is true; every call ends |
| service and tool registries `app/api/main.py`, `app/tools/` | a bundle per project, audit | get, close, call with timeout and retry | read outside the lock; a timed-out handler goes on | no bundle leaks; an answered call is audited |
| rate limiter `app/api/rate_limit.py` | LRU of windows | check | clock read before the lock, eviction | limit per window, while the bucket is kept |
| document RAG `app/rag/` | manifest, source files, index | register, rebuild, start, search | several services of one project, each with a lock of its own; failures between files | one current version; the index is the manifest |
| pipeline jobs `app/jobs.py` and the console's onboarding pages | pipeline_jobs table | create, report, succeed, fail, cancel, retry | decide on a row read in another transaction; a stopped page script | rows are whole; a success is true; running jobs end |
| conversations `app/conversations.py`, `frontend/session_state.py` | SQLite store, session state of a tab | ask, answer, switch, reopen, start | two tabs, a page script stopped half-way | no turn is lost, none shows in another project |
| graph exploration `app/services/graph_service.py`, `frontend/pages/graph_explorer_page.py` | drawing in session state | search, path, expand, undo, switch | entries written one by one, a click stops the script | the drawing is of the graph and of the project |
| web client `web/components/` | React state, calls on their way | select, ask, upload, edit, approve, load | answers in any order | the history of a project holds its own answers; a mapping is approved for the upload it was written for |
| evaluation `evaluation/` | snapshots, metrics, results | approve snapshots, compare rows, score, publish | scripts that overlap or stop between files | numbers have their report and name the snapshots they used |
| CiP-DMD ETL `app/etl/` | rows, batches, graph | extract, transform, validate, load, compare | scripts that overlap or stop between batches | a pass means that the whole payload is there |
| project router `app/agent/project_router.py` | none: it reads projects and schemas | candidates, route | projects are listed, then loaded one by one while others change them | an automatic route leads every candidate that was there all the while |
| prompts, model client, few-shot examples, file formats, dashboards, audit, feedback, bootstrap, release scripts | - | - | text or data processing, wiring, or append-only records | out of scope, see section 8 |

How they interact: a request thread of the API calls the registry, the workspaces
and the loaders in sequence, with no transaction around the sequence; threads share
the registry's database, the files of the project, the loader's lock file and
Neo4j. The query handler asks the rate limiter, the readiness gate, the service
registry and then the agent. The evaluation scripts, the ETL and the Streamlit
console are processes of their own on the same files and the same Neo4j server;
the web client reaches the API over HTTP.

`PROJECT.json` lists all components, and the hazards of the code at their lines.

## 2. Modules

| Module | Models | Checked in | Proved in |
|---|---|---|---|
| `ProjectStateMachine` | the lifecycle as the registry promises it: atomic creation and transitions, with their log | (instanced by the next two) | |
| `ProjectRegistry` | the registry's calls as sequences of database accesses | `MCProjectRegistry` | `ProjectRegistryProof` |
| `ProjectLifecycle` | one file project: handlers, files, artifacts, gate, evaluation | `MCProjectLifecycle` | `ProjectLifecycleProof` |
| `Text2CypherAgent` | one run of the agent, its checkpoints and resumes | `MCText2CypherAgent` | `Text2CypherAgentProof` |
| `GraphLoading` | the two load services, their locks and the server mode | `MCGraphLoading` | `GraphLoadingProof` |
| `PipelineJobs` | the job table and the page scripts that report to it | `MCGraphLoading` | `PipelineJobsProof` |
| `ExternalProject` | attached databases and typed projections, up to `ready` | `MCServices` | `ServicesProof` |
| `MappingLoad` | what a mapping makes of the rows, in the dry run and in the loader | `MCServices` | `ServicesProof` |
| `DocumentRag` | manifest, sources and index of a project's documents | `MCServices` | `ServicesProof` |
| `RateLimit` | the sliding windows | `MCServices` | `ServicesProof` |
| `ProjectRouter` | candidates and the choice of a project for a question | `MCServices` | `ServicesProof` |
| `QueryGateway` | readiness gate, bundles, and the call of a tool | `MCServices` | `QueryGatewayProof` |
| `Conversations` | tabs of the console over one store | `MCFrontEnds` | `FrontEndsProof` |
| `WebQuery`, `WebStudio` | the query page, and onboarding and Schema Studio of the web client | `MCFrontEnds` | `FrontEndsProof` |
| `GraphExplorer` | the explorer page and the queries it asks | `MCFrontEnds` | `FrontEndsProof` |
| `EvaluationRun` | the files of the evaluation | `MCFrontEnds` | `FrontEndsProof` |
| `SnapshotComparison`, `EvaluationScores` | row comparison and scoring | `MCFrontEnds` | `FrontEndsProof` |
| `CipDmdEtl` | the ETL of the CiP-DMD dataset | `MCFrontEnds` | `GraphLoadingProof` |

**ProjectRegistry.** `status`, `transitions`, `columns` and `active` are the tables;
`call` is what a thread holds between its read and its write. `BeginTransition`,
`CheckActive`, `CommitTransition`/`ConflictTransition` are the four accesses of
`transition`; `BeginUpdate`/`CommitUpdate` and `BeginActivate`/`CommitActivate` those of
`update` and `activate`. `Restart` loses all calls and runs `ensure_default`. Metadata
values are opaque; only the columns `ensure_default` restores are kept.

**ProjectLifecycle.** A request is a record in `req` whose field `at` is the next read or
write of its handler. `row` is what `update` reads and writes back, `linked` and
`integrity` are the artifacts, `mapping` and `manifest` the two files approval writes one
after the other, `evaluated` the lineage common to the gold, prompt and metrics files,
`graph` the upload last committed. A registry transition is one step that may also lose to
another request (`Contended`); that it behaves so is what `ProjectRegistry` establishes.
`Eligible` is `eligible_for_ready`, `CanQuery` is `can_query`. Abstractions: `inspect` and
the reads that open a handler are one step; the project is not the active one. A mapping may carry
the source_version of another upload (`label`), which the manifest then shows; `MayLabel` switches that
on and off. A label that names no upload at all never passes the gate and is left out.

**GraphLoading.** `call[c].at` is the step of a `dry_run` or `load`. `record` is run.json,
`mode` the server's access mode, `cip` how much of the CiP-DMD graph is there. A mode
switch, which rewrites the configuration and restarts the server, is one step that may
fail before or after it took effect. The confirmation phrase and the lifetime of a token are
left out, and the project service is the one with `mode_control = homebrew`.

**Text2CypherAgent.** `live[r]` is the state a runner works on, with `next` for the node that
`next_action` and the routes lead to; `saved` is the last checkpoint. `Checkpoint` stores a
state in the background, as LangGraph does, so that a stop may lose several nodes. A
statement is a member of `Safe`, `Rejected` or `Writing`, which is all that the checks tell
apart, and stands for its hash too. Messages, rows and traces are left out. A pause
(`interrupt_before`) is a `Stop` at a node whose predecessor is stored. The model's answer, the
outcome of EXPLAIN and of the execution are nondeterministic.

**PipelineJobs.** A page's `plan` is what its script still does: reports (`start`, `progress`,
`succeed`, `fail`, `cancelled`) and the call of the API (`work`). `update` is `ReadJob` and
`WriteJob`: the row is read and checked in one transaction and every column is written in
another. `Changed` is what a report makes of a row. `StopScript` is Streamlit's rerun or the end
of the session. `worked` and `dropped` are history variables.

**ExternalProject.** `extStatus` and the lineage labels are the row, nodes and receipts are in the
graph. `project` reads the receipt and writes nodes and receipt in transactions that may commit
although the caller sees an error; the promotion walks the lifecycle one transition at a
time. Validation and approval of a connector read the row and write artifacts, row and
transitions one after the other.

**MappingLoad.** One table of nodes and one of relationships; `DryRun` counts as
`mapping/workspace.py` does, `Prepared` and `Merged` write as the loader's queries do, with Neo4j's type
conversion of an identity ("1" and "01" are one integer).

**DocumentRag.** A service holds its lock while it registers; another service of the
same project, in another bundle, has a lock of its own. Writes of the source file, the index and the
manifest are steps of their own, in this order, and any of them may fail: a registration whose manifest
cannot be written leaves an index that lists the document. The history `unfinished` says that the last
call that began to replace the index has not completed.

**QueryGateway.** A query is inspected by the gate, looks the bundle up, waits for the lock, builds or
fetches; a tool call is attempted, audited, answered or retried; `TakeOut` and `CloseBundle` are
`close`. Handlers are threads that outlive their timeout. `RefuseCall` is a call
refused for its name, permission or arguments, before any attempt.

**RateLimit.** `ReadClock` and `Decide` are the two halves of `check`; buckets are a sequence in
the order of their last use. `lately` is the history of what was allowed and may still count; `From` and
`Expired` cut a window at its older end.

**ProjectRouter.** `ListCandidates` reads the ready projects, `LoadSchema` one schema after the other;
`RowChanges` and `SchemaChanges` are what others do meanwhile. A score is the similarity of question and
schema, which is data, plus the keywords they share; `DecideRoute` compares the first with the runner-up.
`steady` is the history of the projects that were candidates all the while.

**Conversations.** A tab is the session state of one browser session; `at` says where its script is. Each
access of the conversations table is a step of its own. The writes to the session that follow one are
seen by no other tab: an action does them all, or, stopped by another click, any first part of them.
`CutSwitch` is a switch of project of which some keys were restored and `active_project_id`, the last
one, was not; `CutOpenThread` a reopening stopped between identifier and messages; `Answer` may end
after the message was added and before it is synced and saved. `split` records that such a stop left the half of
another conversation on a page, `orphaned` that a tab stayed on an archived project.

**GraphExplorer.** The page is a list of writes (`writing`) to `st.session_state`; another click
stops it at any of them. `CutSwitchProject` is the same interrupted switch, seen from the keys of the explorer
(`HalfRestored`): the page of the project that was not left may then hold the result of the other one.

**WebQuery, WebStudio.** Calls of the API are records in a set, answered in any order;
components keep what the last answer wrote.

The breadth-first search behind the highlighted path (`Reached`) is a function from the number of
steps to the parents found until then.

**EvaluationRun, EvaluationScores, SnapshotComparison.** The order in which the scripts read and write
snapshots, results and metrics; the sums of the scores; and the matching of rows along augmenting
paths, checked against "there is an injection that pairs the rows". A snapshot is the contents of the graph it
was read from, and the graph may get back contents it had before, as the fingerprint is a hash of
contents. The snapshots are hashed one by one (`HashSnapshot`) before the contract is complete. The
history `returned` holds the questions that got back a snapshot an evaluation has in its fingerprint.

**CipDmdEtl.** Parts, processes, measurements and assemblies are transformed into rows as
`transform.py` does, sent in batches of a fixed order, and counted again in the graph.

## 3. Runs

| Run | Bounds | Question and result |
|---|---|---|
| `registry` | 2 threads, 2 projects, 2 values of one column, logs of 3 rows | types, `HistoryIsPath`, and that the registry implements the atomic lifecycle (`ImplementsMachine`): all hold |
| `registry_archive` | the same | `ActiveNotArchived` fails: activation between the check and the UPDATE |
| `lifecycle` | 1 client alone with 3 uploads, 2 schema labels and mappings with a label of their own, or 2 clients overlapping with 2 uploads and process stops | `ServedAlone`: with requests one after another, what is answered is of the upload whose mapping was approved, loaded and verified, under the source version that mapping carries; `EvaluatedAfterIntegrity`, `GraphWasApproved`: also when requests overlap and stop |
| `lifecycle_stale_graph` | 2 clients, 2 uploads | `ServedGraphIsSource` fails: approval overlaps a load |
| `agent` | 2 runners, 2 attempts; 3 resumes, one call at a time, in a changing project, or 1 resume that may overlap | `OnlyValidatedRuns`, `RefusedNeverRuns`, `EvidenceIsTrue`, `OneAnswer`, `EveryCallEnds` hold |
| `agent_resume_not_ready` | 1 runner, 1 resume | `StartedWhenReady` fails: the resume endpoint has no gate |
| `loading` | 3 calls at once, 1 token, stops; 2 pages, 2 jobs | `OneLoadPerLock`, `ReaderRestored`, `PassMeansLoaded`, `EventuallyReader` of the loads; `RowsAreWhole`, `SucceededIsDone`, `RunningEnds` of the jobs: all hold |
| `services` | 2 senders, 3 projections, 2 databases; tables of 2 rows; 2 services, 2 versions, 3 calls; 2 callers, 3 keys, 2 buckets; 2 requests, 1 retry, 2 bundles; 3 projects and questions of the router | the promises of the six service models (below): all hold |
| `documents_lost` | 1 service, 2 versions, 3 calls | `DocumentsKept` fails: a refused registration deletes the source of the registered one |
| `console_cut_switch` | 1 tab | `SwitchIsAtomic` fails: a switch stopped between its writes leaves messages of the new project on the old one's page |
| `web_late_answer` | 1 question | `ShownIsSelected` fails: an answer that arrives after a switch is shown in the other project |
| `front_ends` | 2 tabs, 2 projects, 1 listed conversation, 2 questions, 3 identifiers, of both together 5; 2 questions and 2 uploads of the web client on their way; 4 nodes; 3 rows; 2 scripts, 2 questions, 2 variants, 3 reports, or 1 report and 2 contents that come back; 2 ETL loads | the promises of the pages, the evaluation and the ETL (below): all hold |

Several models that share no state are checked in one run: a variable `part` (in `MCServices`,
`MCFrontEnds`, `MCGraphLoading`) is chosen in the initial state and says which one moves, so the states
of a run are the sum of the parts and not their product. `alone` in `MCProjectLifecycle` and `shared` in
`MCText2CypherAgent` choose the kind of instance in the same way. The evaluation is two parts: all scripts with
snapshots that stay, and approvals beside evaluations while contents change and come back.

What the combined runs say:

| Property | Of | What could go wrong |
|---|---|---|
| `CompletedHolds` (`OneContentPerKey`, `ReceiptsInGraph`) | projections | a call that stops between graph and receipt and is repeated with other content, a commit reported as an error |
| `AttachedIsApproved` | connectors | validations, approvals, projections and promotions that write their rows over each other or stop half-way |
| `LoadedAsApproved` | mappings | rows the dry run counts differently from the loader, or earlier uploads in the graph |
| `OneCurrentVersion`, `IndexIsManifest` | documents | two services of one project that overwrite each other; registrations and rebuilds that fail at any file. The index on disk is compared while the last call that touched it has completed: a manifest that cannot be written leaves them different |
| `WindowRespected` | rate limiter | a window cut at the wrong end, an eviction of the wrong bucket. Stated while no two calls have crossed and the bucket is kept: the code reads the clock before the lock and promises no more |
| `RouteIsClearLead` | router | a project that fails to load hides those after it; a winner that was never compared with a better one |
| `NoBundleLeaks`, `AnsweredIsAudited` | gateway | a close between the lookup and the use, two builds at once; retries, late handlers, an audit file that cannot be written |
| `TurnsApart`, `TurnsKept` | console | a script stopped between its writes, two tabs, switches that were stopped before the first key. What a stop inside a restored context does is shown by `console_cut_switch` |
| `AnswersApart` | web query page | answers that arrive after a switch, kept in the history of the wrong project |
| `GraphStaysInProject` | explorer | a result of another project left by a stopped switch and drawn, searched or expanded |
| `ApprovalFitsUpload` | web Schema Studio | a mapping approved for an upload it was not written for |
| `DrawingIsGraph` | graph explorer | expansion and undo stopped half-way |
| `AcceptedIsPaired`, `SummaryAdds` | scoring | greedy matching where an augmenting path is needed, a rate with the wrong base |
| `FingerprintNamesSnapshots`, `NumbersHaveReport` | evaluation scripts | an approval between the hash and the use of a snapshot, contents that come back; scripts that publish one after the other |
| `NothingSkipped`, `PassIsPayload` | ETL | relationships sent before their nodes, rows lost between two batches, counts compared with the wrong graph |

Why the bounds are enough: a registry conflict needs two calls on one row, and a third
log row reaches every kind of edge, archive included; a stale lineage needs two uploads, and
a third gives one that is neither the loaded nor the approved one; a resume that overtakes the
run needs two runners; two attempts give a correction and the end of the corrections; three
concurrent loads give two of one service and one of the other; a job, its retry and two
pages give every pair of overlapping updates; two projections with one key and two contents give replay and
conflict, and a third send the replay of what was lost; two rows give a repetition, and all
tables of two rows are enumerated; three keys over two buckets give an eviction; two bundles give one
that is used while its successor is cached; two questions and three identifiers give two tabs each a turn of its own, a
new conversation beside it and one that both hold; two contents and one report give snapshots that
change and come back under the evaluation that is reported. The proofs in section 5 drop the
bounds for the properties they cover.

`CHECK_DEADLOCK FALSE` is set where the system may stop: uploads, tokens, resumes, jobs and calls are
bounded, and a run that has ended has no further step. The registry is checked for deadlock.

`front_ends` follows no state in which a stop left half of another conversation, a tab is on an archived
project, or questions and identifiers are more than four together (`Regular`): `TurnsApart` and `TurnsKept` hold of the
first two kinds of states ever after, as neither history is ever reset. Nor does it follow drawings with two
labels hidden: the nodes of an instance have two labels, and hiding one makes edges lose an end.

`services` takes the senders and databases as symmetric (`AnySender`) and `front_ends` the tabs
(`TabSymmetry`): no action names one, and these runs check no liveness property.

## 4. Fairness

`Text2CypherAgent` assumes weak fairness of each runner's steps: a node ends by itself because
the model client and the Neo4j driver have timeouts, and a checkpoint is written. Nothing is
assumed of stops, deadlines and resumes. `GraphLoading` assumes weak fairness of calls that have
begun: the subprocess of the mode switch, the driver's wait and the batches end, with success or
an error. Nobody is assumed to begin a call. `PipelineJobs` assumes weak fairness of a script that
has begun: Streamlit runs it to its end unless the session interrupts it, and then the job is in
`dropped`, which `RunningEnds` names. No user is assumed to press a button. The other models state no
liveness and no fairness.

## 5. Proofs

TLAPS checks the theorems for every number of threads, projects, versions, runners, tokens,
resumes, requests, bundles, pages and jobs; the assumptions are the named ASSUMEs of the modules, which
TLC evaluates in the runs.

* `ProjectRegistryProof`. `TypeCorrect`; then `HistoryInvariant` and `ArchivedStays` from the
  inductive invariant `IInv`, which adds to `HistoryIsPath` that a transition about to commit
  holds an edge of the table (`CheckedEdge`): the check was made on the status read, and the
  conditional UPDATE makes it true of the status replaced. `Refinement`: a commit maps to one
  `Move`, a create to `Create`, everything else to a stutter. `SequentialUse`: with one client,
  updates write no stale column (`NoStaleWrite`).
* `ProjectLifecycleProof`. `TypeCorrect`, `OnlyApprovedInGraph` and `IntegrityFirst` from one invariant:
  a saved mapping is of an approved upload (`MappingInv`), and a load request carries what it has
  established (`RequestFacts`): an approved upload once it has the graph open, a committed graph
  once it validates, a recorded integrity before it completes. Approvals, integrity and the loaded
  graph are never withdrawn, so no other request can take these facts away (`Quiet` covers the
  actions that leave them alone).
* `Text2CypherAgentProof`. `ValidatedOnly`, `EvidenceTrue`, `AttemptsAreBounded` and `RefusedStays` from
  one invariant, `AgentInv`: every state that exists anywhere (checkpoint, runner, answer) is
  `Good`: its hash is of an explained statement, its evidence of an executed one, its count and
  its place in the graph agree. As each node maps good states to good states and histories only
  grow, it does not matter which checkpoint a resume finds. `AnswerIsKept` needs `Alone`: while no
  two runners overlapped, an answered run is stored as ended and nobody runs.
* `GraphLoadingProof`. Three small invariants over one typing lemma: `LockInv` (a call in its
  section has its file, and no other call of the service is in it), `ModeInv` (loader mode has a
  call on the way back, or is stranded), `PassInv` (an intake that wrote without an error found the
  graph complete).
* `QueryGatewayProof`. `TypeCorrect`, then `BundlesAreClosed` and `AnswersAudited`. The
  typing invariant carries that bundle numbers are given once (`open`, `strays` and what requests hold are
  within `1..built`), without which a new bundle could be taken for an old one.
* `PipelineJobsProof`. `JobsInv`: what a page is about to insert or write is a whole row of a job in the
  table, and a plan that has not ended ends with a report. A report makes a whole row of any whole row
  that has not ended (`ChangedIsWhole`), so it does not matter that the row read is no longer the row
  replaced: `RowsStayWhole`. `TrueInv` adds the plans: the work comes before a report of success and
  once (`WorksFirst`, `WorksOnce`), which each step of a script keeps of the rest (`TailIsTrue`):
  `SuccessIsTrue`.

* `ProjectLifecycleProof` also has `ServedFromSource`: with one request at a time, what is answered
  is of the upload the mapping was approved for, and shown under the label it carries. `LoneInv` adds to
  the invariant above what the only client can rely on between two steps of its request (`LoneFacts`): the
  status its handler left, and which of mapping, schema.yml and graph are already of the same upload; in
  `evaluation_required` and `ready`, graph and mapping are.
* `ServicesProof`, one invariant for each service.
  `RouterInv`: a project that was a candidate all the while has been compared or is still to come, so no
  failing schema hides it: `ClearLeadOnly`.
  `WindowInv`: a bucket is the tail of what was allowed lately that has not expired (`BucketHolds`), and
  what was cut off is older than the window of every call that has its clock: `LimitHolds`.
  `ExtInv`: a projection past its transaction is in the graph (`GraphInv`), and while no two calls cross,
  the receipt of a key is that of every answer under it (`ReceiptInv`): `AnswersHold`. A row whose lineage is
  a database is linked to it, also in the hands of a call that will write it back (`LinkInv`):
  `AttachedApproved`.
  `DocsInv`: everything that is or will be a manifest or an index has one current version of a document
  (`OneCurrentInv`): `DocumentsOneCurrent`. While nothing interferes, `CallFits` says for each step of a call
  which sources are there, whether its name is new and which rows the index has (`Undisturbed`):
  `DocumentsIndexed`.
  `MapInv`: what the graph holds of an upload was made by one of its loads (`MarksInv`), and the approved
  counts are of the files that will be loaded (`ApprovalInv`). The rest is about the operators: dry run
  and loader pass over the same rows (`SameNodes` and its like), so what is marked is exactly what was
  prepared, unless an earlier load of the upload required less: `LoadsAsApproved`.
  `LimitShape` (`LimiterBounded`): a bucket that is full belongs to a tracked key, so a refusal tracks no
  further one; a grant pushes out the oldest key at most, never its own, and the bucket of a key that is
  pushed out is thrown away. So the number of buckets and the events in each stay within the limits.
  `ShapeInv` (`ExternalTyped`): the status leaves "no row" once and never returns, and only a
  projection before its promotion works without a row (`Early`), so that a transition always
  starts from a status of the table; a connector call holds a database, a projection a payload.
  `ServicesTyped` puts the invariants of the six services together: a step of the run's specification is
  a step of one service and leaves the others alone (`OnePartMoves`).
* `FrontEndsProof`, again one invariant for each part.
  `TalkInv` (`TurnsStayApart`, `TurnsStayKept`), of all states `Calm` (no half of a conversation on a page, no
  tab on an archived project; both only ever cease to be so): every context, saved context, list entry and row that
  exists for a project is `Holding`: it shows turns of the project only, and of the answered turns that
  count (`Counted`: not those of conversations two tabs held) all that are its own. It is a predicate of
  one conversation, monotone in the turns that count and the identifiers given out, so that each action
  proves it for the one context it writes. The proof rests on what `OtherRows` keeps of a list
  (`OthersKept`), which is an induction along the list.
  `WebInv`: unless a switch overtook it, a question under way is for the selected project: `AnswersStayApart`.
  `ExplorerInv`: what the database answers is in the scope of the project that asks (`AnswerInProject`); the
  page draws no result outside it, also none that a stopped switch left there, and filtering and bounding only
  leave things out (`DrawnInScope`): `GraphApart`.
  `StudioInv`: wherever a mapping is, on the server, in a call or an effect under way or on the page, it was
  written for the upload it names; and a call the server will accept names an upload of its project:
  `ApprovalsFit`.
  `EvaluationInv`: an answer that was scored with other contents than the fingerprint names was so because the
  snapshot was replaced, and until contents come back it still differs (`ScoredWith`); numbers, also
  those a script is about to write, are of the script that owns them (`OwnedInv`); and with one script at a
  time, how far the places agree at each of its writes (`OneScript`). `AloneInv` adds to that what one script
  at a time is sure of: its fingerprint names the snapshots it scores, and the project's copy holds the
  correction that was the last one when the evaluation it shows read the old file: `FingerprintHolds`,
  `NumbersHold`.
  The three theorems about algorithms rest on lemmas about what their operators compute.
  `DrawingHolds`: after k steps of the search (`Searched`) the parents of a node lead to the root in as
  many steps as its depth, and the neighbours of all nodes of less than depth k were reached. Each step
  reaches a new node or none ever more (`Grown`), so after as many steps as there are nodes nothing is
  left to reach, any path has at least as many relationships as the depth of its end, and
  the way back along the parents has exactly as many.
  `AcceptedArePaired`: every row placed so far has a partner of its own. An augmenting path gives one more
  row a partner and takes none away; where there is no such path, the rows that were visited are one more than the partners
  they could have, all of which are taken by them, so no injection pairs the rows.
  `SummariesAdd`: the counts of a summary are cardinalities of sets of answers, which failure types,
  differences and the cells of the confusion matrix divide into disjoint parts; the sum over the
  parts is the cardinality of the whole (`TotalOfParts`).

Assumptions made for the proofs, each of data the code can only have so: markers are not projections
(`MarkerAssumption`), the texts of documents are given (`TextsAssumption`), an upload is two finite tables
(`UploadsAssumption`), the source files are finite (`ExtractsAssumption`), a lone client's bounds
(`LoneAssumption`), a graph has finitely many nodes (`GraphAssumption`), a row finitely many columns and
the table of the rows is a sequence of them (`ComparisonAssumption`).

Inductions over numbers and along sequences are made from well-foundedness of < on the naturals
(`CountingUp`): the set of numbers for which the claim holds is all of them. The induction theorems of the
library, which take an operator, are not used.

Every invariant and action property that a passing run checks is stated by one of the theorems. The type
invariants of `ProjectLifecycle` and `GraphLoading` are proved and in no run: there is nothing a run would add. Only
model-checked are the liveness properties `EveryCallEnds`, `EventuallyReader` and `RunningEnds`,
because there are no rules here for fairness and ENABLED.

## 6. What the runs say about the code

What holds although the code looks fragile: the registry's conditional UPDATE makes its unlocked
checks sound; the agent's hash survives resumes from any checkpoint and overlapping runners; the
two load services cannot leave the server writable between them, nor record a load that was cut
off by the other's return to reader mode; job rows that are written back from a stale read are
whole and their successes true; a projection that is sent again after an unknown outcome is
recognised by its receipt; a bundle that is closed while requests build and fetch does not leak.

What does not hold, with a run each (`findings` in `PROJECT.json`): the six violations of section 3. A
switch of project in the console is called atomic and is not: any click may stop it between two keys. The web
page shows a late answer under the project that is selected by then.

Observed while modelling, without a run, because no document promises otherwise or because the
case is narrow:

* `app/services/data_intake_service.py:468` compares the approval token before the lock is taken. Two
  loads read run.json and find the same token; the first takes the lock, loads, records and lets the
  lock go; then the second takes it and loads again (`TokenUsedOnce` of `GraphLoading` does not
  hold). `docs/refactor-stage5-data-intake.md:35` speaks of a one-time token.
* `app/jobs.py:196`: a report that was read before a cancel revives the cancelled row.
* With overlapping requests a metadata update of the registry is lost (`NoStaleWrite` needs one
  client), one of the ways to a stale graph.
* `app/mapping/workspace.py:516`: a mapping with a source_version of its own makes the lineage of the gate that of
  another upload, with one client and no overlap: approve upload 1 under the label 2, load, evaluate and
  promote, and the project shows version 2 and answers from upload 1 (`ServedGraphIsSource` fails
  under `MayLabel` without a second client). `docs/enterprise-stage1-7-validation.md:50` lists the version as fixed.
* `app/api/main.py:1002`: a load without an approved mapping raises KeyError, which is answered 404 without the
  transition to `failed` that `docs/architecture/current-state.md:300` draws. The project stays `loading`,
  which refuses uploads, until a second load request: that is refused with a ValueError, of which the handler moves the
  project to `failed`.
* `frontend/sidebar.py:225`: a session whose project is archived by another client keeps it, while the services
  it asks are those of the first listed project: their answers are shown and stored under the archived one, against
  `docs/p3-enterprise-platform-functional-spec.md:227`. `TurnsApart` and `TurnsKept` except it (`orphaned`).
* `frontend/session_state.py:158`: a click that stops the reopening of a conversation between identifier and
  messages lets the next save store the messages of the one over the other.
* `evaluation/run_correction_evaluation.py:243`: the correction script writes `evaluation/metrics.json` only, so
  the project's copy shows the correction that was the last one at the last evaluation.
* `evaluation/registry.py:180`: the fingerprint is a hash of contents. When snapshots are approved from A to B and
  back to A while an evaluation runs, its report has the current fingerprint and was scored against B.
* `app/rag/service.py:189`: when the manifest of a registration cannot be written, its source is
  unlinked and the index on disk goes on listing the document until the next rebuild.
* `app/api/main.py:1736`: the explorer endpoint of `cip-dmd` does not scope its queries by project.
* `app/etl/cli.py:135` compares counts only: overlapping loads of different versions may pass with labels
  of both. `app/etl/transform.py:97` counts a run at the assembly, which has no equipment, among the
  relationships to equipment, so such a load fails after it has written.
* `docs/backend-lineage.md:52` forbids to reuse an evaluation for new data; the gate compares
  versions only (`app/projects/readiness.py:259`), so a changed snapshot alone takes no project from ready.
* `app/etl/generic_loader.py:220`: a stricter mapping approved over an older graph makes every later load
  fail its reconciliation.
* `web/components/schema-studio.tsx:113` sends the upload that is selected when the load button is pressed;
  unless it is the approved one the server refuses it and the project becomes failed.
* Two calls that cross exceed promises that are kept otherwise: the limit per window, and one content
  per projection key. A turn is lost when two tabs save one conversation.

What properties that hold do not say: `EvaluatedAfterIntegrity` is about facts that are never withdrawn, so
after the first verified upload it says nothing of a later one, which is `ServedAlone`'s and the violation runs' business.
`LoadedAsApproved` excepts nodes that an earlier load of the same upload under a laxer mapping left.
`TurnsApart` and `TurnsKept` say nothing once a stop left half of a conversation on a page.

## 7. Plan

1. Done: registry, lifecycle, external projects, loaders, mappings, agent, gateway, router, documents,
   limiter, jobs, conversations, explorer, web client, evaluation, ETL; proofs of every
   safety property the passing runs check.
2. Next to compose: the gateway with the agent, so that a request holds its bundle through a run;
   `ExternalProject` over `ProjectRegistry` instead of over the atomic lifecycle.
3. Next to check: two projects in `ProjectLifecycle` that share the schema registry.

## 8. Not modelled

* Prompt registry (file lookup), model client and few-shot
  examples (an external service and text retrieval), source adapters and profiler (file formats):
  what they decide enters the models as a nondeterministic choice.
* Statement checks: their regular expressions; the model has the classes they tell apart.
* Graph projection: the validation of a payload's contents against its schema.
* Dashboards and formatting, audit and feedback: read-only presentation and append-only records.
* Bootstrap and diagnostics: wiring and environment checks.
* Console pages without state of their own (layout, navigation, data tables), and the web client's
  graph, operations and history pages, which show what they ask for.
* Release scripts and infrastructure, except the mode switch used by the loaders.
