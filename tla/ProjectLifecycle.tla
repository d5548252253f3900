-------------------------- MODULE ProjectLifecycle --------------------------
(***************************************************************************)
(* One file project taken from its first upload to answering questions:    *)
(* the profile, approve, load, promote and PATCH handlers of               *)
(* backend/app/api/main.py over the project registry, the mapping and      *)
(* schema files, the graph and the readiness gate.                         *)
(*                                                                         *)
(* A handler is the sequence of its reads and writes.  A registry          *)
(* transition is one step (module ProjectRegistry implements the atomic    *)
(* lifecycle), which may also lose to a concurrent one; a registry update  *)
(* is two, the read of the row and the write of all of it.                 *)
(***************************************************************************)
EXTENDS Naturals, FiniteSets

CONSTANTS Clients,           \* request threads of the API
          MaxUploads,        \* bound: uploads are numbered 1, 2, ...
          Schemas,           \* schema version labels
          MayLabel,          \* whether a mapping may carry a source_version of its own
          MayCrash           \* whether the API process may stop and restart

ASSUME UploadsAssumption == MaxUploads \in Nat
ASSUME LabelAssumption   == MayLabel \in BOOLEAN
ASSUME CrashAssumption   == MayCrash \in BOOLEAN

VARIABLES status,            \* projects.status
          row,               \* the source_version and schema_version columns
          linked,            \* version of the source artifact
          integrity,         \* version of the verified integrity artifact
          uploads,           \* number of uploads stored
          mapping,           \* mapping.json, the approved mapping and the source_version it gives
          manifest,          \* schema.yml
          evaluated,         \* lineage of the gold, prompt and metrics files
          graph,             \* upload of the last committed load
          lock,              \* whether the lock file of the graph loader exists
          approvals,         \* history: every upload whose mapping was approved
          req                \* the request each client is executing

vars == <<status, row, linked, integrity, uploads, mapping, manifest, evaluated, graph, lock,
          approvals, req>>

Machine == INSTANCE ProjectStateMachine WITH Projects <- {}, transitions <- <<>>

None    == 0                 \* no upload
Uploads == 1..MaxUploads
Source  == Uploads \cup {None}
NoSchema == "null"
Schema  == Schemas \cup {NoSchema}
Lineage == [source : Source, schema : Schema]
Nothing == [source |-> None, schema |-> NoSchema]

\* An approved mapping: the upload it was approved for, its schema version, and
\* the source_version it gives the schema.
Mapping  == [source : Source, schema : Schema, label : Source]
Unmapped == [source |-> None, schema |-> NoSchema, label |-> None]

\* A request: where its handler is, the upload, schema version and source_version
\* it names, and the row it has read.
Steps == {"idle", "store", "link", "profile_error", "save_mapping", "save_schema",
          "read", "write", "open_graph", "load", "validate", "record", "complete",
          "load_error", "ready"}
Ops     == {"none", "profile", "approve", "load", "promote", "patch"}
Request == [op : Ops, at : Steps, upload : Source, schema : Schema,
            label : Source, row : Lineage]
Idle    == [op |-> "none", at |-> "idle", upload |-> None, schema |-> NoSchema,
            label |-> None, row |-> Nothing]

Init ==
  /\ status = "draft"
  /\ row = Nothing /\ linked = None /\ integrity = None
  /\ uploads = 0
  /\ mapping = Unmapped /\ manifest = Nothing /\ evaluated = Nothing
  /\ graph = None
  /\ lock = FALSE
  /\ approvals = {}
  /\ req = [c \in Clients |-> Idle]

----------------------------------------------------------------------------
At(c, op, step) == req[c].op = op /\ req[c].at = step

\* The handler of c goes on with r.
Then(c, r) == req' = [req EXCEPT ![c] = r]
Goto(c, step) == Then(c, [req[c] EXCEPT !.at = step])
Finish(c) == Then(c, Idle)

Contended(c) == \E d \in Clients \ {c} : req[d] # Idle

(* registry.transition: no change if the status is already the target,     *)
(* ValueError if the edge is not allowed, RuntimeError if another request  *)
(* changed the status between its read and its UPDATE.                     *)
Transition(c, target, done, refused, conflicted) ==
  \/ /\ target \in Machine!AllowedTransitions[status] \cup {status}
     /\ status' = target
     /\ Then(c, done)
  \/ /\ target \notin Machine!AllowedTransitions[status] \cup {status}
     /\ UNCHANGED status
     /\ Then(c, refused)
  \/ /\ Contended(c) /\ target \in Machine!AllowedTransitions[status]
     /\ UNCHANGED status
     /\ Then(c, conflicted)

(* A handler about to call registry.update reads the row, ...              *)
ReadRow(c) ==
  /\ req[c].at = "read"
  /\ Then(c, [req[c] EXCEPT !.at = "write", !.row = row])
  /\ UNCHANGED <<status, row, linked, integrity, uploads, mapping, manifest, evaluated, graph, lock,
                 approvals>>

\* The row it writes: profiling sets source_version, approval and PATCH set
\* schema_version, promotion only the evaluation columns.
NewRow(r) ==
  CASE r.op = "profile"            -> [r.row EXCEPT !.source = r.upload]
    [] r.op \in {"approve", "patch"} -> [r.row EXCEPT !.schema = r.schema]
    [] OTHER                       -> r.row

AfterWrite(r) ==
  CASE r.op = "profile" -> [r EXCEPT !.at = "link"]
    [] r.op = "promote" -> [r EXCEPT !.at = "ready"]
    [] OTHER            -> Idle

(* ... and writes back every column.                                       *)
WriteRow(c) ==
  /\ req[c].at = "write"
  /\ row' = NewRow(req[c])
  /\ Then(c, AfterWrite(req[c]))
  /\ UNCHANGED <<status, linked, integrity, uploads, mapping, manifest, evaluated, graph, lock,
                 approvals>>

----------------------------------------------------------------------------
(* POST uploads/profile                                                    *)
ProfileBegin(c) ==
  /\ req[c] = Idle
  /\ uploads < MaxUploads
  /\ LET r == [Idle EXCEPT !.op = "profile", !.at = "store"]
     IN IF status \in {"loading", "validating", "archived"}
        THEN UNCHANGED <<status>> /\ Then(c, [r EXCEPT !.at = "profile_error"])
        ELSE Transition(c, "profiling", r, [r EXCEPT !.at = "profile_error"], Idle)
  /\ UNCHANGED <<row, linked, integrity, uploads, mapping, manifest, evaluated, graph, lock,
                 approvals>>

\* datasets.profile_upload stores the files under a fresh upload id, or rejects
\* them and removes its directory; an error that is no ValueError is answered
\* 500 and leaves the project profiling.
ProfileStore(c) ==
  /\ At(c, "profile", "store")
  /\ \/ /\ uploads < MaxUploads
        /\ uploads' = uploads + 1
        /\ Then(c, [req[c] EXCEPT !.at = "read", !.upload = uploads + 1])
     \/ UNCHANGED uploads /\ Goto(c, "profile_error")
     \/ UNCHANGED uploads /\ Finish(c)
  /\ UNCHANGED <<status, row, linked, integrity, mapping, manifest, evaluated, graph, lock,
                 approvals>>

\* The source artifact, then the transition out of profiling.
ProfileLink(c) ==
  /\ At(c, "profile", "link")
  /\ linked' = req[c].upload
  /\ Transition(c, "mapping_review", Idle, [req[c] EXCEPT !.at = "profile_error"], Idle)
  /\ UNCHANGED <<row, integrity, uploads, mapping, manifest, evaluated, graph, lock,
                 approvals>>

ProfileError(c) ==
  /\ At(c, "profile", "profile_error")
  /\ IF status = "profiling" THEN Transition(c, "failed", Idle, Idle, Idle)
                             ELSE UNCHANGED status /\ Finish(c)
  /\ UNCHANGED <<row, linked, integrity, uploads, mapping, manifest, evaluated, graph, lock,
                 approvals>>

----------------------------------------------------------------------------
(* POST mappings/approve: the status is checked once, at the start.  Any   *)
(* stored upload may be named, not only the last one, and the mapping may  *)
(* carry the source_version of another one (a label that names no upload   *)
(* never passes the readiness gate).                                       *)
ApproveBegin(c, u, v, w) ==
  /\ req[c] = Idle
  /\ status = "mapping_review"
  /\ u \in 1..uploads /\ w \in 1..uploads
  /\ MayLabel \/ w = u
  /\ Then(c, [Idle EXCEPT !.op = "approve", !.at = "save_mapping", !.upload = u, !.schema = v,
                          !.label = w])
  /\ UNCHANGED <<status, row, linked, integrity, uploads, mapping, manifest, evaluated, graph, lock,
                 approvals>>

\* mapping.json and the manifest in it ...
SaveMapping(c) ==
  /\ At(c, "approve", "save_mapping")
  /\ mapping' = [source |-> req[c].upload, schema |-> req[c].schema, label |-> req[c].label]
  /\ approvals' = approvals \cup {req[c].upload}
  /\ Goto(c, "save_schema")
  /\ UNCHANGED <<status, row, linked, integrity, uploads, manifest, evaluated, graph, lock>>

\* ... which then becomes schema.yml: its source_version is the mapping's own if
\* it has one, and the upload otherwise.
SaveSchema(c) ==
  /\ At(c, "approve", "save_schema")
  /\ manifest' = [source |-> req[c].label, schema |-> req[c].schema]
  /\ Goto(c, "read")
  /\ UNCHANGED <<status, row, linked, integrity, uploads, mapping, evaluated, graph, lock,
                 approvals>>

----------------------------------------------------------------------------
(* POST graph/load: every ValueError, the rejection of a project that is   *)
(* not in mapping_review included, goes through the same error handler.    *)
LoadBegin(c, u) ==
  /\ req[c] = Idle
  /\ LET r == [Idle EXCEPT !.op = "load", !.at = "open_graph", !.upload = u]
         e == [r EXCEPT !.at = "load_error"]
     IN IF status = "mapping_review" THEN Transition(c, "loading", r, e, e)
                                     ELSE UNCHANGED status /\ Then(c, e)
  /\ UNCHANGED <<row, linked, integrity, uploads, mapping, manifest, evaluated, graph, lock,
                 approvals>>

\* Mutant of IsApproved: the upload the mapping was approved for is not compared.
AnyUpload(c) == TRUE

IsApproved(c) == mapping.source = req[c].upload

\* graph_loader.load takes the lock file and the approved mapping, verifies the
\* upload against it, and switches Neo4j: what fails on the way (a lock left by
\* another load, another upload, no connection) gives the lock back and ends in
\* the error handler, except that a missing mapping is a KeyError, answered 404.
OpenGraph(c) ==
  /\ At(c, "load", "open_graph")
  /\ \/ ~lock /\ mapping # Unmapped /\ IsApproved(c) /\ lock' = TRUE /\ Goto(c, "load")
     \/ ~lock /\ mapping = Unmapped /\ UNCHANGED lock /\ Finish(c)
     \/ UNCHANGED lock /\ Goto(c, "load_error")
  /\ UNCHANGED <<status, row, linked, integrity, uploads, mapping, manifest, evaluated, graph,
                 approvals>>

\* The write transaction commits or is rolled back; after a commit the reader
\* mode may still fail to come back.
LoadGraph(c) ==
  /\ At(c, "load", "load")
  /\ \/ graph' = req[c].upload /\ Goto(c, "validate")
     \/ graph' = req[c].upload /\ Goto(c, "load_error")
     \/ UNCHANGED graph        /\ Goto(c, "load_error")
  /\ lock' = FALSE
  /\ UNCHANGED <<status, row, linked, integrity, uploads, mapping, manifest, evaluated,
                 approvals>>

LoadValidate(c) ==
  /\ At(c, "load", "validate")
  /\ LET e == [req[c] EXCEPT !.at = "load_error"]
     IN Transition(c, "validating", [req[c] EXCEPT !.at = "record"], e, e)
  /\ UNCHANGED <<row, linked, integrity, uploads, mapping, manifest, evaluated, graph, lock,
                 approvals>>

\* Mutant of Recorded: the artifacts are left to a later step.
Unrecorded(c) == integrity

Recorded(c) == req[c].upload

\* The load, integrity and read_only artifacts.
LoadRecord(c) ==
  /\ At(c, "load", "record")
  /\ integrity' = Recorded(c)
  /\ Goto(c, "complete")
  /\ UNCHANGED <<status, row, linked, uploads, mapping, manifest, evaluated, graph, lock,
                 approvals>>

LoadComplete(c) ==
  /\ At(c, "load", "complete")
  /\ LET e == [req[c] EXCEPT !.at = "load_error"]
     IN Transition(c, "evaluation_required", Idle, e, e)
  /\ UNCHANGED <<row, linked, integrity, uploads, mapping, manifest, evaluated, graph, lock,
                 approvals>>

LoadError(c) ==
  /\ At(c, "load", "load_error")
  /\ IF status \in {"failed", "archived"} THEN UNCHANGED status /\ Finish(c)
                                          ELSE Transition(c, "failed", Idle, Idle, Idle)
  /\ UNCHANGED <<row, linked, integrity, uploads, mapping, manifest, evaluated, graph, lock,
                 approvals>>

----------------------------------------------------------------------------
(* The evaluation scripts run beside the API: gold, prompt and metrics are *)
(* produced for the schema.yml they find, whatever the lifecycle.          *)
Evaluate ==
  /\ manifest # Nothing
  /\ evaluated' = manifest
  /\ UNCHANGED <<status, row, linked, integrity, uploads, mapping, manifest, graph, lock,
                 approvals, req>>

SourceVersion == IF row.source # None THEN row.source ELSE linked

\* Mutant of CurrentLineage: a gate that takes any completed evaluation.
AnyLineage == manifest # Nothing /\ evaluated # Nothing

\* The schema, gold_contract, prompt and evaluation checks.
CurrentLineage ==
  /\ manifest = [source |-> SourceVersion, schema |-> row.schema]
  /\ evaluated = manifest

\* eligible_for_ready: source, data_access, integrity with read_only,
\* graph_runtime, and the lineage checks.
Eligible ==
  /\ SourceVersion # None /\ uploads > 0
  /\ CurrentLineage
  /\ mapping.schema = row.schema /\ mapping.source \in 1..uploads
  /\ integrity # None
  /\ graph # None

\* The query handler and the dashboard answer only when this holds.
CanQuery == status = "ready" /\ Eligible

PromoteBegin(c) ==
  /\ req[c] = Idle
  /\ Eligible
  /\ status = "evaluation_required"
  /\ Then(c, [Idle EXCEPT !.op = "promote", !.at = "read"])
  /\ UNCHANGED <<status, row, linked, integrity, uploads, mapping, manifest, evaluated, graph, lock,
                 approvals>>

PromoteEnd(c) ==
  /\ At(c, "promote", "ready")
  /\ Transition(c, "ready", Idle, Idle, Idle)
  /\ UNCHANGED <<row, linked, integrity, uploads, mapping, manifest, evaluated, graph, lock,
                 approvals>>

(* PATCH: another schema_version, or archived (the project is not the      *)
(* active one).                                                            *)
PatchSchema(c, v) ==
  /\ req[c] = Idle
  /\ Then(c, [Idle EXCEPT !.op = "patch", !.at = "read", !.schema = v])
  /\ UNCHANGED <<status, row, linked, integrity, uploads, mapping, manifest, evaluated, graph, lock,
                 approvals>>

Archive(c) ==
  /\ req[c] = Idle
  /\ status # "archived"
  /\ Transition(c, "archived", Idle, Idle, Idle)
  /\ UNCHANGED <<row, linked, integrity, uploads, mapping, manifest, evaluated, graph, lock,
                 approvals>>

(* The API process stops: requests end where they are.                     *)
Crash ==
  /\ MayCrash
  /\ req' = [c \in Clients |-> Idle]
  /\ UNCHANGED <<status, row, linked, integrity, uploads, mapping, manifest, evaluated, graph, lock,
                 approvals>>

ClientStep(c) ==
  \/ ReadRow(c) \/ WriteRow(c)
  \/ ProfileBegin(c) \/ ProfileStore(c) \/ ProfileLink(c) \/ ProfileError(c)
  \/ \E u, w \in Uploads, v \in Schemas : ApproveBegin(c, u, v, w)
  \/ SaveMapping(c) \/ SaveSchema(c)
  \/ \E u \in Uploads : LoadBegin(c, u)
  \/ OpenGraph(c) \/ LoadGraph(c) \/ LoadValidate(c) \/ LoadRecord(c)
  \/ LoadComplete(c) \/ LoadError(c)
  \/ PromoteBegin(c) \/ PromoteEnd(c)
  \/ \E v \in Schemas : PatchSchema(c, v)
  \/ Archive(c)

Next == Crash \/ Evaluate \/ \E c \in Clients : ClientStep(c)

Spec == Init /\ [][Next]_vars

----------------------------------------------------------------------------
TypeOK ==
  /\ status \in Machine!Statuses
  /\ row \in Lineage /\ linked \in Source /\ integrity \in Source
  /\ uploads \in 0..MaxUploads
  /\ mapping \in Mapping /\ manifest \in Lineage /\ evaluated \in Lineage
  /\ graph \in Source
  /\ lock \in BOOLEAN /\ approvals \in SUBSET Uploads
  /\ req \in [Clients -> Request]

(* docs/enterprise-stage1-7-validation.md:6-8 and 50: a project answers    *)
(* from the data its evaluation was made for, by the source_version fixed  *)
(* at upload.  readiness.py compares the versions of the row, the manifest *)
(* and the metrics, and of the graph only that it has been verified: this  *)
(* rests on the order of requests and on mappings without a source_version *)
(* of their own.                                                           *)
ServedGraphIsSource == CanQuery => graph = SourceVersion /\ mapping.source = graph

(* A project waits for its evaluation, or is ready, only over a graph that *)
(* was loaded and whose integrity was recorded, whatever requests fail or  *)
(* overlap and wherever the process stops.                                 *)
EvaluatedAfterIntegrity ==
  status \in {"evaluation_required", "ready"} => integrity # None /\ graph # None

(* docs/platform-stage7-project-graph-isolation.md:3: only approved         *)
(* mappings reach the graph, although mapping.json may be replaced between *)
(* the loader's read of it and its commit.                                 *)
GraphWasApproved == graph # None => graph \in approvals
============================================================================
