--------------------------- MODULE ExternalProject ---------------------------
(***************************************************************************)
(* A project whose graph comes from outside: the two connector calls of    *)
(* backend/app/projects/connectors.py, which attach an existing database,  *)
(* and the typed projection of backend/app/graph_projection/service.py,    *)
(* which the API promotes to ready, both behind the gate of readiness.py.  *)
(*                                                                         *)
(* Schema and source version of a lineage go together and are one label:   *)
(* the database an introspected schema was taken from, or Canonical for    *)
(* every projection.  Nodes of a projection have one object type;          *)
(* relationships follow their nodes.  The transitions are those of         *)
(* ProjectStateMachine; a registry update reads a row and writes all of it.*)
(***************************************************************************)
EXTENDS Naturals, Sequences, FiniteSets

CONSTANTS Senders,           \* request threads
          Databases,         \* external databases, each with a schema of its own
          Payloads,          \* projections that may be sent
          MaxSent            \* bound: calls begun

ASSUME SentAssumption == MaxSent \in Nat

VARIABLES extStatus,         \* projects.status, or no row
          extRow,            \* the columns connector_id, source_version, schema_version
          artifact,          \* project_artifacts: connector status, versions of the others
          profiles,          \* connector files: the databases that were inspected
          schemaFile,        \* schema.yml
          metrics,           \* lineage of the gold, prompt and metrics files
          graphOf,           \* the projected nodes of each dataset version
          receipts,          \* graph_projection_receipts
          call,              \* what each sender executes
          sent,              \* calls begun so far
          crossing,          \* history: two calls were under way at once
          answered           \* history: payloads answered as completed

extVars == <<extStatus, extRow, artifact, profiles, schemaFile, metrics, graphOf, receipts, call,
             sent, crossing, answered>>

Lifecycle == INSTANCE ProjectStateMachine WITH Projects <- {}, status <- <<>>, transitions <- <<>>

Canonical == "canonical"
Unset     == "unset"
PayloadKeys     == {m.key : m \in Payloads}
PayloadVersions == {m.version : m \in Payloads}
Labels    == Databases \cup {Canonical, Unset}
ExtRow    == [connector : Databases \cup {Unset}, source : Labels, schema : Labels]
NoRow     == [connector |-> Unset, source |-> Unset, schema |-> Unset]
NoPayload == [key |-> Unset]
Artifacts == [connector : {Unset, "validated", "verified"},
              projection : PayloadVersions \cup {Unset},
              integrity : PayloadVersions \cup Databases \cup {Unset}]

\* The markers are no databases, and a payload has more than a key.
ASSUME MarkerAssumption == {Canonical, Unset} \cap Databases = {} /\ NoPayload \notin Payloads

ExtOps == {"none", "validate", "approve", "project", "promote"}
ExtAt  == {"idle", "profiling", "inspect", "fail", "read", "write", "connector", "move", "schema",
           "integrity", "graph", "receipt", "project", "create", "projection"}
IdleSender == [op |-> "none", at |-> "idle", db |-> Unset, payload |-> NoPayload, row |-> NoRow,
               path |-> <<>>]

ExtInit ==
  /\ extStatus \in {Lifecycle!Absent, "draft"}
  /\ extRow = NoRow
  /\ artifact = [connector |-> Unset, projection |-> Unset, integrity |-> Unset]
  /\ profiles = {} /\ schemaFile = Unset /\ metrics = Unset
  /\ graphOf = [v \in PayloadVersions |-> {}]
  /\ receipts = [k \in PayloadKeys |-> NoPayload]
  /\ call = [c \in Senders |-> IdleSender]
  /\ sent = 0 /\ crossing = FALSE /\ answered = {}

----------------------------------------------------------------------------
Exec(c, op, at) == call[c].op = op /\ call[c].at = at
CallGoes(c, at) == call' = [call EXCEPT ![c].at = at]
CallEnds(c) == call' = [call EXCEPT ![c] = IdleSender]
OthersBusy(c) == \E d \in Senders \ {c} : call[d] # IdleSender
Starts(c, r) ==
  /\ call[c] = IdleSender
  /\ sent < MaxSent /\ sent' = sent + 1
  /\ call' = [call EXCEPT ![c] = r]
  /\ crossing' = (crossing \/ OthersBusy(c))

(* registry.transition: allowed, without effect, or refused; another call  *)
(* may have changed the status between its read and its UPDATE.            *)
CanMove(target) == target \in Lifecycle!AllowedTransitions[extStatus] \cup {extStatus}
MoveTo(c, target, done, refused) ==
  \/ CanMove(target) /\ extStatus' = target /\ call' = [call EXCEPT ![c] = done]
  \/ /\ ~CanMove(target) \/ OthersBusy(c)
     /\ UNCHANGED extStatus
     /\ call' = [call EXCEPT ![c] = refused]

(* POST connectors/neo4j/validate: not for a ready or archived project.    *)
BeginValidate(c, db) ==
  /\ extStatus \notin {Lifecycle!Absent, "ready", "archived"}
  /\ Starts(c, [IdleSender EXCEPT !.op = "validate", !.db = db,
       !.at = IF extStatus \in {"draft", "failed"} THEN "profiling" ELSE "inspect"])
  /\ UNCHANGED <<extStatus, extRow, artifact, profiles, schemaFile, metrics, graphOf, receipts,
                 answered>>

EnterProfiling(c) ==
  /\ Exec(c, "validate", "profiling")
  /\ MoveTo(c, "profiling", [call[c] EXCEPT !.at = "inspect"], IdleSender)
  /\ UNCHANGED <<extRow, artifact, profiles, schemaFile, metrics, graphOf, receipts, crossing,
                 answered, sent>>

\* The database is read; the profile is stored, or the project fails.
InspectDatabase(c) ==
  /\ Exec(c, "validate", "inspect")
  /\ \/ profiles' = profiles \cup {call[c].db} /\ CallGoes(c, "read")
     \/ UNCHANGED profiles /\ CallGoes(c, "fail")
  /\ UNCHANGED <<extStatus, extRow, artifact, schemaFile, metrics, graphOf, receipts, crossing,
                 answered, sent>>

FailProject(c) ==
  /\ call[c].at = "fail"
  /\ MoveTo(c, "failed", IdleSender, IdleSender)
  /\ UNCHANGED <<extRow, artifact, profiles, schemaFile, metrics, graphOf, receipts, crossing,
                 answered, sent>>

(* POST connectors/neo4j/{id}/approve: any stored profile of the project.  *)
BeginApprove(c, db) ==
  /\ db \in profiles /\ extStatus = "mapping_review"
  /\ Starts(c, [IdleSender EXCEPT !.op = "approve", !.db = db, !.at = "schema"])
  /\ UNCHANGED <<extStatus, extRow, artifact, profiles, schemaFile, metrics, graphOf, receipts,
                 answered>>

----------------------------------------------------------------------------
\* Mutant of WrittenRow: an inspected database is linked under the source
\* version of the one before.
SourceKept(r) ==
  CASE r.op = "validate" -> [r.row EXCEPT !.connector = r.db]
    [] r.op = "approve"  -> [connector |-> r.db, source |-> r.db, schema |-> r.db]
    [] r.op = "project"  -> [r.row EXCEPT !.source = Canonical, !.schema = Canonical]
    [] OTHER             -> r.row

\* registry.update as validate, approve, a projection and a promotion call it.
\* A projection leaves connector_id as it is.
WrittenRow(r) ==
  CASE r.op = "validate" -> [r.row EXCEPT !.connector = r.db, !.source = r.db]
    [] r.op = "approve"  -> [connector |-> r.db, source |-> r.db, schema |-> r.db]
    [] r.op = "project"  -> [r.row EXCEPT !.source = Canonical, !.schema = Canonical]
    [] OTHER             -> r.row

AfterRow(op) == IF op \in {"validate", "approve"} THEN "connector" ELSE "move"

ReadExtRow(c) ==
  /\ call[c].at = "read"
  /\ call' = [call EXCEPT ![c].at = "write", ![c].row = extRow]
  /\ UNCHANGED <<extStatus, extRow, artifact, profiles, schemaFile, metrics, graphOf, receipts,
                 crossing, answered, sent>>

WriteExtRow(c) ==
  /\ call[c].at = "write"
  /\ extRow' = WrittenRow(call[c])
  /\ call' = [call EXCEPT ![c].at = AfterRow(call[c].op), ![c].row = NoRow]
  /\ UNCHANGED <<extStatus, artifact, profiles, schemaFile, metrics, graphOf, receipts, crossing,
                 answered, sent>>

\* The connector artifact; an approval goes on through loading and validating.
RecordConnector(c) ==
  /\ call[c].at = "connector"
  /\ LET checked == call[c].op = "approve"
     IN  /\ artifact' = [artifact EXCEPT !.connector = IF checked THEN "verified" ELSE "validated"]
         /\ call' = [call EXCEPT ![c].at = "move", ![c].path =
              IF checked THEN <<"loading", "validating">> ELSE <<"mapping_review">>]
  /\ UNCHANGED <<extStatus, extRow, profiles, schemaFile, metrics, graphOf, receipts, crossing,
                 answered, sent>>

\* Where a handler goes when its transitions are made, the last one to the status
\* reached: an approval that has come to validating records its checks, although
\* another call may have led the project there.
AfterMoves(r, reached) ==
  CASE r.op = "project"                              -> [r EXCEPT !.at = "schema"]
    [] r.op = "approve" /\ reached = "validating"    -> [r EXCEPT !.at = "integrity"]
    [] OTHER                                         -> IdleSender

(* The transitions of a handler, one after the other.                      *)
TakeStep(c) ==
  /\ call[c].at = "move"
  /\ IF call[c].path = <<>>
     THEN call' = [call EXCEPT ![c] = AfterMoves(@, extStatus)] /\ UNCHANGED extStatus
     ELSE LET target == Head(call[c].path)
              rest   == [call[c] EXCEPT !.path = Tail(@)]
          IN  MoveTo(c, target, IF rest.path = <<>> THEN AfterMoves(rest, target) ELSE rest,
                     IdleSender)
  /\ UNCHANGED <<extRow, artifact, profiles, schemaFile, metrics, graphOf, receipts, crossing,
                 answered, sent>>

SaveSchemaFile(c) ==
  /\ call[c].at = "schema"
  /\ schemaFile' = IF call[c].op = "approve" THEN call[c].db ELSE Canonical
  /\ CallGoes(c, IF call[c].op = "approve" THEN "read" ELSE "projection")
  /\ UNCHANGED <<extStatus, extRow, artifact, profiles, metrics, graphOf, receipts, crossing,
                 answered, sent>>

\* integrity and read_only artifacts.  A database without nodes fails the
\* project: it was emptied between the two reads of the inspection.
RecordIntegrity(c) ==
  /\ call[c].at = "integrity"
  /\ IF call[c].op = "project"
     THEN /\ artifact' = [artifact EXCEPT !.integrity = call[c].payload.version]
          /\ answered' = answered \cup {call[c].payload}
          /\ CallEnds(c)
     ELSE /\ \/ /\ artifact' = [artifact EXCEPT !.integrity = call[c].db]
                /\ call' = [call EXCEPT ![c].at = "move", ![c].path = <<"evaluation_required">>]
             \/ /\ artifact' = [artifact EXCEPT !.integrity = Unset]
                /\ CallGoes(c, "fail")
          /\ UNCHANGED answered
  /\ UNCHANGED <<extStatus, extRow, profiles, schemaFile, metrics, graphOf, receipts, crossing,
                 sent>>

----------------------------------------------------------------------------
\* Mutant of UsedForOther: the key alone is compared.
AnyContent(m) == FALSE

UsedForOther(m) == receipts[m.key] \notin {m, NoPayload}

(* POST graph/projections, after the checks of scope and meaning.          *)
BeginProject(c, m) ==
  /\ Starts(c, [IdleSender EXCEPT !.op = "project", !.payload = m,
                  !.at = IF receipts[m.key] = NoPayload THEN "graph" ELSE "project"])
  /\ ~UsedForOther(m)
  /\ UNCHANGED <<extStatus, extRow, artifact, profiles, schemaFile, metrics, graphOf, receipts,
                 answered>>

\* The reconciliation inside the transaction counts all nodes of the version.
Reconciled(m) == graphOf[m.version] \subseteq m.nodes

\* One transaction; a broken connection leaves open whether it was committed.
Outcomes(m) ==
  {[written |-> Reconciled(m), ok |-> Reconciled(m)],
   [written |-> Reconciled(m), ok |-> FALSE], [written |-> FALSE, ok |-> FALSE]}

WriteGraph(c) ==
  /\ Exec(c, "project", "graph")
  /\ \E o \in Outcomes(call[c].payload) :
       /\ graphOf' = IF o.written
                     THEN [graphOf EXCEPT ![call[c].payload.version] = @ \cup call[c].payload.nodes]
                     ELSE graphOf
       /\ IF o.ok THEN CallGoes(c, "receipt") ELSE CallEnds(c)
  /\ UNCHANGED <<extStatus, extRow, artifact, profiles, schemaFile, metrics, receipts, crossing,
                 answered, sent>>

\* The receipt replaces one that another call has stored meanwhile.
SaveReceipt(c) ==
  /\ Exec(c, "project", "receipt")
  /\ receipts' = [receipts EXCEPT ![call[c].payload.key] = call[c].payload]
  /\ CallGoes(c, "project")
  /\ UNCHANGED <<extStatus, extRow, artifact, profiles, schemaFile, metrics, graphOf, crossing,
                 answered, sent>>

Onward == <<"profiling", "mapping_review", "loading", "validating", "evaluation_required", "ready">>
TransitionPath(s) ==
  CASE s = "draft"  -> Onward
    [] s = "failed" -> SubSeq(Onward, 3, 6)
    [] OTHER        -> SubSeq(Onward, 1 + (CHOOSE i \in 1..6 : Onward[i] = s), 6)

(* promote_projection_project, for a replay too: archived projects are     *)
(* refused here, after graph and receipt; others are led to ready.         *)
ReadProject(c) ==
  /\ Exec(c, "project", "project")
  /\ CASE extStatus = Lifecycle!Absent -> CallGoes(c, "create")
       [] extStatus = "archived"       -> CallEnds(c)
       [] OTHER -> call' = [call EXCEPT ![c].at = "read", ![c].path = TransitionPath(extStatus)]
  /\ UNCHANGED <<extStatus, extRow, artifact, profiles, schemaFile, metrics, graphOf, receipts,
                 crossing, answered, sent>>

CreateProject(c) ==
  /\ Exec(c, "project", "create")
  /\ IF extStatus = Lifecycle!Absent
     THEN /\ extStatus' = "ready"
          /\ extRow' = [NoRow EXCEPT !.source = Canonical, !.schema = Canonical]
          /\ CallGoes(c, "schema")
     ELSE CallEnds(c) /\ UNCHANGED <<extStatus, extRow>>
  /\ UNCHANGED <<artifact, profiles, schemaFile, metrics, graphOf, receipts, crossing, answered,
                 sent>>

RecordProjection(c) ==
  /\ Exec(c, "project", "projection")
  /\ artifact' = [artifact EXCEPT !.projection = call[c].payload.version]
  /\ CallGoes(c, "integrity")
  /\ UNCHANGED <<extStatus, extRow, profiles, schemaFile, metrics, graphOf, receipts, crossing,
                 answered, sent>>

----------------------------------------------------------------------------
\* The evaluation scripts, on what schema.yml describes.
EvaluateExternal ==
  /\ schemaFile # Unset
  /\ metrics' = schemaFile
  /\ UNCHANGED <<extStatus, extRow, artifact, profiles, schemaFile, graphOf, receipts, call,
                 crossing, answered, sent>>

Projected == artifact.projection # Unset

\* The schema, gold_contract, prompt and evaluation checks.
SchemaCurrent == schemaFile # Unset /\ schemaFile = extRow.schema /\ schemaFile = extRow.source
                 /\ metrics = schemaFile

\* The data_access check.
AccessApproved == artifact.connector = "verified" \/ Projected

\* eligible_for_ready for a neo4j project: graph_runtime is the counts of the
\* projection, or a count in the connected database, which has nodes.
EligibleForReady ==
  /\ extRow.source # Unset /\ (artifact.connector # Unset \/ Projected)
  /\ SchemaCurrent /\ AccessApproved
  /\ artifact.integrity # Unset

AnswersQueries == extStatus = "ready" /\ EligibleForReady

BeginPromote(c) ==
  /\ EligibleForReady /\ extStatus = "evaluation_required"
  /\ Starts(c, [IdleSender EXCEPT !.op = "promote", !.at = "read", !.path = <<"ready">>])
  /\ UNCHANGED <<extStatus, extRow, artifact, profiles, schemaFile, metrics, graphOf, receipts,
                 answered>>

\* PATCH status, an archive included (the project is not the active one).
PatchStatus(c, target) ==
  /\ call[c] = IdleSender
  /\ extStatus # Lifecycle!Absent /\ target \in Lifecycle!AllowedTransitions[extStatus]
  /\ extStatus' = target
  /\ crossing' = (crossing \/ OthersBusy(c))
  /\ UNCHANGED <<extRow, artifact, profiles, schemaFile, metrics, graphOf, receipts, call, answered,
                 sent>>

(* The API process stops: every call ends where it is.                     *)
StopApi ==
  /\ call' = [c \in Senders |-> IdleSender]
  /\ UNCHANGED <<extStatus, extRow, artifact, profiles, schemaFile, metrics, graphOf, receipts,
                 crossing, answered, sent>>

CallStep(c) ==
  \/ EnterProfiling(c) \/ InspectDatabase(c) \/ FailProject(c)
  \/ ReadExtRow(c) \/ WriteExtRow(c) \/ RecordConnector(c) \/ TakeStep(c)
  \/ SaveSchemaFile(c) \/ RecordIntegrity(c)
  \/ WriteGraph(c) \/ SaveReceipt(c) \/ ReadProject(c) \/ CreateProject(c) \/ RecordProjection(c)

ExtNext ==
  \/ EvaluateExternal \/ StopApi
  \/ \E c \in Senders :
       \/ CallStep(c) \/ BeginPromote(c)
       \/ \E db \in Databases : BeginValidate(c, db) \/ BeginApprove(c, db)
       \/ \E m \in Payloads : BeginProject(c, m)
       \/ \E s \in Lifecycle!Statuses : PatchStatus(c, s)

ExtSpec == ExtInit /\ [][ExtNext]_extVars

----------------------------------------------------------------------------
ExtTypeOK ==
  /\ extStatus \in Lifecycle!Statuses \cup {Lifecycle!Absent}
  /\ extRow \in ExtRow /\ artifact \in Artifacts
  /\ profiles \subseteq Databases
  /\ {schemaFile, metrics} \subseteq Labels
  /\ receipts \in [PayloadKeys -> Payloads \cup {NoPayload}]
  /\ \A c \in Senders : call[c].op \in ExtOps /\ call[c].at \in ExtAt
  /\ answered \subseteq Payloads /\ crossing \in BOOLEAN
  /\ sent \in 0..MaxSent

(* service.py:561-563: a key that was answered as completed stands for one *)
(* content, also when a call stopped between graph and receipt and was     *)
(* repeated with another one, unless two calls crossed.                    *)
OneContentPerKey == ~crossing => \A m, n \in answered : m.key = n.key => m = n

(* service.py:567-582: whatever is answered as completed, or replayed, is  *)
(* in the graph as a whole and alone in its version, whether connections   *)
(* broke around the commit, calls crossed or the process stopped.          *)
ReceiptsInGraph ==
  /\ \A k \in PayloadKeys : receipts[k] # NoPayload =>
       receipts[k].nodes \subseteq graphOf[receipts[k].version]
  /\ \A m \in answered : m.nodes \subseteq graphOf[m.version]

(* service.py:553-582: a completed answer holds, for its content and its   *)
(* graph, whatever is repeated, crossed, lost or stopped.                  *)
CompletedHolds == OneContentPerKey /\ ReceiptsInGraph

(* docs/enterprise-stage1-7-validation.md:88-90 (gates 2 and 3): a project *)
(* whose lineage is an attached database queries that one, under the schema*)
(* an approval took from it, however validations, approvals, projections   *)
(* and promotions write their rows over each other or stop half-way.       *)
AttachedIsApproved ==
  AnswersQueries /\ extRow.source \in Databases => schemaFile = extRow.connector

============================================================================
