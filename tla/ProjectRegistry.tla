-------------------------- MODULE ProjectRegistry --------------------------
(***************************************************************************)
(* backend/app/projects/registry.py: the SQLite project registry, called   *)
(* by the request threads of the API.  Every public method opens its own   *)
(* connection per statement, so a call is the sequence of its database     *)
(* accesses: reads are taken outside the lock and acted on later.          *)
(*                                                                         *)
(* Of the metadata columns, only those that ensure_default restores are    *)
(* kept, with opaque values: what matters of an update is that it writes   *)
(* back the whole row it read.                                             *)
(***************************************************************************)
EXTENDS Naturals, Sequences, FiniteSets

CONSTANTS Projects,          \* project identifiers
          DefaultProject,    \* "cip-dmd", bootstrapped by ensure_default
          Clients,           \* request threads
          Columns,           \* the columns ensure_default restores: source_version, ...
          Versions,          \* values of a metadata column
          DefaultVersion,    \* what ensure_default restores
          MaxHistory         \* bound: no call starts a transition beyond it

ASSUME DefaultAssumption == DefaultProject \in Projects
ASSUME VersionAssumption == DefaultVersion \in Versions
ASSUME HistoryAssumption == MaxHistory \in Nat

VARIABLES status,            \* projects.status, Absent when there is no row
          transitions,       \* project_transitions, in transition_id order
          columns,           \* the metadata columns of each row
          active,            \* registry_settings['active_project_id']
          call               \* what each client has read and not yet written

vars == <<status, transitions, columns, active, call>>

Machine == INSTANCE ProjectStateMachine

Row == [Columns -> Versions]

DefaultRow == [k \in Columns |-> DefaultVersion]

Exists(p) == status[p] \in Machine!Statuses

\* A call is idle, or holds what it read before its last database access.
Idle == [op |-> "idle"]
TransitionCall == [op : {"transition"}, at : {"active_check", "commit"},
                   project : Projects, current : Machine!Statuses,
                   target : Machine!Statuses]
UpdateCall     == [op : {"update"}, project : Projects, changed : SUBSET Columns, row : Row]
ActivateCall   == [op : {"activate"}, project : Projects]
Calls == {Idle} \cup TransitionCall \cup UpdateCall \cup ActivateCall

\* The registry as the first start leaves it: ensure_default has created and
\* activated the default project.
Init ==
  /\ status = [p \in Projects |-> IF p = DefaultProject THEN "ready" ELSE Machine!Absent]
  /\ transitions = [p \in Projects |->
       IF p = DefaultProject THEN <<[from |-> Machine!NoStatus, to |-> "ready"]>> ELSE <<>>]
  /\ columns = [p \in Projects |-> DefaultRow]
  /\ active = DefaultProject
  /\ call = [c \in Clients |-> Idle]

----------------------------------------------------------------------------
\* Mutant of IsFree: INSERT OR REPLACE.
AnyKey(p) == TRUE

IsFree(p) == ~Exists(p)

(* create: one INSERT of the row and of its first log row; a duplicate key *)
(* is refused.  bootstrap=True (a project first seen through a graph       *)
(* projection) may start as ready.                                         *)
Create(c, p, s) ==
  /\ call[c] = Idle
  /\ IsFree(p)
  /\ status' = [status EXCEPT ![p] = s]
  /\ transitions' = [transitions EXCEPT ![p] = <<[from |-> Machine!NoStatus, to |-> s]>>]
  /\ columns' = [columns EXCEPT ![p] = DefaultRow]
  /\ UNCHANGED <<active, call>>

(* transition: read the row, refuse a forbidden edge, ...                  *)
BeginTransition(c, p, t) ==
  /\ call[c] = Idle
  /\ Exists(p)
  /\ t \in Machine!AllowedTransitions[status[p]]
  /\ Len(transitions[p]) < MaxHistory
  /\ call' = [call EXCEPT ![c] =
       [op |-> "transition", at |-> IF t = "archived" THEN "active_check" ELSE "commit",
        project |-> p, current |-> status[p], target |-> t]]
  /\ UNCHANGED <<status, transitions, columns, active>>

(* ... refuse to archive the active project (a second read), ...           *)
CheckActive(c) ==
  /\ call[c].op = "transition" /\ call[c].at = "active_check"
  /\ call' = [call EXCEPT ![c] = IF active = call[c].project THEN Idle
                                 ELSE [call[c] EXCEPT !.at = "commit"]]
  /\ UNCHANGED <<status, transitions, columns, active>>

\* Mutant of StillCurrent: an UPDATE without "AND status = ?".
AnyStatus(c) == TRUE

StillCurrent(c) == status[call[c].project] = call[c].current

(* ... and UPDATE ... WHERE status = current, with the log row in the same *)
(* database transaction.                                                   *)
CommitTransition(c) ==
  /\ call[c].op = "transition" /\ call[c].at = "commit"
  /\ StillCurrent(c)
  /\ status' = [status EXCEPT ![call[c].project] = call[c].target]
  /\ transitions' = [transitions EXCEPT ![call[c].project] =
       Append(@, [from |-> call[c].current, to |-> call[c].target])]
  /\ call' = [call EXCEPT ![c] = Idle]
  /\ UNCHANGED <<columns, active>>

(* rowcount # 1: RuntimeError, nothing written.                            *)
ConflictTransition(c) ==
  /\ call[c].op = "transition" /\ call[c].at = "commit"
  /\ ~StillCurrent(c)
  /\ call' = [call EXCEPT ![c] = Idle]
  /\ UNCHANGED <<status, transitions, columns, active>>

\* Mutant of NewRow: only the given columns are carried over.
GivenColumns(old, changed, v) == [k \in changed |-> v]

NewRow(old, changed, v) == [k \in Columns |-> IF k \in changed THEN v ELSE old[k]]

(* update without a status change: read the row, overlay the changed       *)
(* columns (none for an empty PATCH, or one whose status is the current    *)
(* one), ...                                                               *)
BeginUpdate(c, p, changed, v) ==
  /\ call[c] = Idle
  /\ Exists(p)
  /\ call' = [call EXCEPT ![c] = [op |-> "update", project |-> p, changed |-> changed,
                                  row |-> NewRow(columns[p], changed, v)]]
  /\ UNCHANGED <<status, transitions, columns, active>>

(* ... and write back every column.                                        *)
CommitUpdate(c) ==
  /\ call[c].op = "update"
  /\ columns' = [columns EXCEPT ![call[c].project] = call[c].row]
  /\ call' = [call EXCEPT ![c] = Idle]
  /\ UNCHANGED <<status, transitions, active>>

(* activate: refuse an archived project, then upsert the setting.          *)
BeginActivate(c, p) ==
  /\ call[c] = Idle
  /\ Exists(p) /\ status[p] # "archived"
  /\ call' = [call EXCEPT ![c] = [op |-> "activate", project |-> p]]
  /\ UNCHANGED <<status, transitions, columns, active>>

CommitActivate(c) ==
  /\ call[c].op = "activate"
  /\ active' = call[c].project
  /\ call' = [call EXCEPT ![c] = Idle]
  /\ UNCHANGED <<status, transitions, columns>>

(* The process stops at any point and starts again: what was read is lost, *)
(* and ensure_default restores the default project's versions.             *)
Restart ==
  /\ call' = [c \in Clients |-> Idle]
  /\ columns' = [columns EXCEPT ![DefaultProject] = DefaultRow]
  /\ UNCHANGED <<status, transitions, active>>

ClientStep(c) ==
  \/ \E p \in Projects, s \in Machine!InitialStatuses : Create(c, p, s)
  \/ \E p \in Projects, t \in Machine!Statuses : BeginTransition(c, p, t)
  \/ CheckActive(c)
  \/ CommitTransition(c)
  \/ ConflictTransition(c)
  \/ \E p \in Projects, changed \in SUBSET Columns, v \in Versions : BeginUpdate(c, p, changed, v)
  \/ CommitUpdate(c)
  \/ \E p \in Projects : BeginActivate(c, p)
  \/ CommitActivate(c)

Next == Restart \/ \E c \in Clients : ClientStep(c)

Spec == Init /\ [][Next]_vars

----------------------------------------------------------------------------
TypeOK ==
  /\ status \in [Projects -> Machine!Statuses \cup {Machine!Absent}]
  /\ transitions \in [Projects -> Seq(Machine!Entry)]
  /\ columns \in [Projects -> Row]
  /\ active \in Projects
  /\ call \in [Clients -> Calls]

(* Whatever requests interleave, the log of every project is a path of     *)
(* allowed edges that ends in its current status: the check made on the    *)
(* status read outside the lock still holds of the status replaced.        *)
HistoryIsPath ==
  \A p \in Projects :
    IF Exists(p) THEN /\ Machine!IsPath(transitions[p])
                      /\ Machine!Last(transitions[p]).to = status[p]
                 ELSE transitions[p] = <<>>

(* "archived" has no outgoing edge: a transition begun before the archive  *)
(* may not bring the project back.                                         *)
ArchivedIsFinal ==
  [][\A p \in Projects : status[p] = "archived" => status'[p] = "archived"]_vars

(* The registry implements the atomic lifecycle.                           *)
ImplementsMachine == Machine!Spec

(* registry.py:515 and docs/enterprise-stage1-7-validation.md: a project   *)
(* is archived only after the workspace moved to another one.              *)
ActiveNotArchived == status[active] # "archived"

(* An update changes only the columns it was given: whatever it writes     *)
(* back elsewhere is still what is stored.  (Not so once two requests      *)
(* update one row; see SequentialUse in ProjectRegistryProof.)             *)
NoStaleWrite ==
  \A c \in Clients : call[c].op = "update" =>
    \A k \in Columns \ call[c].changed : call[c].row[k] = columns[call[c].project][k]
============================================================================
