------------------------ MODULE ProjectStateMachine ------------------------
(***************************************************************************)
(* The lifecycle a project registry promises: every project is created     *)
(* once, every later status change is one edge of ALLOWED_TRANSITIONS, and *)
(* the log of a project is exactly the sequence of its status changes.     *)
(* A change is one atomic step here; backend/app/projects/registry.py      *)
(* makes it with a read, a check and a conditional UPDATE (module          *)
(* ProjectRegistry, which implements this specification).                  *)
(***************************************************************************)
EXTENDS Naturals, Sequences

CONSTANT Projects            \* project identifiers

VARIABLES status,            \* [Projects -> Statuses \cup {Absent}]
          transitions        \* the project_transitions rows of each project

Statuses == {"draft", "profiling", "mapping_review", "loading", "validating",
             "evaluation_required", "ready", "failed", "archived"}

Absent   == "absent"         \* no row in the projects table
NoStatus == "null"           \* from_status of a project's first log row

AllowedTransitions ==
  [ draft               |-> {"profiling", "archived"},
    profiling           |-> {"mapping_review", "failed", "archived"},
    mapping_review      |-> {"loading", "profiling", "failed", "archived"},
    loading             |-> {"validating", "failed", "archived"},
    validating          |-> {"evaluation_required", "failed", "archived"},
    evaluation_required |-> {"ready", "profiling", "failed", "archived"},
    ready               |-> {"profiling", "evaluation_required", "archived"},
    failed              |-> {"draft", "profiling", "mapping_review", "loading",
                             "validating", "evaluation_required", "archived"},
    archived            |-> {} ]

\* A non-bootstrap project starts as a draft; ensure_default and a first graph
\* projection bootstrap one as ready.
InitialStatuses == {"draft", "ready"}

Entry == [from : Statuses \cup {NoStatus}, to : Statuses]

Last(h) == h[Len(h)]

\* A log that starts with a creation and whose rows chain along allowed edges.
IsPath(h) ==
  /\ h # <<>>
  /\ h[1].from = NoStatus
  /\ h[1].to \in InitialStatuses
  /\ \A i \in 1..Len(h) - 1 : /\ h[i + 1].from = h[i].to
                              /\ h[i + 1].to \in AllowedTransitions[h[i].to]

----------------------------------------------------------------------------
Created(p, s) == status[p] = s /\ transitions[p] = <<[from |-> NoStatus, to |-> s]>>

Init == \A p \in Projects :
          \/ status[p] = Absent /\ transitions[p] = <<>>
          \/ \E s \in InitialStatuses : Created(p, s)

Create(p, s) ==
  /\ status[p] = Absent
  /\ status' = [status EXCEPT ![p] = s]
  /\ transitions' = [transitions EXCEPT ![p] = <<[from |-> NoStatus, to |-> s]>>]

Move(p, t) ==
  /\ status[p] \in Statuses
  /\ t \in AllowedTransitions[status[p]]
  /\ status' = [status EXCEPT ![p] = t]
  /\ transitions' = [transitions EXCEPT ![p] = Append(@, [from |-> status[p], to |-> t])]

Next == \E p \in Projects : \/ \E s \in InitialStatuses : Create(p, s)
                            \/ \E t \in Statuses : Move(p, t)

Spec == Init /\ [][Next]_<<status, transitions>>
============================================================================
