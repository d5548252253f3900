----------------------- MODULE ProjectRegistryProof -----------------------
(***************************************************************************)
(* What the project registry guarantees for any number of projects,        *)
(* request threads and transitions.                                        *)
(***************************************************************************)
EXTENDS ProjectRegistry, TLAPS

\* What a pending transition was checked for when it was read.
CheckedEdge ==
  \A c \in Clients : call[c].op = "transition" =>
    call[c].target \in Machine!AllowedTransitions[call[c].current]

IInv == TypeOK /\ HistoryIsPath /\ CheckedEdge

----------------------------------------------------------------------------
\* The op field tells which kind of call a client has pending.
LEMMA CallKinds ==
  ASSUME NEW v \in Calls
  PROVE  /\ v.op = "transition" => v \in TransitionCall
         /\ v.op = "update" => v \in UpdateCall
         /\ v.op = "activate" => v \in ActivateCall
  BY DEF Calls, Idle, TransitionCall, UpdateCall, ActivateCall

\* Every edge of the table leads to a status.
LEMMA EdgesAreStatuses ==
  ASSUME NEW s \in Machine!Statuses
  PROVE  Machine!AllowedTransitions[s] \subseteq Machine!Statuses
  BY DEF Machine!AllowedTransitions, Machine!Statuses

\* Appending an allowed edge that starts at the last status extends a path.
LEMMA AppendToPath ==
  ASSUME NEW h \in Seq(Machine!Entry), Machine!IsPath(h),
         NEW t \in Machine!Statuses,
         t \in Machine!AllowedTransitions[Machine!Last(h).to]
  PROVE  LET g == Append(h, [from |-> Machine!Last(h).to, to |-> t])
         IN  /\ g \in Seq(Machine!Entry)
             /\ Machine!IsPath(g)
             /\ Machine!Last(g).to = t
<1> DEFINE last == h[Len(h)]
           g == Append(h, [from |-> last.to, to |-> t])
<1>1. Len(h) \in Nat \ {0} /\ last \in Machine!Entry
  BY DEF Machine!IsPath
<1>2. g \in Seq(Machine!Entry) /\ Len(g) = Len(h) + 1
  BY <1>1 DEF Machine!Entry
<1>3. \A i \in 1..Len(h) : g[i] = h[i]
  BY <1>1
<1>4. g[Len(g)] = [from |-> last.to, to |-> t]
  BY <1>1, <1>2
<1>5. ASSUME NEW i \in 1..Len(g) - 1
      PROVE  /\ g[i + 1].from = g[i].to
             /\ g[i + 1].to \in Machine!AllowedTransitions[g[i].to]
  <2>1. CASE i = Len(h)
    BY <2>1, <1>1, <1>2, <1>3, <1>4 DEF Machine!Last
  <2>2. CASE i # Len(h)
    BY <2>2, <1>1, <1>2, <1>3 DEF Machine!IsPath
  <2> QED BY <2>1, <2>2
<1>6. Machine!IsPath(g)
  BY <1>1, <1>2, <1>3, <1>5 DEF Machine!IsPath
<1> QED BY <1>2, <1>4, <1>6 DEF Machine!Last

----------------------------------------------------------------------------
\* Type correctness, by one case per database access of a call.
THEOREM TypeCorrect == Spec => []TypeOK
<1>1. Init => TypeOK
  <2> SUFFICES ASSUME Init PROVE TypeOK
    OBVIOUS
  <2>1. status \in [Projects -> Machine!Statuses \cup {Machine!Absent}]
    BY DEF Init, Machine!Statuses
  <2>2. transitions \in [Projects -> Seq(Machine!Entry)]
    <3>1. <<[from |-> Machine!NoStatus, to |-> "ready"]>> \in Seq(Machine!Entry)
      BY DEF Machine!Entry, Machine!Statuses
    <3> QED BY <3>1 DEF Init
  <2>3. columns \in [Projects -> Row]
    BY VersionAssumption DEF Init, Row, DefaultRow
  <2>4. active \in Projects /\ call \in [Clients -> Calls]
    BY DefaultAssumption DEF Init, Calls
  <2> QED BY <2>1, <2>2, <2>3, <2>4 DEF TypeOK
<1>2. TypeOK /\ [Next]_vars => TypeOK'
  <2> SUFFICES ASSUME TypeOK, [Next]_vars PROVE TypeOK'
    OBVIOUS
  <2> USE DEF TypeOK, Exists
  <2>1. ASSUME NEW c \in Clients, NEW p \in Projects, NEW s \in Machine!InitialStatuses,
               Create(c, p, s)
        PROVE  TypeOK'
    <3>1. <<[from |-> Machine!NoStatus, to |-> s]>> \in Seq(Machine!Entry)
      BY DEF Machine!Entry, Machine!InitialStatuses, Machine!Statuses
    <3> QED BY <2>1, <3>1, VersionAssumption
            DEF Create, Row, DefaultRow, Machine!InitialStatuses, Machine!Statuses
  <2>2. ASSUME NEW c \in Clients, NEW p \in Projects, NEW t \in Machine!Statuses,
               BeginTransition(c, p, t)
        PROVE  TypeOK'
    BY <2>2 DEF BeginTransition, Calls, TransitionCall
  <2>3. ASSUME NEW c \in Clients, CheckActive(c)
        PROVE  TypeOK'
    <3>1. call[c] \in TransitionCall
      BY <2>3, CallKinds DEF CheckActive
    <3>2. [call[c] EXCEPT !.at = "commit"] \in Calls
      BY <3>1 DEF Calls, TransitionCall
    <3> QED BY <2>3, <3>2 DEF CheckActive, Calls
  <2>4. ASSUME NEW c \in Clients, CommitTransition(c)
        PROVE  TypeOK'
    <3>1. call[c] \in TransitionCall
      BY <2>4, CallKinds DEF CommitTransition
    <3>2. Append(transitions[call[c].project],
                 [from |-> call[c].current, to |-> call[c].target]) \in Seq(Machine!Entry)
      <4>1. [from |-> call[c].current, to |-> call[c].target] \in Machine!Entry
        BY <3>1 DEF TransitionCall, Machine!Entry
      <4>2. transitions[call[c].project] \in Seq(Machine!Entry)
        BY <3>1 DEF TransitionCall
      <4> QED BY <4>1, <4>2
    <3>3. status' \in [Projects -> Machine!Statuses \cup {Machine!Absent}]
      BY <2>4, <3>1 DEF CommitTransition, TransitionCall
    <3>4. transitions' \in [Projects -> Seq(Machine!Entry)]
      BY <2>4, <3>1, <3>2 DEF CommitTransition, TransitionCall
    <3>5. call' \in [Clients -> Calls]
      BY <2>4 DEF CommitTransition, Calls
    <3>6. UNCHANGED <<columns, active>>
      BY <2>4 DEF CommitTransition
    <3> QED BY <3>3, <3>4, <3>5, <3>6
  <2>5. ASSUME NEW c \in Clients, ConflictTransition(c)
        PROVE  TypeOK'
    BY <2>5 DEF ConflictTransition, Calls
  <2>6. ASSUME NEW c \in Clients, NEW p \in Projects, NEW changed \in SUBSET Columns,
               NEW v \in Versions, BeginUpdate(c, p, changed, v)
        PROVE  TypeOK'
    BY <2>6 DEF BeginUpdate, NewRow, Row, Calls, UpdateCall
  <2>7. ASSUME NEW c \in Clients, CommitUpdate(c)
        PROVE  TypeOK'
    <3>1. call[c] \in UpdateCall
      BY <2>7, CallKinds DEF CommitUpdate
    <3> QED BY <2>7, <3>1 DEF CommitUpdate, UpdateCall, Calls
  <2>8. ASSUME NEW c \in Clients, NEW p \in Projects, BeginActivate(c, p)
        PROVE  TypeOK'
    BY <2>8 DEF BeginActivate, Calls, ActivateCall
  <2>9. ASSUME NEW c \in Clients, CommitActivate(c)
        PROVE  TypeOK'
    <3>1. call[c] \in ActivateCall
      BY <2>9, CallKinds DEF CommitActivate
    <3> QED BY <2>9, <3>1 DEF CommitActivate, ActivateCall, Calls
  <2>10. CASE Restart
    BY <2>10, DefaultAssumption, VersionAssumption DEF Restart, Calls, Row, DefaultRow
  <2>11. CASE UNCHANGED vars
    BY <2>11 DEF vars
  <2> QED BY <2>1, <2>2, <2>3, <2>4, <2>5, <2>6, <2>7, <2>8, <2>9, <2>10, <2>11
          DEF Next, ClientStep
<1> QED BY <1>1, <1>2, PTL DEF Spec

----------------------------------------------------------------------------
\* A step that leaves status and log alone keeps every log a path.
LEMMA HistoryUntouched ==
  ASSUME HistoryIsPath, UNCHANGED <<status, transitions>>
  PROVE  HistoryIsPath'
  BY DEF HistoryIsPath, Exists, Machine!IsPath, Machine!Last

\* So does a step after which one project's log is a path to its status, and
\* the others' are as they were.
LEMMA HistoryOfOne ==
  ASSUME HistoryIsPath, NEW p \in Projects,
         \A q \in Projects \ {p} : status'[q] = status[q] /\ transitions'[q] = transitions[q],
         status'[p] \in Machine!Statuses,
         Machine!IsPath(transitions'[p]),
         Machine!Last(transitions'[p]).to = status'[p]
  PROVE  HistoryIsPath'
<1> SUFFICES ASSUME NEW q \in Projects
             PROVE  (IF Exists(q) THEN /\ Machine!IsPath(transitions[q])
                                       /\ Machine!Last(transitions[q]).to = status[q]
                                  ELSE transitions[q] = <<>>)'
  BY DEF HistoryIsPath
<1>1. CASE q = p
  BY <1>1 DEF Exists, Machine!IsPath, Machine!Last
<1>2. CASE q # p
  BY <1>2 DEF HistoryIsPath, Exists, Machine!IsPath, Machine!Last
<1> QED BY <1>1, <1>2

\* CheckedEdge speaks of pending calls only: it survives a step after which
\* each client is idle, as it was, or has a call checked anew.
LEMMA EdgesKept ==
  ASSUME CheckedEdge,
         \A c \in Clients :
           \/ call'[c] = call[c]
           \/ call'[c].op # "transition"
           \/ call'[c].target \in Machine!AllowedTransitions[call'[c].current]
  PROVE  CheckedEdge'
  BY DEF CheckedEdge

\* The first start logs the creation of the default project and nothing else.
LEMMA InvariantInit == Init => HistoryIsPath /\ CheckedEdge
<1> SUFFICES ASSUME Init PROVE HistoryIsPath /\ CheckedEdge
  OBVIOUS
<1>1. CheckedEdge
  BY DEF Init, CheckedEdge, Idle
<1>2. ASSUME NEW p \in Projects
      PROVE  IF Exists(p) THEN /\ Machine!IsPath(transitions[p])
                               /\ Machine!Last(transitions[p]).to = status[p]
                          ELSE transitions[p] = <<>>
  <2>1. CASE p = DefaultProject
    BY <2>1 DEF Init, Exists, Machine!Statuses, Machine!IsPath, Machine!Last,
                Machine!InitialStatuses, Machine!NoStatus
  <2>2. CASE p # DefaultProject
    BY <2>2 DEF Init, Exists, Machine!Statuses, Machine!Absent
  <2> QED BY <2>1, <2>2
<1> QED BY <1>1, <1>2 DEF HistoryIsPath

\* Every action keeps the logs paths, and what a commit relies on checked.
LEMMA InvariantStep == IInv /\ [Next]_vars => (HistoryIsPath /\ CheckedEdge)'
<1> SUFFICES ASSUME IInv, [Next]_vars PROVE (HistoryIsPath /\ CheckedEdge)'
  OBVIOUS
<1> USE DEF IInv, TypeOK
<1>1. ASSUME NEW c \in Clients, NEW p \in Projects, NEW s \in Machine!InitialStatuses,
             Create(c, p, s)
      PROVE  (HistoryIsPath /\ CheckedEdge)'
  <2>1. Machine!IsPath(transitions'[p]) /\ Machine!Last(transitions'[p]).to = status'[p]
    BY <1>1 DEF Create, Machine!IsPath, Machine!Last
  <2>2. status'[p] \in Machine!Statuses
    BY <1>1 DEF Create, Machine!InitialStatuses, Machine!Statuses
  <2>3. \A q \in Projects \ {p} : status'[q] = status[q] /\ transitions'[q] = transitions[q]
    BY <1>1 DEF Create
  <2>4. CheckedEdge'
    BY <1>1, EdgesKept DEF Create
  <2> QED BY <2>1, <2>2, <2>3, <2>4, HistoryOfOne
<1>2. ASSUME NEW c \in Clients, NEW p \in Projects, NEW t \in Machine!Statuses,
             BeginTransition(c, p, t)
      PROVE  (HistoryIsPath /\ CheckedEdge)'
  BY <1>2, HistoryUntouched, EdgesKept DEF BeginTransition
<1>3. ASSUME NEW c \in Clients, CheckActive(c)
      PROVE  (HistoryIsPath /\ CheckedEdge)'
  <2>1. call[c] \in TransitionCall
    BY <1>3, CallKinds DEF CheckActive
  <2>2. \/ call'[c].op # "transition"
        \/ call'[c].target \in Machine!AllowedTransitions[call'[c].current]
    BY <1>3, <2>1 DEF CheckActive, CheckedEdge, Idle, TransitionCall
  <2>3. \A d \in Clients \ {c} : call'[d] = call[d]
    BY <1>3 DEF CheckActive
  <2> QED BY <1>3, <2>2, <2>3, HistoryUntouched, EdgesKept DEF CheckActive
<1>4. ASSUME NEW c \in Clients, CommitTransition(c)
      PROVE  (HistoryIsPath /\ CheckedEdge)'
  <2> DEFINE p == call[c].project
  <2>1. call[c] \in TransitionCall
    BY <1>4, CallKinds DEF CommitTransition
  <2>2. status[p] = call[c].current /\ p \in Projects
    BY <1>4, <2>1 DEF CommitTransition, StillCurrent, TransitionCall
  <2>3. Machine!IsPath(transitions[p]) /\ Machine!Last(transitions[p]).to = call[c].current
    BY <2>1, <2>2 DEF HistoryIsPath, Exists, TransitionCall
  <2>4. call[c].target \in Machine!AllowedTransitions[Machine!Last(transitions[p]).to]
    BY <1>4, <2>3 DEF CommitTransition, CheckedEdge
  <2>5. transitions'[p] = Append(transitions[p],
          [from |-> Machine!Last(transitions[p]).to, to |-> call[c].target])
    BY <1>4, <2>2, <2>3 DEF CommitTransition
  <2>6. transitions[p] \in Seq(Machine!Entry) /\ call[c].target \in Machine!Statuses
    BY <2>1, <2>2 DEF TransitionCall
  <2>7. Machine!IsPath(transitions'[p]) /\ Machine!Last(transitions'[p]).to = call[c].target
    BY <2>3, <2>4, <2>5, <2>6, AppendToPath
  <2>8. status'[p] = call[c].target
    BY <1>4, <2>2 DEF CommitTransition
  <2>9. \A q \in Projects \ {p} : status'[q] = status[q] /\ transitions'[q] = transitions[q]
    BY <1>4 DEF CommitTransition
  <2>10. CheckedEdge'
    BY <1>4, EdgesKept DEF CommitTransition, Idle
  <2> QED BY <2>2, <2>6, <2>7, <2>8, <2>9, <2>10, HistoryOfOne
<1>5. ASSUME NEW c \in Clients, ConflictTransition(c)
      PROVE  (HistoryIsPath /\ CheckedEdge)'
  BY <1>5, HistoryUntouched, EdgesKept DEF ConflictTransition, Idle
<1>6. ASSUME NEW c \in Clients, NEW p \in Projects, NEW changed \in SUBSET Columns,
             NEW v \in Versions, BeginUpdate(c, p, changed, v)
      PROVE  (HistoryIsPath /\ CheckedEdge)'
  BY <1>6, HistoryUntouched, EdgesKept DEF BeginUpdate
<1>7. ASSUME NEW c \in Clients, CommitUpdate(c)
      PROVE  (HistoryIsPath /\ CheckedEdge)'
  BY <1>7, HistoryUntouched, EdgesKept DEF CommitUpdate, Idle
<1>8. ASSUME NEW c \in Clients, NEW p \in Projects, BeginActivate(c, p)
      PROVE  (HistoryIsPath /\ CheckedEdge)'
  BY <1>8, HistoryUntouched, EdgesKept DEF BeginActivate
<1>9. ASSUME NEW c \in Clients, CommitActivate(c)
      PROVE  (HistoryIsPath /\ CheckedEdge)'
  BY <1>9, HistoryUntouched, EdgesKept DEF CommitActivate, Idle
<1>10. CASE Restart
  BY <1>10, HistoryUntouched, EdgesKept DEF Restart, Idle
<1>11. CASE UNCHANGED vars
  BY <1>11, HistoryUntouched, EdgesKept DEF vars
<1> QED BY <1>1, <1>2, <1>3, <1>4, <1>5, <1>6, <1>7, <1>8, <1>9, <1>10, <1>11
        DEF Next, ClientStep

\* The log of every project is a path of allowed edges ending in its status.
\* Inductive only with CheckedEdge: the edge was checked for the status that
\* was read, and the conditional UPDATE fires only if that is still current.
THEOREM HistoryInvariant == Spec => []HistoryIsPath
<1>1. Spec => []IInv
  BY TypeCorrect, InvariantInit, InvariantStep, PTL DEF Spec, IInv
<1> QED BY <1>1, PTL DEF IInv

----------------------------------------------------------------------------
\* A committed transition is a Move of the atomic lifecycle.
LEMMA CommitIsMove ==
  ASSUME IInv, NEW c \in Clients, CommitTransition(c)
  PROVE  /\ call[c].project \in Projects
         /\ call[c].target \in Machine!Statuses
         /\ Machine!Move(call[c].project, call[c].target)
<1>1. call[c] \in TransitionCall
  BY CallKinds DEF CommitTransition, IInv, TypeOK
<1>2. call[c].project \in Projects /\ call[c].target \in Machine!Statuses
      /\ call[c].current \in Machine!Statuses
  BY <1>1 DEF TransitionCall
<1>3. status[call[c].project] = call[c].current
  BY DEF CommitTransition, StillCurrent
<1>4. call[c].target \in Machine!AllowedTransitions[call[c].current]
  BY DEF CommitTransition, IInv, CheckedEdge
<1> QED BY <1>2, <1>3, <1>4 DEF CommitTransition, Machine!Move

\* Every step of the registry is a step of the atomic lifecycle or leaves the
\* statuses and logs alone.
LEMMA StepRefines == IInv /\ [Next]_vars => [Machine!Next]_<<status, transitions>>
<1> SUFFICES ASSUME IInv, [Next]_vars, ~UNCHANGED <<status, transitions>>
             PROVE  Machine!Next
  OBVIOUS
<1>1. ASSUME NEW c \in Clients, NEW p \in Projects, NEW s \in Machine!InitialStatuses,
             Create(c, p, s)
      PROVE  Machine!Next
  <2>1. status[p] = Machine!Absent
    BY <1>1 DEF Create, IsFree, Exists, IInv, TypeOK
  <2>2. Machine!Create(p, s)
    BY <1>1, <2>1 DEF Create, Machine!Create
  <2> QED BY <2>2 DEF Machine!Next
<1>2. ASSUME NEW c \in Clients, CommitTransition(c)
      PROVE  Machine!Next
  BY <1>2, CommitIsMove DEF Machine!Next
<1> QED BY <1>1, <1>2
        DEF Next, ClientStep, BeginTransition, CheckActive, ConflictTransition, BeginUpdate,
            CommitUpdate, BeginActivate, CommitActivate, Restart, vars

\* The registry starts as the lifecycle does.
LEMMA InitRefines == Init => Machine!Init
<1> SUFFICES ASSUME Init, NEW p \in Projects
             PROVE  \/ status[p] = Machine!Absent /\ transitions[p] = <<>>
                    \/ \E s \in Machine!InitialStatuses : Machine!Created(p, s)
  BY DEF Machine!Init
<1>1. CASE p = DefaultProject
  BY <1>1 DEF Init, Machine!Created, Machine!InitialStatuses
<1>2. CASE p # DefaultProject
  BY <1>2 DEF Init
<1> QED BY <1>1, <1>2

\* The registry implements the atomic lifecycle: reads outside the lock and a
\* conditional UPDATE are as good as one atomic check-and-move.
THEOREM Refinement == Spec => ImplementsMachine
<1>1. Spec => []IInv
  BY TypeCorrect, InvariantInit, InvariantStep, PTL DEF Spec, IInv
<1> QED BY <1>1, InitRefines, StepRefines, PTL DEF Spec, ImplementsMachine, Machine!Spec

\* Once archived, always archived, whatever transition was pending.
THEOREM ArchivedStays == Spec => ArchivedIsFinal
<1>1. Spec => []IInv
  BY TypeCorrect, InvariantInit, InvariantStep, PTL DEF Spec, IInv
<1>2. ASSUME IInv, [Next]_vars, NEW p \in Projects, status[p] = "archived"
      PROVE  status'[p] = "archived"
  <2>1. CASE UNCHANGED <<status, transitions>>
    BY <1>2, <2>1
  <2>2. ASSUME NEW q \in Projects, NEW s \in Machine!InitialStatuses, Machine!Create(q, s)
        PROVE  status'[p] = "archived"
    BY <1>2, <2>2 DEF Machine!Create, Machine!Absent
  <2>3. ASSUME NEW q \in Projects, NEW t \in Machine!Statuses, Machine!Move(q, t)
        PROVE  status'[p] = "archived"
    BY <1>2, <2>3 DEF Machine!Move, Machine!AllowedTransitions
  <2> QED BY <1>2, <2>1, <2>2, <2>3, StepRefines DEF Machine!Next
<1>3. IInv /\ [Next]_vars
      => [\A p \in Projects : status[p] = "archived" => status'[p] = "archived"]_vars
  BY <1>2
<1> QED BY <1>1, <1>3, PTL DEF Spec, ArchivedIsFinal

----------------------------------------------------------------------------
\* What the registry read still holds when it writes, if no other request runs.
ReadStillHolds ==
  \A c \in Clients :
    /\ call[c].op = "transition" /\ call[c].at = "commit" /\ call[c].target = "archived"
         => call[c].project # active
    /\ call[c].op = "activate" => status[call[c].project] # "archived"

\* With one request at a time the active project is never archived and an
\* update never writes back a stale column: both hazards need two requests in
\* flight (the run registry_archive shows the first).
THEOREM SequentialUse ==
  ASSUME \A c, d \in Clients : c = d
  PROVE  Spec => [](ActiveNotArchived /\ NoStaleWrite)
<1> DEFINE Rest == ActiveNotArchived /\ NoStaleWrite /\ ReadStillHolds
<1> USE DEF ActiveNotArchived, NoStaleWrite, ReadStillHolds
<1>1. Init => Rest
  <2> SUFFICES ASSUME Init PROVE Rest
    OBVIOUS
  <2>1. \A c \in Clients : call[c].op = "idle"
    BY DEF Init, Idle
  <2>2. status[active] = "ready"
    BY DefaultAssumption DEF Init
  <2> QED BY <2>1, <2>2
<1>2. TypeOK /\ Rest /\ [Next]_vars => Rest'
  <2> SUFFICES ASSUME TypeOK, Rest, [Next]_vars PROVE Rest'
    OBVIOUS
  <2> USE DEF TypeOK
  <2>1. ASSUME NEW c \in Clients, NEW p \in Projects, NEW s \in Machine!InitialStatuses,
               Create(c, p, s)
        PROVE  Rest'
    BY <2>1 DEF Create, Idle, Machine!InitialStatuses
  <2>2. ASSUME NEW c \in Clients, NEW p \in Projects, NEW t \in Machine!Statuses,
               BeginTransition(c, p, t)
        PROVE  Rest'
    BY <2>2 DEF BeginTransition
  <2>3. ASSUME NEW c \in Clients, CheckActive(c)
        PROVE  Rest'
    <3>1. call[c] \in TransitionCall
      BY <2>3, CallKinds DEF CheckActive
    <3> QED BY <2>3, <3>1 DEF CheckActive, Idle, TransitionCall
  <2>4. ASSUME NEW c \in Clients, CommitTransition(c)
        PROVE  Rest'
    <3>1. call[c] \in TransitionCall
      BY <2>4, CallKinds DEF CommitTransition
    <3> QED BY <2>4, <3>1 DEF CommitTransition, Idle, TransitionCall
  <2>5. ASSUME NEW c \in Clients, ConflictTransition(c)
        PROVE  Rest'
    BY <2>5 DEF ConflictTransition, Idle
  <2>6. ASSUME NEW c \in Clients, NEW p \in Projects, NEW changed \in SUBSET Columns,
               NEW v \in Versions, BeginUpdate(c, p, changed, v)
        PROVE  Rest'
    BY <2>6 DEF BeginUpdate, NewRow
  <2>7. ASSUME NEW c \in Clients, CommitUpdate(c)
        PROVE  Rest'
    BY <2>7 DEF CommitUpdate, Idle
  <2>8. ASSUME NEW c \in Clients, NEW p \in Projects, BeginActivate(c, p)
        PROVE  Rest'
    BY <2>8 DEF BeginActivate
  <2>9. ASSUME NEW c \in Clients, CommitActivate(c)
        PROVE  Rest'
    BY <2>9 DEF CommitActivate, Idle
  <2>10. CASE Restart
    BY <2>10 DEF Restart, Idle
  <2>11. CASE UNCHANGED vars
    BY <2>11 DEF vars
  <2> QED BY <2>1, <2>2, <2>3, <2>4, <2>5, <2>6, <2>7, <2>8, <2>9, <2>10, <2>11
          DEF Next, ClientStep
<1> QED BY <1>1, <1>2, TypeCorrect, PTL DEF Spec
============================================================================
