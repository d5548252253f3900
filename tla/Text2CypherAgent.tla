-------------------------- MODULE Text2CypherAgent --------------------------
(***************************************************************************)
(* One question answered by backend/app/agent/workflow.py: the LangGraph   *)
(* nodes guard, generate, validate, correct, execute and finalize, the     *)
(* checkpoint LangGraph stores after each, and the resume endpoint, which  *)
(* continues the run from the last checkpoint, after a stop or while the   *)
(* run is still going on.                                                  *)
(*                                                                         *)
(* A statement stands for its text and for its SHA-256.  LangGraph stores  *)
(* a checkpoint in the background: the next node may already run.          *)
(***************************************************************************)
EXTENDS Naturals, Sequences

CONSTANTS Runners,           \* threads that execute the run or a resume of it
          Safe,              \* statements every deterministic check accepts
          Rejected,          \* statements that fail one and may be corrected
          Writing,           \* statements with a write or a disallowed command
          MaxAttempts,       \* max_attempts
          MaxResumes,        \* bound on the calls of resume
          MayChange          \* whether the project may stop being queryable meanwhile

EmptyText == "empty"         \* the empty string, as a statement and as a hash

ASSUME AttemptsAssumption == MaxAttempts \in Nat \ {0}
ASSUME ResumesAssumption  == MaxResumes \in Nat
ASSUME ChangeAssumption   == MayChange \in BOOLEAN
ASSUME StatementsAssumption ==
  /\ EmptyText \in Rejected         \* EMPTY_QUERY
  /\ Safe \cap Rejected = {} /\ Safe \cap Writing = {} /\ Rejected \cap Writing = {}

VARIABLES question,          \* what guard_question finds the question to be
          queryable,         \* can_query of the project's readiness report
          saved,             \* the run's last checkpoint
          live,              \* the state each runner works on
          unsaved,           \* runners whose state is not in a checkpoint yet
          late,              \* runners past their deadline
          gated,             \* runners that started while the project was queryable
          explained,         \* history: statements EXPLAIN accepted
          executed,          \* history: statements Neo4j executed, in order
          answer,            \* history: the last state returned to a caller
          resumes,           \* calls of resume so far
          overlapped         \* history: whether two runners ever ran at once

vars == <<question, queryable, saved, live, unsaved, late, gated, explained, executed, answer,
          resumes, overlapped>>

Statements == Safe \cup Rejected \cup Writing
Questions  == {"answerable", "needs_clarification", "blocked", "unsupported"}
Done       == {"success", "empty"}        \* of an execution without an error
Statuses   == Done \cup {"running", "failed", "blocked", "needs_clarification", "unsupported"}
Nodes      == {"guard", "generate", "validate", "correct", "execute", "finalize"}

\* "next" is the node next_action and the routes lead to; "verified" is
\* validated_statement_sha256, EmptyText when there is none.
Values == [next : Nodes \cup {"end", "none", "load"}, statement : Statements, attempts : Nat,
           status : Statuses, verified : Statements, evidence : BOOLEAN]

BaseState == [next |-> "guard", statement |-> EmptyText, attempts |-> 0, status |-> "running",
              verified |-> EmptyText, evidence |-> FALSE]
NoRun == [BaseState EXCEPT !.next = "none"]

\* The endpoint has found the project queryable, and r has called
\* TextToCypherAgent.invoke with a fresh run id.
Init ==
  /\ question \in Questions
  /\ queryable = TRUE
  /\ saved = NoRun /\ answer = NoRun
  /\ \E r \in Runners :
       /\ live = [s \in Runners |-> IF s = r THEN BaseState ELSE NoRun]
       /\ unsaved = {r} /\ gated = {r}
  /\ late = {}
  /\ explained = {} /\ executed = <<>>
  /\ resumes = 0 /\ overlapped = FALSE

----------------------------------------------------------------------------
Running(r) == live[r].next # "none"

\* r has run a node, which leaves it the state v.
Leaves(r, v) == live' = [live EXCEPT ![r] = v] /\ unsaved' = unsaved \cup {r}

Fail(v) == [v EXCEPT !.status = "failed", !.next = "finalize"]
Unverified(v) == [v EXCEPT !.verified = EmptyText]

Environment == <<question, queryable, saved, gated, answer, resumes, overlapped>>

\* Mutant of Refused: only a write request ends here.
WriteRefused == question = "blocked"

Refused == question # "answerable"

GuardQuestion(r) ==
  /\ live[r].next = "guard"
  /\ Leaves(r, IF Refused THEN [live[r] EXCEPT !.status = question, !.next = "finalize"]
                          ELSE [live[r] EXCEPT !.status = "running", !.next = "generate"])
  /\ UNCHANGED Environment /\ UNCHANGED <<late, explained, executed>>

(* generate_cypher and correct_cypher: the deadline, an exception of the   *)
(* model, the deadline again, or a new statement.                          *)
Draft(r, node, onError) ==
  LET v == Unverified(live[r])
  IN /\ v.next = node
     /\ \/ /\ r \in late
           /\ Leaves(r, Fail(v)) /\ UNCHANGED late
        \/ /\ r \notin late
           /\ Leaves(r, Fail([v EXCEPT !.statement = onError])) /\ UNCHANGED late
        \/ /\ r \notin late
           /\ \E s \in Statements :
                \/ /\ Leaves(r, Fail([v EXCEPT !.statement = s]))
                   /\ late' = late \cup {r}
                \/ /\ Leaves(r, [v EXCEPT !.statement = s, !.next = "validate"])
                   /\ UNCHANGED late
     /\ UNCHANGED Environment /\ UNCHANGED <<explained, executed>>

GenerateCypher(r) == Draft(r, "generate", EmptyText)
CorrectCypher(r)  == Draft(r, "correct", live[r].statement)

\* Mutant of Acceptable: the semantic and project scope checks are skipped.
ReadOnly(s) == s \notin Writing

Acceptable(s) == s \in Safe

\* Mutant of NextAttempt: the attempt is not counted.
SameAttempt(v) == v.attempts

NextAttempt(v) == v.attempts + 1
MayCorrect(n) == n < MaxAttempts

(* validate_cypher: read-only, semantic, project scope and EXPLAIN, whose  *)
(* failure (an error, or the deadline while it ran) ends in a correction   *)
(* unless the attempts are used up.                                        *)
ValidateCypher(r) ==
  LET v == [Unverified(live[r]) EXCEPT !.attempts = NextAttempt(live[r])]
      s == v.statement
  IN /\ v.next = "validate"
     /\ \/ r \in late /\ Leaves(r, Fail(v)) /\ UNCHANGED explained
        \/ /\ r \notin late /\ s \in Writing
           /\ Leaves(r, [v EXCEPT !.status = "blocked", !.next = "finalize"])
           /\ UNCHANGED explained
        \/ /\ r \notin late /\ Acceptable(s)
           /\ Leaves(r, [v EXCEPT !.verified = s, !.next = "execute"])
           /\ explained' = explained \cup {s}
        \/ /\ r \notin late /\ s \notin Writing
           /\ Leaves(r, IF MayCorrect(v.attempts) THEN [v EXCEPT !.next = "correct"] ELSE Fail(v))
           /\ UNCHANGED explained
     /\ UNCHANGED Environment /\ UNCHANGED <<late, executed>>

Executable(v) == v.verified # EmptyText /\ v.verified = v.statement

(* execute_cypher: the deadline, VERIFICATION_REQUIRED, the rows of        *)
(* graph.execute, or its exception, before or after Neo4j ran the          *)
(* statement.                                                              *)
ExecuteCypher(r) ==
  LET v == live[r]
      Runs == executed' = Append(executed, v.statement)
  IN /\ v.next = "execute"
     /\ \/ (r \in late \/ ~Executable(v)) /\ Leaves(r, Fail(v)) /\ UNCHANGED executed
        \/ /\ r \notin late /\ Executable(v)
           /\ \/ Runs /\ \E d \in Done : Leaves(r, [v EXCEPT !.status = d, !.next = "finalize"])
              \/ Runs /\ Leaves(r, Fail(v))
              \/ UNCHANGED executed /\ Leaves(r, Fail(v))
     /\ UNCHANGED Environment /\ UNCHANGED <<late, explained>>

\* Mutant of ExecutionVerified: the status is not looked at.
HasHash(v) == v.verified # EmptyText

ExecutionVerified(v) == v.verified # EmptyText /\ v.status \in Done

FinalizeRun(r) ==
  /\ live[r].next = "finalize"
  /\ Leaves(r, [live[r] EXCEPT !.evidence = ExecutionVerified(live[r]), !.next = "end"])
  /\ UNCHANGED Environment /\ UNCHANGED <<late, explained, executed>>

----------------------------------------------------------------------------
(* LangGraph stores the state r has reached, unless r goes on first.  Only *)
(* the newest is stored: an older one that comes late is not the last      *)
(* checkpoint of the thread.                                               *)
Checkpoint(r) ==
  /\ r \in unsaved
  /\ saved' = live[r]
  /\ unsaved' = unsaved \ {r}
  /\ UNCHANGED <<question, queryable, live, late, gated, explained, executed, answer, resumes,
                 overlapped>>

\* r is no longer running.
Leave(r) ==
  /\ live' = [live EXCEPT ![r] = NoRun]
  /\ unsaved' = unsaved \ {r} /\ late' = late \ {r} /\ gated' = gated \ {r}

\* Mutant of Stored: the caller is answered before the checkpoint is stored.
NotAwaited(r) == TRUE

Stored(r) == r \notin unsaved

(* The caller is answered once the last checkpoint is stored.              *)
Return(r) ==
  /\ live[r].next = "end" /\ Stored(r)
  /\ answer' = live[r]
  /\ Leave(r)
  /\ UNCHANGED <<question, queryable, saved, explained, executed, resumes, overlapped>>

(* The process stops, or an error of the checkpoint database ends the      *)
(* request: what was not stored is lost.                                   *)
Stop(r) ==
  /\ Running(r)
  /\ Leave(r)
  /\ UNCHANGED <<question, queryable, saved, explained, executed, answer, resumes, overlapped>>

(* resume reads the last checkpoint: KeyError when there is none, the      *)
(* state as it is when the run has ended, else a new deadline ...          *)
Resume(r) ==
  /\ ~Running(r)
  /\ resumes < MaxResumes
  /\ saved # NoRun
  /\ resumes' = resumes + 1
  /\ \/ saved.next = "end" /\ answer' = saved
        /\ UNCHANGED <<live, gated, overlapped>>
     \/ /\ saved.next # "end"
        /\ live' = [live EXCEPT ![r] = [NoRun EXCEPT !.next = "load"]]
        /\ gated' = IF queryable THEN gated \cup {r} ELSE gated
        /\ overlapped' = (overlapped \/ \E s \in Runners : Running(s))
        /\ UNCHANGED answer
  /\ UNCHANGED <<question, queryable, saved, unsaved, late, explained, executed>>

(* ... and the last checkpoint, read again, is where r goes on.            *)
Load(r) ==
  /\ live[r].next = "load"
  /\ live' = [live EXCEPT ![r] = saved]
  /\ UNCHANGED <<question, queryable, saved, unsaved, late, gated, explained, executed, answer,
                 resumes, overlapped>>

\* The deadline of r passes.
Expire(r) ==
  /\ live[r].next \in Nodes /\ r \notin late
  /\ late' = late \cup {r}
  /\ UNCHANGED <<question, queryable, saved, live, unsaved, gated, explained, executed, answer,
                 resumes, overlapped>>

\* A new upload, mapping or evaluation: the lifecycle goes its way meanwhile.
ProjectChanges ==
  /\ MayChange
  /\ queryable' = ~queryable
  /\ UNCHANGED <<question, saved, live, unsaved, late, gated, explained, executed, answer,
                 resumes, overlapped>>

RunnerStep(r) ==
  \/ GuardQuestion(r) \/ GenerateCypher(r) \/ ValidateCypher(r) \/ CorrectCypher(r)
  \/ ExecuteCypher(r) \/ FinalizeRun(r) \/ Load(r) \/ Return(r) \/ Checkpoint(r)

Next ==
  \/ ProjectChanges
  \/ \E r \in Runners : RunnerStep(r) \/ Expire(r) \/ Stop(r) \/ Resume(r)

\* A thread that runs keeps running: nodes end by themselves (the model and
\* Neo4j have timeouts of their own), and the checkpoint is written.
Fairness == \A r \in Runners : WF_vars(RunnerStep(r))

Spec == Init /\ [][Next]_vars /\ Fairness

----------------------------------------------------------------------------
States == {saved, answer} \cup {live[r] : r \in Runners}
HasRun(s) == \E i \in DOMAIN executed : executed[i] = s

TypeOK ==
  /\ question \in Questions /\ queryable \in BOOLEAN
  /\ saved \in Values /\ answer \in Values
  /\ live \in [Runners -> Values]
  /\ unsaved \subseteq Runners /\ late \subseteq Runners /\ gated \subseteq Runners
  /\ explained \subseteq Statements
  /\ executed \in Seq(Statements)
  /\ resumes \in 0..MaxResumes /\ overlapped \in BOOLEAN

(* docs/enterprise-stage1-6-validation.md:14-15: no statement is executed  *)
(* that was not validated, whichever checkpoint a resume starts from and   *)
(* whatever another runner of the same run does meanwhile.                 *)
OnlyValidatedRuns ==
  \A i \in DOMAIN executed : executed[i] \in explained /\ executed[i] \in Safe

(* workflow.py:84-123: a question the guard refuses never reaches Neo4j,   *)
(* not even through a resume.                                              *)
RefusedNeverRuns == question # "answerable" => explained = {} /\ executed = <<>>

(* workflow.py:371-398: the evidence "execution_verified" belongs to the   *)
(* very statement shown with it, and that statement was executed.          *)
EvidenceIsTrue ==
  \A v \in States : v.evidence => v.statement = v.verified /\ HasRun(v.statement)

(* workflow.py:238-249: max_attempts bounds the validations of a run, over *)
(* all its resumes: a checkpoint carries the count.                        *)
AttemptsBounded == \A v \in States : v.attempts <= MaxAttempts

(* workflow.py:588-621: once a caller has been answered, every later       *)
(* resume gives the same answer, provided no two runners overlapped.       *)
OneAnswer == [][answer # NoRun /\ ~overlapped' => answer' = answer]_vars

(* Every invoke and every resume comes to an end: corrections stop.        *)
EveryCallEnds == \A r \in Runners : Running(r) ~> ~Running(r)

(* docs/backend-lineage.md:40-52: a project answers questions only while   *)
(* it is ready: what is about to execute was started when it was.          *)
StartedWhenReady == \A r \in Runners : live[r].next = "execute" => r \in gated
============================================================================
