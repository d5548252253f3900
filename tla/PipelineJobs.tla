----------------------------- MODULE PipelineJobs -----------------------------
(***************************************************************************)
(* backend/app/jobs.py and the pages that use it: a page script of         *)
(* frontend/pages/data_sources.py or schema_studio.py registers a job,     *)
(* reports its progress while it calls the API, and ends it; every page    *)
(* shows the same jobs with a cancel and a retry button.                   *)
(*                                                                         *)
(* update reads the row, decides, and writes every column back, in two     *)
(* transactions.  Each script opens a store of its own, so the store's     *)
(* lock excludes nobody and is left out, as are the log lines: they are    *)
(* appended in a transaction of their own, and only shown.                 *)
(***************************************************************************)
EXTENDS Naturals, Sequences, FiniteSets

CONSTANTS Pages,             \* browser sessions
          Kinds,             \* kinds of jobs the pages start
          MaxJobs            \* bound: jobs are numbered 1, 2, ...

ASSUME KindsAssumption ==
  Kinds \subseteq {"profile", "neo4j_connect", "mapping_dry_run", "mapping_approval", "graph_load"}
ASSUME MaxJobsAssumption == MaxJobs \in Nat

VARIABLES jobs,              \* pipeline_jobs: the rows by number
          page,              \* what each page executes
          worked,            \* history: jobs whose work the backend has done
          dropped            \* history: jobs whose script was stopped on the way

jobVars == <<jobs, page, worked, dropped>>

JobIds    == 1..MaxJobs
NoJob     == 0
Terminal  == {"succeeded", "failed", "cancelled"}
JobStatus == {"queued", "running"} \cup Terminal
JobSteps  == {"queued", "start", "progress", "work", "succeed", "fail", "cancelled"}
JobRow    == [status : JobStatus, step : JobSteps, progress : {0, 5, 50, 100}, error : BOOLEAN,
              started : BOOLEAN, finished : BOOLEAN, attempt : Nat, parent : {NoJob} \cup JobIds]

\* 50 stands for the reports between start and end (45, 70, 80, 90 percent).
PageOp   == {"none", "workflow", "cancel", "retry"}
PageAt   == {"idle", "create", "read", "write", "work"}

\* What the script of each kind does between create and the end of the job.
Plan(kind) ==
  CASE kind = "profile"          -> <<"start", "progress", "work", "succeed">>
    [] kind = "mapping_approval" -> <<"start", "work", "succeed">>
    [] OTHER                     -> <<"start", "work", "progress", "succeed">>

NewJob(attempt, parent) ==
  [status |-> "queued", step |-> "queued", progress |-> 0, error |-> FALSE,
   started |-> FALSE, finished |-> FALSE, attempt |-> attempt, parent |-> parent]

NobodysRow == NewJob(1, NoJob)
IdlePage == [op |-> "none", at |-> "idle", job |-> NoJob, plan |-> <<>>, row |-> NobodysRow]
Used     == DOMAIN jobs

JobsInit ==
  /\ jobs = <<>>
  /\ page = [p \in Pages |-> IdlePage]
  /\ worked = {} /\ dropped = {}

----------------------------------------------------------------------------
PageIs(p, at) == page[p].at = at
GoOn(p, at) == page' = [page EXCEPT ![p].at = at]
Leave(p) == page' = [page EXCEPT ![p] = IdlePage]

(* A button of the onboarding pages starts a script.                       *)
Press(p, kind) ==
  /\ page[p] = IdlePage
  /\ page' = [page EXCEPT ![p] = [IdlePage EXCEPT !.op = "workflow", !.at = "create",
                                                  !.plan = Plan(kind)]]
  /\ UNCHANGED <<jobs, worked, dropped>>

\* Only active jobs have a cancel button; the page shows the rows it read.
PressCancel(p, j) ==
  /\ page[p] = IdlePage /\ j \in Used
  /\ jobs[j].status \notin Terminal
  /\ page' = [page EXCEPT ![p] = [IdlePage EXCEPT !.op = "cancel", !.at = "read", !.job = j,
                                                  !.plan = <<"cancelled">>]]
  /\ UNCHANGED <<jobs, worked, dropped>>

(* retry reads the previous job, then creates its successor.               *)
PressRetry(p, j) ==
  /\ page[p] = IdlePage /\ j \in Used
  /\ jobs[j].status \in {"failed", "cancelled"}
  /\ page' = [page EXCEPT ![p] = [IdlePage EXCEPT !.op = "retry", !.at = "create",
                                                  !.row = NewJob(jobs[j].attempt + 1, j)]]
  /\ UNCHANGED <<jobs, worked, dropped>>

(* create inserts the row.  A retry ends there: the new job is queued, and *)
(* no worker takes it.                                                     *)
CreateJob(p) ==
  /\ PageIs(p, "create") /\ Len(jobs) < MaxJobs
  /\ jobs' = Append(jobs, page[p].row)
  /\ IF page[p].op = "retry" THEN Leave(p)
     ELSE page' = [page EXCEPT ![p].job = Len(jobs) + 1, ![p].at = "read"]
  /\ UNCHANGED <<worked, dropped>>

\* Mutant of Changed: finished_at is kept as it was read.
KeepsFinish(row, step) ==
  [row EXCEPT !.step = step,
     !.status   = CASE step = "start" -> "running" [] step = "succeed" -> "succeeded"
                    [] step = "fail" -> "failed" [] step = "cancelled" -> "cancelled"
                    [] OTHER -> row.status,
     !.progress = CASE step = "start" -> 5 [] step = "progress" -> 50 [] step = "succeed" -> 100
                    [] OTHER -> row.progress,
     !.error    = (step = "fail"),
     !.started  = row.started \/ step = "start" \/ (step = "progress" /\ row.status = "running")]

(* The columns update writes for start, succeed, fail, cancel and for a    *)
(* progress report, which passes no status and keeps the one it has read.  *)
Changed(row, step) ==
  LET status == CASE step = "start" -> "running" [] step = "succeed" -> "succeeded"
                  [] step = "fail" -> "failed" [] step = "cancelled" -> "cancelled"
                  [] OTHER -> row.status
      progress == CASE step = "start" -> 5 [] step = "progress" -> 50 [] step = "succeed" -> 100
                    [] OTHER -> row.progress
  IN  [status |-> status, step |-> step, progress |-> progress, error |-> step = "fail",
       started |-> row.started \/ status = "running", finished |-> status \in Terminal,
       attempt |-> row.attempt, parent |-> row.parent]

\* What the script does with an error: inside its try, it reports the job
\* as failed; an error of that report, or of a cancel, ends the script.
AfterRaise(p) ==
  IF page[p].op = "workflow" /\ Head(page[p].plan) # "fail"
  THEN page' = [page EXCEPT ![p].plan = <<"fail">>, ![p].at = "read"]
  ELSE Leave(p)

(* update, first part: get, the terminal check, the new columns.           *)
ReadJob(p) ==
  /\ PageIs(p, "read")
  /\ IF jobs[page[p].job].status \in Terminal
     THEN AfterRaise(p)
     ELSE page' = [page EXCEPT ![p].at = "write",
                               ![p].row = Changed(jobs[page[p].job], Head(page[p].plan))]
  /\ UNCHANGED <<jobs, worked, dropped>>

\* The script takes its next step, or has come to its end.
Proceed(p) ==
  LET rest == Tail(page[p].plan)
  IN  IF rest = <<>> THEN Leave(p)
      ELSE page' = [page EXCEPT ![p].plan = rest, ![p].row = NobodysRow,
                                ![p].at = IF Head(rest) = "work" THEN "work" ELSE "read"]

\* The UPDATE names the job only: the row read may have changed meanwhile.
WriteJob(p) ==
  /\ PageIs(p, "write")
  /\ jobs' = [jobs EXCEPT ![page[p].job] = page[p].row]
  /\ Proceed(p)
  /\ UNCHANGED <<worked, dropped>>

\* Mutant of AfterWork: an error of the call is taken for its end.
GoesOn(p, ok) == [page[p] EXCEPT !.plan = Tail(@), !.at = "read"]

\* Mutant of AfterWork: an error leaves the script without a report.
Unreported(p, ok) == IF ok THEN GoesOn(p, ok) ELSE IdlePage

AfterWork(p, ok) ==
  IF ok THEN [page[p] EXCEPT !.plan = Tail(@), !.at = "read"]
  ELSE [page[p] EXCEPT !.plan = <<"fail">>, !.at = "read"]

(* The call of the API (or the local fallback): it succeeds, fails, or     *)
(* fails for the client after the work was done (a timeout, a later step). *)
Work(p) ==
  /\ PageIs(p, "work")
  /\ \E ok, done \in BOOLEAN :
       /\ ok => done
       /\ worked' = IF done THEN worked \cup {page[p].job} ELSE worked
       /\ page' = [page EXCEPT ![p] = AfterWork(p, ok)]
  /\ UNCHANGED <<jobs, dropped>>

(* Another interaction of the session, or its end, stops the script.       *)
StopScript(p) ==
  /\ ~PageIs(p, "idle")
  /\ dropped' = IF page[p].op = "workflow" THEN dropped \cup {page[p].job} ELSE dropped
  /\ Leave(p)
  /\ UNCHANGED <<jobs, worked>>

Click(p) ==
  \/ \E kind \in Kinds : Press(p, kind)
  \/ \E j \in JobIds : PressCancel(p, j) \/ PressRetry(p, j)

RunScript(p) == CreateJob(p) \/ ReadJob(p) \/ WriteJob(p) \/ Work(p)

JobsNext == \E p \in Pages : Click(p) \/ RunScript(p) \/ StopScript(p)

\* A script runs on; nothing makes a user press a button.
JobsFairness == \A p \in Pages : WF_jobVars(RunScript(p))

JobsSpec == JobsInit /\ [][JobsNext]_jobVars /\ JobsFairness

----------------------------------------------------------------------------
PageState == [op : PageOp, at : PageAt, job : {NoJob} \cup JobIds, plan : Seq(JobSteps), row : JobRow]

JobsTypeOK ==
  /\ jobs \in Seq(JobRow) /\ Len(jobs) <= MaxJobs
  /\ page \in [Pages -> PageState]
  /\ \A p \in Pages : page[p].job \in Used \cup {NoJob}
  /\ worked \subseteq Used /\ dropped \subseteq Used \cup {NoJob}

HasStatus(j, statuses) == j \in Used /\ jobs[j].status \in statuses

Whole(row) ==
  /\ row.finished <=> row.status \in Terminal
  /\ row.error <=> row.status = "failed"
  /\ row.progress = 100 <=> row.status = "succeeded"
  /\ row.status = "running" => row.started
  /\ row.status = "queued" => ~row.started

(* jobs.py:209-245: a row always shows one update in full, whoever wrote   *)
(* between its read and its UPDATE: never the status of one script with    *)
(* the progress, the error or the end time of another.                     *)
RowsAreWhole == \A j \in Used : Whole(jobs[j])

(* data_sources.py:691-712, schema_studio.py:376-405: a job shown as       *)
(* succeeded has its work done, whatever was cancelled, retried or timed   *)
(* out around it.                                                          *)
SucceededIsDone == \A j \in Used : jobs[j].status = "succeeded" => j \in worked

(* data_sources.py:713-716: unless its script is stopped, a running job    *)
(* comes to an end, also when a cancel and a report overwrite each other.  *)
RunningEnds ==
  \A j \in JobIds : HasStatus(j, {"running"}) ~> HasStatus(j, Terminal) \/ j \in dropped

============================================================================
