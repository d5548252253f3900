------------------------- MODULE PipelineJobsProof -------------------------
(***************************************************************************)
(* Safety of PipelineJobs for any number of pages and jobs: each row keeps *)
(* its type and shows one update in full, although update writes back what *)
(* it read in a transaction of its own (JobsInv); and a job shown as       *)
(* succeeded has its work done (TrueInv, which follows the plans of the    *)
(* scripts: the work comes before the report, and once).                   *)
(***************************************************************************)
EXTENDS PipelineJobs, SequenceTheorems, TLAPS

\* A plan that is not finished ends with a report, never with the work.
Unfinished(plan) == plan # <<>> /\ plan[Len(plan)] # "work"

\* What a page executes is of a job in the table, and what it is about to
\* insert or to write is a whole row.
PageGood(pg, used) ==
  /\ pg \in PageState /\ pg.job \in used \cup {NoJob}
  /\ pg.at \in {"read", "write", "work"} => pg.job \in used /\ Unfinished(pg.plan)
  /\ pg.at = "create" /\ pg.op # "retry" => Unfinished(pg.plan)
  /\ pg.at = "work" => Head(pg.plan) = "work"
  /\ pg.at \in {"create", "write"} => Whole(pg.row)

TableGood ==
  /\ jobs \in Seq(JobRow) /\ Len(jobs) <= MaxJobs /\ RowsAreWhole
  /\ worked \subseteq Used /\ dropped \subseteq Used \cup {NoJob}

PagesGood ==
  /\ page \in [Pages -> PageState]
  /\ \A p \in Pages : PageGood(page[p], Used)

JobsInv == TableGood /\ PagesGood

----------------------------------------------------------------------------
\* jobs.py:209-245: from a whole row that has not ended, every report of
\* update makes a whole row.
Columns(row, step, new) ==
  /\ new.finished <=> new.status \in Terminal
  /\ new.error <=> step = "fail"
  /\ new.started <=> row.started \/ new.status = "running"
  /\ step = "start" => new.status = "running" /\ new.progress = 5
  /\ step = "succeed" => new.status = "succeeded" /\ new.progress = 100
  /\ step = "fail" => new.status = "failed" /\ new.progress = row.progress
  /\ step = "cancelled" => new.status = "cancelled" /\ new.progress = row.progress
  /\ step = "progress" => new.status = row.status /\ new.progress = 50
  /\ step \in {"queued", "work"} => new.status = row.status /\ new.progress = row.progress

\* jobs.py:209-245: what a report makes of a row, column by column.
LEMMA ChangedColumns ==
  ASSUME NEW row \in JobRow, NEW step \in JobSteps
  PROVE  Changed(row, step) \in JobRow /\ Columns(row, step, Changed(row, step))
<1> DEFINE status == CASE step = "start" -> "running" [] step = "succeed" -> "succeeded"
                       [] step = "fail" -> "failed" [] step = "cancelled" -> "cancelled"
                       [] OTHER -> row.status
           progress == CASE step = "start" -> 5 [] step = "progress" -> 50
                         [] step = "succeed" -> 100 [] OTHER -> row.progress
           started == row.started \/ status = "running"
           finished == status \in Terminal
           error == step = "fail"
<1>1. Changed(row, step) =
        [status |-> status, step |-> step, progress |-> progress, error |-> error,
         started |-> started, finished |-> finished,
         attempt |-> row.attempt, parent |-> row.parent]
  BY Zenon DEF Changed
<1>2. row.status \in JobStatus /\ row.progress \in {0, 5, 50, 100}
  BY DEF JobRow
<1>3. /\ step = "start" => status = "running" /\ progress = 5
      /\ step = "succeed" => status = "succeeded" /\ progress = 100
      /\ step = "fail" => status = "failed" /\ progress = row.progress
      /\ step = "cancelled" => status = "cancelled" /\ progress = row.progress
      /\ step = "progress" => status = row.status /\ progress = 50
      /\ step \in {"queued", "work"} => status = row.status /\ progress = row.progress
  OBVIOUS
<1>4. status \in JobStatus /\ progress \in {0, 5, 50, 100}
  BY <1>2, <1>3 DEF JobSteps, JobStatus, Terminal
<1>5. error \in BOOLEAN /\ finished \in BOOLEAN /\ started \in BOOLEAN
  OBVIOUS
<1>6. /\ finished <=> status \in Terminal
      /\ started <=> row.started \/ status = "running"
      /\ error <=> step = "fail"
  OBVIOUS
<1> HIDE DEF status, progress, started, finished, error
<1> DEFINE new == Changed(row, step)
<1>7. /\ new \in JobRow
      /\ new.status = status /\ new.progress = progress
      /\ new.error = error /\ new.started = started /\ new.finished = finished
  <2>1. row.attempt \in Nat /\ row.parent \in {NoJob} \cup JobIds
    BY DEF JobRow
  <2>2. new \in JobRow
    BY <1>1, <1>4, <1>5, <2>1 DEF JobRow
  <2> QED
    BY <1>1, <2>2
<1> HIDE DEF new
<1>8. Columns(row, step, new)
  BY <1>3, <1>6, <1>7 DEF Columns
<1> QED
  BY <1>7, <1>8 DEF new

LEMMA ChangedIsWhole ==
  ASSUME NEW row \in JobRow, row.status \notin Terminal, Whole(row), NEW step \in JobSteps
  PROVE  Whole(Changed(row, step))
<1> DEFINE new == Changed(row, step)
<1>1. Columns(row, step, new) /\ new \in JobRow
  BY ChangedColumns
<1> HIDE DEF new
<1>2. row.progress # 100 /\ row.status \in {"queued", "running"}
  BY DEF Whole, Terminal, JobRow, JobStatus
<1>3. (row.status = "running" => row.started) /\ (row.status = "queued" => ~row.started)
  BY DEF Whole
<1>4. ASSUME step \in {"start", "succeed", "fail", "cancelled"}
      PROVE  Whole(new)
  BY <1>1, <1>2, <1>4 DEF Columns, Whole, Terminal
<1>5. ASSUME step \in {"progress", "queued", "work"}
      PROVE  Whole(new)
  BY <1>1, <1>2, <1>3, <1>5 DEF Columns, Whole, Terminal
<1> QED
  BY <1>4, <1>5 DEF new, JobSteps

LEMMA NewJobIsWhole ==
  ASSUME NEW attempt \in Nat, NEW parent \in {NoJob} \cup JobIds
  PROVE  NewJob(attempt, parent) \in JobRow /\ Whole(NewJob(attempt, parent))
BY DEF NewJob, JobRow, JobStatus, JobSteps, Terminal, Whole

LEMMA IdleTyped ==
  /\ IdlePage \in PageState /\ IdlePage.at = "idle" /\ IdlePage.job = NoJob
  /\ NobodysRow \in JobRow
<1>1. NobodysRow \in JobRow
  BY NewJobIsWhole DEF NobodysRow
<1> QED
  BY <1>1 DEF IdlePage, PageState, PageOp, PageAt

LEMMA PlanTyped ==
  ASSUME NEW kind \in Kinds
  PROVE  Plan(kind) \in Seq(JobSteps) /\ Unfinished(Plan(kind))
<1>1. CASE kind = "profile"
  BY <1>1 DEF Plan, JobSteps, Unfinished
<1>2. CASE kind = "mapping_approval"
  BY <1>2 DEF Plan, JobSteps, Unfinished
<1>3. CASE kind \notin {"profile", "mapping_approval"}
  <2>1. Plan(kind) = <<"start", "work", "progress", "succeed">>
    BY <1>3 DEF Plan
  <2> QED
    BY <2>1 DEF JobSteps, Unfinished
<1> QED
  BY <1>1, <1>2, <1>3

\* A plan goes on after its first step unless that was the last.
LEMMA TailTyped ==
  ASSUME NEW plan \in Seq(JobSteps), Unfinished(plan)
  PROVE  /\ Head(plan) \in JobSteps /\ Tail(plan) \in Seq(JobSteps)
         /\ Tail(plan) # <<>> \/ Head(plan) = "work" => Unfinished(Tail(plan))
<1>1. /\ plan # <<>> /\ Len(plan) \in Nat /\ Len(plan) > 0
      /\ Head(plan) = plan[1] /\ Head(plan) \in JobSteps
  BY EmptySeq, HeadTailProperties DEF Unfinished
<1>2. /\ Tail(plan) \in Seq(JobSteps) /\ Len(Tail(plan)) = Len(plan) - 1
      /\ \A i \in 1..Len(Tail(plan)) : Tail(plan)[i] = plan[i + 1]
  BY <1>1, HeadTailProperties
<1>3. ASSUME Tail(plan) # <<>> \/ Head(plan) = "work"
      PROVE  Unfinished(Tail(plan))
  <2>1. Len(plan) # 1
    BY <1>1, <1>2, <1>3, EmptySeq DEF Unfinished
  <2>2. Tail(plan) # <<>>
    <3>1. Len(Tail(plan)) # 0
      BY <1>1, <1>2, <2>1
    <3>2. Len(<<>>) = 0
      OBVIOUS
    <3> QED
      BY <3>1, <3>2, Zenon
  <2>3. Len(plan) - 1 \in 1..Len(Tail(plan)) /\ Len(plan) - 1 + 1 = Len(plan)
    BY <1>1, <1>2, <2>1
  <2>4. Tail(plan)[Len(plan) - 1] = plan[Len(plan)]
    BY <1>2, <2>3
  <2> QED
    BY <1>2, <2>2, <2>4 DEF Unfinished
<1> QED
  BY <1>1, <1>2, <1>3

----------------------------------------------------------------------------
LEMMA UsedIsInterval ==
  ASSUME TableGood
  PROVE  Used = 1..Len(jobs) /\ Used \subseteq JobIds /\ Len(jobs) \in Nat
BY MaxJobsAssumption DEF TableGood, Used, JobIds

\* One page changes, and the table only grows.
LEMMA OnePageChanges ==
  ASSUME PagesGood, NEW p \in Pages, NEW new, page' = [page EXCEPT ![p] = new],
         PageGood(new, Used'), Used \subseteq Used'
  PROVE  PagesGood'
<1>1. new \in PageState
  BY DEF PageGood
<1>2. page' \in [Pages -> PageState]
  BY <1>1 DEF PagesGood
<1>3. ASSUME NEW q \in Pages
      PROVE  PageGood(page'[q], Used')
  <2>1. CASE q = p
    BY <2>1 DEF PagesGood
  <2>2. CASE q # p
    <3>1. page'[q] = page[q]
      BY <2>2 DEF PagesGood
    <3>2. PageGood(page[q], Used)
      BY DEF PagesGood
    <3>3. PageGood(page[q], Used')
      BY <3>2 DEF PageGood
    <3> QED
      BY <3>1, <3>3
  <2> QED
    BY <2>1, <2>2
<1> QED
  BY <1>2, <1>3 DEF PagesGood

LEMMA IdleIsGood ==
  ASSUME NEW used
  PROVE  PageGood(IdlePage, used)
BY IdleTyped DEF PageGood

LEMMA TableKept ==
  ASSUME TableGood, UNCHANGED <<jobs, worked, dropped>>
  PROVE  TableGood' /\ Used' = Used
BY DEF TableGood, RowsAreWhole, Used

LEMMA LeaveIsGood ==
  ASSUME PagesGood, NEW p \in Pages, Leave(p), Used \subseteq Used'
  PROVE  PagesGood'
BY OnePageChanges, IdleIsGood DEF Leave

----------------------------------------------------------------------------
LEMMA PressStep ==
  ASSUME JobsInv, NEW p \in Pages, NEW kind \in Kinds, Press(p, kind)
  PROVE  JobsInv'
<1> DEFINE new == [IdlePage EXCEPT !.op = "workflow", !.at = "create", !.plan = Plan(kind)]
<1>1. TableGood' /\ Used' = Used
  BY TableKept DEF JobsInv, Press
<1>2. page' = [page EXCEPT ![p] = new]
  BY DEF Press
<1>3. Whole(NobodysRow) /\ NobodysRow \in JobRow
  BY NewJobIsWhole DEF NobodysRow
<1>4. Plan(kind) \in Seq(JobSteps) /\ Unfinished(Plan(kind))
  BY PlanTyped
<1>5. /\ new.op = "workflow" /\ new.at = "create" /\ new.plan = Plan(kind)
      /\ new.job = NoJob /\ new.row = NobodysRow /\ new \in PageState
  BY <1>3, <1>4 DEF IdlePage, PageState, PageOp, PageAt
<1> HIDE DEF new
<1>6. PageGood(new, Used')
  BY <1>3, <1>4, <1>5 DEF PageGood
<1> QED
  BY <1>1, <1>2, <1>6, OnePageChanges DEF JobsInv

LEMMA CancelStep ==
  ASSUME JobsInv, NEW p \in Pages, NEW j \in JobIds, PressCancel(p, j)
  PROVE  JobsInv'
<1> DEFINE new == [IdlePage EXCEPT !.op = "cancel", !.at = "read", !.job = j, !.plan = <<"cancelled">>]
<1>1. TableGood' /\ Used' = Used
  BY TableKept DEF JobsInv, PressCancel
<1>2. page' = [page EXCEPT ![p] = new] /\ j \in Used
  BY DEF PressCancel
<1>3. <<"cancelled">> \in Seq(JobSteps) /\ Unfinished(<<"cancelled">>)
  BY DEF JobSteps, Unfinished
<1>4. /\ new.op = "cancel" /\ new.at = "read" /\ new.plan = <<"cancelled">> /\ new.job = j
      /\ new \in PageState
  BY <1>3, IdleTyped DEF IdlePage, PageState, PageOp, PageAt
<1> HIDE DEF new
<1>5. PageGood(new, Used')
  BY <1>1, <1>2, <1>3, <1>4 DEF PageGood
<1> QED
  BY <1>1, <1>2, <1>5, OnePageChanges DEF JobsInv

LEMMA RetryStep ==
  ASSUME JobsInv, NEW p \in Pages, NEW j \in JobIds, PressRetry(p, j)
  PROVE  JobsInv'
<1> DEFINE row == NewJob(jobs[j].attempt + 1, j)
           new == [IdlePage EXCEPT !.op = "retry", !.at = "create", !.row = row]
<1>1. TableGood' /\ Used' = Used
  BY TableKept DEF JobsInv, PressRetry
<1>2. page' = [page EXCEPT ![p] = new] /\ j \in Used
  BY DEF PressRetry
<1>3. jobs[j].attempt + 1 \in Nat
  <2>1. jobs[j] \in JobRow
    BY <1>2, UsedIsInterval DEF JobsInv, TableGood
  <2> QED
    BY <2>1 DEF JobRow
<1>4. row \in JobRow /\ Whole(row)
  BY <1>3, NewJobIsWhole
<1> HIDE DEF row
<1>5. /\ new.op = "retry" /\ new.at = "create" /\ new.job = NoJob /\ new.row = row
      /\ new \in PageState
  BY <1>4, IdleTyped DEF IdlePage, PageState, PageOp, PageAt
<1> HIDE DEF new
<1>6. PageGood(new, Used')
  BY <1>4, <1>5 DEF PageGood
<1> QED
  BY <1>1, <1>2, <1>6, OnePageChanges DEF JobsInv

LEMMA CreateStep ==
  ASSUME JobsInv, NEW p \in Pages, CreateJob(p)
  PROVE  JobsInv'
<1>1. /\ page[p].at = "create" /\ Len(jobs) < MaxJobs /\ jobs' = Append(jobs, page[p].row)
      /\ worked' = worked /\ dropped' = dropped
  BY DEF CreateJob, PageIs
<1>2. /\ Whole(page[p].row) /\ page[p].row \in JobRow /\ page[p] \in PageState
      /\ page[p].op # "retry" => Unfinished(page[p].plan)
  BY <1>1 DEF JobsInv, PagesGood, PageGood, PageState
<1>3. jobs \in Seq(JobRow) /\ Len(jobs) \in Nat
  BY DEF JobsInv, TableGood
<1>4. /\ jobs' \in Seq(JobRow) /\ Len(jobs') = Len(jobs) + 1
      /\ \A i \in 1..Len(jobs) : jobs'[i] = jobs[i]
      /\ jobs'[Len(jobs) + 1] = page[p].row
  BY <1>1, <1>2, <1>3, AppendProperties
<1>5. /\ Used = 1..Len(jobs) /\ Used' = 1..(Len(jobs) + 1)
      /\ Used \subseteq Used' /\ Len(jobs) + 1 \in Used'
  BY <1>3, <1>4 DEF Used
<1>6. RowsAreWhole'
  <2>1. ASSUME NEW i \in Used'
        PROVE  Whole(jobs'[i])
    <3>1. CASE i \in Used
      BY <1>4, <1>5, <3>1 DEF JobsInv, TableGood, RowsAreWhole
    <3>2. CASE i = Len(jobs) + 1
      BY <1>2, <1>4, <3>2
    <3> QED
      BY <1>3, <1>5, <3>1, <3>2
  <2> QED
    BY <2>1 DEF RowsAreWhole
<1>7. TableGood'
  BY <1>1, <1>3, <1>4, <1>5, <1>6, MaxJobsAssumption DEF JobsInv, TableGood
<1>8. PagesGood'
  <2>1. CASE page[p].op = "retry"
    BY <1>5, <2>1, LeaveIsGood DEF JobsInv, CreateJob
  <2>2. CASE page[p].op # "retry"
    <3> DEFINE new == [page[p] EXCEPT !.job = Len(jobs) + 1, !.at = "read"]
    <3>1. page' = [page EXCEPT ![p] = new]
      BY <2>2 DEF CreateJob, JobsInv, PagesGood
    <3>2. Len(jobs) + 1 \in JobIds
      BY <1>1, <1>3, MaxJobsAssumption DEF JobIds
    <3>3. /\ new \in PageState /\ new.job = Len(jobs) + 1 /\ new.at = "read"
          /\ new.plan = page[p].plan
      BY <1>2, <3>2 DEF PageState, PageAt
    <3> HIDE DEF new
    <3>4. PageGood(new, Used')
      BY <1>2, <1>5, <2>2, <3>3 DEF PageGood
    <3> QED
      BY <1>5, <3>1, <3>4, OnePageChanges DEF JobsInv
  <2> QED
    BY <2>1, <2>2
<1> QED
  BY <1>7, <1>8 DEF JobsInv

LEMMA ReadStep ==
  ASSUME JobsInv, NEW p \in Pages, ReadJob(p)
  PROVE  JobsInv'
<1> DEFINE j == page[p].job
           row == Changed(jobs[j], Head(page[p].plan))
<1>1. TableGood' /\ Used' = Used
  BY TableKept DEF JobsInv, ReadJob
<1>2. /\ page[p] \in PageState /\ j \in Used /\ Unfinished(page[p].plan)
      /\ page[p].plan \in Seq(JobSteps)
  BY DEF JobsInv, PagesGood, PageGood, PageState, ReadJob, PageIs
<1>3. jobs[j] \in JobRow /\ Whole(jobs[j])
  BY <1>2, UsedIsInterval DEF JobsInv, TableGood, RowsAreWhole
<1>4. CASE jobs[j].status \in Terminal
  <2>1. AfterRaise(p)
    BY <1>4 DEF ReadJob
  <2>2. CASE page[p].op = "workflow" /\ Head(page[p].plan) # "fail"
    <3> DEFINE new == [page[p] EXCEPT !.plan = <<"fail">>, !.at = "read"]
    <3>1. page' = [page EXCEPT ![p] = new]
      BY <2>1, <2>2 DEF AfterRaise, JobsInv, PagesGood
    <3>2. <<"fail">> \in Seq(JobSteps) /\ Unfinished(<<"fail">>)
      BY DEF JobSteps, Unfinished
    <3>3. /\ new \in PageState /\ new.job = j /\ new.at = "read" /\ new.plan = <<"fail">>
      BY <1>2, <3>2 DEF PageState, PageAt
    <3> HIDE DEF new
    <3>4. PageGood(new, Used')
      BY <1>1, <1>2, <3>2, <3>3 DEF PageGood
    <3> QED
      BY <1>1, <3>1, <3>4, OnePageChanges DEF JobsInv
  <2>3. CASE ~(page[p].op = "workflow" /\ Head(page[p].plan) # "fail")
    BY <1>1, <2>1, <2>3, LeaveIsGood DEF AfterRaise, JobsInv
  <2> QED
    BY <1>1, <2>2, <2>3 DEF JobsInv
<1>5. CASE jobs[j].status \notin Terminal
  <2> DEFINE new == [page[p] EXCEPT !.at = "write", !.row = row]
  <2>1. page' = [page EXCEPT ![p] = new]
    BY <1>5 DEF ReadJob, JobsInv, PagesGood
  <2>2. row \in JobRow /\ Whole(row)
    BY <1>2, <1>3, <1>5, TailTyped, ChangedColumns, ChangedIsWhole
  <2> HIDE DEF row
  <2>3. /\ new \in PageState /\ new.job = j /\ new.at = "write" /\ new.row = row
        /\ new.plan = page[p].plan
    BY <1>2, <2>2 DEF PageState, PageAt
  <2> HIDE DEF new
  <2>4. PageGood(new, Used')
    BY <1>1, <1>2, <2>2, <2>3 DEF PageGood
  <2> QED
    BY <1>1, <2>1, <2>4, OnePageChanges DEF JobsInv
<1> QED
  BY <1>4, <1>5

LEMMA WriteStep ==
  ASSUME JobsInv, NEW p \in Pages, WriteJob(p)
  PROVE  JobsInv'
<1> DEFINE j == page[p].job
           rest == Tail(page[p].plan)
<1>1. /\ page[p] \in PageState /\ j \in Used /\ Unfinished(page[p].plan)
      /\ page[p].plan \in Seq(JobSteps) /\ Whole(page[p].row) /\ page[p].row \in JobRow
  BY DEF JobsInv, PagesGood, PageGood, PageState, WriteJob, PageIs
<1>2. /\ jobs' = [jobs EXCEPT ![j] = page[p].row] /\ worked' = worked /\ dropped' = dropped
  BY DEF WriteJob
<1>3. jobs \in Seq(JobRow) /\ Used = 1..Len(jobs)
  BY UsedIsInterval DEF JobsInv, TableGood
<1>4. jobs' \in Seq(JobRow) /\ Len(jobs') = Len(jobs) /\ Used' = Used
  BY <1>1, <1>2, <1>3, ExceptSeq DEF Used
<1>5. RowsAreWhole'
  <2>1. ASSUME NEW i \in Used
        PROVE  Whole(jobs'[i])
    <3>1. CASE i = j
      BY <1>1, <1>2, <1>3, <3>1
    <3>2. CASE i # j
      BY <1>2, <1>3, <3>2 DEF JobsInv, TableGood, RowsAreWhole
    <3> QED
      BY <3>1, <3>2
  <2> QED
    BY <1>4, <2>1 DEF RowsAreWhole
<1>6. TableGood'
  BY <1>2, <1>4, <1>5 DEF JobsInv, TableGood
<1>7. PagesGood'
  <2>1. CASE rest = <<>>
    BY <1>4, <2>1, LeaveIsGood DEF WriteJob, Proceed, JobsInv
  <2>2. CASE rest # <<>>
    <3> DEFINE at == IF Head(rest) = "work" THEN "work" ELSE "read"
               new == [page[p] EXCEPT !.plan = rest, !.row = NobodysRow, !.at = at]
    <3>1. page' = [page EXCEPT ![p] = new]
      BY <2>2 DEF WriteJob, Proceed, JobsInv, PagesGood
    <3>2. rest \in Seq(JobSteps) /\ Unfinished(rest)
      BY <1>1, <2>2, TailTyped
    <3>3. at \in {"work", "read"} /\ (at = "work" => Head(rest) = "work")
      OBVIOUS
    <3> HIDE DEF at, rest
    <3>4. /\ new \in PageState /\ new.job = j /\ new.at = at /\ new.plan = rest
      BY <1>1, <3>2, <3>3, IdleTyped DEF PageState, PageAt
    <3> HIDE DEF new
    <3>5. PageGood(new, Used')
      BY <1>1, <1>4, <3>2, <3>3, <3>4 DEF PageGood
    <3> QED
      BY <1>4, <3>1, <3>5, OnePageChanges DEF JobsInv
  <2> QED
    BY <2>1, <2>2
<1> QED
  BY <1>6, <1>7 DEF JobsInv

LEMMA WorkStep ==
  ASSUME JobsInv, NEW p \in Pages, Work(p)
  PROVE  JobsInv'
<1> DEFINE j == page[p].job
<1>1. /\ page[p] \in PageState /\ j \in Used /\ Unfinished(page[p].plan)
      /\ page[p].plan \in Seq(JobSteps) /\ Head(page[p].plan) = "work"
  BY DEF JobsInv, PagesGood, PageGood, PageState, Work, PageIs
<1>2. PICK ok \in BOOLEAN : page' = [page EXCEPT ![p] = AfterWork(p, ok)]
  BY DEF Work
<1>3. /\ jobs' = jobs /\ dropped' = dropped /\ Used' = Used
      /\ worked' \subseteq worked \cup {j}
  BY DEF Work, Used
<1>4. TableGood'
  BY <1>1, <1>3 DEF JobsInv, TableGood, RowsAreWhole
<1> DEFINE plan == IF ok THEN Tail(page[p].plan) ELSE <<"fail">>
           new == AfterWork(p, ok)
<1>5. plan \in Seq(JobSteps) /\ Unfinished(plan)
  <2>1. CASE ok
    BY <1>1, <2>1, TailTyped
  <2>2. CASE ~ok
    BY <2>2 DEF JobSteps, Unfinished
  <2> QED
    BY <2>1, <2>2
<1>6. new = [page[p] EXCEPT !.plan = plan, !.at = "read"]
  BY <1>1 DEF AfterWork, PageState
<1> HIDE DEF plan, new
<1>7. new \in PageState /\ new.job = j /\ new.at = "read" /\ new.plan = plan
  BY <1>1, <1>5, <1>6 DEF PageState, PageAt
<1>8. PageGood(new, Used')
  BY <1>1, <1>3, <1>5, <1>7 DEF PageGood
<1>9. page' = [page EXCEPT ![p] = new]
  BY <1>2 DEF new
<1> QED
  BY <1>3, <1>4, <1>8, <1>9, OnePageChanges DEF JobsInv

LEMMA StopStep ==
  ASSUME JobsInv, NEW p \in Pages, StopScript(p)
  PROVE  JobsInv'
<1>1. page[p].job \in Used \cup {NoJob}
  BY DEF JobsInv, PagesGood, PageGood
<1>2. /\ jobs' = jobs /\ worked' = worked /\ Used' = Used
      /\ dropped' \subseteq dropped \cup {page[p].job}
  BY DEF StopScript, Used
<1>3. TableGood'
  BY <1>1, <1>2 DEF JobsInv, TableGood, RowsAreWhole
<1>4. PagesGood'
  BY <1>2, LeaveIsGood DEF JobsInv, StopScript
<1> QED
  BY <1>3, <1>4 DEF JobsInv

----------------------------------------------------------------------------
LEMMA JobsInvInit ==
  ASSUME JobsInit
  PROVE  JobsInv
<1>1. jobs = <<>> /\ worked = {} /\ dropped = {} /\ Used = {}
  BY DEF JobsInit, Used
<1>2. TableGood
  BY <1>1, MaxJobsAssumption DEF TableGood, RowsAreWhole
<1>3. PagesGood
  BY IdleTyped, IdleIsGood DEF JobsInit, PagesGood
<1> QED
  BY <1>2, <1>3 DEF JobsInv

LEMMA JobsInvStep ==
  ASSUME JobsInv, [JobsNext]_jobVars
  PROVE  JobsInv'
<1>1. CASE UNCHANGED jobVars
  BY <1>1 DEF JobsInv, TableGood, PagesGood, RowsAreWhole, Used, jobVars
<1>2. ASSUME NEW p \in Pages, Click(p)
      PROVE  JobsInv'
  BY <1>2, PressStep, CancelStep, RetryStep DEF Click
<1>3. ASSUME NEW p \in Pages, RunScript(p)
      PROVE  JobsInv'
  BY <1>3, CreateStep, ReadStep, WriteStep, WorkStep DEF RunScript
<1> QED
  BY <1>1, <1>2, <1>3, StopStep DEF JobsNext

LEMMA JobsInvariant == JobsSpec => []JobsInv
BY JobsInvInit, JobsInvStep, PTL DEF JobsSpec

\* The tables and the pages keep their types (jobs.py:60-90).
THEOREM TypeCorrect == JobsSpec => []JobsTypeOK
<1>1. JobsInv => JobsTypeOK
  BY DEF JobsInv, TableGood, PagesGood, PageGood, JobsTypeOK
<1> QED
  BY <1>1, JobsInvariant, PTL

\* jobs.py:209-245: whatever scripts, cancels and retries write between the
\* read and the UPDATE of another, a row shows one update in full.
THEOREM RowsStayWhole == JobsSpec => []RowsAreWhole
<1>1. JobsInv => RowsAreWhole
  BY DEF JobsInv, TableGood
<1> QED
  BY <1>1, JobsInvariant, PTL

----------------------------------------------------------------------------
\* A plan that reports success has the work before that report, and works once.
WorksFirst(plan) ==
  \A i \in 1..Len(plan) : plan[i] = "succeed" => \E k \in 1..(i - 1) : plan[k] = "work"
WorksOnce(plan) ==
  \A i, k \in 1..Len(plan) : plan[i] = "work" /\ plan[k] = "work" => i = k

\* What a page will still report of its job is, or will then be, true.
PageTrue(pg, done) ==
  /\ pg.at \in {"read", "write", "work"} =>
       WorksOnce(pg.plan) /\ (pg.job \in done \/ WorksFirst(pg.plan))
  /\ pg.at \in {"read", "write"} => Head(pg.plan) # "work"
  /\ pg.at = "create" /\ pg.op # "retry" => \E kind \in Kinds : pg.plan = Plan(kind)
  /\ pg.at = "create" => pg.row.status # "succeeded"
  /\ pg.at = "write" /\ pg.row.status = "succeeded" => pg.job \in done

TrueInv == SucceededIsDone /\ \A p \in Pages : PageTrue(page[p], worked)

LEMMA PlanIsTrue ==
  ASSUME NEW kind \in Kinds
  PROVE  WorksFirst(Plan(kind)) /\ WorksOnce(Plan(kind)) /\ Head(Plan(kind)) # "work"
<1>1. CASE kind = "profile"
  <2>1. Plan(kind) = <<"start", "progress", "work", "succeed">>
    BY <1>1 DEF Plan
  <2> QED
    BY <2>1 DEF WorksFirst, WorksOnce
<1>2. CASE kind = "mapping_approval"
  <2>1. Plan(kind) = <<"start", "work", "succeed">>
    BY <1>2 DEF Plan
  <2> QED
    BY <2>1 DEF WorksFirst, WorksOnce
<1>3. CASE kind \notin {"profile", "mapping_approval"}
  <2>1. Plan(kind) = <<"start", "work", "progress", "succeed">>
    BY <1>3 DEF Plan
  <2> QED
    BY <2>1 DEF WorksFirst, WorksOnce
<1> QED
  BY <1>1, <1>2, <1>3

LEMMA OneReportIsTrue ==
  ASSUME NEW step \in {"fail", "cancelled"}
  PROVE  WorksFirst(<<step>>) /\ WorksOnce(<<step>>) /\ Head(<<step>>) # "work"
BY DEF WorksFirst, WorksOnce

LEMMA TailIsTrue ==
  ASSUME NEW plan \in Seq(JobSteps), Unfinished(plan), WorksOnce(plan)
  PROVE  /\ WorksOnce(Tail(plan))
         /\ Head(plan) # "work" /\ WorksFirst(plan) => WorksFirst(Tail(plan))
         /\ Head(plan) = "work" => Head(Tail(plan)) # "work"
<1>1. /\ plan # <<>> /\ Len(plan) \in Nat /\ Len(plan) > 0 /\ Head(plan) = plan[1]
  BY EmptySeq DEF Unfinished
<1>2. /\ Tail(plan) \in Seq(JobSteps) /\ Len(Tail(plan)) = Len(plan) - 1
      /\ \A i \in 1..Len(Tail(plan)) : Tail(plan)[i] = plan[i + 1]
  BY <1>1, HeadTailProperties
<1>3. WorksOnce(Tail(plan))
  <2> SUFFICES ASSUME NEW i \in 1..Len(Tail(plan)), NEW k \in 1..Len(Tail(plan)),
                      Tail(plan)[i] = "work", Tail(plan)[k] = "work"
               PROVE  i = k
    BY DEF WorksOnce
  <2>1. /\ i + 1 \in 1..Len(plan) /\ plan[i + 1] = "work"
        /\ k + 1 \in 1..Len(plan) /\ plan[k + 1] = "work"
    BY <1>1, <1>2
  <2>2. i + 1 = k + 1
    BY <2>1 DEF WorksOnce
  <2> QED
    BY <2>2
<1>4. ASSUME Head(plan) # "work", WorksFirst(plan)
      PROVE  WorksFirst(Tail(plan))
  <2> SUFFICES ASSUME NEW i \in 1..Len(Tail(plan)), Tail(plan)[i] = "succeed"
               PROVE  \E k \in 1..(i - 1) : Tail(plan)[k] = "work"
    BY DEF WorksFirst
  <2>1. i + 1 \in 1..Len(plan) /\ plan[i + 1] = "succeed"
    BY <1>1, <1>2
  <2>2. PICK k \in 1..i : plan[k] = "work"
    BY <1>4, <2>1 DEF WorksFirst
  <2>3. k # 1
    BY <1>1, <1>4, <2>2
  <2>4. k - 1 \in 1..(i - 1) /\ k - 1 \in 1..Len(Tail(plan)) /\ (k - 1) + 1 = k
    BY <1>1, <1>2, <2>2, <2>3
  <2>5. Tail(plan)[k - 1] = "work"
    BY <1>2, <2>2, <2>4
  <2> QED
    BY <2>4, <2>5
<1>5. ASSUME Head(plan) = "work"
      PROVE  Head(Tail(plan)) # "work"
  <2>1. Tail(plan) # <<>> /\ Len(Tail(plan)) \in Nat
    BY <1>2, <1>5, TailTyped DEF Unfinished
  <2>2. Head(Tail(plan)) = Tail(plan)[1] /\ 1 \in 1..Len(Tail(plan))
    BY <1>2, <2>1, EmptySeq
  <2>3. Tail(plan)[1] = plan[2] /\ 2 \in 1..Len(plan) /\ 1 \in 1..Len(plan)
    BY <1>1, <1>2, <2>2
  <2>4. plan[2] # "work"
    BY <1>1, <1>5, <2>3 DEF WorksOnce
  <2> QED
    BY <2>2, <2>3, <2>4
<1> QED
  BY <1>3, <1>4, <1>5

\* One page changes, and work that is done stays done.
LEMMA OnePageTrue ==
  ASSUME PagesGood, \A p \in Pages : PageTrue(page[p], worked), NEW p \in Pages, NEW new,
         page' = [page EXCEPT ![p] = new], PageTrue(new, worked'), worked \subseteq worked'
  PROVE  \A q \in Pages : PageTrue(page'[q], worked')
<1> SUFFICES ASSUME NEW q \in Pages
             PROVE  PageTrue(page'[q], worked')
  OBVIOUS
<1>1. CASE q = p
  BY <1>1 DEF PagesGood
<1>2. CASE q # p
  <2>1. page'[q] = page[q]
    BY <1>2 DEF PagesGood
  <2>2. PageTrue(page[q], worked)
    OBVIOUS
  <2>3. PageTrue(page[q], worked')
    BY <2>2 DEF PageTrue
  <2> QED
    BY <2>1, <2>3
<1> QED
  BY <1>1, <1>2

LEMMA IdleIsTrue ==
  ASSUME NEW done
  PROVE  PageTrue(IdlePage, done)
BY IdleTyped DEF PageTrue

LEMMA TableTrue ==
  ASSUME SucceededIsDone, UNCHANGED jobs, worked \subseteq worked'
  PROVE  SucceededIsDone'
BY DEF SucceededIsDone, Used

LEMMA ClickIsTrue ==
  ASSUME JobsInv, TrueInv, NEW p \in Pages, Click(p)
  PROVE  TrueInv'
<1>1. SucceededIsDone' /\ worked' = worked
  BY TableTrue DEF Click, Press, PressCancel, PressRetry, TrueInv
<1>2. ASSUME NEW kind \in Kinds, Press(p, kind)
      PROVE  TrueInv'
  <2> DEFINE new == [IdlePage EXCEPT !.op = "workflow", !.at = "create", !.plan = Plan(kind)]
  <2>1. page' = [page EXCEPT ![p] = new]
    BY <1>2 DEF Press
  <2>2. /\ new.at = "create" /\ new.plan = Plan(kind) /\ new.row.status = "queued"
    BY DEF IdlePage, NobodysRow, NewJob
  <2> HIDE DEF new
  <2>3. PageTrue(new, worked')
    BY <2>2 DEF PageTrue
  <2> QED
    BY <1>1, <2>1, <2>3, OnePageTrue DEF TrueInv, JobsInv
<1>3. ASSUME NEW j \in JobIds, PressCancel(p, j)
      PROVE  TrueInv'
  <2> DEFINE new == [IdlePage EXCEPT !.op = "cancel", !.at = "read", !.job = j,
                                     !.plan = <<"cancelled">>]
  <2>1. page' = [page EXCEPT ![p] = new]
    BY <1>3 DEF PressCancel
  <2>2. new.at = "read" /\ new.plan = <<"cancelled">>
    BY DEF IdlePage
  <2> HIDE DEF new
  <2>3. PageTrue(new, worked')
    BY <2>2, OneReportIsTrue DEF PageTrue
  <2> QED
    BY <1>1, <2>1, <2>3, OnePageTrue DEF TrueInv, JobsInv
<1>4. ASSUME NEW j \in JobIds, PressRetry(p, j)
      PROVE  TrueInv'
  <2> DEFINE row == NewJob(jobs[j].attempt + 1, j)
             new == [IdlePage EXCEPT !.op = "retry", !.at = "create", !.row = row]
  <2>1. page' = [page EXCEPT ![p] = new]
    BY <1>4 DEF PressRetry
  <2>2. row.status = "queued"
    BY DEF NewJob
  <2> HIDE DEF row
  <2>3. new.at = "create" /\ new.op = "retry" /\ new.row = row
    BY DEF IdlePage
  <2> HIDE DEF new
  <2>4. PageTrue(new, worked')
    BY <2>2, <2>3 DEF PageTrue
  <2> QED
    BY <1>1, <2>1, <2>4, OnePageTrue DEF TrueInv, JobsInv
<1> QED
  BY <1>2, <1>3, <1>4 DEF Click

LEMMA LeaveIsTrue ==
  ASSUME JobsInv, TrueInv, NEW p \in Pages, Leave(p), UNCHANGED worked
  PROVE  \A q \in Pages : PageTrue(page'[q], worked')
<1>1. PageTrue(IdlePage, worked') /\ worked \subseteq worked'
  BY IdleIsTrue
<1>2. page' = [page EXCEPT ![p] = IdlePage]
  BY DEF Leave
<1> QED
  BY <1>1, <1>2, OnePageTrue DEF JobsInv, TrueInv

LEMMA CreateIsTrue ==
  ASSUME JobsInv, TrueInv, NEW p \in Pages, CreateJob(p)
  PROVE  TrueInv'
<1>1. /\ page[p].at = "create" /\ jobs' = Append(jobs, page[p].row) /\ worked' = worked
      /\ page[p] \in PageState /\ page[p].row \in JobRow /\ page[p].row.status # "succeeded"
  BY DEF CreateJob, PageIs, JobsInv, PagesGood, PageState, TrueInv, PageTrue
<1>2. jobs \in Seq(JobRow) /\ Len(jobs) \in Nat
  BY DEF JobsInv, TableGood
<1>3. /\ Len(jobs') = Len(jobs) + 1 /\ jobs' \in Seq(JobRow)
      /\ \A i \in 1..Len(jobs) : jobs'[i] = jobs[i]
      /\ jobs'[Len(jobs) + 1] = page[p].row
  BY <1>1, <1>2, AppendProperties
<1>4. SucceededIsDone'
  <2>1. ASSUME NEW i \in Used', jobs'[i].status = "succeeded"
        PROVE  i \in worked
    <3>1. i \in 1..(Len(jobs) + 1)
      BY <1>3 DEF Used
    <3>2. i # Len(jobs) + 1
      BY <1>1, <1>3, <2>1
    <3>3. i \in Used /\ jobs'[i] = jobs[i]
      BY <1>2, <1>3, <3>1, <3>2 DEF Used
    <3> QED
      BY <2>1, <3>3 DEF TrueInv, SucceededIsDone
  <2> QED
    BY <1>1, <2>1 DEF SucceededIsDone
<1>5. CASE page[p].op = "retry"
  BY <1>1, <1>4, <1>5, LeaveIsTrue DEF CreateJob, TrueInv
<1>6. CASE page[p].op # "retry"
  <2> DEFINE new == [page[p] EXCEPT !.job = Len(jobs) + 1, !.at = "read"]
  <2>1. page' = [page EXCEPT ![p] = new]
    BY <1>6 DEF CreateJob, JobsInv, PagesGood
  <2>2. PICK kind \in Kinds : page[p].plan = Plan(kind)
    BY <1>1, <1>6 DEF TrueInv, PageTrue
  <2>3. new.at = "read" /\ new.plan = Plan(kind)
    BY <1>1, <2>2 DEF PageState
  <2> HIDE DEF new
  <2>4. PageTrue(new, worked')
    BY <2>3, PlanIsTrue DEF PageTrue
  <2> QED
    BY <1>1, <1>4, <2>1, <2>4, OnePageTrue DEF TrueInv, JobsInv
<1> QED
  BY <1>5, <1>6

LEMMA ReadIsTrue ==
  ASSUME JobsInv, TrueInv, NEW p \in Pages, ReadJob(p)
  PROVE  TrueInv'
<1> DEFINE j == page[p].job
           plan == page[p].plan
           row == Changed(jobs[j], Head(plan))
<1>1. SucceededIsDone' /\ worked' = worked
  BY TableTrue DEF ReadJob, TrueInv
<1>2. /\ page[p] \in PageState /\ j \in Used /\ Unfinished(plan) /\ plan \in Seq(JobSteps)
      /\ WorksOnce(plan) /\ (j \in worked \/ WorksFirst(plan)) /\ Head(plan) # "work"
  BY DEF JobsInv, PagesGood, PageGood, PageState, TrueInv, PageTrue, ReadJob, PageIs
<1>3. CASE jobs[j].status \in Terminal
  <2>1. AfterRaise(p)
    BY <1>3 DEF ReadJob
  <2>2. CASE page[p].op = "workflow" /\ Head(plan) # "fail"
    <3> DEFINE new == [page[p] EXCEPT !.plan = <<"fail">>, !.at = "read"]
    <3>1. page' = [page EXCEPT ![p] = new]
      BY <2>1, <2>2 DEF AfterRaise, JobsInv, PagesGood
    <3>2. new.at = "read" /\ new.plan = <<"fail">>
      BY <1>2 DEF PageState
    <3> HIDE DEF new
    <3>3. PageTrue(new, worked')
      BY <3>2, OneReportIsTrue DEF PageTrue
    <3> QED
      BY <1>1, <3>1, <3>3, OnePageTrue DEF TrueInv, JobsInv
  <2>3. CASE ~(page[p].op = "workflow" /\ Head(plan) # "fail")
    BY <1>1, <2>1, <2>3, LeaveIsTrue DEF AfterRaise, TrueInv
  <2> QED
    BY <2>2, <2>3
<1>4. CASE jobs[j].status \notin Terminal
  <2> DEFINE new == [page[p] EXCEPT !.at = "write", !.row = row]
  <2>1. page' = [page EXCEPT ![p] = new]
    BY <1>4 DEF ReadJob, JobsInv, PagesGood
  <2>2. jobs[j] \in JobRow /\ Head(plan) \in JobSteps
    BY <1>2, UsedIsInterval, TailTyped DEF JobsInv, TableGood
  <2>3. Columns(jobs[j], Head(plan), row)
    BY <2>2, ChangedColumns
  <2>4. row.status = "succeeded" => Head(plan) = "succeed"
    <3> HIDE DEF row
    <3> QED
      BY <1>4, <2>2, <2>3 DEF Columns, JobSteps, Terminal
  <2>5. Head(plan) = "succeed" => j \in worked
    <3>1. Len(plan) \in Nat /\ Len(plan) > 0 /\ plan[1] = Head(plan)
      BY <1>2, EmptySeq DEF Unfinished
    <3>2. WorksFirst(plan) => Head(plan) # "succeed"
      BY <3>1 DEF WorksFirst
    <3> QED
      BY <1>2, <3>2
  <2> HIDE DEF row
  <2>6. /\ new.at = "write" /\ new.row = row /\ new.plan = plan /\ new.job = j
    BY <1>2 DEF PageState
  <2> HIDE DEF new
  <2>7. PageTrue(new, worked')
    BY <1>1, <1>2, <2>4, <2>5, <2>6 DEF PageTrue
  <2> QED
    BY <1>1, <2>1, <2>7, OnePageTrue DEF TrueInv, JobsInv
<1> QED
  BY <1>3, <1>4

LEMMA WriteIsTrue ==
  ASSUME JobsInv, TrueInv, NEW p \in Pages, WriteJob(p)
  PROVE  TrueInv'
<1> DEFINE j == page[p].job
           plan == page[p].plan
           rest == Tail(plan)
<1>1. /\ page[p] \in PageState /\ j \in Used /\ Unfinished(plan) /\ plan \in Seq(JobSteps)
      /\ WorksOnce(plan) /\ (j \in worked \/ WorksFirst(plan)) /\ Head(plan) # "work"
      /\ page[p].row.status = "succeeded" => j \in worked
  BY DEF JobsInv, PagesGood, PageGood, PageState, TrueInv, PageTrue, WriteJob, PageIs
<1>2. jobs' = [jobs EXCEPT ![j] = page[p].row] /\ worked' = worked
  BY DEF WriteJob
<1>3. jobs \in Seq(JobRow) /\ Used = 1..Len(jobs) /\ page[p].row \in JobRow
  BY <1>1, UsedIsInterval DEF JobsInv, TableGood, PageState
<1>4. SucceededIsDone'
  <2>1. Used' = Used
    BY <1>1, <1>2, <1>3, ExceptSeq DEF Used
  <2>2. ASSUME NEW i \in Used, jobs'[i].status = "succeeded"
        PROVE  i \in worked
    <3>1. CASE i = j
      BY <1>1, <1>2, <1>3, <2>2, <3>1
    <3>2. CASE i # j
      BY <1>2, <1>3, <2>2, <3>2 DEF TrueInv, SucceededIsDone
    <3> QED
      BY <3>1, <3>2
  <2> QED
    BY <1>2, <2>1, <2>2 DEF SucceededIsDone
<1>5. CASE rest = <<>>
  BY <1>2, <1>4, <1>5, LeaveIsTrue DEF WriteJob, Proceed, TrueInv
<1>6. CASE rest # <<>>
  <2> DEFINE at == IF Head(rest) = "work" THEN "work" ELSE "read"
             new == [page[p] EXCEPT !.plan = rest, !.row = NobodysRow, !.at = at]
  <2>1. page' = [page EXCEPT ![p] = new]
    BY <1>6 DEF WriteJob, Proceed, JobsInv, PagesGood
  <2>2. WorksOnce(rest) /\ (j \in worked \/ WorksFirst(rest))
    BY <1>1, TailIsTrue
  <2>3. at \in {"work", "read"} /\ (at = "read" => Head(rest) # "work")
    OBVIOUS
  <2> HIDE DEF at, rest
  <2>4. new.at = at /\ new.plan = rest /\ new.job = j
    BY <1>1 DEF PageState
  <2> HIDE DEF new
  <2>5. PageTrue(new, worked')
    BY <1>2, <2>2, <2>3, <2>4 DEF PageTrue
  <2> QED
    BY <1>2, <1>4, <2>1, <2>5, OnePageTrue DEF TrueInv, JobsInv
<1> QED
  BY <1>5, <1>6

LEMMA WorkIsTrue ==
  ASSUME JobsInv, TrueInv, NEW p \in Pages, Work(p)
  PROVE  TrueInv'
<1> DEFINE j == page[p].job
           plan == page[p].plan
<1>1. /\ page[p] \in PageState /\ Unfinished(plan) /\ plan \in Seq(JobSteps)
      /\ WorksOnce(plan) /\ Head(plan) = "work"
  BY DEF JobsInv, PagesGood, PageGood, PageState, TrueInv, PageTrue, Work, PageIs
<1>2. PICK ok \in BOOLEAN : /\ page' = [page EXCEPT ![p] = AfterWork(p, ok)]
                            /\ worked \subseteq worked' /\ (ok => j \in worked')
  BY DEF Work
<1>3. SucceededIsDone'
  BY <1>2, TableTrue DEF Work, TrueInv
<1> DEFINE next == IF ok THEN Tail(plan) ELSE <<"fail">>
           new == AfterWork(p, ok)
<1>4. new = [page[p] EXCEPT !.plan = next, !.at = "read"]
  BY <1>1 DEF AfterWork, PageState
<1>5. WorksOnce(next) /\ (j \in worked' \/ WorksFirst(next)) /\ Head(next) # "work"
  <2>1. CASE ok
    BY <1>1, <1>2, <2>1, TailIsTrue
  <2>2. CASE ~ok
    BY <2>2, OneReportIsTrue
  <2> QED
    BY <2>1, <2>2
<1> HIDE DEF next, new
<1>6. new.at = "read" /\ new.plan = next /\ new.job = j
  BY <1>1, <1>4 DEF PageState
<1>7. PageTrue(new, worked')
  BY <1>5, <1>6 DEF PageTrue
<1>8. page' = [page EXCEPT ![p] = new]
  BY <1>2 DEF new
<1> QED
  BY <1>2, <1>3, <1>7, <1>8, OnePageTrue DEF TrueInv, JobsInv

LEMMA StopIsTrue ==
  ASSUME JobsInv, TrueInv, NEW p \in Pages, StopScript(p)
  PROVE  TrueInv'
BY LeaveIsTrue, TableTrue DEF StopScript, TrueInv

LEMMA TrueInvStep ==
  ASSUME JobsInv, TrueInv, [JobsNext]_jobVars
  PROVE  TrueInv'
<1>1. CASE UNCHANGED jobVars
  BY <1>1 DEF TrueInv, SucceededIsDone, Used, jobVars
<1>2. ASSUME NEW p \in Pages, RunScript(p)
      PROVE  TrueInv'
  BY <1>2, CreateIsTrue, ReadIsTrue, WriteIsTrue, WorkIsTrue DEF RunScript
<1> QED
  BY <1>1, <1>2, ClickIsTrue, StopIsTrue DEF JobsNext

LEMMA TrueInvInit ==
  ASSUME JobsInit
  PROVE  TrueInv
<1>1. SucceededIsDone
  BY DEF JobsInit, SucceededIsDone, Used
<1>2. ASSUME NEW p \in Pages
      PROVE  PageTrue(page[p], worked)
  BY IdleIsTrue DEF JobsInit
<1> QED
  BY <1>1, <1>2 DEF TrueInv

\* data_sources.py:691-712, schema_studio.py:376-405: a job shown as succeeded
\* has its work done, for every plan that works before it reports.
THEOREM SuccessIsTrue == JobsSpec => []SucceededIsDone
<1>1. TrueInv => SucceededIsDone
  BY DEF TrueInv
<1> QED
  BY <1>1, JobsInvariant, TrueInvInit, TrueInvStep, PTL DEF JobsSpec
============================================================================
