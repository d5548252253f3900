---------------------------- MODULE EvaluationRun ----------------------------
(***************************************************************************)
(* evaluation/run_evaluation.py and run_correction_evaluation.py: the      *)
(* scripts that approve snapshots, score the agent and publish the numbers *)
(* of the project cip-dmd, whose old place (evaluation/metrics.json and    *)
(* results/latest.json) is kept beside the one of its own.                 *)
(*                                                                         *)
(* Nothing locks the files.  A script may be started in any terminal, and  *)
(* stopped between any two steps; a file is read or written in one.  A     *)
(* file holds the number of the run that wrote it, a snapshot the contents *)
(* of the graph it was read from, and the graph may get back contents it   *)
(* had before: the fingerprint is a hash of contents.                      *)
(***************************************************************************)
EXTENDS Naturals, Sequences, FiniteSets

CONSTANTS Terminals,         \* where scripts are started
          QuestionCount,     \* questions of the blind split, in file order
          VariantCount,      \* variants of the agent; the last one corrects
          MaxData, MaxRuns   \* bounds: contents of the graph, runs of the scripts

ASSUME CountsAssumption ==
  /\ QuestionCount \in Nat \ {0} /\ VariantCount \in Nat \ {0}
  /\ MaxData \in Nat /\ MaxRuns \in Nat

VARIABLES data,              \* the contents of the graph
          snapshots,         \* blind_results/<question>.json
          reports,           \* the run files, by run
          latest,            \* results: the run in cip-dmd/latest.json, the old
                             \* latest.json and correction_latest.json
          metrics,           \* metrics.json, the old one and that of the project
          script,            \* what each terminal executes
          alone,             \* history: no two scripts overlapped, none was stopped
          returned           \* history: questions that got back a snapshot which
                             \* an evaluation has in its fingerprint

evaluationVars == <<data, snapshots, reports, latest, metrics, script, alone, returned>>

NoRun     == 0
Runs      == 1..MaxRuns
Questions == 1..QuestionCount
\* The keys of metrics.json that the two scripts own.
Metrics   == [blind : {NoRun} \cup Runs, correction : {NoRun} \cup Runs]
NoMetrics == [blind |-> NoRun, correction |-> NoRun]

Ops == {"none", "update_expected", "verify_expected", "run_evaluation", "correction"}
Ats == {"idle", "load", "ask", "write_run", "write_latest", "write_old_latest",
        "read_metrics", "write_metrics", "write_project_metrics"}

Contents  == 0..MaxData

\* The fingerprint lists the snapshots it was computed of, and scored, for
\* each answer in turn, the one the answer was scored with.
Idle == [op |-> "none", at |-> "idle", run |-> NoRun, fingerprint |-> <<>>,
         scored |-> <<>>, read |-> NoMetrics]

\* The repository holds snapshots and the metrics of an earlier evaluation.
EvaluationInit ==
  /\ data = 0
  /\ snapshots = [q \in Questions |-> 0]
  /\ reports = <<>>
  /\ latest = [project |-> NoRun, old |-> NoRun, correction |-> NoRun]
  /\ metrics = [old |-> NoMetrics, project |-> NoMetrics]
  /\ script = [t \in Terminals |-> Idle]
  /\ alone = TRUE
  /\ returned = {}

----------------------------------------------------------------------------
Is(t, at) == script[t].at = at
Now(t, at) == script' = [script EXCEPT ![t].at = at]
Exit(t) == script' = [script EXCEPT ![t] = Idle]

(* A load of the dataset, or another dataset, replaces what queries find.  *)
ReloadGraph ==
  /\ data' \in Contents \ {data}
  /\ UNCHANGED <<snapshots, reports, latest, metrics, script, alone, returned>>

StartScript(t, op) ==
  /\ script[t] = Idle /\ Len(reports) < MaxRuns
  /\ script' = [script EXCEPT ![t] = [Idle EXCEPT !.op = op, !.at = "load"]]
  /\ alone' = (alone /\ \A other \in Terminals : script[other] = Idle)
  /\ UNCHANGED <<data, snapshots, reports, latest, metrics, returned>>

(* EvaluationRegistry.load: once the contract is validated, its            *)
(* fingerprint is computed over the question files and the snapshots,      *)
(* which are read one after the other.  It is used by run_evaluation.      *)
HashSnapshot(t) ==
  /\ Is(t, "load") /\ script[t].op = "run_evaluation"
  /\ LET q == Len(script[t].fingerprint) + 1
     IN  /\ q <= QuestionCount
         /\ script' = [script EXCEPT ![t].fingerprint = Append(@, snapshots[q])]
  /\ UNCHANGED <<data, snapshots, reports, latest, metrics, alone, returned>>

\* Mutant of Fingerprint: only the manifest is named.
ManifestOnly(s) == <<>>
Fingerprint(s) == s

LoadContract(t) ==
  /\ Is(t, "load")
  /\ script[t].op = "run_evaluation" => Len(script[t].fingerprint) = QuestionCount
  /\ script' = [script EXCEPT ![t].at = "ask", ![t].fingerprint = Fingerprint(@)]
  /\ UNCHANGED <<data, snapshots, reports, latest, metrics, alone, returned>>

----------------------------------------------------------------------------
\* The question a script is at: once for each variant where it evaluates.
Turns(op) == IF op = "run_evaluation" THEN VariantCount * QuestionCount ELSE QuestionCount
Position(t)  == Len(script[t].scored)
Question(t) == (Position(t) % QuestionCount) + 1
Asking(t, op) == Is(t, "ask") /\ script[t].op = op /\ Position(t) < Turns(op)
\* What verify_expected and the corrections compare is only printed or counted.
Scored(t, q) ==
  script' = [script EXCEPT ![t].scored =
               Append(@, IF script[t].op = "run_evaluation" THEN snapshots[q] ELSE 0)]

\* An evaluation, running or reported, has read these contents of a snapshot.
Names(fingerprint, q, d) == q \in DOMAIN fingerprint /\ fingerprint[q] = d
Hashed(q, d) ==
  \/ \E t \in Terminals : Names(script[t].fingerprint, q, d)
  \/ \E n \in DOMAIN reports : Names(reports[n].fingerprint, q, d)

(* update_expected: the gold query of the question is executed and its     *)
(* rows replace the snapshot.                                              *)
UpdateExpected(t) ==
  /\ Asking(t, "update_expected")
  /\ snapshots' = [snapshots EXCEPT ![Question(t)] = data]
  /\ returned' = IF data # snapshots[Question(t)] /\ Hashed(Question(t), data)
                 THEN returned \cup {Question(t)} ELSE returned
  /\ Scored(t, Question(t))
  /\ UNCHANGED <<data, reports, latest, metrics, alone>>

\* build_snapshot raises when the rows do not fit the expected status: the
\* questions before this one keep their new snapshots.
UpdateRefused(t) ==
  /\ Asking(t, "update_expected")
  /\ Exit(t)
  /\ UNCHANGED <<data, snapshots, reports, latest, metrics, alone, returned>>

(* run_evaluation, verify_expected and the correction cases: the snapshot  *)
(* is read when its question is asked.                                     *)
AskQuestion(t) ==
  /\ \E op \in {"run_evaluation", "verify_expected", "correction"} : Asking(t, op)
  /\ Scored(t, Question(t))
  /\ UNCHANGED <<data, snapshots, reports, latest, metrics, alone, returned>>

Finish(t) ==
  /\ Is(t, "ask") /\ Position(t) = Turns(script[t].op)
  /\ IF script[t].op \in {"update_expected", "verify_expected"} THEN Exit(t) ELSE Now(t, "write_run")
  /\ UNCHANGED <<data, snapshots, reports, latest, metrics, alone, returned>>

----------------------------------------------------------------------------
\* write_report; the correction script writes its two files the same way.
WriteRun(t) ==
  /\ Is(t, "write_run") /\ Len(reports) < MaxRuns
  /\ reports' = Append(reports, [op |-> script[t].op, fingerprint |-> script[t].fingerprint,
                                 scored |-> script[t].scored])
  /\ script' = [script EXCEPT ![t] = [Idle EXCEPT !.op = script[t].op, !.at = "write_latest",
                                                !.run = Len(reports) + 1]]
  /\ UNCHANGED <<data, snapshots, latest, metrics, alone, returned>>

WriteLatest(t) ==
  /\ Is(t, "write_latest")
  /\ IF script[t].op = "correction"
     THEN latest' = [latest EXCEPT !.correction = script[t].run] /\ Now(t, "read_metrics")
     ELSE latest' = [latest EXCEPT !.project = script[t].run] /\ Now(t, "write_old_latest")
  /\ UNCHANGED <<data, snapshots, reports, metrics, alone, returned>>

WriteOldLatest(t) ==
  /\ Is(t, "write_old_latest")
  /\ latest' = [latest EXCEPT !.old = script[t].run]
  /\ Now(t, "read_metrics")
  /\ UNCHANGED <<data, snapshots, reports, metrics, alone, returned>>

\* update_dashboard_metrics: the old file is read, changed and written back.
ReadMetrics(t) ==
  /\ Is(t, "read_metrics")
  /\ script' = [script EXCEPT ![t].at = "write_metrics", ![t].read = metrics.old]
  /\ UNCHANGED <<data, snapshots, reports, latest, metrics, alone, returned>>

\* Mutant of Merged: the file is written anew.
Replaced(row, op, run) ==
  IF op = "correction" THEN [NoMetrics EXCEPT !.correction = run] ELSE [NoMetrics EXCEPT !.blind = run]

Merged(row, op, run) ==
  IF op = "correction" THEN [row EXCEPT !.correction = run] ELSE [row EXCEPT !.blind = run]

MergedOf(t) == Merged(script[t].read, script[t].op, script[t].run)

WriteMetrics(t) ==
  /\ Is(t, "write_metrics")
  /\ metrics' = [metrics EXCEPT !.old = MergedOf(t)]
  /\ IF script[t].op = "correction" THEN Exit(t) ELSE Now(t, "write_project_metrics")
  /\ UNCHANGED <<data, snapshots, reports, latest, alone, returned>>

WriteProjectMetrics(t) ==
  /\ Is(t, "write_project_metrics")
  /\ metrics' = [metrics EXCEPT !.project = MergedOf(t)]
  /\ Exit(t)
  /\ UNCHANGED <<data, snapshots, reports, latest, alone, returned>>

StopScriptAt(t) ==
  /\ script[t] # Idle
  /\ Exit(t) /\ alone' = FALSE
  /\ UNCHANGED <<data, snapshots, reports, latest, metrics, returned>>

EvaluationNext ==
  \/ ReloadGraph
  \/ \E t \in Terminals :
       \/ \E op \in Ops \ {"none"} : StartScript(t, op)
       \/ HashSnapshot(t) \/ LoadContract(t) \/ UpdateExpected(t) \/ UpdateRefused(t) \/ AskQuestion(t) \/ Finish(t)
       \/ WriteRun(t) \/ WriteLatest(t) \/ WriteOldLatest(t)
       \/ ReadMetrics(t) \/ WriteMetrics(t) \/ WriteProjectMetrics(t)
       \/ StopScriptAt(t)

EvaluationSpec == EvaluationInit /\ [][EvaluationNext]_evaluationVars

----------------------------------------------------------------------------
\* The last run of a script among the first ones, zero when there is none.
LastUpTo(count, op) ==
  CHOOSE n \in 0..count :
    /\ n = 0 \/ reports[n].op = op
    /\ \A m \in (n + 1)..count : reports[m].op # op
LastRun(op) == LastUpTo(Len(reports), op)

\* registry.py:180: a report of which the fingerprint is that of the contract
\* now was scored, in every variant, with the snapshots there are now,
\* although both were read one by one while others were approved.  Excepted
\* are snapshots that got back contents an evaluation had read: the hash
\* cannot tell which it was scored with, unless no two scripts overlapped.
FingerprintNamesSnapshots ==
  \A n \in DOMAIN reports :
    reports[n].op = "run_evaluation" /\ reports[n].fingerprint = Fingerprint(snapshots) =>
      \A i \in DOMAIN reports[n].scored :
        LET q == ((i - 1) % QuestionCount) + 1
        IN  reports[n].scored[i] = snapshots[q] \/ (q \in returned /\ ~alone)

\* run_evaluation.py:334: numbers that a reader may show have their report,
\* of the script that owns them.  While no scripts overlapped or were
\* stopped, the old place shows the last evaluation and the last correction;
\* that of the project shows the last evaluation, and the correction that was
\* the last one then: a correction run does not write it.
NumbersHaveReport ==
  /\ \A place \in {"old", "project"} :
       /\ metrics[place].blind # NoRun => reports[metrics[place].blind].op = "run_evaluation"
       /\ metrics[place].correction # NoRun => reports[metrics[place].correction].op = "correction"
  /\ alone /\ (\A t \in Terminals : script[t] = Idle) =>
       /\ metrics.old = [blind |-> LastRun("run_evaluation"), correction |-> LastRun("correction")]
       /\ metrics.project = [blind |-> metrics.old.blind,
                             correction |-> LastUpTo(metrics.old.blind, "correction")]
       /\ latest.project = metrics.old.blind /\ latest.old = latest.project
============================================================================
