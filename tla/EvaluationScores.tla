--------------------------- MODULE EvaluationScores ---------------------------
(***************************************************************************)
(* evaluation/evaluator.py: one variant of the agent answers the blind     *)
(* questions, each answer is scored against what was approved, and the     *)
(* scores are summed up.  A rate is the pair of its count and its base.    *)
(***************************************************************************)
EXTENDS Naturals, Sequences, FiniteSets

CONSTANTS MaxScored          \* bound: questions of a variant

VARIABLES scores,            \* results: one per question asked
          summary            \* what summarize_results returned; none before

scoreVars == <<scores, summary>>

Labels    == {"success", "empty", "blocked", "needs_clarification", "failed"}
Expected  == Labels \ {"failed"}     \* what the questions of the two projects expect
\* A question with rows to expect has a snapshot; agreement is what the
\* comparison of the rows said when the status was the expected one.
Snapshotted == {"success", "empty"}
Agreement   == {"exact", "values", "none"}

\* format_agent_result: how the runs of the agent end.  guard is FALSE where
\* the evaluator's own guard stops the question too.
Ended(status, error, cypher, passed, executed) ==
  [status |-> status, error |-> error, cypher |-> cypher, passed |-> passed, executed |-> executed]

FinalStates ==
  { Ended("needs_clarification", "AMBIGUOUS_REQUEST", FALSE, FALSE, FALSE),
    Ended("blocked", "WRITE_REQUEST", FALSE, FALSE, FALSE),
    Ended("unsupported", "UNSUPPORTED", FALSE, FALSE, FALSE),
    Ended("failed", "MODEL_ERROR", FALSE, FALSE, FALSE),
    Ended("failed", "EMPTY_QUERY", FALSE, FALSE, FALSE),
    Ended("blocked", "WRITE_CLAUSE", TRUE, FALSE, FALSE),
    Ended("failed", "SCHEMA_TOPOLOGY", TRUE, FALSE, FALSE),
    Ended("failed", "EXPLAIN_ERROR", TRUE, FALSE, FALSE),
    Ended("failed", "RUN_TIMEOUT", TRUE, TRUE, FALSE),
    Ended("failed", "EXECUTION_ERROR", TRUE, TRUE, FALSE),
    Ended("success", "none", TRUE, TRUE, TRUE),
    Ended("empty", "none", TRUE, TRUE, TRUE) }

Guarded   == {"AMBIGUOUS_REQUEST", "WRITE_REQUEST"}
Semantic  == {"SCHEMA_TOPOLOGY"}

----------------------------------------------------------------------------
\* Mutant of Compares: only the rows are compared.
IgnoringStatus(expected, final, agreement) ==
  [match |-> agreement # "none", strict |-> agreement = "exact"]

\* compare_snapshot where there is a snapshot, the status alone elsewhere.
Compares(expected, final, agreement) ==
  LET same == final.status = expected
      rows == expected \in Snapshotted
  IN [match  |-> same /\ (rows => agreement # "none"),
      strict |-> same /\ (rows => agreement = "exact")]

\* classify_failure: the first test that fits names the failure.
FailureType(expected, final, match) ==
  CASE match -> "none"
    [] ~match /\ final.error = "MODEL_ERROR" -> "generation_error"
    [] ~match /\ final.error = "EMPTY_QUERY" -> "empty_query"
    [] ~match /\ final.status = "blocked" /\ expected # "blocked" -> "unsafe_query"
    [] ~match /\ final.error = "EXPLAIN_ERROR" -> "syntax_or_schema_error"
    [] ~match /\ final.error \in Semantic -> "semantic_validation_error"
    [] ~match /\ final.error = "EXECUTION_ERROR" -> "execution_error"
    [] OTHER -> IF final.status # expected THEN "wrong_status"
                ELSE IF final.status = "success" /\ ~final.cypher THEN "missing_evidence"
                ELSE "wrong_value_or_rowset"

\* evaluate_question: a score is a set of the measures that hold, and the
\* measures that apply to the question at all.
Score(expected, final, agreement, corrected) ==
  LET seen == Compares(expected, final, agreement)
      kept(measure, holds) == IF holds THEN {measure} ELSE {}
  IN [expected |-> expected, actual |-> final.status,
      failure  |-> FailureType(expected, final, seen.match),
      difference |-> CASE seen.strict -> "exact"
                       [] seen.match /\ ~seen.strict -> "column_alias_or_extra_field"
                       [] OTHER -> "wrong_value_or_rowset",
      applies |-> {"match", "strict", "read_only"}
                  \cup kept("executed", expected \in Snapshotted)
                  \cup kept("evidence", expected \in Snapshotted)
                  \cup kept("empty", expected = "empty")
                  \cup kept("schema", final.error \notin Guarded)
                  \cup kept("verified", final.status \in Snapshotted)
                  \cup kept("corrected", corrected),
      holds |-> kept("match", seen.match) \cup kept("strict", seen.strict)
                \cup kept("read_only", ~(final.executed /\ final.status = "blocked"))
                \cup kept("executed", final.status \in Snapshotted)
                \cup kept("evidence", final.cypher /\ final.status \in Snapshotted)
                \cup kept("empty", final.status = "empty")
                \cup kept("schema", final.passed)
                \cup kept("verified", final.executed)
                \cup kept("corrected", seen.match)]

ScoresInit == scores = <<>> /\ summary = <<>>

\* A correction needs a statement that was refused; the guards come first.
EvaluateQuestion(expected, final, agreement, corrected) ==
  /\ summary = <<>> /\ Len(scores) < MaxScored
  /\ expected \notin Snapshotted => agreement = "none"
  /\ expected = "empty" /\ final.status = "empty" => agreement = "exact"
  /\ corrected => final.error \notin Guarded \cup {"UNSUPPORTED"}
  /\ scores' = Append(scores, Score(expected, final, agreement, corrected))
  /\ UNCHANGED summary

----------------------------------------------------------------------------
AllScores == DOMAIN scores
Rate(measure) ==
  LET base == {i \in AllScores : measure \in scores[i].applies}
  IN [of |-> Cardinality(base),
      count |-> Cardinality({i \in base : measure \in scores[i].holds})]

Measures     == {"match", "strict", "read_only", "executed", "evidence", "empty", "schema",
                 "verified", "corrected"}
FailureTypes == {"generation_error", "empty_query", "unsafe_query", "syntax_or_schema_error",
                 "semantic_validation_error", "execution_error", "wrong_status",
                 "missing_evidence", "wrong_value_or_rowset"}
Differences  == {"exact", "column_alias_or_extra_field", "wrong_value_or_rowset"}

\* classification_metrics: the five labels and whatever else was seen.
Observed == Labels \cup {scores[i].expected : i \in AllScores} \cup {scores[i].actual : i \in AllScores}
ConfusionMatrix ==
  [e \in Observed |-> [a \in Observed |->
     Cardinality({i \in AllScores : scores[i].expected = e /\ scores[i].actual = a})]]

Summarized ==
  [questions |-> Len(scores),
   rates |-> [m \in Measures |-> Rate(m)],
   failures |-> [f \in FailureTypes |-> Cardinality({i \in AllScores : scores[i].failure = f})],
   differences |-> [d \in Differences |-> Cardinality({i \in AllScores : scores[i].difference = d})],
   matrix |-> ConfusionMatrix]

SummarizeResults ==
  /\ summary = <<>>
  /\ summary' = <<Summarized>>
  /\ UNCHANGED scores

ScoresNext ==
  \/ \E expected \in Expected, final \in FinalStates, agreement \in Agreement,
        corrected \in BOOLEAN : EvaluateQuestion(expected, final, agreement, corrected)
  \/ SummarizeResults

ScoresSpec == ScoresInit /\ [][ScoresNext]_scoreVars

----------------------------------------------------------------------------
\* A sum is the number of all that is counted, each beside what it counts for.
Total(f, S) == Cardinality(UNION {{x} \X (1..f[x]) : x \in S})

\* evaluator.py:282 and :377: the numbers of one summary agree.  Every
\* question is an answer accepted or a failure of one type; the accepted
\* answers lie on the diagonal of the confusion matrix; what differs only in
\* columns is accepted and not exact; nothing was written, and every answer
\* that is shown as executed was verified.
SummaryAdds ==
  summary # <<>> =>
    LET s == summary[1]
    IN /\ s.rates["match"].count + Total(s.failures, FailureTypes) = s.questions
       /\ s.rates["match"].count <= Total([x \in DOMAIN s.matrix |-> s.matrix[x][x]], DOMAIN s.matrix)
       /\ s.differences["exact"] = s.rates["strict"].count
       /\ s.differences["exact"] + s.differences["column_alias_or_extra_field"]
            = s.rates["match"].count
       /\ \A m \in {"read_only", "verified"} : s.rates[m].count = s.rates[m].of
       /\ Total([x \in DOMAIN s.matrix |-> Total(s.matrix[x], DOMAIN s.matrix)], DOMAIN s.matrix)
            = s.questions
============================================================================
