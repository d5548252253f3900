------------------------- MODULE SnapshotComparison -------------------------
(***************************************************************************)
(* evaluation/gold_validation.py: how the rows of an answer are compared   *)
(* with the approved snapshot of a question.  Aliases do not count and     *)
(* extra columns are allowed: the rows are matched by their values, one    *)
(* expected row with one row of the answer, along augmenting paths.        *)
(*                                                                         *)
(* One comparison is one step; Compared holds what it returned.            *)
(***************************************************************************)
EXTENDS Naturals, Sequences, FiniteSets

CONSTANTS Columns, Values,   \* what a row may hold
          RowTable,          \* the rows there are, as normalize_records sorts them
          MaxRows            \* bound: rows of a result

\* A row maps columns to values.
Rows == UNION {[cols -> Values] : cols \in (SUBSET Columns) \ {{}}}

ASSUME ComparisonAssumption ==
  MaxRows \in Nat /\ IsFiniteSet(Columns) /\ RowTable \in Seq(Rows)

VARIABLES expected, answer,  \* the snapshot and the result it is compared with
          compared           \* what compare_snapshot returned; none before

comparisonVars == <<expected, answer, compared>>

\* A result is a list of row numbers that does not fall.
Lists(rows, n) == {list \in [1..n -> rows] : \A i \in 1..(n - 1) : list[i] <= list[i + 1]}
AnyRow   == 1..Len(RowTable)
\* Snapshots with one column are enough for the longest results.
Narrow   == {r \in AnyRow : Cardinality(DOMAIN RowTable[r]) = 1}
Results(n)   == Lists(AnyRow, n)
Snapshots(n) == Lists(IF n = MaxRows THEN Narrow ELSE AnyRow, n)

Statuses == {"success", "empty", "failed"}
Result(status, rows) == [status |-> status, rows |-> rows]

\* build_snapshot refuses rows that do not fit the status of the question;
\* the agent calls no rows a success only when it did not fail.
StatusOf(rows) == IF rows = <<>> THEN "empty" ELSE "success"

ComparisonInit ==
  /\ \E n \in 0..MaxRows : \E rows \in Snapshots(n) : expected = Result(StatusOf(rows), rows)
  /\ \E n \in {Len(expected.rows), MaxRows - 1} : \E rows \in Results(n) :
       answer \in {Result(StatusOf(rows), rows), Result("failed", <<>>)}
  /\ compared = <<>>

----------------------------------------------------------------------------
\* How often each value stands in the row, whatever its columns are called.
Signature ==
  [r \in AnyRow |-> [v \in Values |-> Cardinality({c \in DOMAIN RowTable[r] : RowTable[r][c] = v})]]
Covers(e, a) == \A v \in Values : Signature[a][v] >= Signature[e][v]

Candidates(es, as) == [i \in DOMAIN es |-> {j \in DOMAIN as : Covers(es[i], as[j])}]

\* A call of assign: the expected row it is about, matched[j] the expected row
\* that row j of the answer stands for, 0 while it is free, and the rows of
\* the answer the calls have seen, which they share.
Calls(options, rows) ==
  [row : DOMAIN options, matched : [rows -> {0} \cup DOMAIN options], seen : SUBSET rows]
Call(row, matched, seen)      == [row |-> row, matched |-> matched, seen |-> seen]
Returns(ok, matched, seen)    == [ok |-> ok, matched |-> matched, seen |-> seen]
Least(js) == CHOOSE j \in js : \A k \in js : j <= k

\* Mutant of Assigned: a row that was given away is never taken back.
FirstFree(call, options, inner) ==
  LET free == {j \in options[call.row] : call.matched[j] = 0}
  IN IF free = {} THEN Returns(FALSE, call.matched, call.seen)
     ELSE Returns(TRUE, [call.matched EXCEPT ![Least(free)] = call.row], call.seen)

\* The loop over the candidates passes by those that were seen.  inner are
\* the calls, and the rest of the loop, after one more row was seen.
Assigned(call, options, inner) ==
  LET new   == options[call.row] \ call.seen
      j     == Least(new)
      moved == inner[Call(call.matched[j], call.matched, call.seen \cup {j})]
  IN CASE new = {} -> Returns(FALSE, call.matched, call.seen)
       [] new # {} /\ call.matched[j] = 0 ->
            Returns(TRUE, [call.matched EXCEPT ![j] = call.row], call.seen \cup {j})
       [] new # {} /\ call.matched[j] # 0 /\ moved.ok ->
            Returns(TRUE, [moved.matched EXCEPT ![j] = call.row], moved.seen)
       [] OTHER -> inner[Call(call.row, call.matched, moved.seen)]

\* A call that may still see n rows needs those that may see n - 1; one that
\* may see none needs no other.
Assign(options, rows) ==
  LET depth[n \in 0..Cardinality(rows)] ==
        [call \in Calls(options, rows) |->
           Assigned(call, options, IF n = 0 THEN <<>> ELSE depth[n - 1])]
  IN depth[Cardinality(rows)]

\* The rows with the fewest candidates come first; sorted is stable.
Sooner(options, i) ==
  {a \in DOMAIN options : \/ Cardinality(options[a]) < Cardinality(options[i])
                          \/ Cardinality(options[a]) = Cardinality(options[i]) /\ a < i}
Order(options) ==
  [k \in DOMAIN options |-> CHOOSE i \in DOMAIN options : Cardinality(Sooner(options, i)) = k - 1]

ValueRowsMatch(es, as) ==
  LET options == Candidates(es, as)
      assign  == Assign(options, DOMAIN as)
      after[k \in 0..Len(es)] ==
        IF k = 0 THEN Returns(TRUE, [j \in DOMAIN as |-> 0], {})
        ELSE IF ~after[k - 1].ok THEN after[k - 1]
        ELSE assign[Call(Order(options)[k], after[k - 1].matched, {})]
  IN /\ Len(es) = Len(as)
     /\ \A i \in DOMAIN es : options[i] # {}
     /\ after[Len(es)].ok

\* compare_snapshot.
Identity(e, a) == e.status = a.status /\ Len(e.rows) = Len(a.rows)

Comparison(e, a) ==
  LET strict   == Identity(e, a) /\ e.rows = a.rows
      semantic == Identity(e, a) /\ ValueRowsMatch(e.rows, a.rows)
  IN [strict |-> strict, match |-> semantic, variance |-> semantic /\ ~strict]

Compare ==
  /\ compared = <<>>
  /\ compared' = <<Comparison(expected, answer)>>
  /\ UNCHANGED <<expected, answer>>

ComparisonNext == Compare

ComparisonSpec == ComparisonInit /\ [][ComparisonNext]_comparisonVars

----------------------------------------------------------------------------
\* A reference for the match: some way to give every row of the snapshot a
\* row of the answer of its own that has its values.
Pairing(es, as) ==
  \E f \in [DOMAIN es -> DOMAIN as] :
    /\ \A i, j \in DOMAIN es : f[i] = f[j] => i = j
    /\ \A i \in DOMAIN es : Covers(es[i], as[f[i]])

\* gold_validation.py:146: an answer is accepted exactly when its status is
\* the expected one and its rows can be paired with those of the snapshot,
\* in whatever order they come; a verbatim answer always is.
AcceptedIsPaired ==
  compared # <<>> =>
    /\ compared[1].match <=>
         /\ answer.status = expected.status
         /\ Len(answer.rows) = Len(expected.rows)
         /\ Pairing(expected.rows, answer.rows)
    /\ compared[1].strict => compared[1].match

============================================================================
