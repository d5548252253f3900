---------------------------- MODULE MCFrontEnds ----------------------------
\* Pages of the two front ends and the evaluation they report: the
\* conversations and the graph explorer of the console, the query page and the
\* Schema Studio of the web client; and the scripts of the command line: the
\* evaluation, its scores, the snapshots it compares, and the ETL of CiP-DMD.
\* The models share no state, so one run takes them one at a time: part is the
\* one that moves, the others keep their initial state.
EXTENDS Conversations, WebQuery, GraphExplorer, WebStudio,
        SnapshotComparison, EvaluationScores, EvaluationRun, CipDmdEtl, TLC

CONSTANT FirstChoice         \* the project a part that does not move has selected

VARIABLE part

pagesVars == <<part, talkVars, webVars, studioVars, explorerVars, comparisonVars, scoreVars, evaluationVars, etlVars>>

\* The database of the explorer: two projects with a node of the same label
\* and key, and paths of one and two relationships between two others.
MCOwner == [a |-> "cip-dmd", c |-> "other", d |-> "other", e |-> "other"]
MCLabel == [a |-> "Equipment", c |-> "Equipment", d |-> "Event", e |-> "Event"]
MCKey   == [a |-> "1", c |-> "1", d |-> "1", e |-> "2"]
MCEdges == {[from |-> "c", to |-> "d", owner |-> "other"],
            [from |-> "d", to |-> "e", owner |-> "other"],
            [from |-> "c", to |-> "e", owner |-> "other"]}

\* Every row of one or two columns.
MCRowTable ==
  <<[c1 |-> "x"], [c1 |-> "y"], [c2 |-> "x"], [c2 |-> "y"],
    [c1 |-> "x", c2 |-> "x"], [c1 |-> "x", c2 |-> "y"],
    [c1 |-> "y", c2 |-> "x"], [c1 |-> "y", c2 |-> "y"]>>

\* Versions of the dataset: a cylinder k of a bottom b and a rod r, a second
\* bottom b2, and a placeholder record p.
RunOf(process, anomaly)   == [process |-> process, anomaly |-> anomaly]
Measured(process, pass)   == [process |-> process, feature |-> "f", pass |-> pass]
RecordOf(id, components, runs, quality) ==
  [part |-> id, components |-> components, runs |-> runs, quality |-> quality]
Bottom(anomaly, pass) ==
  RecordOf("b", <<>>, <<RunOf("saw", anomaly), RunOf("cnc_mill", "0")>>, <<Measured("saw", pass)>>)
Second(pass) == RecordOf("b2", <<>>, <<>>, <<Measured("saw", pass)>>)
Version(components, bottoms, audited) ==
  [cylinder |-> <<RecordOf("p", <<"part_id_b", "r">>, <<>>, <<>>),
                  RecordOf("k", components, <<>>, <<Measured("assembly", TRUE)>>)>>,
   bottom |-> bottoms, rod |-> <<RecordOf("r", <<>>, <<RunOf("cnc_lathe", "0")>>, <<>>)>>,
   reworked |-> <<>>, audited |-> audited]
Published == Version(<<"b", "r">>, <<Bottom("0", TRUE), Second(FALSE)>>, TRUE)

\* The published one; one with its counts that assembles the other bottom,
\* has another anomaly and another failure and repeats a record; and three
\* that are refused: by the audit, for two records of a part, for a count.
MCExtracts ==
  {Published,
   Version(<<"b2", "r">>, <<Bottom("1", FALSE), Second(TRUE), Second(TRUE)>>, TRUE),
   Version(<<"b", "r">>, <<Bottom("0", TRUE), Second(FALSE)>>, FALSE),
   Version(<<"b", "r">>, <<Bottom("0", TRUE), Second(FALSE), Second(TRUE)>>, TRUE),
   Version(<<"b">>, <<Bottom("0", TRUE), Second(FALSE)>>, TRUE)}
MCExpected == Counts(Payload(Published))

Parts == {"talk", "web", "studio", "explorer", "comparison", "scores", "evaluation", "snapshots", "etl"}

StillExcept(name) ==
  /\ part = name /\ part' = part
  /\ name # "talk"       => UNCHANGED talkVars
  /\ name # "web"        => UNCHANGED webVars
  /\ name # "studio"     => UNCHANGED studioVars
  /\ name # "explorer"   => UNCHANGED explorerVars
  /\ name # "comparison" => UNCHANGED comparisonVars
  /\ name # "scores"     => UNCHANGED scoreVars
  /\ name \notin {"evaluation", "snapshots"} => UNCHANGED evaluationVars
  /\ name # "etl"        => UNCHANGED etlVars

PagesInit ==
  /\ part \in Parts
  /\ TalkInit /\ WebInit /\ StudioInit /\ ExplorerInit
  /\ ComparisonInit /\ ScoresInit /\ EvaluationInit /\ EtlInit
  /\ part # "web" => selected = FirstChoice
  /\ part # "etl" => files = Published
  /\ part # "comparison" => expected = Result("empty", <<>>) /\ answer = expected

\* The evaluation is taken twice: with snapshots that do not change and all its
\* scripts; and with contents that change and come back, while snapshots are
\* approved beside evaluations until the first report is there.
UpToOneReport ==
  /\ Len(reports') <= 1
  /\ \A t \in Terminals : script'[t] # Idle =>
       /\ script'[t].op \in {"update_expected", "run_evaluation"}
       /\ script[t] # Idle \/ reports = <<>>

PagesNext ==
  \/ StillExcept("talk") /\ TalkNext
  \/ StillExcept("web") /\ WebNext
  \/ StillExcept("studio") /\ StudioNext
  \/ StillExcept("explorer") /\ ExplorerNext
  \/ StillExcept("comparison") /\ ComparisonNext
  \/ StillExcept("scores") /\ ScoresNext
  \/ StillExcept("evaluation") /\ EvaluationNext /\ data' = data
  \/ StillExcept("snapshots") /\ EvaluationNext /\ UpToOneReport
  \/ StillExcept("etl") /\ EtlNext

PagesSpec == PagesInit /\ [][PagesNext]_pagesVars

\* Tabs are interchangeable: no other part knows them.
TabSymmetry == Permutations(Tabs)
\* TurnsApart and TurnsKept say nothing of a state after a stop left half of
\* another conversation, or after a tab was left on an archived project: such a
\* state is reached, and what follows it is not explored.  Nor is what follows
\* five questions and identifiers together, or two labels hidden in the drawings.
HiddenLabels == {w \in Owners \X NodeLabels : w[2] \in context[w[1]].hidden}
Regular == ~split /\ ~orphaned /\ turns + threads <= 4 /\ Cardinality(HiddenLabels) <= 1

============================================================================
