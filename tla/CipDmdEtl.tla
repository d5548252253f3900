------------------------------ MODULE CipDmdEtl ------------------------------
(***************************************************************************)
(* The ETL of the CiP-DMD dataset: backend/app/etl/cli.py with extract,    *)
(* transform, validate and load.  A script reads the source files, turns   *)
(* them into rows for seven MERGE queries, refuses what does not have the  *)
(* published counts, sends the rows in batches, compares the graph's       *)
(* counts with those of the rows and, on request, loads a second time.     *)
(*                                                                         *)
(* The graph of the project is the set of its nodes, labels and relation-  *)
(* ships, each <<kind, identity>>; the other properties of a node are left *)
(* out, as are source_stats, the logged counters and a quality group       *)
(* without measurements, of which only the process would be loaded.        *)
(***************************************************************************)
EXTENDS Naturals, Sequences, FiniteSets, SequencesExt

CONSTANTS Extracts,          \* contents the four source files may have
          Placeholders,      \* component ids that contain "part_id_"
          PublishedCounts,   \* EXPECTED_COUNTS, of the published dataset
          ExpectedMissing,   \* its quarantined references (35)
          BatchSize,         \* --batch-size
          Scripts,           \* ETL processes
          MaxStarts          \* bound: scripts started

ASSUME BatchSizeAssumption == BatchSize \in Nat \ {0}

VARIABLES files,             \* data/raw/cip_dmd
          inGraph,           \* the elements of the project cip-dmd
          loader,            \* what each ETL process does
          quarantine,        \* the file of quarantined references
          report,            \* cip_dmd_etl_summary.json
          starts,            \* scripts started so far
          crossed            \* history: scripts that load beside another version

etlVars == <<files, inGraph, loader, quarantine, report, starts, crossed>>

----------------------------------------------------------------------------
\* extract and transform.  A record: [part, components, runs, quality].
SourceFiles == {"cylinder", "bottom", "rod", "reworked"}
Subtype(file) ==
  CASE file = "cylinder" -> "Cylinder" [] file = "bottom" -> "CylinderBottom"
    [] OTHER -> "PistonRod"

ProcessNames  == {"saw", "cnc_milling_machine", "cnc_lathe", "assembly"}
AnomalyCodes  == {"0", "1", "2", "3"}
Normal(name)  == IF name = "cnc_mill" THEN "cnc_milling_machine" ELSE name
NoEquipment   == "none"
EquipmentOf(process) ==
  CASE process = "saw" -> "kasto-sba-2" [] process = "cnc_milling_machine" -> "dmc-50h"
    [] process = "cnc_lathe" -> "index-c65" [] OTHER -> NoEquipment
EquipmentRows == {EquipmentOf(process) : process \in ProcessNames} \ {NoEquipment}

\* The usable records of a file; exact duplicates fall together.
Records(x, file) ==
  {r \in ToSet(x[file]) : file = "cylinder" => ToSet(r.components) \cap Placeholders = {}}
AllRecords(x) == UNION {Records(x, file) : file \in SourceFiles}

\* A file has finitely many records, of finitely many entries.
ASSUME ExtractsAssumption ==
  \A x \in Extracts, file \in SourceFiles :
    /\ IsFiniteSet(ToSet(x[file]))
    /\ \A r \in ToSet(x[file]) : IsFiniteSet(DOMAIN r.runs) /\ IsFiniteSet(DOMAIN r.quality)

\* No part is missing, described in two ways or listed in two files, and no
\* process or anomaly is unknown: otherwise the transformation raises.
Transforms(x) ==
  /\ \A f, g \in SourceFiles : \A r \in Records(x, f), q \in Records(x, g) :
       r.part = q.part => f = g /\ r = q
  /\ \A r \in AllRecords(x) :
       /\ r.part # ""
       /\ \A i \in DOMAIN r.runs : /\ Normal(r.runs[i].process) \in ProcessNames
                                   /\ r.runs[i].anomaly \in AnomalyCodes
       /\ \A i \in DOMAIN r.quality : Normal(r.quality[i].process) \in ProcessNames

\* How many entries before the i-th have its key: part of the identity.
Occurrence(keys, i) == Cardinality({j \in 1..(i - 1) : keys[j] = keys[i]})

PartRows(x) ==
  UNION {{[query |-> "parts", id |-> r.part, subtype |-> Subtype(f)] : r \in Records(x, f)}
           : f \in SourceFiles}

RunRows(x) ==
  UNION {LET key == [i \in DOMAIN r.runs |-> Normal(r.runs[i].process)]
         IN {[query |-> "runs", id |-> <<r.part, key[i], Occurrence(key, i)>>, part |-> r.part,
              process |-> key[i], anomaly |-> r.runs[i].anomaly,
              equipment |-> EquipmentOf(key[i])] : i \in DOMAIN r.runs}
           : r \in AllRecords(x)}

MeasurementRows(x) ==
  UNION {LET key == [i \in DOMAIN r.quality |->
                       <<Normal(r.quality[i].process), r.quality[i].feature>>]
         IN {[query |-> "measurements", id |-> <<r.part, key[i], Occurrence(key, i)>>,
              part |-> r.part, process |-> key[i][1], pass |-> r.quality[i].pass]
               : i \in DOMAIN r.quality}
           : r \in AllRecords(x)}

\* The two components a cylinder names: the first a bottom, the second a rod.
References(x) ==
  UNION {{[query |-> "assemblies", cylinder |-> r.part, role |-> role,
           component |-> IF role <= Len(r.components) THEN r.components[role] ELSE ""]
            : role \in 1..2} : r \in Records(x, "cylinder")}
ComponentTypes == <<"CylinderBottom", "PistonRod">>
AssemblyRows(x) ==
  {ref \in References(x) : \E part \in PartRows(x) :
     part.id = ref.component /\ part.subtype = ComponentTypes[ref.role]}

Payload(x) ==
  LET runs     == RunRows(x)
      measured == MeasurementRows(x)
  IN [parts |-> PartRows(x),
      processes |-> {[query |-> "processes", id |-> row.process] : row \in runs \cup measured},
      equipment |-> {[query |-> "equipment", id |-> e] : e \in EquipmentRows},
      anomalies |-> {[query |-> "anomalies", id |-> code] : code \in AnomalyCodes},
      runs |-> runs, measurements |-> measured,
      assemblies |-> AssemblyRows(x), quarantined |-> References(x) \ AssemblyRows(x)]

NodeKinds == {"Part", "Process", "Equipment", "AnomalyClass", "ProcessRun",
              "QualityMeasurement", "QualityFailure"}
LinkKinds == {"ASSEMBLED_FROM", "UNDERWENT", "INSTANCE_OF", "RUN_ON", "CLASSIFIED_AS",
              "HAS_MEASUREMENT", "FOR_PROCESS"}

\* GraphPayload.counts: every run is taken to have an equipment.
Counts(payload) ==
  [kind \in NodeKinds \cup LinkKinds |->
     Cardinality(CASE kind = "Part"           -> payload.parts
                   [] kind = "Process"        -> payload.processes
                   [] kind = "Equipment"      -> payload.equipment
                   [] kind = "AnomalyClass"   -> payload.anomalies
                   [] kind = "QualityFailure" -> {m \in payload.measurements : ~m.pass}
                   [] kind = "ASSEMBLED_FROM" -> payload.assemblies
                   [] kind \in {"QualityMeasurement", "HAS_MEASUREMENT", "FOR_PROCESS"}
                        -> payload.measurements
                   [] OTHER -> payload.runs)]

\* validate_payload.
Unique(rows) == \A a, b \in rows : a.id = b.id => a = b
Validates(payload) ==
  /\ Unique(payload.parts) /\ Unique(payload.runs) /\ Unique(payload.measurements)
  /\ Counts(payload) = PublishedCounts
  /\ Cardinality(payload.quarantined) = ExpectedMissing
  /\ \A row \in payload.runs \cup payload.measurements :
       \E part \in payload.parts : part.id = row.part
  /\ \A row \in payload.runs :
       row.equipment # NoEquipment => \E e \in payload.equipment : e.id = row.equipment

----------------------------------------------------------------------------
\* load.  What a row of a query MATCHes, and what it MERGEs then.
Needs(row) ==
  CASE row.query = "runs" ->
         {<<"Part", row.part>>, <<"Process", row.process>>, <<"AnomalyClass", row.anomaly>>}
    [] row.query = "measurements" -> {<<"Part", row.part>>, <<"Process", row.process>>}
    [] row.query = "assemblies" ->
         {<<"Part", row.cylinder>>, <<"Cylinder", row.cylinder>>, <<"Part", row.component>>}
    [] OTHER -> {}

Elements(row) ==
  CASE row.query = "parts"     -> {<<"Part", row.id>>, <<row.subtype, row.id>>}
    [] row.query = "processes" -> {<<"Process", row.id>>}
    [] row.query = "equipment" -> {<<"Equipment", row.id>>}
    [] row.query = "anomalies" -> {<<"AnomalyClass", row.id>>}
    [] row.query = "runs" ->
         {<<"ProcessRun", row.id>>, <<"UNDERWENT", <<row.part, row.id>>>>,
          <<"INSTANCE_OF", <<row.id, row.process>>>>, <<"CLASSIFIED_AS", <<row.id, row.anomaly>>>>}
         \cup {<<"RUN_ON", <<row.id, e>>>> : e \in {row.equipment} \ {NoEquipment}}
    [] row.query = "measurements" ->
         {<<"QualityMeasurement", row.id>>, <<"HAS_MEASUREMENT", <<row.part, row.id>>>>,
          <<"FOR_PROCESS", <<row.id, row.process>>>>}
         \cup {<<"QualityFailure", id>> : id \in IF row.pass THEN {} ELSE {row.id}}
    [] OTHER -> {<<"ASSEMBLED_FROM", <<row.cylinder, row.component>>>>}

\* One batch, one transaction.  RUN_ON follows an OPTIONAL MATCH, and a
\* measurement that passes loses the label of a failure.
AfterBatch(graph, rows) ==
  LET matched == {row \in rows : Needs(row) \subseteq graph}
      merged(row) == {e \in Elements(row) :
                        e[1] = "RUN_ON" => <<"Equipment", row.equipment>> \in graph}
      passing == {row \in matched : row.query = "measurements" /\ row.pass}
  IN (graph \ {<<"QualityFailure", row.id>> : row \in passing})
       \cup UNION {merged(row) : row \in matched}

\* Mutant of Slices: the last, shorter batch is forgotten.
WholeSlices(rows) ==
  [i \in 1..(Len(rows) \div BatchSize) |->
     ToSet(SubSeq(rows, (i - 1) * BatchSize + 1, i * BatchSize))]
Slices(rows) ==
  [i \in 1..((Len(rows) + BatchSize - 1) \div BatchSize) |->
     ToSet(SubSeq(rows, (i - 1) * BatchSize + 1,
                  IF i * BatchSize <= Len(rows) THEN i * BatchSize ELSE Len(rows)))]

Sliced(rows) == Slices(SetToSeq(rows))
Batches(payload) ==
  Sliced(payload.parts) \o Sliced(payload.processes) \o Sliced(payload.equipment)
    \o Sliced(payload.anomalies) \o Sliced(payload.runs) \o Sliced(payload.measurements)
    \o Sliced(payload.assemblies)

OfKinds(graph, kinds) == {e \in graph : e[1] \in kinds}
GraphCounts(graph) ==
  [kind \in NodeKinds \cup LinkKinds |-> Cardinality(OfKinds(graph, {kind}))]

----------------------------------------------------------------------------
Unprepared == [quarantined |-> {}]
IdleScript == [at |-> "idle", batches |-> <<>>, payload |-> Unprepared, verify |-> FALSE]
NoReport   == [mode |-> "none", payload |-> Unprepared]

EtlInit ==
  /\ files \in Extracts
  /\ inGraph = {} /\ quarantine = {} /\ starts = 0 /\ crossed = {}
  /\ loader = [s \in Scripts |-> IdleScript]
  /\ report = NoReport

\* The source files are replaced by another version of the dataset.
ReplaceFiles(x) ==
  /\ x # files
  /\ files' = x
  /\ UNCHANGED <<inGraph, loader, quarantine, report, starts, crossed>>

Others(payload) == {t \in Scripts : loader[t].payload \notin {Unprepared, payload}}

(* main up to the connection: prepare, write_quarantine, and the end of a  *)
(* dry run.  What does not transform or validate raises and leaves nothing.*)
StartEtl(s, dry, verify) ==
  LET payload == Payload(files)
  IN /\ loader[s] = IdleScript /\ starts < MaxStarts
     /\ starts' = starts + 1
     /\ IF files.audited /\ Transforms(files) /\ Validates(payload)
        THEN /\ quarantine' = payload.quarantined
             /\ IF dry
                THEN /\ report' = [mode |-> "dry-run", payload |-> payload]
                     /\ UNCHANGED <<loader, crossed>>
                ELSE /\ loader' = [loader EXCEPT ![s] = [at |-> "first", verify |-> verify,
                                     batches |-> Batches(payload), payload |-> payload]]
                     /\ crossed' = IF Others(payload) = {} THEN crossed \ {s}
                                   ELSE crossed \cup {s} \cup Others(payload)
                     /\ UNCHANGED report
        ELSE UNCHANGED <<quarantine, report, loader, crossed>>
     /\ UNCHANGED <<files, inGraph>>

AllSent(s) == loader[s].at # "idle" /\ loader[s].batches = <<>>

SendBatch(s) ==
  /\ loader[s].batches # <<>>
  /\ inGraph' = AfterBatch(inGraph, Head(loader[s].batches))
  /\ loader' = [loader EXCEPT ![s].batches = Tail(@)]
  /\ UNCHANGED <<files, quarantine, report, starts, crossed>>

\* Mutant of CountsAgree: only the nodes are counted.
NodesAgree(payload) ==
  \A kind \in NodeKinds : GraphCounts(inGraph)[kind] = Counts(payload)[kind]
CountsAgree(payload) == GraphCounts(inGraph) = Counts(payload)

(* main after a load: the comparison, the second load, the report.         *)
CompareCounts(s) ==
  LET my == loader[s]
  IN /\ AllSent(s)
     /\ IF ~CountsAgree(my.payload)
        THEN loader' = [loader EXCEPT ![s] = IdleScript] /\ UNCHANGED report
        ELSE IF my.at = "first" /\ my.verify
        THEN /\ loader' = [loader EXCEPT ![s].at = "second", ![s].batches = Batches(my.payload)]
             /\ UNCHANGED report
        ELSE /\ loader' = [loader EXCEPT ![s] = IdleScript]
             /\ report' = [mode |-> "load", payload |-> my.payload]
     /\ UNCHANGED <<files, inGraph, quarantine, starts, crossed>>

(* The process is stopped, or a call of the database fails.                *)
StopLoad(s) ==
  /\ loader[s] # IdleScript
  /\ loader' = [loader EXCEPT ![s] = IdleScript]
  /\ UNCHANGED <<files, inGraph, quarantine, report, starts, crossed>>

EtlNext ==
  \/ \E x \in Extracts : ReplaceFiles(x)
  \/ \E s \in Scripts, dry, verify \in BOOLEAN : StartEtl(s, dry, verify)
  \/ \E s \in Scripts : SendBatch(s) \/ CompareCounts(s) \/ StopLoad(s)

EtlSpec == EtlInit /\ [][EtlNext]_etlVars

----------------------------------------------------------------------------
Content(payload) ==
  UNION {Elements(row) : row \in payload.parts \cup payload.processes \cup payload.equipment
           \cup payload.anomalies \cup payload.runs \cup payload.measurements \cup payload.assemblies}

\* load.py:154: whatever was loaded, stopped or is being loaded beside it, a
\* load that has sent its batches has every node and relationship of its rows
\* in the graph; the failure label is the last loaded measurement's.
NothingSkipped ==
  \A s \in Scripts : AllSent(s) =>
    OfKinds(Content(loader[s].payload), (NodeKinds \cup LinkKinds) \ {"QualityFailure"})
      \subseteq inGraph

\* cli.py:135: counts that agree mean a graph that agrees: when a load that
\* no load of other files overlapped is reported, the project has exactly the
\* nodes and relationships of its rows, and nothing of an earlier version.
PassIsPayload ==
  [][\A s \in Scripts \ crossed : loader'[s] # loader[s] /\ report' # report /\ report'.mode = "load" =>
       OfKinds(inGraph, NodeKinds \cup LinkKinds)
         = OfKinds(Content(report'.payload), NodeKinds \cup LinkKinds)]_etlVars
============================================================================
