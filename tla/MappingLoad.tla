----------------------------- MODULE MappingLoad -----------------------------
(***************************************************************************)
(* What a mapping makes of the rows of an upload, twice: the dry run of    *)
(* backend/app/mapping/workspace.py counts it for the approval, the loader *)
(* of backend/app/etl/generic_loader.py writes it, merging into what the   *)
(* project's earlier uploads left in the graph, and reconciles its counts. *)
(*                                                                         *)
(* One label with an integer identity and a name, and one relationship     *)
(* type between its nodes with one property, in files of their own.        *)
(* Values of properties are not followed into the graph.                   *)
(***************************************************************************)
EXTENDS Naturals, Sequences, FiniteSets

CONSTANTS Uploads,           \* stored uploads of the project
          Offered,           \* the tables each of them may hold
          Requirements       \* required_properties of the mappings tried

ASSUME OfferedAssumption == DOMAIN Offered = Uploads
ASSUME RequirementsAssumption == Requirements \subseteq SUBSET {"name", "property"}

VARIABLES tables,            \* the source files of each upload, or none
          mapping,           \* mapping.json: upload, required properties, dry run
          loaded,            \* the graph: node identities and pairs, with their upload
          outcome,           \* how the last load of the mapping ended
          loadedUnder        \* history: the required properties each upload was loaded with

mapVars == <<tables, mapping, loaded, outcome, loadedUnder>>

Cells      == {"", "x", "1", "01", "2"}
Ids        == {"1", "2"}
Empty      == "null"
TypeError  == "type error"
NoUpload   == "no upload"
NodeRow    == [id : Cells, name : {"", "n"}]
RelRow     == [source : Cells, target : Cells, property : {"", "p", "q"}]
NoTables   == [nodes |-> <<>>, rels |-> <<>>]
Tables     == [nodes : Seq(NodeRow), rels : Seq(RelRow)]
NoReport   == [nodes |-> 0, rels |-> 0]
ASSUME UploadsAssumption == NoUpload \notin Uploads /\ \A u \in Uploads : Offered[u] \subseteq Tables
Unapproved == [upload |-> NoUpload, required |-> {}, report |-> NoReport]

MapInit ==
  /\ tables = [u \in Uploads |-> NoTables]
  /\ mapping = Unapproved
  /\ loaded = [nodes |-> [i \in Ids |-> NoUpload], rels |-> [e \in Ids \X Ids |-> NoUpload]]
  /\ outcome = "none"
  /\ loadedUnder = [u \in Uploads |-> {}]

----------------------------------------------------------------------------
\* coerce_value for INTEGER: no value, an error, or the number it spells.
Coerced(cell) ==
  CASE cell = ""   -> Empty
    [] cell = "x"  -> TypeError
    [] cell = "01" -> "1"
    [] OTHER       -> cell

Lacks(required, name, cell) == name \in required /\ cell = ""

(* _dry_run, nodes: the rows that are counted as projected, identity first.*)
Isolated(row, required) ==
  \/ row.id = ""
  \/ Coerced(row.id) = TypeError
  \/ Lacks(required, "name", row.name)

Identities(rows, required) ==
  {Coerced(rows[i].id) : i \in {k \in 1..Len(rows) : ~Isolated(rows[k], required)}}

\* _dry_run, relationships: type errors, required properties, keys, orphans.
RelIsolated(row, required, ids) ==
  \/ TypeError \in {Coerced(row.source), Coerced(row.target)}
  \/ Lacks(required, "property", row.property)
  \/ Empty \in {Coerced(row.source), Coerced(row.target)}
  \/ ~({Coerced(row.source), Coerced(row.target)} \subseteq ids)

\* Mutant of RelationshipKey: rows that differ in a property count twice.
RowKey(row) == <<Coerced(row.source), Coerced(row.target), row.property>>

RelationshipKey(row) == <<Coerced(row.source), Coerced(row.target)>>

RelationshipKeys(rows, required, ids) ==
  {RelationshipKey(rows[i]) : i \in {k \in 1..Len(rows) : ~RelIsolated(rows[k], required, ids)}}

DryRun(t, required) ==
  LET ids == Identities(t.nodes, required)
  IN  [nodes |-> Cardinality(ids),
       rels  |-> Cardinality(RelationshipKeys(t.rels, required, ids))]

----------------------------------------------------------------------------
(* _prepare: a row that cannot be coerced is passed over as a whole.       *)
Skipped(row, required) ==
  \/ Coerced(row.id) \in {TypeError, Empty}
  \/ Lacks(required, "name", row.name)

PreparedNodes(rows, required) ==
  {Coerced(rows[i].id) : i \in {k \in 1..Len(rows) : ~Skipped(rows[k], required)}}

RelSkipped(row, required, ids) ==
  \/ TypeError \in {Coerced(row.source), Coerced(row.target)}
  \/ Lacks(required, "property", row.property)
  \/ Coerced(row.source) \notin ids \/ Coerced(row.target) \notin ids

PreparedRels(rows, required, ids) ==
  {<<Coerced(rows[i].source), Coerced(rows[i].target)>> :
     i \in {k \in 1..Len(rows) : ~RelSkipped(rows[k], required, ids)}}

Prepared(t, required) ==
  LET ids == PreparedNodes(t.nodes, required)
  IN  [nodes |-> ids, rels |-> PreparedRels(t.rels, required, ids)]

\* Mutant of Merged: what an earlier upload loaded keeps its mark.
Created(g, u, p) ==
  [nodes |-> [i \in Ids |-> IF i \in p.nodes /\ g.nodes[i] = NoUpload THEN u ELSE g.nodes[i]],
   rels  |-> [e \in Ids \X Ids |-> IF e \in p.rels /\ g.rels[e] = NoUpload THEN u ELSE g.rels[e]]]

\* MERGE and SET: what was there is taken over, the rest stays as it was.
Merged(g, u, p) ==
  [nodes |-> [i \in Ids |-> IF i \in p.nodes THEN u ELSE g.nodes[i]],
   rels  |-> [e \in Ids \X Ids |-> IF e \in p.rels THEN u ELSE g.rels[e]]]

\* actual_nodes and actual_relationships.
CountOf(g, u) ==
  [nodes |-> Cardinality({i \in Ids : g.nodes[i] = u}),
   rels  |-> Cardinality({e \in Ids \X Ids : g.rels[e] = u})]

----------------------------------------------------------------------------
Upload(u) ==
  /\ tables[u] = NoTables
  /\ \E t \in Offered[u] : tables' = [tables EXCEPT ![u] = t]
  /\ UNCHANGED <<mapping, loaded, outcome, loadedUnder>>

(* preview and approve: the dry run goes into the mapping.                 *)
Approve(u) ==
  /\ tables[u] # NoTables
  /\ \E required \in Requirements :
       mapping' = [upload |-> u, required |-> required, report |-> DryRun(tables[u], required)]
  /\ outcome' = "none"
  /\ UNCHANGED <<tables, loaded, loadedUnder>>

(* load of the approved upload: one transaction, reconciled before it ends.*)
Load ==
  /\ mapping # Unapproved
  /\ LET u == mapping.upload
         p == Prepared(tables[u], mapping.required)
         g == Merged(loaded, u, p)
         expected == [nodes |-> Cardinality(p.nodes), rels |-> Cardinality(p.rels)]
     IN  \/ /\ CountOf(g, u) = expected
            /\ loaded' = g /\ outcome' = "loaded"
            /\ loadedUnder' = [loadedUnder EXCEPT ![u] = @ \cup {mapping.required}]
         \/ /\ CountOf(g, u) # expected
            /\ outcome' = "mismatch" /\ UNCHANGED <<loaded, loadedUnder>>
         \/ outcome' = "failed" /\ UNCHANGED <<loaded, loadedUnder>>
  /\ UNCHANGED <<tables, mapping>>

MapNext == Load \/ \E u \in Uploads : Upload(u) \/ Approve(u)

MapSpec == MapInit /\ [][MapNext]_mapVars

----------------------------------------------------------------------------
MapTypeOK ==
  /\ \A u \in Uploads : tables[u] \in Offered[u] \cup {NoTables}
  /\ mapping.upload \in Uploads \cup {NoUpload} /\ mapping.required \in Requirements \cup {{}}
  /\ mapping.report \in [nodes : Nat, rels : Nat]
  /\ loaded \in [nodes : [Ids -> Uploads \cup {NoUpload}],
                 rels : [Ids \X Ids -> Uploads \cup {NoUpload}]]
  /\ outcome \in {"none", "loaded", "mismatch", "failed"}
  /\ loadedUnder \in [Uploads -> SUBSET Requirements]

(* mapping/workspace.py:330 (preview counts identical to the graph): a load *)
(* that is taken as done left as many nodes and relationships with the mark *)
(* of its upload as the approved report counted, whatever the files hold   *)
(* and earlier uploads left.  It fails its reconciliation only if the same *)
(* upload was loaded before by a mapping that required less: what that one *)
(* made of rows the new one leaves out still carries the mark.             *)
LoadedAsApproved ==
  /\ outcome = "loaded" => CountOf(loaded, mapping.upload) = mapping.report
  /\ outcome = "mismatch" =>
       \E r \in loadedUnder[mapping.upload] : ~(mapping.required \subseteq r)
============================================================================
