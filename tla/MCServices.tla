----------------------------- MODULE MCServices -----------------------------
\* The services beside the lifecycle of file projects: external projects,
\* mappings, documents, the limiter, the router and the gateway of the queries.
\* The six models share no state, so one run takes them one at a time: part is
\* the one that moves, the others keep their initial state.
EXTENDS ExternalProject, MappingLoad, DocumentRag, RateLimit, ProjectRouter, QueryGateway,
        TLC

VARIABLE part

Only(name, vars) == part = name /\ UNCHANGED <<part, vars>>

ServicesInit ==
  /\ part \in {"external", "mapping", "documents", "limit", "router", "gate"}
  /\ ExtInit /\ MapInit /\ DocsInit /\ LimitInit /\ RouterInit /\ GateInit
  /\ part # "gate" => ready
  /\ part # "external" => extStatus = "draft"
  /\ part # "router" => rowReady = {} /\ loadable = {}

ServicesNext ==
  \/ Only("external", <<mapVars, docVars, limitVars, routeVars, gateVars>>) /\ ExtNext
  \/ Only("mapping", <<extVars, docVars, limitVars, routeVars, gateVars>>) /\ MapNext
  \/ Only("documents", <<extVars, mapVars, limitVars, routeVars, gateVars>>) /\ DocsNext
  \/ Only("limit", <<extVars, mapVars, docVars, routeVars, gateVars>>) /\ LimitNext
  \/ Only("router", <<extVars, mapVars, docVars, limitVars, gateVars>>) /\ RouterNext
  \/ Only("gate", <<extVars, mapVars, docVars, limitVars, routeVars>>) /\ GateNext

servicesVars == <<part, extVars, mapVars, docVars, limitVars, routeVars, gateVars>>

ServicesSpec == ServicesInit /\ [][ServicesNext]_servicesVars

\* Two contents of one dataset version under one key.
MCPayloads == {[key |-> "k1", version |-> "v1", nodes |-> {"n1"}],
               [key |-> "k1", version |-> "v1", nodes |-> {"n1", "n2"}]}

\* A sound upload, and one with every table of at most two rows that repeat,
\* lack or misspell something.
SeqsUpTo2(S) == {<<>>} \cup {<<x>> : x \in S} \cup {<<x, y>> : x, y \in S}
NodeRows == {[id |-> c, name |-> "n"] : c \in {"1", "01", "x"}} \cup {[id |-> "2", name |-> ""]}
RelRows  == {[source |-> "1", target |-> "2", property |-> q] : q \in {"", "p", "q"}}
              \cup {[source |-> "1", target |-> "", property |-> "p"]}
SoundTables == [nodes |-> <<[id |-> "1", name |-> "n"], [id |-> "2", name |-> "n"]>>,
                rels  |-> <<[source |-> "1", target |-> "2", property |-> "p"]>>]
MCOffered == [u1 |-> {SoundTables}, u2 |-> [nodes : SeqsUpTo2(NodeRows), rels : SeqsUpTo2(RelRows)]]

\* Three projects, one without aliases; questions on either side of the
\* threshold and of the margin, and on them.
MCSimilarity == [q1 |-> [cip |-> 12, eq |-> 6, other |-> 5],
                 q2 |-> [cip |-> 0, eq |-> 20, other |-> 20],
                 q3 |-> [cip |-> 11, eq |-> 5, other |-> 0],
                 q4 |-> [cip |-> 75, eq |-> 0, other |-> 10]]
MCMentioned  == [q1 |-> {}, q2 |-> {"piston", "cylinder"}, q3 |-> {"repair"}, q4 |-> {"repair", "change"}]
MCAliases    == [cip |-> {"piston", "cylinder"}, eq |-> {"repair", "change"}]
MCDefaults   == [cip |-> {"parts"}, eq |-> {"machines"}, other |-> {"external"}]
MCRank       == [cip |-> 1, eq |-> 2, other |-> 3]

\* Request threads and databases are interchangeable; sound because the run
\* checks no liveness property.
AnySender == Permutations(Senders) \cup Permutations(Databases)

----------------------------------------------------------------------------
\* connectors.py, graph_projection, mapping, rag, rate_limit.py, main.py,
\* project_router.py and tools/registry.py: the variables of the six models
\* keep their types, and the limiter its bounds.
ServicesTypeOK ==
  ExtTypeOK /\ MapTypeOK /\ DocsTypeOK /\ LimitTypeOK /\ RouterTypeOK /\ GateTypeOK
=============================================================================
