---------------------------- MODULE GraphExplorer ----------------------------
(***************************************************************************)
(* The graph explorer of the internal console: the page                    *)
(* frontend/pages/graph_explorer_page.py in one browser session, the       *)
(* helpers of frontend/graph_explorer.py, and the bounded queries of       *)
(* backend/app/services/graph_service.py it asks through its project.      *)
(*                                                                         *)
(* The graph does not change while it is looked at.  The page is a script: *)
(* it writes the session state entry by entry, and another click stops it  *)
(* at any of them.  Search terms, colours and captions are left out.       *)
(***************************************************************************)
EXTENDS Naturals, Sequences, FiniteSets, SequencesExt

CONSTANTS Nodes,             \* element ids
          Owner, Label, Key, \* of a node: its project, label, identity property
          Edges,             \* relationships: [from, to, owner]
          Owners,            \* projects
          OpenProject,       \* cip-dmd, of which queries are not restricted
          PathLimits,        \* bound: path limits offered (25, 50, 75, 100)
          Depths,            \* bound: hops offered (1, 2, 3)
          RenderLimit,       \* bound: nodes the renderer takes (1000, 2000)
          MaxOpened          \* bound: subgraphs asked for

ASSUME GraphAssumption ==
  /\ Edges \subseteq [from : Nodes, to : Nodes, owner : Owners]
  /\ OpenProject \in Owners /\ PathLimits \subseteq Nat \ {0} /\ Depths \subseteq Nat \ {0}
  /\ IsFiniteSet(Nodes)

VARIABLES viewed,            \* active_project_id
          context,           \* the explorer's part of the context of each project
          arrived,           \* the subgraph the script holds; none when it ended
          writing,           \* the writes the script still has to do
          opened             \* subgraphs asked for so far

explorerVars == <<viewed, context, arrived, writing, opened>>

None   == <<>>
NodeLabels == {Label[n] : n \in Nodes}
NoPayload == [root |-> None, nodes |-> {}, edges |-> {}, depth |-> 0, truncated |-> FALSE]
NoContextYet == [result |-> NoPayload, picked |-> {}, history |-> <<>>, hidden |-> {}]

ExplorerInit ==
  /\ viewed = OpenProject
  /\ context = [p \in Owners |-> NoContextYet]
  /\ arrived = NoPayload
  /\ writing = <<>>
  /\ opened = 0

----------------------------------------------------------------------------
\* graph_service.py.  The queries of cip-dmd name no project.
InProject(p, owner) == p = OpenProject \/ owner = p

Roots(p, label, key) ==
  {n \in Nodes : Label[n] = label /\ Key[n] = key /\ InProject(p, Owner[n])}

Matches(p, label) == {n \in Nodes : Label[n] = label /\ InProject(p, Owner[n])}

Ends(e) == {e.from, e.to}
Other(e, n) == IF e.from = n THEN e.to ELSE e.from
\* The relationships of path lead from one node to another.
Leads(from, path, to) ==
  \E at \in [0..Len(path) -> Nodes] :
    /\ at[0] = from /\ at[Len(path)] = to
    /\ \A i \in DOMAIN path : Ends(path[i]) = {at[i - 1], at[i]}

\* Paths of up to depth relationships, none twice, all within the project.
PathsFrom(p, root, depth) ==
  LET within == {e \in Edges : InProject(p, e.owner) /\ \A n \in Ends(e) : InProject(p, Owner[n])}
      connected(path) ==
        /\ \A i, j \in DOMAIN path : path[i] = path[j] => i = j
        /\ \E n \in Nodes : Leads(root, path, n)
  IN {path \in UNION {[1..length -> within] : length \in 1..depth} : connected(path)}

\* The payload of a root and of paths from it: all, or any limit of them.
Payloads(p, root, depth, limit) ==
  LET of(paths) ==
        LET edges == UNION {ToSet(path) : path \in paths}
        IN [root |-> <<root>>, nodes |-> {root} \cup UNION {Ends(e) : e \in edges},
            edges |-> edges, depth |-> depth, truncated |-> Cardinality(paths) >= limit]
      all == PathsFrom(p, root, depth)
  IN {of(s) : s \in IF Cardinality(all) <= limit THEN {all} ELSE kSubset(limit, all)}

\* What the database may answer.
Subgraphs(p, label, key, depth, limit) ==
  IF Roots(p, label, key) = {} THEN {NoPayload}
  ELSE UNION {Payloads(p, root, depth, limit) : root \in Roots(p, label, key)}

\* graph_explorer.py: validate_project_scope.
InScope(p, payload) ==
  p = OpenProject \/ /\ \A n \in payload.nodes : Owner[n] = p
                     /\ \A e \in payload.edges : e.owner = p

Merge(old, new) ==
  [root |-> IF old.root # None THEN old.root ELSE new.root,
   nodes |-> old.nodes \cup new.nodes, edges |-> old.edges \cup new.edges,
   depth |-> IF old.depth > new.depth THEN old.depth ELSE new.depth,
   truncated |-> old.truncated \/ new.truncated]

----------------------------------------------------------------------------
\* What the page draws of a context.  filter_evidence, then bound_evidence:
\* the root and the picked nodes come first, then the others in their order.
Filtered(payload, hidden) ==
  LET nodes == {n \in payload.nodes : Label[n] \notin hidden}
  IN [payload EXCEPT !.nodes = nodes, !.edges = {e \in payload.edges : Ends(e) \subseteq nodes}]

\* Mutant of OnlyKept: the edges of the nodes left out stay.
EdgesKept(evidence, kept) == [evidence EXCEPT !.nodes = kept]
OnlyKept(evidence, kept) ==
  [evidence EXCEPT !.nodes = kept, !.edges = {e \in evidence.edges : Ends(e) \subseteq kept}]

Priority(root, picked) ==
  root \o SelectSeq(SetToSeq(picked), LAMBDA n : n \notin ToSet(root))

Bounded(evidence, picked) ==
  IF Cardinality(evidence.nodes) <= RenderLimit THEN evidence
  ELSE LET front == Priority(evidence.root, picked)
           rest  == SetToSeq(evidence.nodes \ ToSet(front))
           first == SubSeq(front \o rest, 1, RenderLimit)
       IN OnlyKept(evidence, ToSet(first) \cap evidence.nodes)

\* Mutant of Drawn: the project of what is drawn is not checked again.
DrawnUnchecked(p, ctx) ==
  IF ctx.result.root = None THEN NoPayload
  ELSE Bounded(Filtered(ctx.result, ctx.hidden), ctx.picked)

\* The page checks the project of its result again each time it is drawn.
Drawn(p, ctx) ==
  IF ctx.result.root = None \/ ~InScope(p, ctx.result) THEN NoPayload
  ELSE Bounded(Filtered(ctx.result, ctx.hidden), ctx.picked)

Shown(p) == Drawn(p, context[p])

\* shortest_path_ids: a breadth-first search that remembers how each node was
\* reached first; the way back from the target is a path to it.
Beside(evidence, seen) ==
  {n \in evidence.nodes : \E e \in evidence.edges : n \in Ends(e) /\ Other(e, n) \in seen}

Spread(evidence, parents) ==
  LET seen == DOMAIN parents
  IN [n \in seen \cup Beside(evidence, seen) |->
        IF n \in seen THEN parents[n]
        ELSE CHOOSE e \in evidence.edges : n \in Ends(e) /\ Other(e, n) \in seen]

Reached(evidence, from) ==
  LET levels[d \in 0..Cardinality(evidence.nodes)] ==
        IF d = 0 THEN [n \in {from} |-> None] ELSE Spread(evidence, levels[d - 1])
  IN levels[Cardinality(evidence.nodes)]

WayBack(parents) ==
  LET way[n \in DOMAIN parents] ==
        IF parents[n] = None THEN <<>> ELSE Append(way[Other(parents[n], n)], parents[n])
  IN way

PathTo(evidence, root, target) ==
  IF root = None THEN <<>>
  ELSE LET parents == Reached(evidence, root[1])
       IN IF target \in DOMAIN parents THEN WayBack(parents)[target] ELSE <<>>

----------------------------------------------------------------------------
Here == context[viewed]
Set(field, value) == context' = [context EXCEPT ![viewed][field] = value]
\* A click stops the script that runs and starts the page anew.
Click ==
  /\ writing' = <<>>
  /\ arrived' = NoPayload

(* switch_project_state: the context of the project that is left is kept,  *)
(* that of the other is written over it key by key, and active_project_id  *)
(* comes last.                                                             *)
SwitchProject(p) ==
  /\ p # viewed
  /\ Click
  /\ viewed' = p
  /\ UNCHANGED <<context, opened>>

\* The first keys of another context over the page's own.
HalfRestored(old, new) ==
  {[old EXCEPT !.result = new.result],
   [old EXCEPT !.result = new.result, !.picked = new.picked],
   [old EXCEPT !.result = new.result, !.picked = new.picked, !.history = new.history],
   new}

\* Stopped on the way: the page stays with the project it had, and what it
\* has now is what the next switch keeps for that project.
CutSwitchProject(p) ==
  /\ p # viewed
  /\ Click
  /\ \E half \in HalfRestored(Here, context[p]) : context' = [context EXCEPT ![viewed] = half]
  /\ UNCHANGED <<viewed, opened>>

\* subgraph of one of the nodes a search returned, or of a key typed in.
AskSubgraph(label, key, depth, limit, next) ==
  /\ opened < MaxOpened
  /\ opened' = opened + 1
  /\ arrived' \in Subgraphs(viewed, label, key, depth, limit)
  /\ writing' = IF InScope(viewed, arrived') THEN next ELSE <<>>
  /\ UNCHANGED <<viewed, context>>

Visit(n, depth) == [node |-> n, depth |-> depth]

OpenFound(n, depth, limit) ==
  /\ n \in Matches(viewed, Label[n])
  /\ AskSubgraph(Label[n], Key[n], depth, limit, <<"open", {n}>>)

OpenTyped(label, key, depth, limit) ==
  AskSubgraph(label, key, depth, limit, <<"open", ToSet(arrived'.root)>>)

(* The selected node is expanded; only one that is drawn can be selected.  *)
Expand(n, depth, limit) ==
  /\ n \in Here.picked \cap Shown(viewed).nodes
  /\ AskSubgraph(Label[n], Key[n], depth, limit, <<"merge", {}>>)

\* The writes of an opened and of an expanded subgraph, one at a time.
Restarted == <<Visit(arrived.root, arrived.depth)>>
Recorded == Here.history \o Restarted

WriteNext ==
  /\ writing # <<>>
  /\ CASE writing[1] = "open"    -> Set("result", arrived)
       [] writing[1] = "pick"    -> Set("picked", writing[2])
       [] writing[1] = "restart" -> Set("history", Restarted)
       [] writing[1] = "merge"   -> Set("result", Merge(Here.result, arrived))
       [] OTHER                  -> Set("history", Recorded)
  /\ writing' = CASE writing[1] = "open"  -> <<"pick", writing[2]>>
                  [] writing[1] = "pick"  -> <<"restart", {}>>
                  [] writing[1] = "merge" -> <<"record", {}>>
                  [] OTHER                -> <<>>
  /\ arrived' = IF writing' = <<>> THEN NoPayload ELSE arrived
  /\ UNCHANGED <<viewed, opened>>

\* What is not drawn does not stay selected.
Redrawn(ctx) == [ctx EXCEPT !.picked = @ \cap Drawn(viewed, ctx).nodes]

(* A click in the drawing, the node list or the filters.                   *)
Pick(n) ==
  /\ n \in Shown(viewed).nodes
  /\ Click
  /\ Set("picked", {n})
  /\ UNCHANGED <<viewed, opened>>

HideLabel(label) ==
  /\ Here.result.root # None
  /\ Click
  /\ LET hidden == IF label \in Here.hidden THEN Here.hidden \ {label} ELSE Here.hidden \cup {label}
     IN context' = [context EXCEPT ![viewed] = Redrawn([Here EXCEPT !.hidden = hidden])]
  /\ UNCHANGED <<viewed, opened>>

ExplorerNext ==
  \/ \E p \in Owners : SwitchProject(p) \/ CutSwitchProject(p)
  \/ \E label \in NodeLabels : HideLabel(label)
  \/ \E n \in Nodes : Pick(n)
  \/ \E n \in Nodes, depth \in Depths, limit \in PathLimits :
       OpenFound(n, depth, limit) \/ Expand(n, depth, limit)
  \/ \E n \in Nodes, depth \in Depths, limit \in PathLimits :
       OpenTyped(Label[n], Key[n], depth, limit)
  \/ WriteNext

ExplorerSpec == ExplorerInit /\ [][ExplorerNext]_explorerVars

----------------------------------------------------------------------------
\* graph_explorer_page.py:34: what a project other than cip-dmd receives and
\* draws is its own, although other projects have nodes of the same label
\* and key in the same database, and although a switch that was stopped
\* leaves the result of another project on its page.
GraphStaysInProject ==
  viewed # OpenProject => InScope(viewed, arrived) /\ InScope(viewed, Shown(viewed))

\* graph_explorer.py:67 and :196: whatever was filtered and bounded, no
\* relationship is drawn without its ends, and the path that is highlighted
\* is one of the drawn relationships, as short as any.
DrawingIsGraph ==
  LET drawn == Shown(viewed)
      way   == [n \in drawn.nodes |-> PathTo(drawn, drawn.root, n)]
      found == {n \in drawn.nodes : n \in ToSet(drawn.root) \/ way[n] # <<>>}
  IN /\ \A n \in drawn.nodes :
          /\ ToSet(way[n]) \subseteq drawn.edges
          /\ way[n] # <<>> => Leads(drawn.root[1], way[n], n)
     /\ \A e \in drawn.edges :
          /\ Ends(e) \subseteq drawn.nodes
          /\ Ends(e) \cap found # {} =>
               /\ Ends(e) \subseteq found
               /\ \A m, n \in Ends(e) : Len(way[m]) <= Len(way[n]) + 1
============================================================================
