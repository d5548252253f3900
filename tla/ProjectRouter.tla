----------------------------- MODULE ProjectRouter -----------------------------
(***************************************************************************)
(* backend/app/agent/project_router.py: which project a question is asked  *)
(* of when the caller names none.  The router lists the projects, loads    *)
(* the schema of each that is ready and scores it, one after the other,    *)
(* while uploads, approvals, promotions and archives go on.  From the      *)
(* readiness gate on, the question is followed by the module QueryGateway. *)
(*                                                                         *)
(* Scores are counted in ten-thousandths, similarities in hundredths.      *)
(* Texts are abstracted to how similar they are and which words they hold; *)
(* they do not change while a question is routed.                          *)
(***************************************************************************)
EXTENDS Integers, FiniteSets

CONSTANTS RoutedProjects,    \* the ids in the registry
          Routable,          \* the questions
          Similarity,        \* of a question and the summary of a project
          Mentioned,         \* the words of a question
          Aliases,           \* the words of the projects that have aliases
          DefaultWords,      \* domain type and id of each project
          Rank,              \* the order of the ids
          Threshold, Margin  \* confidence_threshold and margin_threshold

NoProject == "no project"

ASSUME RouterAssumption ==
  /\ NoProject \notin RoutedProjects
  /\ Similarity \in [Routable -> [RoutedProjects -> 0..100]]
  /\ Rank \in [RoutedProjects -> Nat]
  /\ \A p, o \in RoutedProjects : Rank[p] = Rank[o] => p = o
  /\ Threshold \in 1..10000 /\ Margin \in 0..10000
ASSUME WordsAssumption ==
  \A q \in Routable : IsFiniteSet(Mentioned[q])

VARIABLES rowReady,          \* projects whose row says ready
          loadable,          \* projects whose schema manifest is present and valid
          routing,           \* the question under way
          steady             \* history: candidates ever since the question came

routeVars == <<rowReady, loadable, routing, steady>>

RoutingAt == {"idle", "loading", "explicit_project", "routed", "needs_clarification"}
RoutingDecision == [at : RoutingAt, question : Routable \cup {"none"}, listed : SUBSET RoutedProjects,
                    pending : SUBSET RoutedProjects, seen : SUBSET RoutedProjects,
                    selected : RoutedProjects \cup {NoProject}]

NoQuestion == [at |-> "idle", question |-> "none", listed |-> {}, pending |-> {}, seen |-> {},
               selected |-> NoProject]

RouterInit ==
  /\ rowReady \in SUBSET RoutedProjects /\ loadable \in SUBSET RoutedProjects
  /\ routing = NoQuestion /\ steady = {}

----------------------------------------------------------------------------
KeywordsOf(p) == IF p \in DOMAIN Aliases THEN Aliases[p] ELSE DefaultWords[p]

\* min(1, matched / 2), weighted with 0.32.
KeywordScore(q, p) ==
  LET matched == Cardinality(KeywordsOf(p) \cap Mentioned[q])
  IN  IF matched >= 2 THEN 3200 ELSE 1600 * matched

\* The cosine of two feature-hashed texts, cut at 0, weighted with 0.68.
SemanticScore(q, p) == 68 * Similarity[q][p]

Score(q, p) == SemanticScore(q, p) + KeywordScore(q, p)

\* w comes first when S is sorted by score, and by id where scores are equal.
First(q, w, S) ==
  /\ w \in S
  /\ \A o \in S \ {w} : \/ Score(q, o) < Score(q, w)
                        \/ Score(q, o) = Score(q, w) /\ Rank[w] < Rank[o]

Confident(q, w, runnerUp) == Score(q, w) >= Threshold /\ Score(q, w) - runnerUp >= Margin

----------------------------------------------------------------------------
(* What the rest of the system does to the projects meanwhile.             *)
RowChanges(p) ==
  /\ rowReady' = IF p \in rowReady THEN rowReady \ {p} ELSE rowReady \cup {p}
  /\ steady' = steady \ {p}
  /\ UNCHANGED <<loadable, routing>>

SchemaChanges(p) ==
  /\ loadable' = IF p \in loadable THEN loadable \ {p} ELSE loadable \cup {p}
  /\ steady' = steady \ {p}
  /\ UNCHANGED <<rowReady, routing>>

(* A project that is named bypasses the router; an id the registry does    *)
(* not know is answered 404 and changes nothing.                           *)
AskProject(q, p) ==
  /\ routing = NoQuestion
  /\ routing' = [NoQuestion EXCEPT !.at = "explicit_project", !.question = q, !.selected = p]
  /\ UNCHANGED <<rowReady, loadable, steady>>

(* candidates: the rows are listed at once, ...                            *)
ListCandidates(q) ==
  /\ routing = NoQuestion
  /\ routing' = [NoQuestion EXCEPT !.at = "loading", !.question = q,
                                   !.listed = rowReady, !.pending = rowReady]
  /\ steady' = rowReady \cap loadable
  /\ UNCHANGED <<rowReady, loadable>>

\* Mutant of AfterLoad: a schema that does not load ends the loop.
EndsLoop(p) ==
  IF p \in loadable
  THEN [routing EXCEPT !.pending = @ \ {p}, !.seen = @ \cup {p}]
  ELSE [routing EXCEPT !.pending = {}]

AfterLoad(p) ==
  IF p \in loadable
  THEN [routing EXCEPT !.pending = @ \ {p}, !.seen = @ \cup {p}]
  ELSE [routing EXCEPT !.pending = @ \ {p}]

(* ... and the schemas are loaded one by one; one that is missing or       *)
(* invalid by then is passed over.                                         *)
LoadSchema(p) ==
  /\ routing.at = "loading" /\ p \in routing.pending
  /\ routing' = AfterLoad(p)
  /\ UNCHANGED <<rowReady, loadable, steady>>

Decides(decision, p) ==
  /\ routing' = [routing EXCEPT !.at = decision, !.selected = p]
  /\ UNCHANGED <<rowReady, loadable, steady>>

Loaded == routing.at = "loading" /\ routing.pending = {}

NoCandidate == Loaded /\ routing.seen = {} /\ Decides("needs_clarification", NoProject)

(* The winner against the runner-up, or against 0 when it is alone.        *)
DecideRoute(w) ==
  LET q == routing.question
      rest == routing.seen \ {w}
  IN /\ Loaded /\ First(q, w, routing.seen)
     /\ \E runnerUp \in IF rest = {} THEN {0} ELSE {Score(q, s) : s \in {o \in rest : First(q, o, rest)}} :
          IF Confident(q, w, runnerUp) THEN Decides("routed", w)
                                       ELSE Decides("needs_clarification", NoProject)

(* The question goes on to the readiness gate, or back to the caller.      *)
HandOver ==
  /\ routing.at \in {"explicit_project", "routed", "needs_clarification"}
  /\ routing' = NoQuestion
  /\ UNCHANGED <<rowReady, loadable, steady>>

RouterNext ==
  \/ \E p \in RoutedProjects : RowChanges(p) \/ SchemaChanges(p) \/ LoadSchema(p) \/ DecideRoute(p)
  \/ \E q \in Routable : ListCandidates(q) \/ \E p \in RoutedProjects : AskProject(q, p)
  \/ NoCandidate \/ HandOver

RouterSpec == RouterInit /\ [][RouterNext]_routeVars

----------------------------------------------------------------------------
RouterTypeOK ==
  /\ rowReady \subseteq RoutedProjects /\ loadable \subseteq RoutedProjects
  /\ steady \subseteq RoutedProjects
  /\ routing \in RoutingDecision

\* p is good enough, and better by the margin than every other of S and than
\* no project at all.
Leads(q, p, S) ==
  /\ Score(q, p) >= Threshold /\ Score(q, p) >= Margin
  /\ \A o \in S \ {p} : Score(q, p) - Score(q, o) >= Margin

(* docs/enterprise-stage3-2-project-router.md:49-52: a project that was    *)
(* not named is asked only if it leads every project that was a candidate  *)
(* all the while; and the caller is asked back only if no such project led *)
(* all the projects that were listed.                                      *)
RouteIsClearLead ==
  /\ routing.at = "routed" =>
       routing.selected \in RoutedProjects /\ Leads(routing.question, routing.selected, steady)
  /\ routing.at = "needs_clarification" =>
       \A p \in steady : ~Leads(routing.question, p, routing.listed)
============================================================================
