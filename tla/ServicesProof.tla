----------------------------- MODULE ServicesProof -----------------------------
(***************************************************************************)
(* Safety of the services beside the lifecycle of file projects, for any   *)
(* number of projects, callers, services and senders: the router, the      *)
(* limiter, external projects, the documents and the mapping of a graph.   *)
(* The modules share no variable; each has its invariant and its theorems, *)
(* and ServicesTyped puts them together with the gateway of the queries.   *)
(***************************************************************************)
EXTENDS MCServices, QueryGatewayProof,
        SequenceTheorems, FiniteSetTheorems, WellFoundedInduction, TLAPS

(***************************************************************************)
(* The router.                                                             *)
(***************************************************************************)

\* What the loop over the projects keeps: a project that was a candidate all
\* the while is loadable, was listed, and has been seen or is still to come.
LoopInv ==
  /\ steady \subseteq loadable
  /\ routing.at # "idle" => routing.question \in Routable
  /\ routing.at = "loading" =>
       /\ routing.seen \cup routing.pending \subseteq routing.listed
       /\ steady \subseteq routing.seen \cup routing.pending

RouterInv == RouterTypeOK /\ LoopInv /\ RouteIsClearLead

\* A score is a number: no question has infinitely many words.
LEMMA ScoreIsNat ==
  ASSUME NEW q \in Routable, NEW p \in RoutedProjects
  PROVE  Score(q, p) \in Nat
<1> DEFINE common == KeywordsOf(p) \cap Mentioned[q]
<1>1. IsFiniteSet(Mentioned[q])
  BY WordsAssumption
<1>2. IsFiniteSet(common)
  BY <1>1, FS_Subset
<1>3. Cardinality(common) \in Nat
  BY <1>2, FS_CardinalityType
<1>4. KeywordScore(q, p) \in Nat
  BY <1>3 DEF KeywordScore
<1>5. Similarity[q][p] \in 0..100
  BY RouterAssumption
<1>6. SemanticScore(q, p) \in Nat
  BY <1>5 DEF SemanticScore
<1> QED BY <1>4, <1>6 DEF Score

LEMMA RouterInit_Inv == RouterInit => RouterInv
BY DEF RouterInit, RouterInv, RouterTypeOK, LoopInv, RouteIsClearLead, NoQuestion,
       RoutingDecision, RoutingAt

\* The winner among the candidates seen leads those that were there all along,
\* when it is confident against the runner-up; when it is not, nobody leads
\* all that were listed.
LEMMA WinnerAgainstRunnerUp ==
  ASSUME NEW q \in Routable, NEW S \in SUBSET RoutedProjects, NEW L \in SUBSET RoutedProjects,
         S \subseteq L, NEW w, First(q, w, S),
         NEW n \in IF S \ {w} = {} THEN {0}
                   ELSE {Score(q, s) : s \in {o \in S \ {w} : First(q, o, S \ {w})}}
  PROVE  /\ Confident(q, w, n) => Leads(q, w, S)
         /\ ~Confident(q, w, n) => \A p \in S : ~Leads(q, p, L)
<1>1. \A p \in S : Score(q, p) \in Nat
  BY ScoreIsNat
<1>2. /\ w \in S
      /\ \A o \in S \ {w} : Score(q, o) <= Score(q, w)
  BY <1>1 DEF First
<1>3. n \in Nat /\ \A o \in S \ {w} : Score(q, o) <= n
  <2>1. CASE S \ {w} = {}
    BY <2>1
  <2>2. CASE S \ {w} # {}
    <3>1. PICK s \in S \ {w} : First(q, s, S \ {w}) /\ n = Score(q, s)
      BY <2>2
    <3> QED BY <3>1, <1>1 DEF First
  <2> QED BY <2>1, <2>2
<1>4. S \ {w} # {} => \E s \in S \ {w} : n = Score(q, s)
  OBVIOUS
<1>5. S \ {w} = {} => n = 0
  OBVIOUS
<1>6. Margin \in Nat /\ Threshold \in Nat
  BY RouterAssumption
<1>7. ASSUME Confident(q, w, n) PROVE Leads(q, w, S)
  BY <1>1, <1>2, <1>3, <1>6, <1>7 DEF Leads, Confident
<1>8. ASSUME ~Confident(q, w, n), NEW p \in S, Leads(q, p, L) PROVE FALSE
  <2>1. /\ Score(q, p) >= Threshold /\ Score(q, p) >= Margin
        /\ \A o \in S \ {p} : Score(q, p) - Score(q, o) >= Margin
    BY <1>8 DEF Leads
  <2>2. Score(q, w) >= Threshold
    BY <2>1, <1>1, <1>2, <1>6
  <2>3. Score(q, w) - n < Margin
    BY <2>2, <1>8, <1>1, <1>2, <1>3, <1>6 DEF Confident
  <2>4. CASE p = w
    BY <2>1, <2>3, <2>4, <1>1, <1>2, <1>3, <1>4, <1>5, <1>6
  <2>5. CASE p # w
    \* Then the two scores are equal and the margin is 0.
    BY <2>1, <2>3, <2>5, <1>1, <1>2, <1>3, <1>4, <1>5, <1>6
  <2> QED BY <2>4, <2>5
<1> QED BY <1>7, <1>8

LEMMA RouterStep == RouterInv /\ [RouterNext]_routeVars => RouterInv'
<1> SUFFICES ASSUME RouterInv, [RouterNext]_routeVars PROVE RouterInv'
  OBVIOUS
<1> USE DEF RouterInv
<1>t. /\ routing \in RoutingDecision /\ steady \subseteq RoutedProjects
      /\ rowReady \subseteq RoutedProjects /\ loadable \subseteq RoutedProjects
  BY DEF RouterTypeOK
<1>1. ASSUME NEW p \in RoutedProjects, RowChanges(p) \/ SchemaChanges(p) PROVE RouterInv'
  BY <1>1 DEF RowChanges, SchemaChanges, RouterTypeOK, LoopInv, RouteIsClearLead, Leads
<1>2. ASSUME NEW p \in RoutedProjects, LoadSchema(p) PROVE RouterInv'
  <2>1. /\ routing'.at = "loading" /\ routing'.question = routing.question
        /\ routing'.listed = routing.listed /\ routing' \in RoutingDecision
        /\ routing'.seen \cup routing'.pending \subseteq routing.seen \cup routing.pending
        /\ steady \subseteq routing'.seen \cup routing'.pending
    BY <1>2, <1>t DEF LoadSchema, AfterLoad, LoopInv, RoutingDecision, RoutingAt
  <2> QED BY <2>1, <1>2 DEF LoadSchema, LoopInv, RouterTypeOK, RouteIsClearLead
<1>3. ASSUME NEW w \in RoutedProjects, DecideRoute(w) PROVE RouterInv'
  <2> DEFINE q == routing.question
             S == routing.seen
             L == routing.listed
  <2>1. /\ routing.at = "loading" /\ routing.pending = {} /\ First(q, w, S)
        /\ q \in Routable /\ S \in SUBSET RoutedProjects /\ L \in SUBSET RoutedProjects
        /\ S \subseteq L /\ steady \subseteq S
    BY <1>3, <1>t DEF DecideRoute, Loaded, LoopInv, RoutingDecision
  <2>2. PICK n \in IF S \ {w} = {} THEN {0}
                   ELSE {Score(q, s) : s \in {o \in S \ {w} : First(q, o, S \ {w})}} :
             IF Confident(q, w, n) THEN Decides("routed", w)
                                   ELSE Decides("needs_clarification", NoProject)
    BY <1>3 DEF DecideRoute
  <2>3. /\ Confident(q, w, n) => Leads(q, w, S)
        /\ ~Confident(q, w, n) => \A p \in S : ~Leads(q, p, L)
    BY <2>1, WinnerAgainstRunnerUp
  <2>4. CASE Confident(q, w, n)
    <3>1. /\ routing' = [routing EXCEPT !.at = "routed", !.selected = w]
          /\ UNCHANGED <<rowReady, loadable, steady>>
      BY <2>2, <2>4 DEF Decides
    <3>2. routing' \in RoutingDecision /\ routing'.at = "routed" /\ routing'.selected = w
          /\ routing'.question = q
      BY <3>1, <1>t DEF RoutingDecision, RoutingAt
    <3>3. Leads(q, w, steady)
      BY <2>1, <2>3, <2>4 DEF Leads
    <3>4. RouteIsClearLead'
      BY <3>1, <3>2, <3>3 DEF RouteIsClearLead, Leads
    <3> QED BY <2>1, <3>1, <3>2, <3>4 DEF LoopInv, RouterTypeOK
  <2>5. CASE ~Confident(q, w, n)
    <3>1. /\ routing' = [routing EXCEPT !.at = "needs_clarification", !.selected = NoProject]
          /\ UNCHANGED <<rowReady, loadable, steady>>
      BY <2>2, <2>5 DEF Decides
    <3>2. routing' \in RoutingDecision /\ routing'.at = "needs_clarification"
          /\ routing'.question = q /\ routing'.listed = L
      BY <3>1, <1>t DEF RoutingDecision, RoutingAt
    <3>3. \A p \in steady : ~Leads(q, p, L)
      BY <2>1, <2>3, <2>5
    <3>4. RouteIsClearLead'
      BY <3>1, <3>2, <3>3 DEF RouteIsClearLead, Leads
    <3> QED BY <2>1, <3>1, <3>2, <3>4 DEF LoopInv, RouterTypeOK
  <2> QED BY <2>4, <2>5
<1>4. ASSUME NEW q \in Routable, ListCandidates(q) PROVE RouterInv'
  BY <1>4 DEF ListCandidates, NoQuestion, RouterTypeOK, LoopInv, RouteIsClearLead,
              RoutingDecision, RoutingAt
<1>5. ASSUME NEW q \in Routable, NEW p \in RoutedProjects, AskProject(q, p) PROVE RouterInv'
  BY <1>5 DEF AskProject, NoQuestion, RouterTypeOK, LoopInv, RouteIsClearLead,
              RoutingDecision, RoutingAt
<1>6. CASE NoCandidate
  <2>1. steady = {}
    BY <1>6 DEF NoCandidate, Loaded, LoopInv
  <2>2. /\ routing' \in RoutingDecision /\ routing'.at = "needs_clarification"
        /\ routing'.question = routing.question /\ UNCHANGED <<rowReady, loadable, steady>>
        /\ routing.at = "loading"
    BY <1>6, <1>t DEF NoCandidate, Loaded, Decides, RoutingDecision, RoutingAt
  <2> QED BY <2>1, <2>2 DEF LoopInv, RouterTypeOK, RouteIsClearLead
<1>7. CASE HandOver
  BY <1>7 DEF HandOver, NoQuestion, RouterTypeOK, LoopInv, RouteIsClearLead,
              RoutingDecision, RoutingAt
<1>8. CASE UNCHANGED routeVars
  BY <1>8 DEF routeVars, RouterTypeOK, LoopInv, RouteIsClearLead, Leads
<1> QED BY <1>1, <1>2, <1>3, <1>4, <1>5, <1>6, <1>7, <1>8 DEF RouterNext

(* project_router.py:192-268: with any projects, questions and scores, and *)
(* whatever changes while the schemas are loaded, a project that was not   *)
(* named is asked only with a clear lead, and the caller is asked back     *)
(* only without one.                                                       *)
THEOREM ClearLeadOnly == RouterSpec => []RouteIsClearLead
<1>1. RouterInv => RouteIsClearLead
  BY DEF RouterInv
<1> QED BY RouterInit_Inv, RouterStep, <1>1, PTL DEF RouterSpec

(***************************************************************************)
(* The limiter.                                                            *)
(***************************************************************************)

\* A set of numbers has a smallest one.
LEMMA SmallestExists ==
  ASSUME NEW T \in SUBSET Nat, T # {}
  PROVE  \E m \in T : \A n \in T : m <= n
<1> DEFINE R == OpToRel(<, Nat)
<1>1. IsWellFoundedOn(R, Nat)
  BY NatLessThanWellFounded
<1>2. R = {ss \in Nat \X Nat : ss[1] < ss[2]}
  BY Zenon DEF OpToRel
<1> HIDE DEF R
<1>3. PICK m \in T : \A n \in T : ~(<<n, m>> \in R)
  BY <1>1, WFMin
<1>4. ASSUME NEW x \in Nat, NEW y \in Nat, x < y PROVE <<x, y>> \in R
  <2>1. <<x, y>>[1] = x /\ <<x, y>>[2] = y /\ <<x, y>> \in Nat \X Nat
    OBVIOUS
  <2> QED BY <1>2, <1>4, <2>1, Zenon
<1>5. ASSUME NEW n \in T PROVE m <= n
  <2>1. ~(n < m)
    BY <1>3, <1>4
  <2> QED BY <2>1
<1> QED BY <1>5

\* From cuts the head off: everything before the cut is as old as t, and the
\* first one after it is later.
LEMMA FromCuts ==
  ASSUME NEW s \in Seq(Nat), NEW t \in Int
  PROVE  \E gone \in 0..Len(s) :
           /\ From(s, t) \in Seq(Nat) /\ Len(From(s, t)) = Len(s) - gone
           /\ \A i \in 1..(Len(s) - gone) : From(s, t)[i] = s[i + gone]
           /\ \A i \in 1..gone : s[i] <= t
           /\ gone < Len(s) => s[gone + 1] > t
<1> DEFINE later == {i \in 1..Len(s) : s[i] > t}
<1>0. Len(s) \in Nat /\ \A i \in 1..Len(s) : s[i] \in Nat
  BY LenProperties, ElementOfSeq
<1>1. CASE later = {}
  <2>1. From(s, t) = <<>>
    BY <1>1 DEF From
  <2>2. Len(<<>>) = 0 /\ <<>> \in Seq(Nat)
    BY EmptySeq
  <2>3. \A i \in 1..Len(s) : s[i] <= t
    BY <1>0, <1>1
  <2> WITNESS Len(s) \in 0..Len(s)
  <2> QED BY <1>0, <2>1, <2>2, <2>3
<1>2. CASE later # {}
  <2> DEFINE first == CHOOSE i \in later : \A j \in later : i <= j
  <2>0. later \in SUBSET Nat /\ later # {}
    BY <1>0, <1>2
  <2>1. \E m \in later : \A n \in later : m <= n
    <3> HIDE DEF later
    <3> QED BY <2>0, SmallestExists
  <2>2. first \in later /\ \A j \in later : first <= j
    BY <2>1
  <2>3. From(s, t) = SubSeq(s, first, Len(s))
    BY <1>2 DEF From
  <2> HIDE DEF first
  <2>4. /\ SubSeq(s, first, Len(s)) \in Seq(Nat)
        /\ Len(SubSeq(s, first, Len(s))) = Len(s) - first + 1
        /\ \A i \in 1..(Len(s) - first + 1) : SubSeq(s, first, Len(s))[i] = s[first + i - 1]
    BY <1>0, <2>2, SubSeqProperties
  <2>5. \A i \in 1..(first - 1) : s[i] <= t
    BY <1>0, <2>2
  <2>6. first - 1 \in 0..Len(s)
    BY <1>0, <2>2
  <2> WITNESS first - 1 \in 0..Len(s)
  <2> QED BY <1>0, <2>2, <2>3, <2>4, <2>5, <2>6
<1> QED BY <1>1, <1>2

\* An event that no decision still to come will count: neither one under way
\* nor one that reads the clock now.
Stale(e) ==
  /\ e <= clock - Window
  /\ \A u \in Callers : checking[u] # NotChecking => e <= checking[u].time - Window

\* What lately holds beyond m stale events at its head is the end of the bucket.
IsTail(l, b, m) ==
  /\ Len(l) - m <= Len(b)
  /\ \A i \in (m + 1)..Len(l) : l[i] = b[i + Len(b) - Len(l)]

BucketHolds(k) ==
  \E m \in 0..Len(lately[k]) :
    /\ \A i \in 1..m : Stale(lately[k][i])
    /\ IsTail(lately[k], buckets[k], m)

LimitTypes ==
  /\ clock \in Nat /\ crossed \in BOOLEAN
  /\ buckets \in [Keys -> Seq(Nat)] /\ lately \in [Keys -> Seq(Nat)]
  /\ checking \in [Callers -> [key : Keys \cup {"none"}, time : Nat]]
  /\ \A u \in Callers : checking[u] # NotChecking =>
       checking[u].key \in Keys /\ checking[u].time <= clock

OneAtATime ==
  \A u, v \in Callers : checking[u] # NotChecking /\ checking[v] # NotChecking => u = v

WindowInv ==
  /\ LimitTypes
  /\ ~crossed => OneAtATime /\ \A k \in Keys : BucketHolds(k)
  /\ WindowRespected

LEMMA LimitInit_Window == LimitInit => WindowInv
<1> SUFFICES ASSUME LimitInit PROVE WindowInv
  OBVIOUS
<1>1. Len(<<>>) = 0 /\ <<>> \in Seq(Nat)
  BY EmptySeq
<1>2. LimitTypes /\ OneAtATime
  BY <1>1 DEF LimitInit, LimitTypes, NotChecking, OneAtATime
<1>3. ASSUME NEW k \in Keys PROVE BucketHolds(k)
  <2>1. Len(lately[k]) = 0 /\ Len(buckets[k]) = 0
    BY <1>1 DEF LimitInit
  <2> SUFFICES \E m \in 0..Len(lately[k]) : /\ \A i \in 1..m : Stale(lately[k][i])
                                            /\ IsTail(lately[k], buckets[k], m)
    BY DEF BucketHolds
  <2> WITNESS 0 \in 0..Len(lately[k])
  <2> QED BY <2>1 DEF IsTail
<1>4. WindowRespected
  BY <1>1, LimitAssumption DEF LimitInit, WindowRespected
<1> QED BY <1>2, <1>3, <1>4 DEF WindowInv

\* The cut of a bucket at the time of a decision keeps what lately keeps.
LEMMA TailOfCut ==
  ASSUME NEW l \in Seq(Nat), NEW b \in Seq(Nat), NEW m \in 0..Len(l), NEW t \in Int,
         IsTail(l, b, m), \A i \in 1..m : l[i] <= t
  PROVE  IsTail(From(l, t), From(b, t), 0) /\ IsTail(From(l, t), b, 0)
<1>1. PICK c \in 0..Len(l) :
         /\ From(l, t) \in Seq(Nat) /\ Len(From(l, t)) = Len(l) - c
         /\ \A i \in 1..(Len(l) - c) : From(l, t)[i] = l[i + c]
         /\ \A i \in 1..c : l[i] <= t
         /\ c < Len(l) => l[c + 1] > t
  BY FromCuts
<1>2. PICK d \in 0..Len(b) :
         /\ From(b, t) \in Seq(Nat) /\ Len(From(b, t)) = Len(b) - d
         /\ \A i \in 1..(Len(b) - d) : From(b, t)[i] = b[i + d]
         /\ \A i \in 1..d : b[i] <= t
         /\ d < Len(b) => b[d + 1] > t
  BY FromCuts
<1>3. Len(l) \in Nat /\ Len(b) \in Nat
  BY LenProperties
<1>4. CASE c = Len(l)
  BY <1>1, <1>2, <1>3, <1>4 DEF IsTail
<1>5. CASE c < Len(l)
  <2>1. c >= m
    BY <1>1, <1>3, <1>5
  <2> DEFINE j == c + 1 + Len(b) - Len(l)
  <2>2. j \in 1..Len(b) /\ b[j] = l[c + 1]
    BY <1>3, <1>5, <2>1 DEF IsTail
  <2>3. d < j
    <3>1. b[j] \in Nat /\ b[j] > t
      BY <1>1, <1>5, <2>2, ElementOfSeq
    <3> HIDE DEF j
    <3>2. ~(j \in 1..d)
      BY <1>2, <3>1
    <3> QED BY <1>3, <2>2, <3>2
  <2>4. \A i \in 1..(Len(l) - c) : l[i + c] = b[i + c + Len(b) - Len(l)]
    BY <1>3, <1>5, <2>1 DEF IsTail
  <2>5. IsTail(From(l, t), b, 0)
    <3>1. Len(l) - c <= Len(b)
      BY <1>3, <1>5, <2>2
    <3>2. ASSUME NEW i \in 1..(Len(l) - c)
          PROVE  From(l, t)[i] = b[i + Len(b) - (Len(l) - c)]
      <4>1. i + Len(b) - (Len(l) - c) = i + c + Len(b) - Len(l)
        BY <1>3
      <4> QED BY <1>1, <2>4, <4>1
    <3> QED BY <1>1, <1>3, <3>1, <3>2 DEF IsTail
  <2>6. ASSUME NEW i \in 1..(Len(l) - c)
        PROVE  From(l, t)[i] = From(b, t)[i + (Len(b) - d) - (Len(l) - c)]
    <3>1. i + (Len(b) - d) - (Len(l) - c) \in 1..(Len(b) - d)
      BY <1>3, <1>5, <2>3
    <3>2. From(b, t)[i + (Len(b) - d) - (Len(l) - c)] = b[i + c + Len(b) - Len(l)]
      <4> DEFINE p == i + (Len(b) - d) - (Len(l) - c)
      <4>1. p + d = i + c + Len(b) - Len(l)
        BY <1>3
      <4>2. From(b, t)[p] = b[p + d]
        BY <1>2, <3>1
      <4> QED BY <4>1, <4>2
    <3> QED BY <1>1, <2>4, <3>2
  <2>7. IsTail(From(l, t), From(b, t), 0)
    BY <1>1, <1>2, <1>3, <1>5, <2>3, <2>6 DEF IsTail
  <2> QED BY <2>5, <2>7
<1> QED BY <1>1, <1>3, <1>4, <1>5

\* A refusal cuts the bucket and not lately: what was cut is stale now.
LEMMA TailOfShorter ==
  ASSUME NEW l \in Seq(Nat), NEW b \in Seq(Nat), NEW m \in 0..Len(l),
         NEW t \in Int, NEW u \in Int, t <= u,
         IsTail(l, b, m), \A i \in 1..m : l[i] <= u
  PROVE  \E n \in 0..Len(l) : (\A i \in 1..n : l[i] <= u) /\ IsTail(l, From(b, t), n)
<1>1. PICK d \in 0..Len(b) :
         /\ From(b, t) \in Seq(Nat) /\ Len(From(b, t)) = Len(b) - d
         /\ \A i \in 1..(Len(b) - d) : From(b, t)[i] = b[i + d]
         /\ \A i \in 1..d : b[i] <= t
  BY FromCuts
<1>2. Len(l) \in Nat /\ Len(b) \in Nat
  BY LenProperties
<1>3. PICK n \in 0..Len(l) : n >= m /\ Len(l) - n <= Len(b) - d
                             /\ (n = m \/ n + Len(b) - Len(l) = d)
  <2>1. CASE Len(l) - m <= Len(b) - d
    <3> WITNESS m \in 0..Len(l)
    <3> QED BY <1>2, <2>1
  <2>2. CASE ~(Len(l) - m <= Len(b) - d)
    <3>1. Len(l) - (Len(b) - d) \in 0..Len(l)
      BY <1>2, <2>2
    <3> WITNESS Len(l) - (Len(b) - d) \in 0..Len(l)
    <3> QED BY <1>2, <2>2
  <2> QED BY <2>1, <2>2
<1>4. ASSUME NEW i \in 1..n PROVE l[i] <= u
  <2>1. CASE i <= m
    BY <2>1, <1>2
  <2>2. CASE i > m
    <3> DEFINE p == i + Len(b) - Len(l)
    <3>1. p \in 1..d /\ p \in 1..Len(b)
      BY <1>2, <1>3, <2>2 DEF IsTail
    <3>2. l[i] = b[p]
      BY <1>2, <2>2 DEF IsTail
    <3>3. b[p] \in Nat /\ b[p] <= t
      <4> HIDE DEF p
      <4> QED BY <1>1, <3>1, ElementOfSeq
    <3> QED BY <3>2, <3>3
  <2> QED BY <2>1, <2>2, <1>2
<1>5. ASSUME NEW i \in (n + 1)..Len(l)
      PROVE  l[i] = From(b, t)[i + (Len(b) - d) - Len(l)]
  <2> DEFINE p == i + (Len(b) - d) - Len(l)
  <2>1. l[i] = b[i + Len(b) - Len(l)]
    BY <1>2, <1>3 DEF IsTail
  <2>2. p \in 1..(Len(b) - d) /\ p + d = i + Len(b) - Len(l)
    BY <1>2, <1>3
  <2>3. From(b, t)[p] = b[p + d]
    BY <1>1, <2>2
  <2> QED BY <2>1, <2>2, <2>3
<1> WITNESS n \in 0..Len(l)
<1> QED BY <1>1, <1>3, <1>4, <1>5 DEF IsTail

\* An event that is later than the cut stays at the end.
LEMMA FromAppend ==
  ASSUME NEW s \in Seq(Nat), NEW e \in Nat, NEW t \in Int, e > t
  PROVE  From(Append(s, e), t) = Append(From(s, t), e)
<1> DEFINE a == Append(s, e)
<1>1. /\ a \in Seq(Nat) /\ Len(a) = Len(s) + 1 /\ Len(s) \in Nat
      /\ \A i \in 1..Len(s) : a[i] = s[i]
      /\ a[Len(s) + 1] = e
  BY AppendProperties, LenProperties
<1> HIDE DEF a
<1>2. PICK c \in 0..Len(s) :
         /\ From(s, t) \in Seq(Nat) /\ Len(From(s, t)) = Len(s) - c
         /\ \A i \in 1..(Len(s) - c) : From(s, t)[i] = s[i + c]
         /\ \A i \in 1..c : s[i] <= t
         /\ c < Len(s) => s[c + 1] > t
  BY FromCuts
<1>3. PICK d \in 0..Len(a) :
         /\ From(a, t) \in Seq(Nat) /\ Len(From(a, t)) = Len(a) - d
         /\ \A i \in 1..(Len(a) - d) : From(a, t)[i] = a[i + d]
         /\ \A i \in 1..d : a[i] <= t
         /\ d < Len(a) => a[d + 1] > t
  BY <1>1, FromCuts
<1>4. \A i \in 1..Len(s) : s[i] \in Nat
  BY ElementOfSeq
<1>5. d <= Len(s)
  <2> SUFFICES ASSUME d = Len(s) + 1 PROVE FALSE
    BY <1>1
  <2> QED BY <1>1, <1>3
<1>6. ~(c < d)
  <2> SUFFICES ASSUME c < d PROVE FALSE
    OBVIOUS
  <2>1. c + 1 \in 1..d /\ c + 1 \in 1..Len(s)
    BY <1>1, <1>5
  <2>2. s[c + 1] > t
    BY <1>2, <2>1
  <2>3. a[c + 1] = s[c + 1] /\ a[c + 1] <= t
    BY <1>1, <1>3, <2>1
  <2> QED BY <2>2, <2>3, <2>1, <1>4
<1>7. ~(d < c)
  <2> SUFFICES ASSUME d < c PROVE FALSE
    OBVIOUS
  <2>1. d + 1 \in 1..c /\ d + 1 \in 1..Len(s)
    BY <1>1
  <2>2. s[d + 1] <= t
    BY <1>2, <2>1
  <2>3. a[d + 1] = s[d + 1]
    BY <1>1, <2>1
  <2>4. d < Len(a)
    BY <1>1, <2>1
  <2>5. a[d + 1] > t
    BY <1>3, <2>4
  <2> QED BY <2>1, <2>2, <2>3, <2>5, <1>4
<1>8. c = d
  BY <1>6, <1>7
<1> DEFINE f == From(s, t)
           g == Append(f, e)
<1>9. /\ g \in Seq(Nat) /\ Len(g) = Len(f) + 1
      /\ \A i \in 1..Len(f) : g[i] = f[i]
      /\ g[Len(f) + 1] = e
  <2> HIDE DEF f
  <2>1. f \in Seq(Nat)
    BY <1>2 DEF f
  <2> QED BY <2>1, AppendProperties
<1> HIDE DEF g
<1>10. Len(g) = Len(From(a, t))
  BY <1>1, <1>2, <1>3, <1>8, <1>9
<1>11. ASSUME NEW i \in 1..Len(g) PROVE g[i] = From(a, t)[i]
  <2>1. From(a, t)[i] = a[i + d]
    BY <1>1, <1>3, <1>10
  <2>2. CASE i = Len(s) - c + 1
    BY <1>1, <1>2, <1>8, <1>9, <2>1, <2>2
  <2>3. CASE i \in 1..(Len(s) - c)
    <3>1. g[i] = s[i + c] /\ i + c \in 1..Len(s)
      BY <1>2, <1>9, <2>3, <1>1
    <3> QED BY <1>1, <1>8, <2>1, <3>1
  <2>4. Len(g) = Len(s) - c + 1
    BY <1>2, <1>9
  <2>5. i \in 1..(Len(s) - c) \/ i = Len(s) - c + 1
    BY <1>1, <2>4
  <2> QED BY <2>2, <2>3, <2>5
<1>12. g = From(a, t)
  BY <1>3, <1>9, <1>10, <1>11, SeqEqual
<1> QED BY <1>12 DEF g, a

LEMMA AppendTail ==
  ASSUME NEW l \in Seq(Nat), NEW b \in Seq(Nat), NEW e \in Nat, IsTail(l, b, 0)
  PROVE  IsTail(Append(l, e), Append(b, e), 0)
<1> DEFINE l1 == Append(l, e)
           b1 == Append(b, e)
<1>1. /\ Len(l1) = Len(l) + 1 /\ Len(l) \in Nat
      /\ \A i \in 1..Len(l) : l1[i] = l[i]
      /\ l1[Len(l) + 1] = e
  BY AppendProperties, LenProperties
<1>2. /\ Len(b1) = Len(b) + 1 /\ Len(b) \in Nat
      /\ \A i \in 1..Len(b) : b1[i] = b[i]
      /\ b1[Len(b) + 1] = e
  BY AppendProperties, LenProperties
<1> HIDE DEF l1, b1
<1>3. ASSUME NEW i \in 1..Len(l1) PROVE l1[i] = b1[i + Len(b1) - Len(l1)]
  <2>1. CASE i = Len(l) + 1
    <3>1. i + Len(b1) - Len(l1) = Len(b) + 1
      BY <1>1, <1>2, <2>1
    <3> QED BY <1>1, <1>2, <2>1, <3>1
  <2>2. CASE i \in 1..Len(l)
    <3>1. l[i] = b[i + Len(b) - Len(l)] /\ i + Len(b) - Len(l) \in 1..Len(b)
      BY <1>1, <1>2, <2>2 DEF IsTail
    <3>2. i + Len(b) - Len(l) = i + Len(b1) - Len(l1)
      BY <1>1, <1>2
    <3>3. l1[i] = l[i] /\ b1[i + Len(b) - Len(l)] = b[i + Len(b) - Len(l)]
      BY <1>1, <1>2, <2>2, <3>1
    <3> QED BY <3>1, <3>2, <3>3
  <2>3. i \in 1..Len(l) \/ i = Len(l) + 1
    BY <1>1
  <2> QED BY <2>1, <2>2, <2>3
<1>4. Len(l1) <= Len(b1)
  BY <1>1, <1>2 DEF IsTail
<1>5. IsTail(l1, b1, 0)
  BY <1>3, <1>4, <1>1 DEF IsTail
<1> QED BY <1>5 DEF l1, b1

\* What stays stale keeps a bucket that is left alone.
LEMMA BucketKept ==
  ASSUME LimitTypes, NEW k \in Keys, BucketHolds(k),
         lately'[k] = lately[k], buckets'[k] = buckets[k],
         \A e \in Nat : Stale(e) => Stale(e)'
  PROVE  BucketHolds(k)'
<1>1. lately[k] \in Seq(Nat)
  BY DEF LimitTypes
<1>2. PICK m \in 0..Len(lately[k]) : /\ \A i \in 1..m : Stale(lately[k][i])
                                     /\ IsTail(lately[k], buckets[k], m)
  BY DEF BucketHolds
<1>3. \A i \in 1..m : lately[k][i] \in Nat
  BY <1>1, ElementOfSeq, LenProperties
<1>4. \A i \in 1..m : Stale(lately[k][i])'
  <2>1. ASSUME NEW e \in Nat, Stale(e) PROVE Stale(e)'
    BY <2>1
  <2> TAKE i \in 1..m
  <2> DEFINE e == lately[k][i]
  <2>2. e \in Nat /\ Stale(e) /\ lately'[k][i] = e
    BY <1>2, <1>3
  <2> HIDE DEF e
  <2>3. /\ e <= clock' - Window
        /\ \A u \in Callers : checking'[u] # NotChecking => e <= checking'[u].time - Window
    BY <2>1, <2>2 DEF Stale
  <2> QED BY <2>2, <2>3 DEF Stale
<1>5. IsTail(lately[k], buckets[k], m)'
  BY <1>2 DEF IsTail
<1>6. m \in 0..Len(lately[k])'
  BY <1>2
<1> QED BY <1>4, <1>5, <1>6 DEF BucketHolds

\* A decision counts the events of the last window before its time, and its
\* time is not later than the clock.
LEMMA RefusalHolds ==
  ASSUME WindowInv, ~crossed, NEW t \in Callers, Decide(t),
         Len(Expired(buckets[checking[t].key], checking[t].time)) >= Limit, NEW x \in Keys
  PROVE  BucketHolds(x)'
<1> DEFINE k == checking[t].key
           now == checking[t].time
<1>1. /\ k \in Keys /\ now \in Nat /\ now <= clock /\ clock \in Nat
      /\ lately[x] \in Seq(Nat) /\ buckets[x] \in Seq(Nat)
      /\ BucketHolds(x) /\ OneAtATime /\ checking[t] # NotChecking
  BY DEF WindowInv, LimitTypes, Decide
<1>w. Window \in Nat
  BY LimitAssumption
<1>2. /\ buckets' = [buckets EXCEPT ![k] = Expired(buckets[k], now)]
      /\ checking' = [checking EXCEPT ![t] = NotChecking] /\ lately' = lately /\ clock' = clock
  BY DEF Decide
<1>3. buckets \in [Keys -> Seq(Nat)] /\ checking \in [Callers -> [key : Keys \cup {"none"}, time : Nat]]
  BY DEF WindowInv, LimitTypes
<1>4. \A u \in Callers : checking'[u] = NotChecking
  BY <1>1, <1>2, <1>3 DEF OneAtATime
<1>5. ASSUME NEW e \in Nat, Stale(e) PROVE Stale(e)'
  BY <1>2, <1>4, <1>5 DEF Stale
<1>6. CASE x # k
  <2>1. buckets'[x] = buckets[x]
    BY <1>2, <1>3, <1>6
  <2> QED BY <1>1, <1>2, <1>5, <2>1, BucketKept DEF WindowInv
<1>7. CASE x = k
  <2> DEFINE l == lately[x]
             b == buckets[x]
  <2>1. PICK m \in 0..Len(l) : (\A i \in 1..m : Stale(l[i])) /\ IsTail(l, b, m)
    BY <1>1 DEF BucketHolds
  <2>2. \A i \in 1..m : l[i] <= clock - Window
    BY <2>1 DEF Stale
  <2>3. l \in Seq(Nat) /\ b \in Seq(Nat) /\ Len(l) \in Nat
    BY <1>1, LenProperties
  <2> HIDE DEF l, b
  <2>4. now - Window \in Int /\ clock - Window \in Int /\ now - Window <= clock - Window
    BY <1>1, <1>w
  <2> HIDE DEF now, k
  <2>5. PICK n \in 0..Len(l) : (\A i \in 1..n : l[i] <= clock - Window)
                               /\ IsTail(l, From(b, now - Window), n)
    BY <2>1, <2>2, <2>3, <2>4, TailOfShorter
  <2>6. lately'[x] = l /\ buckets'[x] = From(b, now - Window)
    BY <1>2, <1>3, <1>7 DEF l, b, Expired
  <2>7. ASSUME NEW i \in 1..n PROVE Stale(lately[x][i])'
    <3>1. lately'[x][i] = l[i]
      BY <2>6
    <3>2. lately'[x][i] <= clock' - Window
      BY <2>5, <3>1, <1>2
    <3> QED BY <3>2, <1>4 DEF Stale
  <2>8. IsTail(lately[x], buckets[x], n)'
    BY <2>5, <2>6 DEF IsTail
  <2>9. n \in 0..Len(lately[x])'
    BY <2>6
  <2> QED BY <2>7, <2>8, <2>9 DEF BucketHolds
<1> QED BY <1>6, <1>7

\* A grant drops from both what is older, and adds itself to both.
LEMMA GrantHolds ==
  ASSUME WindowInv, ~crossed, NEW t \in Callers, Decide(t),
         ~(Len(Expired(buckets[checking[t].key], checking[t].time)) >= Limit), NEW x \in Keys
  PROVE  BucketHolds(x)' /\ lately'[x] \in Seq(Nat) /\ Len(lately'[x]) <= Limit
<1> DEFINE k == checking[t].key
           now == checking[t].time
           from == now - Window
           order == Kept(Touched(k))
<1>1. /\ k \in Keys /\ now \in Nat /\ checking[t] # NotChecking
      /\ lately[x] \in Seq(Nat) /\ buckets[x] \in Seq(Nat) /\ BucketHolds(x)
      /\ Len(lately[x]) <= Limit
  BY DEF WindowInv, LimitTypes, Decide, WindowRespected
<1>2. Window \in Nat /\ Window > 0 /\ Limit \in Nat /\ Limit > 0
  BY LimitAssumption
<1>3. from \in Int /\ now > from
  BY <1>1, <1>2
<1>4. /\ buckets' = [y \in Keys |-> IF y = k THEN Append(From(buckets[k], from), now)
                                    ELSE IF y \in Range(order) THEN buckets[y] ELSE <<>>]
      /\ lately' = [y \in Keys |->
                      IF crossed \/ y \notin Range(order) THEN <<>>
                      ELSE From(IF y = k THEN Append(lately[y], now) ELSE lately[y], from)]
      /\ ~(Len(From(buckets[k], from)) >= Limit)
  BY DEF Decide, Expired
<1> DEFINE l == lately[x]
           b == buckets[x]
<1>5. PICK m \in 0..Len(l) : (\A i \in 1..m : Stale(l[i])) /\ IsTail(l, b, m)
  BY <1>1 DEF BucketHolds
<1>6. \A i \in 1..m : l[i] <= from
  BY <1>1, <1>5 DEF Stale
<1>7. l \in Seq(Nat) /\ b \in Seq(Nat)
  BY <1>1
<1> HIDE DEF l, b, from, now, k, order
<1>8. IsTail(From(l, from), From(b, from), 0) /\ IsTail(From(l, from), b, 0)
  BY <1>3, <1>5, <1>6, <1>7, TailOfCut
<1>9. From(l, from) \in Seq(Nat) /\ Len(From(l, from)) <= Len(l)
  <2>1. PICK gone \in 0..Len(l) : From(l, from) \in Seq(Nat) /\ Len(From(l, from)) = Len(l) - gone
    BY <1>3, <1>7, FromCuts
  <2> QED BY <2>1, <1>7, LenProperties
<1>10. From(b, from) \in Seq(Nat) /\ Len(From(b, from)) \in Nat
  <2>1. From(b, from) \in Seq(Nat)
    BY <1>3, <1>7, FromCuts
  <2> QED BY <2>1, LenProperties
<1> SUFFICES IsTail(lately'[x], buckets'[x], 0) /\ lately'[x] \in Seq(Nat)
             /\ Len(lately'[x]) <= Limit
  <2> SUFFICES ASSUME IsTail(lately'[x], buckets'[x], 0), lately'[x] \in Seq(Nat)
               PROVE  BucketHolds(x)'
    OBVIOUS
  <2>1. IsTail(lately[x], buckets[x], 0)'
    BY DEF IsTail
  <2>2. 0 \in 0..Len(lately[x])'
    BY LenProperties
  <2>3. \A i \in 1..0 : Stale(lately[x][i])'
    OBVIOUS
  <2> QED BY <2>1, <2>2, <2>3 DEF BucketHolds
<1>11. CASE x \notin Range(order)
  <2>1. lately'[x] = <<>>
    BY <1>4, <1>11
  <2>2. <<>> \in Seq(Nat) /\ Len(<<>>) = 0
    BY EmptySeq
  <2>3. Len(buckets'[x]) \in Nat
    <3>1. CASE x = k
      <4>1. buckets'[x] = Append(From(b, from), now)
        BY <1>4, <3>1 DEF b
      <4> QED BY <4>1, <1>1, <1>10, AppendProperties, LenProperties DEF now
    <3>2. CASE x # k
      <4>1. buckets'[x] = <<>>
        BY <1>4, <1>11, <3>2
      <4> QED BY <4>1, <2>2
    <3> QED BY <3>1, <3>2
  <2> QED BY <2>1, <2>2, <2>3, <1>2 DEF IsTail
<1>12. CASE x \in Range(order) /\ x # k
  <2>1. lately'[x] = From(l, from) /\ buckets'[x] = b
    BY <1>4, <1>12 DEF l, b
  <2>2. Len(l) <= Limit /\ Len(l) \in Nat /\ Len(From(l, from)) \in Nat
    BY <1>1, <1>7, <1>9, LenProperties DEF l
  <2> QED BY <1>2, <1>8, <1>9, <2>1, <2>2
<1>13. CASE x \in Range(order) /\ x = k
  <2> DEFINE g == Append(From(l, from), now)
             h == Append(From(b, from), now)
  <2>0. now \in Nat
    BY <1>1 DEF now
  <2>1. From(Append(l, now), from) = g
    BY <1>3, <1>7, <2>0, FromAppend
  <2>2. lately'[x] = g /\ buckets'[x] = h
    BY <1>4, <1>13, <2>1 DEF l, b
  <2>3. IsTail(g, h, 0)
    BY <1>8, <1>9, <1>10, <2>0, AppendTail
  <2>4. g \in Seq(Nat) /\ Len(g) \in Nat
    BY <1>9, <2>0, AppendProperties, LenProperties
  <2>5. Len(h) = Len(From(b, from)) + 1
    BY <1>10, <2>0, AppendProperties
  <2>6. Len(From(b, from)) < Limit
    BY <1>2, <1>4, <1>10, <1>13 DEF b
  <2> HIDE DEF g, h
  <2>7. Len(g) <= Len(h)
    BY <2>3, <2>4 DEF IsTail
  <2>8. Len(g) <= Limit
    BY <1>2, <1>10, <2>4, <2>5, <2>6, <2>7
  <2> QED BY <2>2, <2>3, <2>4, <2>8
<1> QED BY <1>11, <1>12, <1>13

LEMMA LimitStep == WindowInv /\ [LimitNext]_limitVars => WindowInv'
<1> SUFFICES ASSUME WindowInv, [LimitNext]_limitVars PROVE WindowInv'
  OBVIOUS
<1>t. LimitTypes /\ WindowRespected
  BY DEF WindowInv
<1>f. /\ clock \in Nat /\ crossed \in BOOLEAN
      /\ buckets \in [Keys -> Seq(Nat)] /\ lately \in [Keys -> Seq(Nat)]
      /\ checking \in [Callers -> [key : Keys \cup {"none"}, time : Nat]]
  BY <1>t DEF LimitTypes
<1>1. CASE Tick
  <2>1. /\ clock' = clock + 1
        /\ UNCHANGED <<buckets, checking, crossed, lately>>
    BY <1>1 DEF Tick
  <2>2. LimitTypes' /\ WindowRespected'
    BY <1>t, <1>f, <2>1 DEF LimitTypes, WindowRespected
  <2>3. Window \in Nat
    BY LimitAssumption
  <2>4. ASSUME NEW e \in Nat, Stale(e) PROVE Stale(e)'
    BY <2>1, <2>3, <2>4, <1>f DEF Stale
  <2>5. ~crossed => OneAtATime' /\ \A k \in Keys : BucketHolds(k)'
    BY <1>t, <2>1, <2>4, BucketKept DEF WindowInv, OneAtATime
  <2> QED BY <2>1, <2>2, <2>5 DEF WindowInv
<1>2. ASSUME NEW t \in Callers, NEW k \in Keys, ReadClock(t, k) PROVE WindowInv'
  <2>1. /\ checking' = [checking EXCEPT ![t] = [key |-> k, time |-> clock]]
        /\ crossed' = (crossed \/ Waiting # {})
        /\ UNCHANGED <<clock, buckets, lately>>
    BY <1>2 DEF ReadClock
  <2>2. LimitTypes' /\ WindowRespected'
    BY <1>t, <1>f, <2>1 DEF LimitTypes, WindowRespected
  <2>3. ASSUME NEW e \in Nat, Stale(e) PROVE Stale(e)'
    <3>1. ASSUME NEW u \in Callers, checking'[u] # NotChecking
          PROVE  e <= checking'[u].time - Window
      <4>1. CASE u = t
        BY <2>1, <2>3, <4>1, <1>f DEF Stale
      <4>2. CASE u # t
        BY <2>1, <2>3, <3>1, <4>2, <1>f DEF Stale
      <4> QED BY <4>1, <4>2
    <3> QED BY <2>1, <2>3, <3>1 DEF Stale
  <2>4. ASSUME ~crossed' PROVE OneAtATime' /\ \A x \in Keys : BucketHolds(x)'
    <3>1. ~crossed /\ \A u \in Callers : checking[u] = NotChecking
      BY <2>1, <2>4 DEF Waiting
    <3>2. OneAtATime'
      BY <2>1, <3>1, <1>f DEF OneAtATime
    <3> QED BY <1>t, <2>1, <2>3, <3>1, <3>2, BucketKept DEF WindowInv
  <2> QED BY <2>2, <2>4 DEF WindowInv
<1>3. ASSUME NEW t \in Callers, Decide(t) PROVE WindowInv'
  <2> DEFINE k == checking[t].key
             now == checking[t].time
  <2>1. /\ checking' = [checking EXCEPT ![t] = NotChecking]
        /\ UNCHANGED <<clock, crossed>> /\ checking[t] # NotChecking
    BY <1>3 DEF Decide
  <2>2. k \in Keys /\ now \in Nat /\ Window \in Nat /\ buckets[k] \in Seq(Nat)
    BY <1>t, <1>f, <2>1, LimitAssumption DEF LimitTypes
  <2>3. Expired(buckets[k], now) \in Seq(Nat) /\ Append(Expired(buckets[k], now), now) \in Seq(Nat)
    <3>1. now - Window \in Int
      BY <2>2
    <3>2. Expired(buckets[k], now) \in Seq(Nat)
      BY <2>2, <3>1, FromCuts DEF Expired
    <3> QED BY <2>2, <3>2, AppendProperties
  <2>4. <<>> \in Seq(Nat) /\ Len(<<>>) = 0
    BY EmptySeq
  <2>5. OneAtATime => OneAtATime'
    BY <2>1, <1>f DEF OneAtATime
  <2>6. checking' \in [Callers -> [key : Keys \cup {"none"}, time : Nat]]
        /\ \A u \in Callers : checking'[u] # NotChecking =>
             checking'[u].key \in Keys /\ checking'[u].time <= clock'
    BY <1>t, <1>f, <2>1 DEF LimitTypes, NotChecking
  <2>7. CASE Len(Expired(buckets[k], now)) >= Limit
    <3>1. buckets' = [buckets EXCEPT ![k] = Expired(buckets[k], now)] /\ lately' = lately
      BY <1>3, <2>7 DEF Decide
    <3>2. LimitTypes' /\ WindowRespected'
      BY <1>t, <1>f, <2>1, <2>2, <2>3, <2>6, <3>1 DEF LimitTypes, WindowRespected
    <3>3. ~crossed => \A x \in Keys : BucketHolds(x)'
      BY <1>3, <2>7, RefusalHolds
    <3> QED BY <2>1, <2>5, <3>2, <3>3 DEF WindowInv
  <2>8. CASE ~(Len(Expired(buckets[k], now)) >= Limit)
    <3> DEFINE order == Kept(Touched(k))
    <3>1. /\ buckets' = [x \in Keys |-> IF x = k THEN Append(Expired(buckets[k], now), now)
                                        ELSE IF x \in Range(order) THEN buckets[x] ELSE <<>>]
          /\ lately' = [x \in Keys |->
                          IF crossed \/ x \notin Range(order) THEN <<>>
                          ELSE From(IF x = k THEN Append(lately[x], now) ELSE lately[x],
                                    now - Window)]
      BY <1>3, <2>8 DEF Decide
    <3>2. buckets' \in [Keys -> Seq(Nat)]
      <4> HIDE DEF order
      <4> QED BY <1>f, <2>3, <2>4, <3>1
    <3>3. ASSUME NEW x \in Keys PROVE lately'[x] \in Seq(Nat) /\ Len(lately'[x]) <= Limit
      <4>1. CASE crossed
        <5>1. lately'[x] = <<>>
          BY <3>1, <4>1
        <5> QED BY <2>4, <5>1, LimitAssumption
      <4>2. CASE ~crossed
        BY <1>3, <2>8, <4>2, GrantHolds
      <4> QED BY <4>1, <4>2
    <3>4. lately' \in [Keys -> Seq(Nat)]
      <4>1. lately' = [x \in Keys |-> lately'[x]]
        BY <3>1
      <4> QED BY <3>3, <4>1
    <3>5. LimitTypes' /\ WindowRespected'
      BY <1>f, <2>1, <2>6, <3>2, <3>3, <3>4 DEF LimitTypes, WindowRespected
    <3>6. ~crossed => \A x \in Keys : BucketHolds(x)'
      BY <1>3, <2>8, GrantHolds
    <3> QED BY <2>1, <2>5, <3>5, <3>6 DEF WindowInv
  <2> QED BY <2>7, <2>8
<1>4. CASE UNCHANGED limitVars
  BY <1>4, <1>t DEF limitVars, WindowInv, LimitTypes, OneAtATime, BucketHolds, IsTail, Stale,
                    WindowRespected
<1> QED BY <1>1, <1>2, <1>3, <1>4 DEF LimitNext

(* rate_limit.py: with any limit, window and number of keys and threads,   *)
(* no client whose bucket was kept got more than the limit in a window.    *)
THEOREM LimitHolds == LimitSpec => []WindowRespected
<1>1. WindowInv => WindowRespected
  BY DEF WindowInv
<1> QED BY LimitInit_Window, LimitStep, <1>1, PTL DEF LimitSpec

(***************************************************************************)
(* The types of the limiter, and with them its bounds.                     *)
(***************************************************************************)

\* What is removed leaves the others in their order.
LEMMA Removed ==
  ASSUME NEW S, NEW s \in Seq(S), IsInjective(s), NEW i \in 1..Len(s)
  PROVE  /\ RemoveAt(s, i) \in Seq(S) /\ Len(RemoveAt(s, i)) = Len(s) - 1
         /\ \A j \in 1..(Len(s) - 1) : RemoveAt(s, i)[j] = IF j < i THEN s[j] ELSE s[j + 1]
         /\ IsInjective(RemoveAt(s, i)) /\ Range(RemoveAt(s, i)) = Range(s) \ {s[i]}
<1> DEFINE front == SubSeq(s, 1, i - 1)
           back  == SubSeq(s, i + 1, Len(s))
           r     == RemoveAt(s, i)
<1>0. Len(s) \in Nat /\ DOMAIN s = 1..Len(s) /\ \A j \in 1..Len(s) : s[j] \in S
  BY LenProperties, ElementOfSeq
<1>n. PICK n \in Nat : n = Len(s) /\ i \in 1..n
  BY <1>0
<1>1. /\ front \in Seq(S) /\ Len(front) = i - 1
      /\ \A j \in 1..(i - 1) : front[j] = s[j]
  <2>1. \A j \in 1..(i - 1) : s[j] \in S
    BY <1>0
  <2>2. 1 \in Int /\ i - 1 \in Int
    BY <1>0
  <2>3. /\ front \in Seq(S) /\ Len(front) = IF 1 <= i - 1 THEN i - 1 - 1 + 1 ELSE 0
        /\ \A j \in 1..(i - 1 - 1 + 1) : front[j] = s[1 + j - 1]
    BY <2>1, <2>2, SubSeqProperties
  <2> HIDE DEF front
  <2> QED BY <1>0, <2>3
<1>2. /\ back \in Seq(S) /\ Len(back) = Len(s) - i
      /\ \A j \in 1..(Len(s) - i) : back[j] = s[j + i]
  <2>1. \A j \in (i + 1)..Len(s) : s[j] \in S
    BY <1>0
  <2>2. i + 1 \in Int /\ Len(s) \in Int
    BY <1>0
  <2>3. /\ back \in Seq(S) /\ Len(back) = IF i + 1 <= Len(s) THEN Len(s) - (i + 1) + 1 ELSE 0
        /\ \A j \in 1..(Len(s) - (i + 1) + 1) : back[j] = s[i + 1 + j - 1]
    BY <2>1, <2>2, SubSeqProperties
  <2> HIDE DEF back
  <2>4. Len(back) = Len(s) - i
    <3>1. Len(back) = IF i + 1 <= Len(s) THEN Len(s) - (i + 1) + 1 ELSE 0
      BY <2>3
    <3> QED BY <1>n, <3>1
  <2>5. ASSUME NEW j \in 1..(Len(s) - i) PROVE back[j] = s[j + i]
    <3>1. j \in 1..(Len(s) - (i + 1) + 1) /\ i + 1 + j - 1 = j + i
      BY <1>0
    <3>2. back[j] = s[i + 1 + j - 1]
      BY <2>3, <3>1
    <3> QED BY <3>1, <3>2
  <2> QED BY <2>3, <2>4, <2>5
<1>3. r = front \o back
  BY DEF RemoveAt
<1> HIDE DEF front, back, r
<1>4. /\ r \in Seq(S) /\ Len(r) = Len(front) + Len(back)
      /\ \A j \in 1..(Len(front) + Len(back)) :
           r[j] = IF j <= Len(front) THEN front[j] ELSE back[j - Len(front)]
  BY <1>1, <1>2, <1>3, ConcatProperties
<1>5. Len(r) = Len(s) - 1
  BY <1>0, <1>1, <1>2, <1>4
<1>6. ASSUME NEW j \in 1..(Len(s) - 1)
      PROVE  r[j] = IF j < i THEN s[j] ELSE s[j + 1]
  <2>0. j \in 1..(Len(front) + Len(back))
    BY <1>0, <1>1, <1>2
  <2>1. CASE j < i
    <3>1. j \in 1..(i - 1) /\ j <= Len(front)
      BY <1>0, <1>1, <2>1
    <3> QED BY <1>1, <1>4, <2>0, <2>1, <3>1
  <2>2. CASE ~(j < i)
    <3>1. j - Len(front) \in 1..(Len(s) - i) /\ ~(j <= Len(front))
          /\ (j - Len(front)) + i = j + 1
      BY <1>0, <1>1, <2>2
    <3> QED BY <1>2, <1>4, <2>0, <2>2, <3>1
  <2> QED BY <2>1, <2>2
<1>7. DOMAIN r = 1..(Len(s) - 1)
  BY <1>4, <1>5, LenProperties
<1>8. IsInjective(r)
  <2>1. ASSUME NEW a \in 1..(Len(s) - 1), NEW b \in 1..(Len(s) - 1), r[a] = r[b]
        PROVE  a = b
    <3>1. a \in 1..Len(s) /\ a + 1 \in 1..Len(s) /\ b \in 1..Len(s) /\ b + 1 \in 1..Len(s)
      BY <1>0
    <3>2. \A x, y \in 1..Len(s) : s[x] = s[y] => x = y
      BY <1>0 DEF IsInjective
    <3>3. /\ r[a] = IF a < i THEN s[a] ELSE s[a + 1]
          /\ r[b] = IF b < i THEN s[b] ELSE s[b + 1]
      BY <1>6
    <3>4. CASE a < i /\ b < i
      <4>1. r[a] = s[a] /\ r[b] = s[b]
        BY <3>3, <3>4
      <4>2. a = b
        BY <2>1, <3>1, <3>2, <4>1
      <4> QED BY <1>n, <3>4, <4>2
    <3>5. CASE a < i /\ ~(b < i)
      <4>1. r[a] = s[a] /\ r[b] = s[b + 1]
        BY <3>3, <3>5
      <4>2. a = b + 1
        BY <2>1, <3>1, <3>2, <4>1
      <4> QED BY <1>n, <3>5, <4>2
    <3>6. CASE ~(a < i) /\ b < i
      <4>1. r[a] = s[a + 1] /\ r[b] = s[b]
        BY <3>3, <3>6
      <4>2. a + 1 = b
        BY <2>1, <3>1, <3>2, <4>1
      <4> QED BY <1>n, <3>6, <4>2
    <3>7. CASE ~(a < i) /\ ~(b < i)
      <4>1. r[a] = s[a + 1] /\ r[b] = s[b + 1]
        BY <3>3, <3>7
      <4>2. a + 1 = b + 1
        BY <2>1, <3>1, <3>2, <4>1
      <4> QED BY <1>n, <3>7, <4>2
    <3> QED BY <3>4, <3>5, <3>6, <3>7
  <2> QED BY <1>7, <2>1 DEF IsInjective
<1>9. Range(r) = Range(s) \ {s[i]}
  <2>1. ASSUME NEW j \in 1..(Len(s) - 1) PROVE r[j] \in Range(s) /\ r[j] # s[i]
    BY <1>0, <1>6 DEF IsInjective, Range
  <2>2. ASSUME NEW j \in 1..Len(s), s[j] # s[i] PROVE s[j] \in Range(r)
    <3>1. CASE j < i
      <4>1. j \in 1..(Len(s) - 1) /\ r[j] = s[j]
        BY <1>0, <1>6, <3>1
      <4> QED BY <1>7, <4>1 DEF Range
    <3>2. CASE j > i
      <4>1. j - 1 \in 1..(Len(s) - 1) /\ r[j - 1] = s[j]
        <5>1. j - 1 \in 1..(Len(s) - 1) /\ ~(j - 1 < i) /\ (j - 1) + 1 = j
          BY <1>0, <3>2
        <5> QED BY <1>6, <5>1
      <4> QED BY <1>7, <4>1 DEF Range
    <3> QED BY <1>0, <2>2, <3>1, <3>2
  <2> QED BY <1>0, <1>7, <2>1, <2>2 DEF Range
<1> QED BY <1>4, <1>5, <1>6, <1>8, <1>9 DEF r

LEMMA Appended ==
  ASSUME NEW S, NEW s \in Seq(S), IsInjective(s), NEW e \in S, e \notin Range(s)
  PROVE  /\ Append(s, e) \in Seq(S) /\ Len(Append(s, e)) = Len(s) + 1
         /\ Append(s, e)[Len(s) + 1] = e
         /\ IsInjective(Append(s, e)) /\ Range(Append(s, e)) = Range(s) \cup {e}
<1> DEFINE a == Append(s, e)
<1>0. Len(s) \in Nat /\ DOMAIN s = 1..Len(s)
  BY LenProperties
<1>1. /\ a \in Seq(S) /\ Len(a) = Len(s) + 1
      /\ \A i \in 1..Len(s) : a[i] = s[i]
      /\ a[Len(s) + 1] = e
  BY AppendProperties
<1> HIDE DEF a
<1>2. DOMAIN a = 1..(Len(s) + 1)
  BY <1>1, LenProperties
<1>3. \A i \in 1..Len(s) : a[i] # e
  BY <1>0, <1>1 DEF Range
<1>4. IsInjective(a)
  BY <1>0, <1>1, <1>2, <1>3 DEF IsInjective
<1>5. Range(a) = Range(s) \cup {e}
  <2>1. 1..(Len(s) + 1) = 1..Len(s) \cup {Len(s) + 1}
    BY <1>0
  <2> QED BY <1>0, <1>1, <1>2, <2>1 DEF Range
<1> QED BY <1>1, <1>4, <1>5 DEF a

\* The key that was used is the last one, and no key is listed twice.
LEMMA TouchedLast ==
  ASSUME recent \in Seq(Keys), IsInjective(recent), NEW k \in Keys
  PROVE  /\ Touched(k) \in Seq(Keys) /\ IsInjective(Touched(k))
         /\ Len(Touched(k)) = IF k \in Tracked THEN Len(recent) ELSE Len(recent) + 1
         /\ Len(Touched(k)) >= 1 /\ Touched(k)[Len(Touched(k))] = k
         /\ Range(Touched(k)) = Tracked \cup {k}
<1>0. Len(recent) \in Nat /\ DOMAIN recent = 1..Len(recent)
  BY LenProperties
<1>1. CASE k \in Tracked
  <2> DEFINE at == CHOOSE i \in 1..Len(recent) : recent[i] = k
             r  == RemoveAt(recent, at)
  <2>1. at \in 1..Len(recent) /\ recent[at] = k
    <3>1. \E i \in 1..Len(recent) : recent[i] = k
      BY <1>0, <1>1 DEF Tracked, Range
    <3> QED BY <3>1
  <2>2. Touched(k) = Append(r, k)
    BY <1>1 DEF Touched
  <2> HIDE DEF at
  <2>3. /\ r \in Seq(Keys) /\ Len(r) = Len(recent) - 1
        /\ IsInjective(r) /\ Range(r) = Range(recent) \ {k}
    BY <2>1, Removed
  <2> HIDE DEF r
  <2>4. /\ Append(r, k) \in Seq(Keys) /\ Len(Append(r, k)) = Len(r) + 1
        /\ Append(r, k)[Len(r) + 1] = k
        /\ IsInjective(Append(r, k)) /\ Range(Append(r, k)) = Range(r) \cup {k}
    BY <2>3, Appended
  <2> QED BY <1>0, <1>1, <2>1, <2>2, <2>3, <2>4 DEF Tracked
<1>2. CASE k \notin Tracked
  <2>1. Touched(k) = Append(recent, k)
    BY <1>2 DEF Touched
  <2>2. /\ Append(recent, k) \in Seq(Keys) /\ Len(Append(recent, k)) = Len(recent) + 1
        /\ Append(recent, k)[Len(recent) + 1] = k
        /\ IsInjective(Append(recent, k)) /\ Range(Append(recent, k)) = Range(recent) \cup {k}
    BY <1>2, Appended DEF Tracked
  <2> QED BY <1>0, <1>2, <2>1, <2>2 DEF Tracked
<1> QED BY <1>1, <1>2

\* Only the head is pushed out, and never the last key.
LEMMA KeptLast ==
  ASSUME NEW o \in Seq(Keys), IsInjective(o), Len(o) >= 1, Len(o) <= MaxKeys + 1
  PROVE  /\ Kept(o) \in Seq(Keys) /\ IsInjective(Kept(o)) /\ Len(Kept(o)) <= MaxKeys
         /\ Range(Kept(o)) \subseteq Range(o) /\ o[Len(o)] \in Range(Kept(o))
<1>0. Len(o) \in Nat /\ DOMAIN o = 1..Len(o) /\ MaxKeys \in Nat /\ MaxKeys >= 1
  BY LenProperties, LimitAssumption
<1>1. CASE Len(o) > MaxKeys
  <2> DEFINE t == Tail(o)
  <2>1. o # <<>>
    BY <1>0, EmptySeq
  <2>2. /\ t \in Seq(Keys) /\ Len(t) = Len(o) - 1
        /\ \A i \in 1..(Len(o) - 1) : t[i] = o[i + 1]
    BY <2>1, HeadTailProperties
  <2>3. Kept(o) = t
    BY <1>1 DEF Kept
  <2> HIDE DEF t
  <2>4. DOMAIN t = 1..(Len(o) - 1)
    BY <2>2, LenProperties
  <2>5. \A i \in 1..(Len(o) - 1) : i + 1 \in DOMAIN o /\ t[i] = o[i + 1]
    BY <1>0, <2>2
  <2>6. IsInjective(t) /\ \A i \in 1..(Len(o) - 1) : t[i] \in Range(o)
    <3>1. ASSUME NEW a \in DOMAIN t, NEW b \in DOMAIN t, t[a] = t[b] PROVE a = b
      <4>1. a + 1 = b + 1
        BY <2>4, <2>5, <3>1 DEF IsInjective
      <4> QED BY <2>4, <4>1
    <3>2. ASSUME NEW i \in 1..(Len(o) - 1) PROVE t[i] \in Range(o)
      BY <2>5 DEF Range
    <3> QED BY <3>1, <3>2 DEF IsInjective
  <2>7. Len(o) - 1 \in DOMAIN t /\ t[Len(o) - 1] = o[Len(o)]
    <3>1. Len(o) - 1 \in 1..(Len(o) - 1) /\ (Len(o) - 1) + 1 = Len(o)
      BY <1>0, <1>1
    <3> QED BY <2>2, <2>4, <3>1
  <2>8. Range(t) \subseteq Range(o) /\ o[Len(o)] \in Range(t)
    BY <2>4, <2>6, <2>7 DEF Range
  <2> QED BY <1>0, <2>2, <2>3, <2>6, <2>8
<1>2. CASE ~(Len(o) > MaxKeys)
  <2>1. Kept(o) = o
    BY <1>2 DEF Kept
  <2>2. o[Len(o)] \in Range(o)
    BY <1>0 DEF Range
  <2> QED BY <1>0, <1>2, <2>1, <2>2
<1> QED BY <1>1, <1>2

LEMMA FromKeeps ==
  ASSUME NEW n \in Nat, NEW s \in Seq(0..n), NEW t \in Int
  PROVE  From(s, t) \in Seq(0..n) /\ Len(From(s, t)) <= Len(s)
<1>0. Len(s) \in Nat /\ \A i \in 1..Len(s) : s[i] \in 0..n
  BY LenProperties, ElementOfSeq
<1>1. s \in Seq(Nat)
  <2>1. s \in [1..Len(s) -> 0..n]
    BY LenProperties
  <2>2. s \in [1..Len(s) -> Nat]
    BY <2>1
  <2> QED BY <1>0, <2>2
<1>2. PICK gone \in 0..Len(s) :
        /\ From(s, t) \in Seq(Nat) /\ Len(From(s, t)) = Len(s) - gone
        /\ \A i \in 1..(Len(s) - gone) : From(s, t)[i] = s[i + gone]
  BY <1>1, FromCuts
<1> DEFINE f == From(s, t)
<1> HIDE DEF f
<1>3. f \in Seq(Nat) /\ Len(f) = Len(s) - gone
      /\ \A i \in 1..(Len(s) - gone) : f[i] = s[i + gone]
  BY <1>2 DEF f
<1>4. f \in [1..(Len(s) - gone) -> Nat]
  BY <1>3, LenProperties
<1>5. f \in [1..(Len(s) - gone) -> 0..n]
  <2>1. \A i \in 1..(Len(s) - gone) : i + gone \in 1..Len(s)
    BY <1>0
  <2>2. \A i \in 1..(Len(s) - gone) : f[i] \in 0..n
    BY <1>0, <1>3, <2>1
  <2> QED BY <1>4, <2>2
<1>6. f \in Seq(0..n)
  <2>1. Len(s) - gone \in Nat
    BY <1>0
  <2> QED BY <1>5, <2>1
<1> QED BY <1>0, <1>3, <1>6 DEF f

\* A call under way has one of the keys.
LimitShape ==
  LimitTypeOK /\ \A t \in Callers : checking[t] # NotChecking => checking[t].key \in Keys

LEMMA LimitInit_Shape == LimitInit => LimitShape
<1> SUFFICES ASSUME LimitInit PROVE LimitShape
  OBVIOUS
<1>1. Len(<<>>) = 0 /\ DOMAIN <<>> = {} /\ \A S : <<>> \in Seq(S)
  <2>1. \A S : <<>> \in Seq(S)
    BY EmptySeq
  <2> QED BY <2>1, EmptySeq
<1>2. IsInjective(recent) /\ Len(recent) <= MaxKeys
  BY <1>1, LimitAssumption DEF LimitInit, IsInjective
<1>3. buckets \in [Keys -> Seq(0..MaxTime)] /\ lately \in [Keys -> Seq(0..MaxTime)]
      /\ recent \in Seq(Keys) /\ \A k \in Keys : buckets[k] = <<>> /\ Len(buckets[k]) <= Limit
  BY <1>1, LimitAssumption DEF LimitInit
<1>4. checking \in [Callers -> [key : Keys \cup {"none"}, time : 0..MaxTime]]
      /\ clock \in 0..MaxTime /\ \A t \in Callers : checking[t] = NotChecking
  BY TimeAssumption DEF LimitInit, NotChecking
<1> QED BY <1>2, <1>3, <1>4 DEF LimitShape, LimitTypeOK

LEMMA LimitShapeStep == LimitShape /\ [LimitNext]_limitVars => LimitShape'
<1> SUFFICES ASSUME LimitShape, [LimitNext]_limitVars PROVE LimitShape'
  OBVIOUS
<1>a. {Limit, Window, MaxKeys} \subseteq Nat /\ Limit >= 1 /\ MaxTime \in Nat
  BY LimitAssumption, TimeAssumption
<1>1. CASE Tick
  <2>1. clock' \in 0..MaxTime
    BY <1>1, <1>a DEF Tick, LimitShape, LimitTypeOK
  <2> QED BY <1>1, <2>1 DEF Tick, LimitShape, LimitTypeOK, Tracked, IsInjective, Range, NotChecking
<1>2. CASE UNCHANGED limitVars
  BY <1>2 DEF limitVars, LimitShape, LimitTypeOK, Tracked, IsInjective, Range, NotChecking
<1>3. ASSUME NEW t \in Callers, NEW k \in Keys, ReadClock(t, k) PROVE LimitShape'
  <2>1. checking' \in [Callers -> [key : Keys \cup {"none"}, time : 0..MaxTime]]
        /\ \A u \in Callers : checking'[u] # NotChecking => checking'[u].key \in Keys
    BY <1>3 DEF ReadClock, LimitShape, LimitTypeOK
  <2> QED BY <1>3, <2>1 DEF ReadClock, LimitShape, LimitTypeOK, Tracked, IsInjective, Range,
                            NotChecking
<1>4. ASSUME NEW t \in Callers, Decide(t) PROVE LimitShape'
  <2> DEFINE k == checking[t].key
             now == checking[t].time
             bucket == Expired(buckets[k], now)
             order == Kept(Touched(k))
  <2>1. k \in Keys /\ now \in 0..MaxTime
    BY <1>4 DEF Decide, LimitShape, LimitTypeOK
  <2>2. checking' \in [Callers -> [key : Keys \cup {"none"}, time : 0..MaxTime]]
        /\ (\A u \in Callers : checking'[u] # NotChecking => checking'[u].key \in Keys)
        /\ clock' \in 0..MaxTime
    BY <1>4, TimeAssumption DEF Decide, LimitShape, LimitTypeOK, NotChecking
  <2>3. \/ /\ Len(bucket) >= Limit
           /\ buckets' = [buckets EXCEPT ![k] = bucket] /\ recent' = Touched(k)
           /\ lately' = lately
        \/ /\ ~(Len(bucket) >= Limit) /\ recent' = order
           /\ buckets' = [x \in Keys |-> IF x = k THEN Append(bucket, now)
                                         ELSE IF x \in Range(order) THEN buckets[x] ELSE <<>>]
           /\ lately' = [x \in Keys |->
                           IF crossed \/ x \notin Range(order) THEN <<>>
                           ELSE From(IF x = k THEN Append(lately[x], now) ELSE lately[x],
                                     now - Window)]
    BY <1>4 DEF Decide
  <2> HIDE DEF k, now
  <2>4. /\ \A x \in Keys : buckets[x] \in Seq(0..MaxTime) /\ lately[x] \in Seq(0..MaxTime)
                           /\ Len(buckets[x]) <= Limit
        /\ recent \in Seq(Keys) /\ IsInjective(recent) /\ Len(recent) <= MaxKeys
        /\ \A x \in Keys \ Tracked : buckets[x] = <<>>
        /\ buckets \in [Keys -> Seq(0..MaxTime)] /\ lately \in [Keys -> Seq(0..MaxTime)]
    BY DEF LimitShape, LimitTypeOK
  <2>5. now - Window \in Int
    BY <1>a, <2>1
  <2>6. bucket \in Seq(0..MaxTime) /\ Len(bucket) <= Len(buckets[k])
    BY <1>a, <2>1, <2>4, <2>5, FromKeeps DEF Expired
  <2>7. Len(bucket) \in Nat /\ Len(buckets[k]) \in Nat /\ Len(recent) \in Nat
    BY <2>1, <2>4, <2>6, LenProperties
  <2> HIDE DEF bucket
  <2> DEFINE touched == Touched(k)
  <2>8. /\ touched \in Seq(Keys) /\ IsInjective(touched)
        /\ Len(touched) = IF k \in Tracked THEN Len(recent) ELSE Len(recent) + 1
        /\ Len(touched) >= 1 /\ touched[Len(touched)] = k
        /\ Range(touched) = Tracked \cup {k}
    BY <2>1, <2>4, TouchedLast
  <2> HIDE DEF touched
  <2>9. /\ order \in Seq(Keys) /\ IsInjective(order) /\ Len(order) <= MaxKeys
        /\ Range(order) \subseteq Tracked \cup {k} /\ k \in Range(order)
    <3>1. Len(touched) <= MaxKeys + 1
      BY <1>a, <2>4, <2>7, <2>8
    <3>2. order = Kept(touched)
      BY DEF touched
    <3> QED BY <2>8, <3>1, <3>2, KeptLast
  <2> HIDE DEF order
  <2>10. /\ buckets' \in [Keys -> Seq(0..MaxTime)] /\ lately' \in [Keys -> Seq(0..MaxTime)]
         /\ recent' \in Seq(Keys) /\ IsInjective(recent') /\ Len(recent') <= MaxKeys
         /\ \A x \in Keys \ Range(recent') : buckets'[x] = <<>>
         /\ \A x \in Keys : Len(buckets'[x]) <= Limit
    <3>1. CASE Len(bucket) >= Limit
      <4>1. buckets' = [buckets EXCEPT ![k] = bucket] /\ recent' = touched /\ lately' = lately
        BY <2>3, <3>1 DEF touched
      \* A full bucket belongs to a key that is kept.
      <4>2. k \in Tracked
        <5>1. Len(buckets[k]) >= 1
          BY <1>a, <2>6, <2>7, <3>1
        <5>2. buckets[k] # <<>>
          BY <5>1, EmptySeq
        <5> QED BY <2>1, <2>4, <5>2
      <4>3. /\ buckets'[k] = bucket /\ \A x \in Keys \ {k} : buckets'[x] = buckets[x]
            /\ buckets' \in [Keys -> Seq(0..MaxTime)]
        BY <2>1, <2>4, <2>6, <4>1
      <4>4. Len(bucket) <= Limit
        BY <1>a, <2>1, <2>4, <2>6, <2>7
      <4> QED BY <2>4, <2>8, <4>1, <4>2, <4>3, <4>4
    <3>2. CASE ~(Len(bucket) >= Limit)
      <4>1. /\ recent' = order
            /\ buckets' = [x \in Keys |-> IF x = k THEN Append(bucket, now)
                                          ELSE IF x \in Range(order) THEN buckets[x] ELSE <<>>]
            /\ lately' = [x \in Keys |->
                            IF crossed \/ x \notin Range(order) THEN <<>>
                            ELSE From(IF x = k THEN Append(lately[x], now) ELSE lately[x],
                                      now - Window)]
        BY <2>3, <3>2
      <4>2. Append(bucket, now) \in Seq(0..MaxTime) /\ Len(Append(bucket, now)) <= Limit
        <5>1. /\ Append(bucket, now) \in Seq(0..MaxTime)
              /\ Len(Append(bucket, now)) = Len(bucket) + 1
          BY <2>1, <2>6, AppendProperties
        <5> QED BY <1>a, <2>7, <3>2, <5>1
      <4>3. <<>> \in Seq(0..MaxTime) /\ Len(<<>>) <= Limit
        BY <1>a, EmptySeq
      <4>4. \A x \in Keys : buckets'[x] \in Seq(0..MaxTime) /\ Len(buckets'[x]) <= Limit
        BY <2>4, <4>1, <4>2, <4>3
      <4>5. \A x \in Keys \ Range(order) : buckets'[x] = <<>>
        BY <2>9, <4>1
      <4>6. ASSUME NEW x \in Keys PROVE lately'[x] \in Seq(0..MaxTime)
        <5> DEFINE l == IF x = k THEN Append(lately[x], now) ELSE lately[x]
        <5>1. l \in Seq(0..MaxTime)
          BY <2>1, <2>4, AppendProperties
        <5>2. lately'[x] = <<>> \/ lately'[x] = From(l, now - Window)
          BY <4>1
        <5> HIDE DEF l
        <5>3. From(l, now - Window) \in Seq(0..MaxTime)
          BY <1>a, <2>5, <5>1, FromKeeps
        <5> QED BY <4>3, <5>2, <5>3
      <4>7. buckets' = [x \in Keys |-> buckets'[x]] /\ lately' = [x \in Keys |-> lately'[x]]
        BY <4>1
      <4>8. buckets' \in [Keys -> Seq(0..MaxTime)] /\ lately' \in [Keys -> Seq(0..MaxTime)]
        BY <4>4, <4>6, <4>7
      <4> QED BY <2>9, <4>1, <4>4, <4>5, <4>8
    <3> QED BY <3>1, <3>2
  <2> QED BY <2>2, <2>10 DEF LimitShape, LimitTypeOK, Tracked, NotChecking, IsInjective
<1> QED BY <1>1, <1>2, <1>3, <1>4 DEF LimitNext

\* Whatever the calls, no bucket holds more than the limit, no key is tracked
\* twice, and no more keys than max_keys are.
THEOREM LimiterBounded == LimitSpec => []LimitTypeOK
<1>1. LimitShape => LimitTypeOK
  BY DEF LimitShape
<1> QED BY LimitInit_Shape, LimitShapeStep, <1>1, PTL DEF LimitSpec

(***************************************************************************)
(* External projects.                                                      *)
(***************************************************************************)

\* A call has these fields; where its path leads is not told.
IsCall(r) ==
  /\ r = [op |-> r.op, at |-> r.at, db |-> r.db, payload |-> r.payload, row |-> r.row,
          path |-> r.path]
  /\ r.db \in Databases \cup {Unset} /\ r.row \in ExtRow

\* A row whose lineage is a database is linked to that database.
Linked(row) == row.source \in Databases => row.connector = row.source

\* The part of a projection before its receipt.
Writing == {"graph", "receipt"}

ExtTypes ==
  /\ call = [c \in Senders |-> call[c]] /\ \A c \in Senders : IsCall(call[c])
  /\ extRow \in ExtRow
  /\ receipts \in [PayloadKeys -> Payloads \cup {NoPayload}]
  /\ graphOf \in [PayloadVersions -> SUBSET UNION {m.nodes : m \in Payloads}]
  /\ answered \subseteq Payloads /\ crossing \in BOOLEAN

LinkInv == Linked(extRow) /\ \A c \in Senders : Linked(call[c].row)

InGraph(m) == m.nodes \subseteq graphOf[m.version]

\* A projection past its transaction is in the graph.
GraphInv ==
  /\ \A k \in PayloadKeys : receipts[k] # NoPayload => InGraph(receipts[k])
  /\ \A m \in answered : InGraph(m)
  /\ \A c \in Senders : call[c].op = "project" =>
       call[c].payload \in Payloads /\ (call[c].at # "graph" => InGraph(call[c].payload))

\* As long as no two calls cross, the receipt of a key is that of every answer
\* under it, and of the projection that goes on with it.
ReceiptInv ==
  /\ \A c, d \in Senders : call[c] # IdleSender /\ call[d] # IdleSender => c = d
  /\ \A m \in answered : receipts[m.key] = m
  /\ \A c \in Senders : call[c].op = "project" =>
       receipts[call[c].payload.key] = IF call[c].at \in Writing THEN NoPayload
                                       ELSE call[c].payload

ExtInv == ExtTypes /\ LinkInv /\ GraphInv /\ (~crossing => ReceiptInv)

LEMMA IdleIsCall == IsCall(IdleSender) /\ IdleSender.op = "none" /\ Linked(IdleSender.row)
                    /\ NoRow \in ExtRow /\ NoRow.source = Unset /\ Linked(NoRow)
<1>1. NoRow \in ExtRow /\ NoRow.source = Unset
  BY DEF NoRow, ExtRow, Labels
<1>3. IsCall(IdleSender) /\ IdleSender.op = "none" /\ IdleSender.row = NoRow
  BY <1>1 DEF IdleSender, IsCall
<1> QED BY <1>1, <1>3, MarkerAssumption DEF Linked

LEMMA ExtInit_Inv == ExtInit => ExtInv
<1> SUFFICES ASSUME ExtInit PROVE ExtInv
  OBVIOUS
<1>1. ExtTypes
  BY IdleIsCall DEF ExtInit, ExtTypes
<1>2. LinkInv
  BY IdleIsCall DEF ExtInit, LinkInv
<1>3. GraphInv
  BY IdleIsCall DEF ExtInit, GraphInv
<1>4. ReceiptInv
  BY IdleIsCall DEF ExtInit, ReceiptInv
<1> QED BY <1>1, <1>2, <1>3, <1>4 DEF ExtInv

\* A step of one call that writes neither graph nor receipts: the call goes on
\* behind its receipt, or ends.
PlainStep(c) ==
  /\ call[c] # IdleSender /\ call[c].at \notin Writing
  /\ call' = [call EXCEPT ![c] = call'[c]] /\ IsCall(call'[c])
  /\ \/ call'[c] = IdleSender
     \/ /\ call'[c].op = call[c].op /\ call'[c].payload = call[c].payload
        /\ call'[c].at \notin Writing
  /\ Linked(call'[c].row)
  /\ extRow' \in ExtRow /\ Linked(extRow')
  /\ UNCHANGED <<graphOf, receipts, crossing>>
  /\ answered' = answered \/ (call[c].op = "project" /\ answered' = answered \cup {call[c].payload})

LEMMA PlainStepKeeps ==
  ASSUME ExtInv, NEW c \in Senders, PlainStep(c)
  PROVE  ExtInv'
<1> USE DEF ExtInv, PlainStep
<1>0. call' = [d \in Senders |-> call'[d]] /\ \A d \in Senders \ {c} : call'[d] = call[d]
  BY DEF ExtTypes
<1>1. ExtTypes'
  <2>0. \A d \in Senders : IsCall(call[d])'
    BY <1>0 DEF ExtTypes, IsCall
  <2>1. answered' \subseteq Payloads
    BY DEF ExtTypes, GraphInv
  <2> QED BY <1>0, <2>0, <2>1 DEF ExtTypes
<1>2. LinkInv'
  BY <1>0 DEF LinkInv
<1>3. GraphInv'
  <2>1. \A m \in answered' : InGraph(m)'
    BY DEF GraphInv, InGraph, Writing
  <2>2. \A k \in PayloadKeys : receipts'[k] # NoPayload => InGraph(receipts[k])'
    BY DEF GraphInv, InGraph
  <2>3. ASSUME NEW d \in Senders, call'[d].op = "project"
        PROVE  call'[d].payload \in Payloads /\ (call'[d].at # "graph" => InGraph(call[d].payload)')
    <3>1. CASE d = c
      BY <2>3, <3>1, IdleIsCall DEF GraphInv, InGraph, Writing
    <3>2. CASE d # c
      BY <1>0, <2>3, <3>2 DEF GraphInv, InGraph
    <3> QED BY <3>1, <3>2
  <2> QED BY <2>1, <2>2, <2>3 DEF GraphInv
<1>4. ASSUME ~crossing' PROVE ReceiptInv'
  <2>1. ReceiptInv
    BY <1>4
  <2>2. \A d, e \in Senders : call'[d] # IdleSender /\ call'[e] # IdleSender => d = e
    BY <1>0, <2>1 DEF ReceiptInv
  <2>3. \A m \in answered' : receipts'[m.key] = m
    BY <2>1 DEF ReceiptInv
  <2>4. ASSUME NEW d \in Senders, call'[d].op = "project"
        PROVE  receipts'[call'[d].payload.key] = IF call'[d].at \in Writing THEN NoPayload
                                                 ELSE call'[d].payload
    <3>1. CASE d = c
      BY <2>1, <2>4, <3>1, IdleIsCall DEF ReceiptInv
    <3>2. CASE d # c
      BY <1>0, <2>1, <2>4, <3>2 DEF ReceiptInv
    <3> QED BY <3>1, <3>2
  <2> QED BY <2>2, <2>3, <2>4 DEF ReceiptInv
<1> QED BY <1>1, <1>2, <1>3, <1>4

\* What the updates of a call leave of it.
Same(n, r) == IsCall(n) /\ n.op = r.op /\ n.payload = r.payload

LEMMA SetAt ==
  ASSUME NEW r, IsCall(r), NEW a, NEW n, n = [r EXCEPT !.at = a]
  PROVE  Same(n, r) /\ n.at = a /\ n.row = r.row
<1>1. n = [op |-> r.op, at |-> a, db |-> r.db, payload |-> r.payload, row |-> r.row,
           path |-> r.path]
  BY DEF IsCall
<1> QED BY <1>1 DEF IsCall, Same

LEMMA SetPath ==
  ASSUME NEW r, IsCall(r), NEW p, NEW n, n = [r EXCEPT !.path = p]
  PROVE  Same(n, r) /\ n.at = r.at /\ n.row = r.row
<1>1. n = [op |-> r.op, at |-> r.at, db |-> r.db, payload |-> r.payload, row |-> r.row,
           path |-> p]
  BY DEF IsCall
<1> QED BY <1>1 DEF IsCall, Same

\* n follows r behind the receipt, or the call is over.
Follows(n, r) ==
  /\ IsCall(n) /\ Linked(n.row)
  /\ n = IdleSender \/ (n.op = r.op /\ n.payload = r.payload /\ n.at \notin Writing)

LEMMA IdleFollows ==
  ASSUME NEW r PROVE Follows(IdleSender, r)
BY IdleIsCall DEF Follows

LEMMA NextFollows ==
  ASSUME NEW r, IsCall(r), Linked(r.row), NEW a, a \notin Writing, NEW p
  PROVE  /\ Follows([r EXCEPT !.at = a], r)
         /\ Follows([r EXCEPT !.at = a, !.path = p], r)
         /\ r.at \notin Writing => Follows([r EXCEPT !.path = p], r)
<1>1. Follows([r EXCEPT !.at = a], r)
  <2>1. PICK n : n = [r EXCEPT !.at = a]
    OBVIOUS
  <2>2. Same(n, r) /\ n.at = a /\ n.row = r.row
    BY <2>1, SetAt
  <2> QED BY <2>1, <2>2 DEF Follows, Same
<1>2. Follows([r EXCEPT !.at = a, !.path = p], r)
  <2>1. PICK n : n = [r EXCEPT !.at = a, !.path = p]
    OBVIOUS
  <2>2. Same(n, r) /\ n.at = a /\ n.row = r.row
    <3>1. n = [op |-> r.op, at |-> a, db |-> r.db, payload |-> r.payload, row |-> r.row,
               path |-> p]
      BY <2>1 DEF IsCall
    <3> QED BY <3>1 DEF IsCall, Same
  <2> QED BY <2>1, <2>2 DEF Follows, Same
<1>3. r.at \notin Writing => Follows([r EXCEPT !.path = p], r)
  BY SetPath DEF Follows, Same
<1> QED BY <1>1, <1>2, <1>3

LEMMA FollowIsPlain ==
  ASSUME ExtTypes, LinkInv, NEW c \in Senders, NEW n, Follows(n, call[c]),
         call[c].at \notin Writing \cup {"idle"}, call' = [call EXCEPT ![c] = n],
         extRow' = extRow, UNCHANGED <<graphOf, receipts, crossing>>,
         answered' = answered \/ (call[c].op = "project"
                                  /\ answered' = answered \cup {call[c].payload})
  PROVE  PlainStep(c)
<1>1. call'[c] = n
  BY DEF ExtTypes
<1>2. call[c] # IdleSender
  BY DEF IdleSender
<1> QED BY <1>1, <1>2 DEF PlainStep, Follows, ExtTypes, LinkInv

LEMMA CallStepIsPlain ==
  ASSUME ExtTypes, LinkInv, NEW c \in Senders,
         \/ EnterProfiling(c) \/ InspectDatabase(c) \/ FailProject(c)
         \/ ReadExtRow(c) \/ WriteExtRow(c) \/ RecordConnector(c) \/ TakeStep(c)
         \/ SaveSchemaFile(c) \/ RecordIntegrity(c)
         \/ ReadProject(c) \/ CreateProject(c) \/ RecordProjection(c)
  PROVE  PlainStep(c)
<1> DEFINE r == call[c]
<1>1. /\ call = [d \in Senders |-> call[d]] /\ IsCall(r) /\ Linked(r.row)
      /\ extRow \in ExtRow /\ Linked(extRow)
  BY DEF ExtTypes, LinkInv
<1>2. CASE EnterProfiling(c)
  <2>1. PICK n \in {[r EXCEPT !.at = "inspect"], IdleSender} : call' = [call EXCEPT ![c] = n]
    BY <1>2 DEF EnterProfiling, MoveTo
  <2>2. Follows(n, r)
    BY <1>1, <2>1, IdleFollows, NextFollows DEF Writing
  <2> QED BY <1>2, <2>1, <2>2, FollowIsPlain DEF EnterProfiling, Exec, Writing
<1>3. CASE InspectDatabase(c)
  <2>1. PICK n \in {[r EXCEPT !.at = "read"], [r EXCEPT !.at = "fail"]} :
               call' = [call EXCEPT ![c] = n]
    BY <1>3 DEF InspectDatabase, CallGoes
  <2>2. Follows(n, r)
    BY <1>1, <2>1, NextFollows DEF Writing
  <2> QED BY <1>3, <2>1, <2>2, FollowIsPlain DEF InspectDatabase, Exec, Writing
<1>4. CASE FailProject(c)
  <2>1. call' = [call EXCEPT ![c] = IdleSender]
    BY <1>4 DEF FailProject, MoveTo
  <2> QED BY <1>4, <2>1, IdleFollows, FollowIsPlain DEF FailProject, Writing
<1>5. CASE ReadExtRow(c)
  <2>0. PICK n : n = [r EXCEPT !.at = "write", !.row = extRow]
    OBVIOUS
  <2>1. call' = [call EXCEPT ![c] = n]
    BY <1>5, <2>0 DEF ReadExtRow
  <2>2. Follows(n, r)
    <3>1. Same(n, r) /\ n.at = "write" /\ n.row = extRow
      <4>1. n = [op |-> r.op, at |-> "write", db |-> r.db, payload |-> r.payload,
                 row |-> extRow, path |-> r.path]
        BY <1>1, <2>0 DEF IsCall
      <4> QED BY <1>1, <4>1 DEF IsCall, Same
    <3> QED BY <1>1, <3>1 DEF Follows, Same, Writing
  <2> QED BY <1>5, <2>1, <2>2, FollowIsPlain DEF ReadExtRow, Writing
<1>6. CASE WriteExtRow(c)
  <2>0. PICK n : n = [r EXCEPT !.at = AfterRow(r.op), !.row = NoRow]
    OBVIOUS
  <2>1. call' = [call EXCEPT ![c] = n] /\ extRow' = WrittenRow(r)
        /\ UNCHANGED <<graphOf, receipts, crossing, answered>> /\ r.at = "write"
    BY <1>6, <2>0 DEF WriteExtRow
  <2>2. Follows(n, r)
    <3>1. AfterRow(r.op) \notin Writing
      BY DEF AfterRow, Writing
    <3>2. Same(n, r) /\ n.at = AfterRow(r.op) /\ n.row = NoRow
      <4>1. n = [op |-> r.op, at |-> AfterRow(r.op), db |-> r.db, payload |-> r.payload,
                 row |-> NoRow, path |-> r.path]
        BY <1>1, <2>0 DEF IsCall
      <4> QED BY <1>1, <4>1, IdleIsCall DEF IsCall, Same
    <3> QED BY <3>1, <3>2, IdleIsCall DEF Follows, Same
  <2>3. WrittenRow(r) \in ExtRow /\ Linked(WrittenRow(r))
    <3>1. r.db \in Databases \cup {Unset} /\ r.row \in ExtRow
      BY <1>1 DEF IsCall
    <3>2. CASE r.op = "validate"
      BY <3>1, <3>2 DEF WrittenRow, ExtRow, Labels, Linked
    <3>3. CASE r.op = "approve"
      BY <3>1, <3>3 DEF WrittenRow, ExtRow, Labels, Linked
    <3>4. CASE r.op = "project"
      BY <3>1, <3>4, MarkerAssumption DEF WrittenRow, ExtRow, Labels, Linked
    <3>5. CASE r.op \notin {"validate", "approve", "project"}
      BY <1>1, <3>1, <3>5 DEF WrittenRow
    <3> QED BY <3>2, <3>3, <3>4, <3>5
  <2>4. call'[c] = n
    BY <1>1, <2>1
  <2>5. r # IdleSender
    BY <2>1 DEF IdleSender
  <2> QED BY <2>1, <2>2, <2>3, <2>4, <2>5 DEF PlainStep, Follows, Writing
<1>7. CASE RecordConnector(c)
  <2>1. PICK p : call' = [call EXCEPT ![c] = [r EXCEPT !.at = "move", !.path = p]]
    BY <1>7 DEF RecordConnector
  <2>2. Follows([r EXCEPT !.at = "move", !.path = p], r)
    BY <1>1, NextFollows DEF Writing
  <2> QED BY <1>7, <2>1, <2>2, FollowIsPlain DEF RecordConnector, Writing
<1>8. CASE TakeStep(c)
  <2>1. ASSUME NEW q, NEW t, IsCall(q), Linked(q.row), q.op = r.op, q.payload = r.payload
        PROVE  Follows(AfterMoves(q, t), r)
    <3>1. AfterMoves(q, t) \in {[q EXCEPT !.at = "schema"], [q EXCEPT !.at = "integrity"], IdleSender}
      BY DEF AfterMoves
    <3>2. Follows([q EXCEPT !.at = "schema"], q) /\ Follows([q EXCEPT !.at = "integrity"], q)
      BY <2>1, NextFollows DEF Writing
    <3> QED BY <2>1, <3>1, <3>2, IdleFollows DEF Follows
  <2>2. CASE r.path = <<>>
    <3>1. call' = [call EXCEPT ![c] = AfterMoves(r, extStatus)]
      BY <1>8, <2>2 DEF TakeStep
    <3> QED BY <1>1, <1>8, <2>1, <3>1, FollowIsPlain DEF TakeStep, Writing
  <2>3. CASE r.path # <<>>
    <3> DEFINE rest == [r EXCEPT !.path = Tail(r.path)]
    <3>1. PICK n \in {rest, AfterMoves(rest, Head(r.path)), IdleSender} : call' = [call EXCEPT ![c] = n]
      <4>1. MoveTo(c, Head(r.path),
                   IF rest.path = <<>> THEN AfterMoves(rest, Head(r.path)) ELSE rest, IdleSender)
        BY <1>8, <2>3 DEF TakeStep
      <4> HIDE DEF rest
      <4> QED BY <4>1 DEF MoveTo
    <3>2. r.at = "move"
      BY <1>8 DEF TakeStep
    <3>3. IsCall(rest) /\ rest.op = r.op /\ rest.payload = r.payload /\ rest.row = r.row
          /\ Follows(rest, r)
      <4>1. Same(rest, r) /\ rest.at = r.at /\ rest.row = r.row
        BY <1>1, SetPath
      <4> HIDE DEF rest
      <4> QED BY <1>1, <3>2, <4>1 DEF Same, Follows, Writing
    <3> HIDE DEF rest
    <3>4. Follows(n, r)
      BY <1>1, <2>1, <3>1, <3>3, IdleFollows
    <3> QED BY <1>8, <3>1, <3>2, <3>4, FollowIsPlain DEF TakeStep, Writing
  <2> QED BY <2>2, <2>3
<1>9. CASE SaveSchemaFile(c)
  <2>1. PICK n \in {[r EXCEPT !.at = "read"], [r EXCEPT !.at = "projection"]} :
               call' = [call EXCEPT ![c] = n]
    BY <1>9 DEF SaveSchemaFile, CallGoes
  <2>2. Follows(n, r)
    BY <1>1, <2>1, NextFollows DEF Writing
  <2> QED BY <1>9, <2>1, <2>2, FollowIsPlain DEF SaveSchemaFile, Writing
<1>10. CASE RecordIntegrity(c)
  <2>1. PICK n \in {IdleSender, [r EXCEPT !.at = "fail"],
                    [r EXCEPT !.at = "move", !.path = <<"evaluation_required">>]} :
               call' = [call EXCEPT ![c] = n]
    BY <1>10 DEF RecordIntegrity, CallGoes, CallEnds
  <2>2. Follows(n, r)
    <3>1. /\ Follows([r EXCEPT !.at = "fail"], r)
          /\ Follows([r EXCEPT !.at = "move", !.path = <<"evaluation_required">>], r)
      BY <1>1, NextFollows DEF Writing
    <3> QED BY <2>1, <3>1, IdleFollows
  <2> QED BY <1>10, <2>1, <2>2, FollowIsPlain DEF RecordIntegrity, Writing
<1>11. CASE ReadProject(c)
  <2>1. PICK n : /\ call' = [call EXCEPT ![c] = n]
                 /\ \/ n \in {IdleSender, [r EXCEPT !.at = "create"]}
                    \/ \E p : n = [r EXCEPT !.at = "read", !.path = p]
    <3>1. CASE extStatus = Lifecycle!Absent
      <4>1. call' = [call EXCEPT ![c] = [r EXCEPT !.at = "create"]]
        BY <1>11, <3>1 DEF ReadProject, CallGoes, Lifecycle!Absent
      <4> QED BY <4>1
    <3>2. CASE extStatus # Lifecycle!Absent /\ extStatus = "archived"
      BY <1>11, <3>2 DEF ReadProject, CallEnds
    <3>3. CASE extStatus # Lifecycle!Absent /\ extStatus # "archived"
      <4> DEFINE m == [r EXCEPT !.at = "read", !.path = TransitionPath(extStatus)]
      <4>1. call' = [call EXCEPT ![c] = m]
        BY <1>11, <3>3 DEF ReadProject, Lifecycle!Absent
      <4>2. \E p : m = [r EXCEPT !.at = "read", !.path = p]
        <5> WITNESS TransitionPath(extStatus)
        <5> QED OBVIOUS
      <4> HIDE DEF m
      <4> QED BY <4>1, <4>2
    <3> QED BY <3>1, <3>2, <3>3
  <2>2. Follows(n, r)
    <3>1. /\ Follows([r EXCEPT !.at = "create"], r)
          /\ \A p : Follows([r EXCEPT !.at = "read", !.path = p], r)
      BY <1>1, NextFollows DEF Writing
    <3> QED BY <2>1, <3>1, IdleFollows
  <2> QED BY <1>11, <2>1, <2>2, FollowIsPlain DEF ReadProject, Exec, Writing
<1>12. CASE CreateProject(c)
  <2>1. PICK n \in {IdleSender, [r EXCEPT !.at = "schema"]} : call' = [call EXCEPT ![c] = n]
    BY <1>12 DEF CreateProject, CallGoes, CallEnds
  <2>2. Follows(n, r)
    BY <1>1, <2>1, NextFollows, IdleFollows DEF Writing
  <2>3. extRow' = extRow \/ extRow' = [NoRow EXCEPT !.source = Canonical, !.schema = Canonical]
    BY <1>12 DEF CreateProject
  <2>4. extRow' \in ExtRow /\ Linked(extRow')
    BY <1>1, <2>3, IdleIsCall, MarkerAssumption DEF ExtRow, Labels, Linked
  <2>5. r.at = "create" /\ UNCHANGED <<graphOf, receipts, crossing, answered>>
    BY <1>12 DEF CreateProject, Exec
  <2>6. call'[c] = n /\ r # IdleSender
    BY <1>1, <2>1, <2>5 DEF IdleSender
  <2> QED BY <2>1, <2>2, <2>4, <2>5, <2>6 DEF PlainStep, Follows, Writing
<1>13. CASE RecordProjection(c)
  <2>1. call' = [call EXCEPT ![c] = [r EXCEPT !.at = "integrity"]]
    BY <1>13 DEF RecordProjection, CallGoes
  <2>2. Follows([r EXCEPT !.at = "integrity"], r)
    BY <1>1, NextFollows DEF Writing
  <2> QED BY <1>13, <2>1, <2>2, FollowIsPlain DEF RecordProjection, Exec, Writing
<1> QED BY <1>2, <1>3, <1>4, <1>5, <1>6, <1>7, <1>8, <1>9, <1>10, <1>11, <1>12, <1>13

LEMMA ExtStep == ExtInv /\ [ExtNext]_extVars => ExtInv'
<1> SUFFICES ASSUME ExtInv, [ExtNext]_extVars PROVE ExtInv'
  OBVIOUS
<1>t. ExtTypes /\ LinkInv /\ GraphInv /\ call = [c \in Senders |-> call[c]]
  BY DEF ExtInv, ExtTypes
<1>i. IsCall(IdleSender) /\ Linked(IdleSender.row) /\ IdleSender.op # "project"
  BY IdleIsCall
\* Steps that leave everything this invariant speaks of.
<1>1. CASE UNCHANGED <<extRow, graphOf, receipts, call, crossing, answered>>
  BY <1>1 DEF ExtInv, ExtTypes, LinkInv, GraphInv, InGraph, ReceiptInv, IsCall, Linked
<1>2. CASE StopApi
  <2>1. call' = [c \in Senders |-> IdleSender]
        /\ UNCHANGED <<extRow, graphOf, receipts, crossing, answered>>
    BY <1>2 DEF StopApi
  <2>2. \A c \in Senders : call'[c] = IdleSender
    BY <2>1
  <2>3. ExtTypes'
    BY <1>t, <1>i, <2>1, <2>2 DEF ExtTypes, IsCall
  <2>4. LinkInv' /\ GraphInv'
    BY <1>t, <1>i, <2>1, <2>2 DEF LinkInv, GraphInv, InGraph
  <2>5. ReceiptInv => ReceiptInv'
    BY <1>i, <2>1, <2>2 DEF ReceiptInv
  <2> QED BY <2>1, <2>3, <2>4, <2>5 DEF ExtInv
<1>3. ASSUME NEW c \in Senders, NEW s \in Lifecycle!Statuses, PatchStatus(c, s) PROVE ExtInv'
  <2>1. UNCHANGED <<extRow, graphOf, receipts, call, answered>>
        /\ crossing' = (crossing \/ OthersBusy(c))
    BY <1>3 DEF PatchStatus
  <2>2. crossing' \in BOOLEAN /\ (~crossing' => ~crossing)
    BY <1>t, <2>1 DEF ExtTypes
  <2> QED BY <1>t, <2>1, <2>2 DEF ExtInv, ExtTypes, LinkInv, GraphInv, InGraph, ReceiptInv, IsCall,
                                 Linked
\* A call begins, with the receipt it has read.
<1>4. ASSUME NEW c \in Senders, NEW n, IsCall(n), Linked(n.row), Starts(c, n),
             UNCHANGED <<extRow, graphOf, receipts, answered>>,
             n.op = "project" =>
               /\ n.payload \in Payloads
               /\ \/ n.at = "graph" /\ receipts[n.payload.key] = NoPayload
                  \/ n.at = "project" /\ receipts[n.payload.key] = n.payload
      PROVE  ExtInv'
  <2>1. /\ call' = [call EXCEPT ![c] = n] /\ call[c] = IdleSender
        /\ crossing' = (crossing \/ OthersBusy(c))
    BY <1>4 DEF Starts
  <2>2. call'[c] = n /\ (\A d \in Senders \ {c} : call'[d] = call[d])
        /\ call' = [d \in Senders |-> call'[d]]
    BY <1>t, <2>1
  <2>3. ExtTypes' /\ LinkInv'
    BY <1>t, <1>4, <2>1, <2>2 DEF ExtTypes, LinkInv, IsCall
  <2>4. GraphInv'
    <3>1. ASSUME n.op = "project", n.at # "graph"
          PROVE  InGraph(n.payload)
      <4>1. n.payload.key \in PayloadKeys /\ n.payload # NoPayload
        BY <1>4, <3>1, MarkerAssumption DEF PayloadKeys
      <4> QED BY <1>t, <1>4, <3>1, <4>1 DEF GraphInv
    <3> QED BY <1>t, <1>4, <2>2, <3>1 DEF GraphInv, InGraph
  <2>5. ASSUME ~crossing' PROVE ReceiptInv'
    <3>1. ReceiptInv /\ \A d \in Senders \ {c} : call[d] = IdleSender
      BY <2>1, <2>5 DEF ExtInv, OthersBusy
    <3>2. \A d \in Senders : call'[d].op = "project" => d = c
      BY <1>i, <2>2, <3>1
    <3> QED BY <1>4, <2>2, <3>1, <3>2 DEF ReceiptInv, Writing
  <2> QED BY <2>1, <2>3, <2>4, <2>5 DEF ExtInv
<1>5. ASSUME NEW c \in Senders, NEW db \in Databases, BeginValidate(c, db) \/ BeginApprove(c, db)
      PROVE  ExtInv'
  <2>1. PICK n : /\ Starts(c, n)
                 /\ \E a : n = [IdleSender EXCEPT !.op = "validate", !.db = db, !.at = a]
                          \/ n = [IdleSender EXCEPT !.op = "approve", !.db = db, !.at = a]
    BY <1>5 DEF BeginValidate, BeginApprove
  <2>2. UNCHANGED <<extRow, graphOf, receipts, answered>>
    BY <1>5 DEF BeginValidate, BeginApprove
  <2>3. IsCall(n) /\ Linked(n.row) /\ n.op # "project"
    BY <2>1, IdleIsCall DEF IsCall, IdleSender
  <2> QED BY <1>4, <2>1, <2>2, <2>3
<1>6. ASSUME NEW c \in Senders, BeginPromote(c) PROVE ExtInv'
  <2>1. PICK n : /\ n = [IdleSender EXCEPT !.op = "promote", !.at = "read", !.path = <<"ready">>]
                 /\ Starts(c, n) /\ UNCHANGED <<extRow, graphOf, receipts, answered>>
    BY <1>6 DEF BeginPromote
  <2>2. IsCall(n) /\ Linked(n.row) /\ n.op # "project"
    BY <2>1, IdleIsCall DEF IsCall, IdleSender
  <2> QED BY <1>4, <2>1, <2>2
<1>7. ASSUME NEW c \in Senders, NEW m \in Payloads, BeginProject(c, m) PROVE ExtInv'
  <2>1. PICK n : /\ n = [IdleSender EXCEPT !.op = "project", !.payload = m,
                            !.at = IF receipts[m.key] = NoPayload THEN "graph" ELSE "project"]
                 /\ Starts(c, n) /\ UNCHANGED <<extRow, graphOf, receipts, answered>>
                 /\ ~UsedForOther(m)
    BY <1>7 DEF BeginProject
  <2>2. IsCall(n) /\ Linked(n.row) /\ n.payload = m
        /\ n.at = IF receipts[m.key] = NoPayload THEN "graph" ELSE "project"
    BY <2>1, IdleIsCall DEF IsCall, IdleSender
  <2> QED BY <1>4, <2>1, <2>2 DEF UsedForOther
<1>8. ASSUME NEW c \in Senders, WriteGraph(c) PROVE ExtInv'
  <2> DEFINE m == call[c].payload
  <2>1. PICK o \in Outcomes(m) :
          /\ graphOf' = IF o.written THEN [graphOf EXCEPT ![m.version] = @ \cup m.nodes] ELSE graphOf
          /\ IF o.ok THEN CallGoes(c, "receipt") ELSE CallEnds(c)
    BY <1>8 DEF WriteGraph
  <2>2. /\ UNCHANGED <<extRow, receipts, crossing, answered>>
        /\ call[c].op = "project" /\ call[c].at = "graph" /\ m \in Payloads
    BY <1>8, <1>t DEF WriteGraph, Exec, GraphInv
  <2>3. o.ok => o.written
    BY <2>1 DEF Outcomes
  <2>4. m.version \in PayloadVersions /\ m.nodes \subseteq UNION {p.nodes : p \in Payloads}
    BY <2>2 DEF PayloadVersions
  <2>5. /\ graphOf' \in [PayloadVersions -> SUBSET UNION {p.nodes : p \in Payloads}]
        /\ \A v \in PayloadVersions : graphOf[v] \subseteq graphOf'[v]
        /\ o.ok => m.nodes \subseteq graphOf'[m.version]
    BY <1>t, <2>1, <2>3, <2>4 DEF ExtTypes
  <2>6. \A p \in Payloads : InGraph(p) => InGraph(p)'
    BY <2>5 DEF InGraph, PayloadVersions
  <2>7. PICK n : /\ call' = [call EXCEPT ![c] = n] /\ IsCall(n) /\ Linked(n.row)
                 /\ \/ n = IdleSender
                    \/ o.ok /\ n.op = "project" /\ n.payload = m /\ n.at = "receipt"
    <3>1. CASE o.ok
      <4> DEFINE n == [call[c] EXCEPT !.at = "receipt"]
      <4>1. call' = [call EXCEPT ![c] = n]
        BY <2>1, <3>1 DEF CallGoes
      <4>2. Same(n, call[c]) /\ n.at = "receipt" /\ n.row = call[c].row
        BY <1>t, SetAt DEF ExtTypes
      <4> HIDE DEF n
      <4> QED BY <1>t, <2>2, <3>1, <4>1, <4>2 DEF LinkInv, Same
    <3>2. CASE ~o.ok
      BY <1>i, <2>1, <3>2 DEF CallEnds
    <3> QED BY <3>1, <3>2
  <2>8. call'[c] = n /\ (\A d \in Senders \ {c} : call'[d] = call[d])
        /\ call' = [d \in Senders |-> call'[d]]
    BY <1>t, <2>7
  <2>9. ExtTypes' /\ LinkInv'
    BY <1>t, <2>2, <2>5, <2>7, <2>8 DEF ExtTypes, LinkInv, IsCall
  <2>10. GraphInv'
    <3>1. \A k \in PayloadKeys : receipts'[k] # NoPayload => InGraph(receipts[k])'
      BY <1>t, <2>2, <2>6 DEF GraphInv, ExtTypes, InGraph
    <3>2. \A p \in answered' : InGraph(p)'
      BY <1>t, <2>2, <2>6 DEF GraphInv, ExtTypes
    <3>3. ASSUME NEW d \in Senders, call'[d].op = "project"
          PROVE  call'[d].payload \in Payloads /\ (call'[d].at # "graph" => InGraph(call[d].payload)')
      <4>1. CASE d = c
        BY <1>i, <2>2, <2>5, <2>7, <2>8, <3>3, <4>1 DEF InGraph
      <4>2. CASE d # c
        BY <1>t, <2>6, <2>8, <3>3, <4>2 DEF GraphInv, InGraph
      <4> QED BY <4>1, <4>2
    <3> QED BY <3>1, <3>2, <3>3 DEF GraphInv
  <2>11. ReceiptInv => ReceiptInv'
    <3> SUFFICES ASSUME ReceiptInv PROVE ReceiptInv'
      OBVIOUS
    <3>1. call[c] # IdleSender
      BY <2>2, <1>i
    <3>2. \A d \in Senders \ {c} : call[d] = IdleSender
      BY <3>1 DEF ReceiptInv
    <3>3. receipts[m.key] = NoPayload
      BY <2>2 DEF ReceiptInv, Writing
    <3> QED BY <1>i, <2>2, <2>7, <2>8, <3>2, <3>3 DEF ReceiptInv, Writing
  <2> QED BY <2>2, <2>9, <2>10, <2>11 DEF ExtInv
<1>9. ASSUME NEW c \in Senders, SaveReceipt(c) PROVE ExtInv'
  <2> DEFINE m == call[c].payload
             n == [call[c] EXCEPT !.at = "project"]
  <2>1. /\ receipts' = [receipts EXCEPT ![m.key] = m] /\ call' = [call EXCEPT ![c] = n]
        /\ UNCHANGED <<extRow, graphOf, crossing, answered>>
        /\ call[c].op = "project" /\ call[c].at = "receipt"
    BY <1>9 DEF SaveReceipt, Exec, CallGoes
  <2>2. m \in Payloads /\ InGraph(m) /\ m.key \in PayloadKeys
    BY <1>t, <2>1 DEF GraphInv, PayloadKeys
  <2>3. Same(n, call[c]) /\ n.at = "project" /\ n.row = call[c].row
    BY <1>t, SetAt DEF ExtTypes
  <2>4. IsCall(n) /\ Linked(n.row) /\ n.op = "project" /\ n.payload = m
    BY <1>t, <2>1, <2>3 DEF Same, LinkInv
  <2> HIDE DEF m, n
  <2>5. call'[c] = n /\ (\A d \in Senders \ {c} : call'[d] = call[d])
        /\ call' = [d \in Senders |-> call'[d]]
    BY <1>t, <2>1
  <2>6. receipts'[m.key] = m /\ (\A k \in PayloadKeys \ {m.key} : receipts'[k] = receipts[k])
        /\ receipts' \in [PayloadKeys -> Payloads \cup {NoPayload}]
    BY <1>t, <2>1, <2>2 DEF ExtTypes
  <2>7. ExtTypes' /\ LinkInv'
    BY <1>t, <2>1, <2>4, <2>5, <2>6 DEF ExtTypes, LinkInv, IsCall
  <2>8. GraphInv'
    <3>1. \A k \in PayloadKeys : receipts'[k] # NoPayload => InGraph(receipts[k])'
      BY <1>t, <2>1, <2>2, <2>6 DEF GraphInv, InGraph
    <3>2. \A p \in answered' : InGraph(p)'
      BY <1>t, <2>1 DEF GraphInv, InGraph
    <3>3. \A d \in Senders : call'[d].op = "project" =>
            call'[d].payload \in Payloads /\ (call'[d].at # "graph" => InGraph(call[d].payload)')
      BY <1>t, <2>1, <2>2, <2>4, <2>5 DEF GraphInv, InGraph
    <3> QED BY <3>1, <3>2, <3>3 DEF GraphInv
  <2>9. ReceiptInv => ReceiptInv'
    <3> SUFFICES ASSUME ReceiptInv PROVE ReceiptInv'
      OBVIOUS
    <3>1. call[c] # IdleSender
      BY <2>1, <1>i
    <3>2. \A d \in Senders \ {c} : call[d] = IdleSender
      BY <3>1 DEF ReceiptInv
    <3>3. receipts[m.key] = NoPayload
      BY <2>1 DEF ReceiptInv, Writing, m
    \* So nothing was answered under this key.
    <3>4. \A p \in answered : p.key # m.key
      BY <1>t, <3>3, MarkerAssumption DEF ReceiptInv, ExtTypes
    <3>5. \A p \in answered' : receipts'[p.key] = p
      BY <1>t, <2>1, <2>6, <3>4 DEF ReceiptInv, ExtTypes, PayloadKeys
    <3>6. \A d \in Senders : call'[d].op = "project" => d = c
      BY <1>i, <2>5, <3>2
    <3> QED BY <2>3, <2>4, <2>5, <2>6, <3>2, <3>5, <3>6 DEF ReceiptInv, Writing
  <2> QED BY <2>1, <2>7, <2>8, <2>9 DEF ExtInv
<1>10. ASSUME NEW c \in Senders, CallStep(c) PROVE ExtInv'
  <2>1. CASE WriteGraph(c) \/ SaveReceipt(c)
    BY <1>8, <1>9, <2>1
  <2>2. CASE ~(WriteGraph(c) \/ SaveReceipt(c))
    <3>1. PlainStep(c)
      BY <1>t, <1>10, <2>2, CallStepIsPlain DEF CallStep
    <3> QED BY <3>1, PlainStepKeeps
  <2> QED BY <2>1, <2>2
<1>11. CASE EvaluateExternal
  BY <1>1, <1>11 DEF EvaluateExternal
<1>12. CASE UNCHANGED extVars
  BY <1>1, <1>12 DEF extVars
<1> QED BY <1>2, <1>3, <1>5, <1>6, <1>7, <1>10, <1>11, <1>12 DEF ExtNext

(* service.py:553-582: whatever the payloads and their keys, a completed   *)
(* answer is in the graph as a whole, and its key stands for it alone.     *)
THEOREM AnswersHold == ExtSpec => []CompletedHolds
<1>1. ExtInv => CompletedHolds
  BY DEF ExtInv, GraphInv, ReceiptInv, InGraph, CompletedHolds, OneContentPerKey, ReceiptsInGraph
<1> QED BY ExtInit_Inv, ExtStep, <1>1, PTL DEF ExtSpec

(* connectors.py: whatever rows the calls write over each other, a project *)
(* queries the attached database under the schema an approval took from it.*)
THEOREM AttachedApproved == ExtSpec => []AttachedIsApproved
<1>1. ExtInv => AttachedIsApproved
  BY DEF ExtInv, LinkInv, Linked, AttachedIsApproved, AnswersQueries, EligibleForReady, SchemaCurrent
<1> QED BY ExtInit_Inv, ExtStep, <1>1, PTL DEF ExtSpec

(***************************************************************************)
(* The types of external projects.                                         *)
(***************************************************************************)

\* What a call still needs of its fields.
CallTyped(r) ==
  /\ IsCall(r) /\ r.op \in ExtOps /\ r.at \in ExtAt
  /\ r.op \in {"validate", "approve"} => r.db \in Databases
  /\ r.at = "integrity" => r.op \in {"approve", "project"}

\* The steps of a call that do not need the project.
Early == {"idle", "graph", "receipt", "project", "create"}

ShapeInv ==
  /\ extStatus \in Lifecycle!Statuses \cup {Lifecycle!Absent} /\ artifact \in Artifacts
  /\ profiles \subseteq Databases /\ {schemaFile, metrics} \subseteq Labels
  /\ sent \in 0..MaxSent
  /\ \A c \in Senders : CallTyped(call[c])
  /\ extStatus = Lifecycle!Absent => \A c \in Senders : call[c].at \in Early

LEMMA IdleFits == CallTyped(IdleSender) /\ IdleSender.at = "idle"
<1>1. IdleSender.op = "none" /\ IdleSender.at = "idle"
  BY DEF IdleSender
<1> QED BY <1>1, IdleIsCall DEF CallTyped, ExtOps, ExtAt

\* A call with other values for step, row and path.
LEMMA FieldsFit ==
  ASSUME NEW r, CallTyped(r), NEW a \in ExtAt, NEW v \in ExtRow, NEW q, NEW n,
         a = "integrity" => r.op \in {"approve", "project"},
         n = [op |-> r.op, at |-> a, db |-> r.db, payload |-> r.payload, row |-> v, path |-> q]
  PROVE  CallTyped(n) /\ n.at = a
<1>1. n.op = r.op /\ n.at = a /\ n.db = r.db /\ n.payload = r.payload /\ n.row = v /\ n.path = q
  OBVIOUS
<1>2. IsCall(n)
  BY <1>1 DEF CallTyped, IsCall
<1> QED BY <1>1, <1>2 DEF CallTyped

\* The updates of the handlers.
LEMMA UpdatesFit ==
  ASSUME NEW r, CallTyped(r), NEW a \in ExtAt, a = "integrity" => r.op \in {"approve", "project"}
  PROVE  /\ CallTyped([r EXCEPT !.at = a]) /\ [r EXCEPT !.at = a].at = a
         /\ \A p : CallTyped([r EXCEPT !.at = a, !.path = p])
         /\ \A w \in ExtRow : CallTyped([r EXCEPT !.at = a, !.row = w])
<1>0. r = [op |-> r.op, at |-> r.at, db |-> r.db, payload |-> r.payload, row |-> r.row,
           path |-> r.path] /\ r.row \in ExtRow
  BY DEF CallTyped, IsCall
<1>1. CallTyped([r EXCEPT !.at = a]) /\ [r EXCEPT !.at = a].at = a
  <2>1. PICK n : n = [r EXCEPT !.at = a]
    OBVIOUS
  <2>2. n = [op |-> r.op, at |-> a, db |-> r.db, payload |-> r.payload, row |-> r.row,
             path |-> r.path]
    BY <1>0, <2>1
  <2>3. CallTyped(n) /\ n.at = a
    BY <1>0, <2>2, FieldsFit
  <2> QED BY <2>1, <2>3
<1>2. ASSUME NEW p PROVE CallTyped([r EXCEPT !.at = a, !.path = p])
  <2>1. PICK n : n = [r EXCEPT !.at = a, !.path = p]
    OBVIOUS
  <2>2. n = [op |-> r.op, at |-> a, db |-> r.db, payload |-> r.payload, row |-> r.row,
             path |-> p]
    BY <1>0, <2>1
  <2>3. CallTyped(n)
    BY <1>0, <2>2, FieldsFit
  <2> QED BY <2>1, <2>3
<1>3. ASSUME NEW w \in ExtRow PROVE CallTyped([r EXCEPT !.at = a, !.row = w])
  <2>1. PICK n : n = [r EXCEPT !.at = a, !.row = w]
    OBVIOUS
  <2>2. n = [op |-> r.op, at |-> a, db |-> r.db, payload |-> r.payload, row |-> w,
             path |-> r.path]
    BY <1>0, <2>1
  <2>3. CallTyped(n)
    BY <2>2, FieldsFit
  <2> QED BY <2>1, <2>3
<1> QED BY <1>1, <1>2, <1>3

LEMMA PathFits ==
  ASSUME NEW r, CallTyped(r), NEW p
  PROVE  CallTyped([r EXCEPT !.path = p])
<1>0. r = [op |-> r.op, at |-> r.at, db |-> r.db, payload |-> r.payload, row |-> r.row,
           path |-> r.path] /\ r.row \in ExtRow /\ r.at \in ExtAt
      /\ (r.at = "integrity" => r.op \in {"approve", "project"})
  BY DEF CallTyped, IsCall
<1>1. PICK n : n = [r EXCEPT !.path = p]
  OBVIOUS
<1>2. n = [op |-> r.op, at |-> r.at, db |-> r.db, payload |-> r.payload, row |-> r.row,
           path |-> p]
  BY <1>0, <1>1
<1>3. CallTyped(n)
  BY <1>0, <1>2, FieldsFit
<1> QED BY <1>1, <1>3

\* The statuses are closed under the transitions.
LEMMA TransitionsClosed ==
  ASSUME NEW s \in Lifecycle!Statuses
  PROVE  Lifecycle!AllowedTransitions[s] \subseteq Lifecycle!Statuses
BY DEF Lifecycle!AllowedTransitions, Lifecycle!Statuses

LEMMA MoveFits ==
  ASSUME NEW c, NEW target, NEW done, NEW refused, MoveTo(c, target, done, refused),
         extStatus \in Lifecycle!Statuses
  PROVE  /\ extStatus' \in Lifecycle!Statuses
         /\ \E n \in {done, refused} : call' = [call EXCEPT ![c] = n]
<1>1. CASE CanMove(target) /\ extStatus' = target /\ call' = [call EXCEPT ![c] = done]
  BY <1>1, TransitionsClosed DEF CanMove
<1>2. CASE UNCHANGED extStatus /\ call' = [call EXCEPT ![c] = refused]
  BY <1>2
<1> QED BY <1>1, <1>2 DEF MoveTo

\* A step of one call keeps the types if it does so for what it writes.
LEMMA OneCallKeeps ==
  ASSUME ExtTypes, ShapeInv, NEW c \in Senders, NEW n,
         call' = [call EXCEPT ![c] = n], CallTyped(n),
         extStatus' \in Lifecycle!Statuses \/ (extStatus' = extStatus /\ n.at \in Early),
         artifact' \in Artifacts, profiles' \subseteq Databases,
         {schemaFile', metrics'} \subseteq Labels, sent' \in 0..MaxSent
  PROVE  ShapeInv'
<1>1. call'[c] = n /\ \A d \in Senders \ {c} : call'[d] = call[d]
  BY DEF ExtTypes
<1>2. \A d \in Senders : CallTyped(call'[d])
  BY <1>1 DEF ShapeInv
<1>3. \A d \in Senders : CallTyped(call[d])'
  BY <1>2 DEF CallTyped, IsCall
<1>4. ASSUME extStatus' = Lifecycle!Absent PROVE \A d \in Senders : call'[d].at \in Early
  <2>1. extStatus' \notin Lifecycle!Statuses
    BY <1>4 DEF Lifecycle!Absent, Lifecycle!Statuses
  <2> QED BY <1>1, <1>4, <2>1 DEF ShapeInv
<1>5. extStatus' \in Lifecycle!Statuses \cup {Lifecycle!Absent}
  BY DEF ShapeInv
<1> QED BY <1>3, <1>4, <1>5 DEF ShapeInv

LEMMA ExtInit_Shape == ExtInit => ShapeInv
<1> SUFFICES ASSUME ExtInit PROVE ShapeInv
  OBVIOUS
<1>1. extStatus \in Lifecycle!Statuses \cup {Lifecycle!Absent}
  BY DEF ExtInit, Lifecycle!Statuses
<1>2. artifact \in Artifacts /\ {schemaFile, metrics} \subseteq Labels
  BY DEF ExtInit, Artifacts, Labels
<1>3. \A c \in Senders : CallTyped(call[c]) /\ call[c].at \in Early
  BY IdleFits DEF ExtInit, Early
<1> QED BY <1>1, <1>2, <1>3, SentAssumption DEF ExtInit, ShapeInv

\* The calls that begin.
LEMMA BeginShape ==
  ASSUME ExtTypes, ShapeInv, NEW c \in Senders,
         \/ \E db \in Databases : BeginValidate(c, db) \/ BeginApprove(c, db)
         \/ \E m \in Payloads : BeginProject(c, m)
         \/ BeginPromote(c)
  PROVE  ShapeInv'
<1>0. IdleSender = [op |-> "none", at |-> "idle", db |-> Unset, payload |-> NoPayload,
                    row |-> NoRow, path |-> <<>>]
      /\ NoRow \in ExtRow
  BY IdleIsCall DEF IdleSender
<1>1. ASSUME NEW n, Starts(c, n), CallTyped(n),
             extStatus \in Lifecycle!Statuses \/ n.at \in Early,
             UNCHANGED <<extStatus, artifact, profiles, schemaFile, metrics>>
      PROVE  ShapeInv'
  <2>1. call' = [call EXCEPT ![c] = n] /\ sent' \in 0..MaxSent
    BY <1>1, SentAssumption DEF Starts, ShapeInv
  <2> QED BY <1>1, <2>1, OneCallKeeps DEF ShapeInv
<1>2. ASSUME NEW db \in Databases, BeginValidate(c, db) PROVE ShapeInv'
  <2>1. PICK n : /\ Starts(c, n)
                 /\ n = [IdleSender EXCEPT !.op = "validate", !.db = db,
                           !.at = IF extStatus \in {"draft", "failed"} THEN "profiling" ELSE "inspect"]
    BY <1>2 DEF BeginValidate
  <2>2. n = [op |-> "validate", at |-> n.at, db |-> db, payload |-> NoPayload, row |-> NoRow,
             path |-> <<>>] /\ n.at \in {"profiling", "inspect"}
    BY <1>0, <2>1
  <2>3. CallTyped(n)
    BY <1>0, <2>2 DEF CallTyped, IsCall, ExtOps, ExtAt
  <2>4. /\ UNCHANGED <<extStatus, artifact, profiles, schemaFile, metrics>>
        /\ extStatus \in Lifecycle!Statuses
    BY <1>2 DEF BeginValidate, ShapeInv
  <2> QED BY <1>1, <2>1, <2>3, <2>4
<1>3. ASSUME NEW db \in Databases, BeginApprove(c, db) PROVE ShapeInv'
  <2>1. PICK n : /\ Starts(c, n)
                 /\ n = [IdleSender EXCEPT !.op = "approve", !.db = db, !.at = "schema"]
    BY <1>3 DEF BeginApprove
  <2>2. n = [op |-> "approve", at |-> "schema", db |-> db, payload |-> NoPayload, row |-> NoRow,
             path |-> <<>>]
    BY <1>0, <2>1
  <2>3. CallTyped(n)
    BY <1>0, <2>2 DEF CallTyped, IsCall, ExtOps, ExtAt
  <2>4. /\ UNCHANGED <<extStatus, artifact, profiles, schemaFile, metrics>>
        /\ extStatus \in Lifecycle!Statuses
    BY <1>3 DEF BeginApprove, ShapeInv, Lifecycle!Statuses
  <2> QED BY <1>1, <2>1, <2>3, <2>4
<1>4. ASSUME NEW m \in Payloads, BeginProject(c, m) PROVE ShapeInv'
  <2>1. PICK n : /\ Starts(c, n)
                 /\ n = [IdleSender EXCEPT !.op = "project", !.payload = m,
                           !.at = IF receipts[m.key] = NoPayload THEN "graph" ELSE "project"]
    BY <1>4 DEF BeginProject
  <2>2. n = [op |-> "project", at |-> n.at, db |-> Unset, payload |-> m, row |-> NoRow,
             path |-> <<>>] /\ n.at \in {"graph", "project"}
    BY <1>0, <2>1
  <2>3. CallTyped(n) /\ n.at \in Early
    BY <1>0, <2>2 DEF CallTyped, IsCall, ExtOps, ExtAt, Early
  <2>4. UNCHANGED <<extStatus, artifact, profiles, schemaFile, metrics>>
    BY <1>4 DEF BeginProject
  <2> QED BY <1>1, <2>1, <2>3, <2>4
<1>5. CASE BeginPromote(c)
  <2>1. PICK n : /\ Starts(c, n)
                 /\ n = [IdleSender EXCEPT !.op = "promote", !.at = "read", !.path = <<"ready">>]
    BY <1>5 DEF BeginPromote
  <2>2. n = [op |-> "promote", at |-> "read", db |-> Unset, payload |-> NoPayload, row |-> NoRow,
             path |-> <<"ready">>]
    BY <1>0, <2>1
  <2>3. CallTyped(n)
    BY <1>0, <2>2 DEF CallTyped, IsCall, ExtOps, ExtAt
  <2>4. /\ UNCHANGED <<extStatus, artifact, profiles, schemaFile, metrics>>
        /\ extStatus \in Lifecycle!Statuses
    BY <1>5 DEF BeginPromote, Lifecycle!Statuses
  <2> QED BY <1>1, <2>1, <2>3, <2>4
<1> QED BY <1>2, <1>3, <1>4, <1>5

\* The steps of a call on its way.
LEMMA CallStepShape ==
  ASSUME ExtTypes, GraphInv, ShapeInv, NEW c \in Senders, CallStep(c)
  PROVE  ShapeInv'
<1> DEFINE r == call[c]
<1>0. /\ CallTyped(r) /\ IsCall(r) /\ r.op \in ExtOps /\ r.at \in ExtAt
      /\ artifact \in Artifacts /\ profiles \subseteq Databases
      /\ {schemaFile, metrics} \subseteq Labels /\ sent \in 0..MaxSent /\ extRow \in ExtRow
      /\ extStatus \in Lifecycle!Statuses \cup {Lifecycle!Absent}
      /\ r.op = "project" => r.payload \in Payloads
  BY DEF ShapeInv, ExtTypes, CallTyped, GraphInv
<1>late. ASSUME r.at \notin Early PROVE extStatus \in Lifecycle!Statuses
  BY <1>late DEF ShapeInv
\* Where a call goes on with one of its updates.
<1>go. ASSUME NEW a \in ExtAt, a = "integrity" => r.op \in {"approve", "project"}
       PROVE  /\ CallTyped([r EXCEPT !.at = a]) /\ [r EXCEPT !.at = a].at = a
              /\ \A p : CallTyped([r EXCEPT !.at = a, !.path = p])
              /\ \A w \in ExtRow : CallTyped([r EXCEPT !.at = a, !.row = w])
  <2> HIDE DEF r
  <2> QED BY <1>0, <1>go, UpdatesFit
<1>1. CASE EnterProfiling(c)
  <2>1. extStatus \in Lifecycle!Statuses /\ "inspect" \in ExtAt
    BY <1>1, <1>late DEF EnterProfiling, Exec, Early, ExtAt
  <2> DEFINE n == [r EXCEPT !.at = "inspect"]
  <2>2. MoveTo(c, "profiling", n, IdleSender)
        /\ UNCHANGED <<artifact, profiles, schemaFile, metrics, sent>>
    BY <1>1 DEF EnterProfiling
  <2>3. CallTyped(n)
    BY <1>0, <1>go, <2>1
  <2> HIDE DEF n
  <2>4. PICK k \in {n, IdleSender} : call' = [call EXCEPT ![c] = k]
    BY <2>1, <2>2, MoveFits
  <2>5. extStatus' \in Lifecycle!Statuses
    BY <2>1, <2>2, MoveFits
  <2> QED BY <1>0, <2>2, <2>3, <2>4, <2>5, IdleFits, OneCallKeeps
<1>2. CASE InspectDatabase(c)
  <2>1. extStatus \in Lifecycle!Statuses /\ r.db \in Databases /\ {"read", "fail"} \subseteq ExtAt
    BY <1>0, <1>2, <1>late DEF InspectDatabase, Exec, Early, ExtAt, CallTyped
  <2>2. PICK a \in {"read", "fail"} : call' = [call EXCEPT ![c] = [r EXCEPT !.at = a]]
    BY <1>2 DEF InspectDatabase, CallGoes
  <2>3. profiles' \subseteq Databases /\ UNCHANGED <<extStatus, artifact, schemaFile, metrics, sent>>
    BY <1>0, <1>2, <2>1 DEF InspectDatabase
  <2> DEFINE n == [r EXCEPT !.at = a]
  <2>4. CallTyped(n)
    BY <1>0, <1>go, <2>1
  <2> HIDE DEF n
  <2>5. call' = [call EXCEPT ![c] = n]
    BY <2>2 DEF n
  <2> QED BY <1>0, <2>1, <2>3, <2>4, <2>5, OneCallKeeps
<1>3. CASE FailProject(c)
  <2>1. extStatus \in Lifecycle!Statuses
    BY <1>3, <1>late DEF FailProject, Early
  <2>2. MoveTo(c, "failed", IdleSender, IdleSender)
        /\ UNCHANGED <<artifact, profiles, schemaFile, metrics, sent>>
    BY <1>3 DEF FailProject
  <2>3. extStatus' \in Lifecycle!Statuses /\ call' = [call EXCEPT ![c] = IdleSender]
    BY <2>1, <2>2, MoveFits
  <2> QED BY <1>0, <2>2, <2>3, IdleFits, OneCallKeeps
<1>4. CASE ReadExtRow(c)
  <2>1. extStatus \in Lifecycle!Statuses /\ "write" \in ExtAt
    BY <1>4, <1>late DEF ReadExtRow, Early, ExtAt
  <2> DEFINE n == [r EXCEPT !.at = "write", !.row = extRow]
  <2>2. CallTyped(n)
    BY <1>0, <1>go, <2>1
  <2>3. call' = [call EXCEPT ![c] = n]
        /\ UNCHANGED <<extStatus, artifact, profiles, schemaFile, metrics, sent>>
    BY <1>4 DEF ReadExtRow
  <2> HIDE DEF n
  <2> QED BY <1>0, <2>1, <2>2, <2>3, OneCallKeeps
<1>5. CASE WriteExtRow(c)
  <2>1. extStatus \in Lifecycle!Statuses /\ AfterRow(r.op) \in ExtAt
        /\ AfterRow(r.op) # "integrity" /\ NoRow \in ExtRow
    BY <1>5, <1>late, IdleIsCall DEF WriteExtRow, Early, ExtAt, AfterRow
  <2> DEFINE n == [r EXCEPT !.at = AfterRow(r.op), !.row = NoRow]
  <2>2. CallTyped(n)
    BY <1>0, <1>go, <2>1
  <2>3. call' = [call EXCEPT ![c] = n]
        /\ UNCHANGED <<extStatus, artifact, profiles, schemaFile, metrics, sent>>
    BY <1>5 DEF WriteExtRow
  <2> HIDE DEF n
  <2> QED BY <1>0, <2>1, <2>2, <2>3, OneCallKeeps
<1>6. CASE RecordConnector(c)
  <2>1. extStatus \in Lifecycle!Statuses /\ "move" \in ExtAt
    BY <1>6, <1>late DEF RecordConnector, Early, ExtAt
  <2> DEFINE p == IF r.op = "approve" THEN <<"loading", "validating">> ELSE <<"mapping_review">>
             n == [r EXCEPT !.at = "move", !.path = p]
  <2>2. /\ artifact' = [artifact EXCEPT !.connector =
                          IF r.op = "approve" THEN "verified" ELSE "validated"]
        /\ call' = [call EXCEPT ![c] = n]
        /\ UNCHANGED <<extStatus, profiles, schemaFile, metrics, sent>>
    BY <1>6 DEF RecordConnector
  <2> HIDE DEF p
  <2>3. CallTyped(n)
    BY <1>0, <1>go, <2>1
  <2>4. artifact' \in Artifacts
    BY <1>0, <2>2 DEF Artifacts
  <2> HIDE DEF n
  <2> QED BY <1>0, <2>1, <2>2, <2>3, <2>4, OneCallKeeps
<1>7. CASE TakeStep(c)
  <2>0. extStatus \in Lifecycle!Statuses /\ r.at = "move"
        /\ UNCHANGED <<artifact, profiles, schemaFile, metrics, sent>>
    BY <1>7, <1>late DEF TakeStep, Early
  <2>1. ASSUME NEW q, NEW t, CallTyped(q) PROVE CallTyped(AfterMoves(q, t))
    <3> DEFINE s == [q EXCEPT !.at = "schema"]
               i == [q EXCEPT !.at = "integrity"]
    <3>1. CallTyped(s)
      BY <1>0, <2>1, UpdatesFit DEF ExtAt
    <3>2. q.op = "approve" => CallTyped(i)
      BY <1>0, <2>1, UpdatesFit DEF ExtAt
    <3>3. \/ AfterMoves(q, t) = s \/ (q.op = "approve" /\ AfterMoves(q, t) = i)
          \/ AfterMoves(q, t) = IdleSender
      BY DEF AfterMoves
    <3> HIDE DEF s, i
    <3> QED BY <3>1, <3>2, <3>3, IdleFits
  <2>2. CASE r.path = <<>>
    <3>1. call' = [call EXCEPT ![c] = AfterMoves(r, extStatus)] /\ UNCHANGED extStatus
      BY <1>7, <2>2 DEF TakeStep
    <3> QED BY <1>0, <2>0, <2>1, <3>1, OneCallKeeps
  <2>3. CASE r.path # <<>>
    <3> DEFINE rest == [r EXCEPT !.path = Tail(r.path)]
    <3>1. CallTyped(rest)
      BY <1>0, PathFits
    <3>2. PICK d \in {AfterMoves(rest, Head(r.path)), rest} : MoveTo(c, Head(r.path), d, IdleSender)
      BY <1>7, <2>3 DEF TakeStep
    <3> HIDE DEF rest
    <3>3. CallTyped(d)
      BY <2>1, <3>1, <3>2
    <3>4. PICK k \in {d, IdleSender} : call' = [call EXCEPT ![c] = k]
      BY <2>0, <3>2, MoveFits
    <3>5. extStatus' \in Lifecycle!Statuses
      BY <2>0, <3>2, MoveFits
    <3> QED BY <1>0, <2>0, <3>3, <3>4, <3>5, IdleFits, OneCallKeeps
  <2> QED BY <2>2, <2>3
<1>8. CASE SaveSchemaFile(c)
  <2>1. extStatus \in Lifecycle!Statuses /\ {"read", "projection"} \subseteq ExtAt
    BY <1>8, <1>late DEF SaveSchemaFile, Early, ExtAt
  <2>2. PICK a \in {"read", "projection"} : call' = [call EXCEPT ![c] = [r EXCEPT !.at = a]]
    BY <1>8 DEF SaveSchemaFile, CallGoes
  <2>3. schemaFile' \in Labels /\ UNCHANGED <<extStatus, artifact, profiles, metrics, sent>>
    BY <1>0, <1>8 DEF SaveSchemaFile, CallTyped, Labels
  <2> DEFINE n == [r EXCEPT !.at = a]
  <2>4. CallTyped(n)
    BY <1>0, <1>go, <2>1
  <2> HIDE DEF n
  <2>5. call' = [call EXCEPT ![c] = n]
    BY <2>2 DEF n
  <2> QED BY <1>0, <2>1, <2>3, <2>4, <2>5, OneCallKeeps
<1>9. CASE RecordIntegrity(c)
  <2>1. extStatus \in Lifecycle!Statuses /\ r.at = "integrity" /\ {"move", "fail"} \subseteq ExtAt
    BY <1>9, <1>late DEF RecordIntegrity, Early, ExtAt
  <2>2. r.op = "project" \/ (r.op = "approve" /\ r.db \in Databases)
    BY <1>0, <2>1 DEF CallTyped
  <2>3. UNCHANGED <<extStatus, profiles, schemaFile, metrics, sent>>
    BY <1>9 DEF RecordIntegrity
  <2>4. PICK v \in PayloadVersions \cup Databases \cup {Unset} :
               artifact' = [artifact EXCEPT !.integrity = v]
    BY <1>0, <1>9, <2>2 DEF RecordIntegrity, PayloadVersions
  <2>5. artifact' \in Artifacts
    BY <1>0, <2>4 DEF Artifacts
  <2> DEFINE m == [r EXCEPT !.at = "move", !.path = <<"evaluation_required">>]
             f == [r EXCEPT !.at = "fail"]
  <2>6. PICK n \in {IdleSender, m, f} : call' = [call EXCEPT ![c] = n]
    BY <1>9 DEF RecordIntegrity, CallGoes, CallEnds
  <2>7. CallTyped(m) /\ CallTyped(f)
    BY <1>0, <1>go, <2>1
  <2> HIDE DEF m, f
  <2> QED BY <1>0, <2>1, <2>3, <2>5, <2>6, <2>7, IdleFits, OneCallKeeps
<1>10. CASE WriteGraph(c)
  <2> DEFINE m == [r EXCEPT !.at = "receipt"]
  <2>1. PICK n \in {m, IdleSender} : call' = [call EXCEPT ![c] = n]
    BY <1>10 DEF WriteGraph, CallGoes, CallEnds
  <2>2. CallTyped(m) /\ m.at \in Early
    BY <1>0, <1>go DEF ExtAt, Early
  <2>3. UNCHANGED <<extStatus, artifact, profiles, schemaFile, metrics, sent>>
    BY <1>10 DEF WriteGraph
  <2> HIDE DEF m
  <2> QED BY <1>0, <2>1, <2>2, <2>3, IdleFits, OneCallKeeps DEF Early
<1>11. CASE SaveReceipt(c)
  <2> DEFINE m == [r EXCEPT !.at = "project"]
  <2>1. call' = [call EXCEPT ![c] = m]
    BY <1>11 DEF SaveReceipt, CallGoes
  <2>2. CallTyped(m) /\ m.at \in Early
    BY <1>0, <1>go DEF ExtAt, Early
  <2>3. UNCHANGED <<extStatus, artifact, profiles, schemaFile, metrics, sent>>
    BY <1>11 DEF SaveReceipt
  <2> HIDE DEF m
  <2> QED BY <1>0, <2>1, <2>2, <2>3, OneCallKeeps
<1>12. CASE ReadProject(c)
  <2>0. UNCHANGED <<extStatus, artifact, profiles, schemaFile, metrics, sent>>
    BY <1>12 DEF ReadProject
  <2>1. CASE extStatus = Lifecycle!Absent
    <3> DEFINE m == [r EXCEPT !.at = "create"]
    <3>1. call' = [call EXCEPT ![c] = m]
      BY <1>12, <2>1 DEF ReadProject, CallGoes, Lifecycle!Absent
    <3>2. CallTyped(m) /\ m.at \in Early
      BY <1>0, <1>go DEF ExtAt, Early
    <3> HIDE DEF m
    <3> QED BY <1>0, <2>0, <3>1, <3>2, OneCallKeeps
  <2>2. CASE extStatus # Lifecycle!Absent /\ extStatus = "archived"
    <3>1. call' = [call EXCEPT ![c] = IdleSender]
      BY <1>12, <2>2 DEF ReadProject, CallEnds
    <3> QED BY <1>0, <2>0, <3>1, IdleFits, OneCallKeeps DEF Early
  <2>3. CASE extStatus # Lifecycle!Absent /\ extStatus # "archived"
    <3>1. PICK p : call' = [call EXCEPT ![c] = [r EXCEPT !.at = "read", !.path = p]]
      BY <1>12, <2>3 DEF ReadProject, Lifecycle!Absent
    <3> DEFINE m == [r EXCEPT !.at = "read", !.path = p]
    <3>2. CallTyped(m)
      BY <1>0, <1>go DEF ExtAt
    <3> HIDE DEF m
    <3>3. call' = [call EXCEPT ![c] = m]
      BY <3>1 DEF m
    <3> QED BY <1>0, <2>0, <2>3, <3>2, <3>3, OneCallKeeps
  <2> QED BY <2>1, <2>2, <2>3
<1>13. CASE CreateProject(c)
  <2> DEFINE m == [r EXCEPT !.at = "schema"]
  <2>1. \/ extStatus' = "ready" /\ call' = [call EXCEPT ![c] = m]
        \/ extStatus' = extStatus /\ call' = [call EXCEPT ![c] = IdleSender]
    BY <1>13 DEF CreateProject, CallGoes, CallEnds
  <2>2. CallTyped(m)
    BY <1>0, <1>go DEF ExtAt
  <2>3. UNCHANGED <<artifact, profiles, schemaFile, metrics, sent>>
    BY <1>13 DEF CreateProject
  <2>4. "ready" \in Lifecycle!Statuses
    BY DEF Lifecycle!Statuses
  <2> HIDE DEF m
  <2> QED BY <1>0, <2>1, <2>2, <2>3, <2>4, IdleFits, OneCallKeeps DEF Early
<1>14. CASE RecordProjection(c)
  <2> DEFINE m == [r EXCEPT !.at = "integrity"]
  <2>1. /\ call' = [call EXCEPT ![c] = m] /\ r.op = "project" /\ r.at = "projection"
        /\ artifact' = [artifact EXCEPT !.projection = r.payload.version]
        /\ UNCHANGED <<extStatus, profiles, schemaFile, metrics, sent>>
    BY <1>14 DEF RecordProjection, Exec, CallGoes
  <2>2. CallTyped(m)
    BY <1>0, <1>go, <2>1 DEF ExtAt
  <2>3. r.payload.version \in PayloadVersions
    BY <1>0, <2>1 DEF PayloadVersions
  <2>4. artifact' \in Artifacts
    BY <1>0, <2>1, <2>3 DEF Artifacts
  <2>5. extStatus \in Lifecycle!Statuses
    BY <1>late, <2>1 DEF Early
  <2> HIDE DEF m
  <2> QED BY <1>0, <2>1, <2>2, <2>4, <2>5, OneCallKeeps
<1> QED BY <1>1, <1>2, <1>3, <1>4, <1>5, <1>6, <1>7, <1>8, <1>9, <1>10, <1>11, <1>12, <1>13,
           <1>14 DEF CallStep

LEMMA ExtShapeStep == ExtInv /\ ShapeInv /\ [ExtNext]_extVars => ShapeInv'
<1> SUFFICES ASSUME ExtInv, ShapeInv, [ExtNext]_extVars PROVE ShapeInv'
  OBVIOUS
<1>0. ExtTypes /\ GraphInv
  BY DEF ExtInv
<1>1. CASE UNCHANGED <<extStatus, artifact, profiles, schemaFile, sent, call>> /\ metrics' \in Labels
  BY <1>1 DEF ShapeInv, CallTyped, IsCall
<1>2. CASE EvaluateExternal
  <2>1. UNCHANGED <<extStatus, artifact, profiles, schemaFile, sent, call>> /\ metrics' \in Labels
    BY <1>2 DEF EvaluateExternal, ShapeInv
  <2> QED BY <1>1, <2>1
<1>3. CASE UNCHANGED extVars
  <2>1. UNCHANGED <<extStatus, artifact, profiles, schemaFile, sent, call>> /\ metrics' \in Labels
    BY <1>3 DEF extVars, ShapeInv
  <2> QED BY <1>1, <2>1
<1>4. CASE StopApi
  <2>1. \A c \in Senders : call'[c] = IdleSender
    BY <1>4 DEF StopApi
  <2>2. \A c \in Senders : CallTyped(call'[c]) /\ call'[c].at \in Early
    BY <2>1, IdleFits DEF Early
  <2>3. \A c \in Senders : CallTyped(call[c])'
    BY <2>2 DEF CallTyped, IsCall
  <2> QED BY <1>4, <2>2, <2>3 DEF StopApi, ShapeInv
<1>5. ASSUME NEW c \in Senders, NEW s \in Lifecycle!Statuses, PatchStatus(c, s) PROVE ShapeInv'
  <2>1. extStatus' = s /\ UNCHANGED <<artifact, profiles, schemaFile, metrics, sent, call>>
    BY <1>5 DEF PatchStatus
  <2>2. s # Lifecycle!Absent
    BY DEF Lifecycle!Absent, Lifecycle!Statuses
  <2> QED BY <2>1, <2>2 DEF ShapeInv, CallTyped, IsCall
<1>6. ASSUME NEW c \in Senders, CallStep(c) PROVE ShapeInv'
  BY <1>0, <1>6, CallStepShape
<1>7. ASSUME NEW c \in Senders, BeginPromote(c) PROVE ShapeInv'
  BY <1>0, <1>7, BeginShape
<1>8. ASSUME NEW c \in Senders, NEW db \in Databases, BeginValidate(c, db) \/ BeginApprove(c, db)
      PROVE  ShapeInv'
  BY <1>0, <1>8, BeginShape
<1>9. ASSUME NEW c \in Senders, NEW m \in Payloads, BeginProject(c, m) PROVE ShapeInv'
  BY <1>0, <1>9, BeginShape
<1> QED BY <1>2, <1>3, <1>4, <1>5, <1>6, <1>7, <1>8, <1>9 DEF ExtNext

LEMMA ExtTyped == ExtInv /\ ShapeInv => ExtTypeOK
BY DEF ExtInv, ExtTypes, ShapeInv, CallTyped, ExtTypeOK

\* connectors.py and graph_projection/service.py: however the calls overlap or
\* stop, status, row, artifacts and files keep their types.
THEOREM ExternalTyped == ExtSpec => []ExtTypeOK
<1>1. ExtInv /\ ShapeInv /\ [ExtNext]_extVars => (ExtInv /\ ShapeInv)'
  BY ExtStep, ExtShapeStep
<1> QED BY ExtInit_Inv, ExtInit_Shape, <1>1, ExtTyped, PTL DEF ExtSpec

(***************************************************************************)
(* Documents.                                                              *)
(***************************************************************************)

OneCurrentInv ==
  /\ OneCurrent(Registered) /\ OneCurrent(disk)
  /\ \A s \in Services : /\ OneCurrent(memory[s]) /\ OneCurrent(docCall[s].rows)
                         /\ OneCurrent(Range(docCall[s].docs))

\* The rows of an index in which every entry has its own text.
OwnRows(docs) ==
  {[doc |-> e.doc, version |-> e.version, current |-> e.current, text |-> e.sha] : e \in docs}

\* An entry whose file holds what was registered, and is text.
HasSource(e) == files[NameOf(e)] = e.sha /\ e.sha \in Texts
TakenNames   == {NameOf(e) : e \in Registered}

\* What a call has reached, if no other ran beside it.
CallFits(s) ==
  LET at   == docCall[s].at
      docs == docCall[s].docs
  IN  /\ at = "idle" => docCall[s] = IdleCall
      /\ at = "write" => /\ docs # <<>> /\ docCall[s].op = "ingest"
                         /\ \A i \in 1..(Len(docs) - 1) : HasSource(docs[i])
                                                          /\ NameOf(docs[i]) \in TakenNames
      /\ at = "collect" => \A e \in Range(docs) : files[NameOf(e)] = e.sha
      /\ at \in {"collect", "remove", "replace", "save", "unlink"} /\ docCall[s].op = "ingest" =>
           NameOf(Last(docs)) \notin TakenNames
      /\ at \in {"collect", "remove", "replace"} /\ docCall[s].op # "ingest" => docs = manifest
      /\ at \in {"save", "unlink"} => docCall[s].op = "ingest"
      /\ at \in {"remove", "replace", "save"} => \A e \in Range(docs) : HasSource(e)
      /\ at \in {"remove", "replace"} => docCall[s].rows = OwnRows(Range(docs))
      /\ at = "replace" => disk = NoIndex
      /\ at = "save" => disk = OwnRows(Range(docs))

Undisturbed ==
  /\ \A s, t \in Services : docCall[s] # IdleCall /\ docCall[t] # IdleCall => s = t
  /\ \A e \in Registered : HasSource(e)
  /\ ~unfinished => disk = OwnRows(Registered)
  /\ \A s \in Services : CallFits(s)

\* A service that writes a source has the entry of it.
DocsTypes == DocsTypeOK /\ \A s \in Services : docCall[s].at = "write" => docCall[s].docs # <<>>

DocsInv ==
  DocsTypes /\ OneCurrentInv /\ (~shared /\ ~reused => Undisturbed)

LEMMA FunctionIsSeq ==
  ASSUME NEW S, NEW n \in Nat, NEW f \in [1..n -> S]
  PROVE  f \in Seq(S) /\ Len(f) = n
<1>1. f \in Seq(S)
  BY SeqDef
<1>2. DOMAIN f = 1..n /\ DOMAIN f = 1..Len(f) /\ Len(f) \in Nat
  BY <1>1, LenProperties
<1> QED BY <1>1, <1>2

LEMMA SeqElements ==
  ASSUME NEW S, NEW q \in Seq(S)
  PROVE  /\ \A i \in 1..Len(q) : q[i] \in Range(q)
         /\ \A x \in Range(q) : \E i \in 1..Len(q) : x = q[i]
         /\ \A x \in Range(q) : x \in S
<1>1. DOMAIN q = 1..Len(q) /\ \A i \in 1..Len(q) : q[i] \in S
  BY LenProperties, ElementOfSeq
<1>2. Range(q) = {q[i] : i \in 1..Len(q)}
  BY <1>1 DEF Range
<1> QED BY <1>1, <1>2

LEMMA SeqLast ==
  ASSUME NEW S, NEW q \in Seq(S), q # <<>>
  PROVE  Last(q) = q[Len(q)] /\ Last(q) \in S /\ Last(q) \in Range(q) /\ Len(q) \in 1..Len(q)
<1>1. Len(q) \in 1..Len(q)
  BY LenProperties, EmptySeq
<1>2. q[Len(q)] \in Range(q)
  BY <1>1, SeqElements
<1>3. q[Len(q)] \in S
  BY <1>1, ElementOfSeq
<1> QED BY <1>1, <1>2, <1>3 DEF Last

\* The entries after a registration: the old ones, superseded or not, and e.
LEMMA SupersedeProperties ==
  ASSUME NEW docs \in Seq(Entry), NEW e \in Entry
  PROVE  /\ Supersede(docs, e) \in Seq(Entry)
         /\ Len(Supersede(docs, e)) = Len(docs) + 1 /\ Supersede(docs, e) # <<>>
         /\ Supersede(docs, e)[Len(docs) + 1] = e
         /\ \A i \in 1..Len(docs) :
              LET x == Supersede(docs, e)[i]
              IN  /\ x.doc = docs[i].doc /\ x.version = docs[i].version /\ x.sha = docs[i].sha
                  /\ x.current => x = docs[i] /\ ~(e.current /\ docs[i].doc = e.doc)
<1> DEFINE old == [i \in 1..Len(docs) |->
                     IF e.current /\ docs[i].doc = e.doc THEN [docs[i] EXCEPT !.current = FALSE]
                                                         ELSE docs[i]]
           sup == Append(old, e)
<1>1. Len(docs) \in Nat /\ \A i \in 1..Len(docs) : docs[i] \in Entry
  BY LenProperties, ElementOfSeq
<1>2. ASSUME NEW i \in 1..Len(docs)
      PROVE  LET x == old[i]
             IN  /\ x \in Entry
                 /\ x.doc = docs[i].doc /\ x.version = docs[i].version /\ x.sha = docs[i].sha
                 /\ x.current => x = docs[i] /\ ~(e.current /\ docs[i].doc = e.doc)
  <2> DEFINE d == docs[i]
  <2>1. d \in Entry /\ old[i] = IF e.current /\ d.doc = e.doc THEN [d EXCEPT !.current = FALSE] ELSE d
    BY <1>1
  <2> HIDE DEF old
  <2> QED BY <2>1 DEF Entry
<1>3. old \in [1..Len(docs) -> Entry]
  BY <1>2
<1>4. old \in Seq(Entry) /\ Len(old) = Len(docs)
  BY <1>1, <1>3, FunctionIsSeq
<1> HIDE DEF old
<1>5. /\ sup \in Seq(Entry) /\ Len(sup) = Len(docs) + 1
      /\ \A i \in 1..Len(docs) : sup[i] = old[i]
      /\ sup[Len(docs) + 1] = e
  BY <1>4, AppendProperties
<1>6. sup = Supersede(docs, e)
  BY DEF Supersede, old
<1> HIDE DEF sup
<1>7. sup # <<>>
  BY <1>1, <1>5, EmptySeq
<1> QED BY <1>2, <1>5, <1>6, <1>7

LEMMA SupersedeOneCurrent ==
  ASSUME NEW docs \in Seq(Entry), NEW e \in Entry, OneCurrent(Range(docs))
  PROVE  OneCurrent(Range(Supersede(docs, e)))
<1> DEFINE sup == Supersede(docs, e)
<1>0. /\ \A j \in 1..Len(docs) : docs[j] \in Range(docs)
      /\ \A a \in Range(sup) : \E i \in 1..Len(sup) : a = sup[i]
  <2>1. sup \in Seq(Entry)
    BY SupersedeProperties
  <2> HIDE DEF sup
  <2> QED BY <2>1, SeqElements
<1>1. /\ sup \in Seq(Entry) /\ Len(sup) = Len(docs) + 1 /\ Len(docs) \in Nat
      /\ sup[Len(docs) + 1] = e
      /\ \A i \in 1..Len(docs) :
           sup[i].current => sup[i] = docs[i] /\ ~(e.current /\ docs[i].doc = e.doc)
  BY SupersedeProperties, LenProperties
<1> HIDE DEF sup
<1>2. SUFFICES ASSUME NEW x \in Range(sup), NEW y \in Range(sup), x.current, y.current, x.doc = y.doc
               PROVE  x = y
  BY DEF OneCurrent, sup
<1>3. ASSUME NEW z \in Range(sup), z.current
      PROVE  z = e \/ (z \in Range(docs) /\ ~(e.current /\ z.doc = e.doc))
  <2>1. PICK i \in 1..Len(sup) : z = sup[i]
    BY <1>0
  <2>2. i \in 1..Len(docs) \/ i = Len(docs) + 1
    BY <1>1
  <2>3. ASSUME i \in 1..Len(docs) PROVE z = docs[i] /\ docs[i] \in Range(docs)
    BY <1>0, <1>1, <1>3, <2>1, <2>3
  <2> QED BY <1>1, <1>3, <2>1, <2>2, <2>3
<1> QED BY <1>2, <1>3 DEF OneCurrent

\* The index of the entries that can be read has one current version, too.
LEMMA RowsOneCurrent ==
  ASSUME NEW docs \in Seq(Entry), OneCurrent(Range(docs))
  PROVE  OneCurrent(RowsOf(docs))
<1>1. SUFFICES ASSUME NEW x \in RowsOf(docs), NEW y \in RowsOf(docs), x.current, y.current,
                      x.doc = y.doc
               PROVE  x = y
  BY DEF OneCurrent
<1>2. PICK e \in Readable(docs) :
        x = [doc |-> e.doc, version |-> e.version, current |-> e.current, text |-> files[NameOf(e)]]
  BY DEF RowsOf
<1>3. PICK f \in Readable(docs) :
        y = [doc |-> f.doc, version |-> f.version, current |-> f.current, text |-> files[NameOf(f)]]
  BY DEF RowsOf
<1>4. e = f
  BY <1>1, <1>2, <1>3 DEF OneCurrent, Readable
<1> QED BY <1>2, <1>3, <1>4

LEMMA DocsInit_Inv == DocsInit => DocsInv
<1> SUFFICES ASSUME DocsInit PROVE DocsInv
  OBVIOUS
<1>1. /\ <<>> \in Seq(Entry) /\ IdleCall.docs = <<>> /\ IdleCall.rows = NoIndex
      /\ IdleCall.at = "idle" /\ IdleCall.op = "none"
  BY EmptySeq DEF IdleCall
<1>2. Range(<<>>) = {}
  BY EmptySeq, LenProperties DEF Range
<1>3. DocsTypeOK
  <2>1. IdleCall \in [op : {"none", "ingest", "rebuild"},
        at : {"idle", "write", "collect", "remove", "replace", "save", "unlink"},
        docs : Seq(Entry), rows : SUBSET IndexRow]
    BY <1>1 DEF IdleCall, NoIndex
  <2>2. calls \in 0..MaxCalls
    BY MaxCallsAssumption DEF DocsInit
  <2> QED BY <1>1, <2>1, <2>2 DEF DocsInit, DocsTypeOK, NoIndex, Index
<1>4. OneCurrentInv
  BY <1>1, <1>2 DEF DocsInit, OneCurrentInv, OneCurrent, Registered, NoIndex
<1>5. Undisturbed
  <2>1. \A s \in Services : docCall[s] = IdleCall
    BY DEF DocsInit
  <2>2. Registered = {} /\ OwnRows(Registered) = disk
    BY <1>2 DEF DocsInit, Registered, OwnRows, NoIndex
  <2> QED BY <1>1, <2>1, <2>2 DEF Undisturbed, CallFits, Busy
<1>6. DocsTypes
  BY <1>1, <1>3 DEF DocsInit, DocsTypes
<1> QED BY <1>4, <1>5, <1>6 DEF DocsInv

DocCalls ==
  [op : {"none", "ingest", "rebuild"},
   at : {"idle", "write", "collect", "remove", "replace", "save", "unlink"},
   docs : Seq(Entry), rows : SUBSET IndexRow]

LEMMA IdleCallProperties ==
  /\ IdleCall \in DocCalls /\ IdleCall.at = "idle" /\ IdleCall.op = "none"
  /\ IdleCall.docs = <<>> /\ IdleCall.rows = {} /\ Range(IdleCall.docs) = {}
<1>1. <<>> \in Seq(Entry) /\ Range(<<>>) = {}
  BY EmptySeq, LenProperties DEF Range
<1> QED BY <1>1 DEF IdleCall, DocCalls, NoIndex

\* A call goes on where its service takes it, or it is over.
Continues(n, c) ==
  n = IdleCall \/ (n \in DocCalls /\ n.op = c.op /\ n.docs = c.docs /\ n.rows = c.rows)

\* What each step of a call does, by what a reader needs of it.
LEMMA CallSteps ==
  ASSUME DocsTypes, NEW s \in Services, RunCall(s)
  PROVE  /\ docCall' = [docCall EXCEPT ![s] = docCall'[s]] /\ docCall'[s] \in DocCalls
         /\ docCall[s].at # "idle" /\ docCall'[s].at # "write"
         /\ UNCHANGED <<calls, shared>> /\ unfinished' \in {unfinished, TRUE, FALSE}
         /\ Continues(docCall'[s], docCall[s])
            \/ (docCall[s].at = "collect" /\ docCall'[s].rows = RowsOf(docCall[s].docs)
                /\ docCall'[s].docs = docCall[s].docs)
<1> DEFINE c == docCall[s]
<1>1. docCall \in [Services -> DocCalls] /\ c \in DocCalls
  BY DEF DocsTypes, DocsTypeOK, DocCalls
<1>2. ASSUME NEW a \in {"collect", "remove", "replace", "save", "unlink"}, ServiceGoes(s, a)
      PROVE  docCall' = [docCall EXCEPT ![s] = docCall'[s]] /\ docCall'[s] \in DocCalls
             /\ docCall'[s].at # "write" /\ Continues(docCall'[s], c)
  <2>1. docCall' = [docCall EXCEPT ![s] = [c EXCEPT !.at = a]]
    BY <1>2 DEF ServiceGoes
  <2>2. docCall'[s] = [c EXCEPT !.at = a]
    BY <1>1, <2>1
  <2>3. [c EXCEPT !.at = a] \in DocCalls /\ [c EXCEPT !.at = a].at = a
        /\ [c EXCEPT !.at = a].op = c.op /\ [c EXCEPT !.at = a].docs = c.docs
        /\ [c EXCEPT !.at = a].rows = c.rows
    BY <1>1 DEF DocCalls
  <2> QED BY <2>1, <2>2, <2>3 DEF Continues
<1>3. ASSUME ServiceEnds(s)
      PROVE  docCall' = [docCall EXCEPT ![s] = docCall'[s]] /\ docCall'[s] \in DocCalls
             /\ docCall'[s].at # "write" /\ Continues(docCall'[s], c)
  BY <1>1, <1>3, IdleCallProperties DEF ServiceEnds, Continues
<1>4. CASE WriteSource(s)
  BY <1>2, <1>3, <1>4 DEF WriteSource, ServiceAt
<1>5. CASE Collect(s)
  <2>1. CASE Raise(s)
    BY <1>2, <1>3, <1>5, <2>1 DEF Collect, ServiceAt, Raise
  <2>2. CASE /\ \A e \in Readable(c.docs) : files[NameOf(e)] # Blank
             /\ docCall' = [docCall EXCEPT ![s].at = "remove", ![s].rows = RowsOf(c.docs)]
    <3> DEFINE n == [op |-> c.op, at |-> "remove", docs |-> c.docs, rows |-> RowsOf(c.docs)]
    <3>1. docCall' = [docCall EXCEPT ![s] = n] /\ c.at = "collect"
          /\ UNCHANGED <<calls, shared, unfinished>>
      <4>1. docCall' = [docCall EXCEPT ![s] = [c EXCEPT !.at = "remove", !.rows = RowsOf(c.docs)]]
        BY <2>2
      <4>2. [c EXCEPT !.at = "remove", !.rows = RowsOf(c.docs)] = n
        <5>1. c = [op |-> c.op, at |-> c.at, docs |-> c.docs, rows |-> c.rows]
          BY <1>1 DEF DocCalls
        <5>2. PICK r : r = c
          OBVIOUS
        <5>3. PICK R : R = RowsOf(c.docs)
          OBVIOUS
        <5>4. PICK u : u = [r EXCEPT !.at = "remove", !.rows = R]
          OBVIOUS
        <5>5. r = [op |-> r.op, at |-> r.at, docs |-> r.docs, rows |-> r.rows]
          BY <5>1, <5>2
        <5>6. u = [op |-> r.op, at |-> "remove", docs |-> r.docs, rows |-> R]
          BY <5>4, <5>5
        <5> QED BY <5>2, <5>3, <5>4, <5>6
      <4>3. docCall' = [docCall EXCEPT ![s] = n]
        BY <4>1, <4>2
      <4> QED BY <1>5, <4>3 DEF Collect, ServiceAt
    <3>2. RowsOf(c.docs) \subseteq IndexRow
      <4> SUFFICES ASSUME NEW e \in Readable(c.docs)
                   PROVE  [doc |-> e.doc, version |-> e.version, current |-> e.current,
                           text |-> files[NameOf(e)]] \in IndexRow
        BY DEF RowsOf
      <4>1. c.docs \in Seq(Entry)
        BY <1>1 DEF DocCalls
      <4>2. e \in Entry
        BY <4>1, SeqElements DEF Readable
      <4>3. files[NameOf(e)] \in Contents \cup {Missing}
        BY <4>2 DEF DocsTypes, DocsTypeOK, Entry, NameOf, Names
      <4>4. files[NameOf(e)] \in Texts
        BY <2>2, <4>3 DEF Readable, Contents
      <4> QED BY <4>2, <4>4 DEF Entry, IndexRow
    <3>3. n \in DocCalls
      BY <1>1, <3>2 DEF DocCalls
    <3>4. docCall'[s] = n
      BY <1>1, <3>1
    <3>5. n.at # "write" /\ n.rows = RowsOf(c.docs) /\ n.docs = c.docs
      OBVIOUS
    <3> HIDE DEF n
    <3>6. docCall' = [docCall EXCEPT ![s] = docCall'[s]] /\ docCall'[s] \in DocCalls
      BY <3>1, <3>3, <3>4
    <3>7. docCall'[s].at # "write" /\ docCall'[s].rows = RowsOf(docCall[s].docs)
          /\ docCall'[s].docs = docCall[s].docs
      BY <3>4, <3>5
    <3> QED BY <3>1, <3>6, <3>7
  <2> QED BY <1>5, <2>1, <2>2 DEF Collect
<1>6. CASE RemoveIndex(s)
  BY <1>2, <1>3, <1>6 DEF RemoveIndex, ServiceAt, Indexed
<1>7. CASE ReplaceIndex(s)
  BY <1>2, <1>3, <1>7 DEF ReplaceIndex, ServiceAt, Indexed, Raise
<1>8. CASE SaveManifest(s)
  BY <1>2, <1>3, <1>8 DEF SaveManifest, ServiceAt, Raise
<1>9. CASE UnlinkSource(s)
  BY <1>3, <1>9 DEF UnlinkSource, ServiceAt
<1> QED BY <1>4, <1>5, <1>6, <1>7, <1>8, <1>9 DEF RunCall

\* A call begins with the entries its service has read.
LEMMA CallBegins ==
  ASSUME DocsTypes, NEW s \in Services,
         (\E e \in Entry : BeginIngest(s, e)) \/ BeginRebuild(s)
  PROVE  \E n \in DocCalls :
           /\ docCall' = [docCall EXCEPT ![s] = n] /\ docCall[s] = IdleCall /\ n.rows = {}
           /\ \/ /\ n.op = "ingest" /\ n.at = "write"
                 /\ \E e \in Entry : n.docs = Supersede(manifest, e)
              \/ n.op = "rebuild" /\ n.at = "collect" /\ n.docs = manifest
           /\ calls' \in 0..MaxCalls /\ shared' = (shared \/ Busy # {})
           /\ UNCHANGED <<manifest, files, disk, memory, unfinished, reused>>
<1>1. manifest \in Seq(Entry) /\ calls \in 0..MaxCalls
  BY DEF DocsTypes, DocsTypeOK
<1>2. CountCall => calls' \in 0..MaxCalls
  BY <1>1, MaxCallsAssumption DEF CountCall
<1>3. CASE \E e \in Entry : BeginIngest(s, e)
  <2>1. PICK e \in Entry : BeginIngest(s, e)
    BY <1>3
  <2> DEFINE n == [op |-> "ingest", at |-> "write", docs |-> Supersede(manifest, e), rows |-> NoIndex]
  <2>2. n \in DocCalls
    BY <1>1, <2>1, SupersedeProperties DEF DocCalls, NoIndex
  <2> WITNESS n \in DocCalls
  <2> QED BY <1>2, <2>1 DEF BeginIngest, NoIndex
<1>4. CASE BeginRebuild(s)
  <2> DEFINE n == [op |-> "rebuild", at |-> "collect", docs |-> manifest, rows |-> NoIndex]
  <2>1. n \in DocCalls
    BY <1>1 DEF DocCalls, NoIndex
  <2> WITNESS n \in DocCalls
  <2> QED BY <1>2, <1>4 DEF BeginRebuild, NoIndex
<1> QED BY <1>3, <1>4

LEMMA DocsTypesStep ==
  ASSUME DocsTypes, [DocsNext]_docVars
  PROVE  DocsTypes'
<1>t. /\ manifest \in Seq(Entry) /\ files \in [Names -> Contents \cup {Missing}]
      /\ disk \in SUBSET IndexRow /\ memory \in [Services -> SUBSET IndexRow]
      /\ docCall \in [Services -> DocCalls]
      /\ calls \in 0..MaxCalls /\ {shared, unfinished, reused} \subseteq BOOLEAN
      /\ \A s \in Services : docCall[s].at = "write" => docCall[s].docs # <<>>
  BY DEF DocsTypes, DocsTypeOK, DocCalls, Index
<1>1. SUFFICES /\ manifest' \in Seq(Entry) /\ files' \in [Names -> Contents \cup {Missing}]
               /\ disk' \in SUBSET IndexRow /\ memory' \in [Services -> SUBSET IndexRow]
               /\ docCall' \in [Services -> DocCalls]
               /\ calls' \in 0..MaxCalls /\ {shared', unfinished', reused'} \subseteq BOOLEAN
               /\ \A s \in Services : docCall'[s].at = "write" => docCall'[s].docs # <<>>
  BY DEF DocsTypes, DocsTypeOK, DocCalls, Index
<1>2. ASSUME NEW s \in Services, (\E e \in Entry : BeginIngest(s, e)) \/ BeginRebuild(s)
      PROVE  DocsTypes'
  <2>1. PICK n \in DocCalls :
           /\ docCall' = [docCall EXCEPT ![s] = n]
           /\ n.at = "write" => \E e \in Entry : n.docs = Supersede(manifest, e)
           /\ calls' \in 0..MaxCalls /\ shared' = (shared \/ Busy # {})
           /\ UNCHANGED <<manifest, files, disk, memory, unfinished, reused>>
    BY <1>2, CallBegins
  <2>2. n.at = "write" => n.docs # <<>>
    BY <1>t, <2>1, SupersedeProperties
  <2> QED BY <1>t, <2>1, <2>2 DEF DocsTypes, DocsTypeOK, DocCalls, Index
<1>3. ASSUME NEW s \in Services, RunCall(s) PROVE DocsTypes'
  <2> DEFINE c == docCall[s]
  <2>1. /\ docCall' = [docCall EXCEPT ![s] = docCall'[s]] /\ docCall'[s] \in DocCalls
        /\ docCall'[s].at # "write" /\ UNCHANGED <<calls, shared>>
        /\ unfinished' \in {unfinished, TRUE, FALSE}
    BY <1>3, CallSteps
  <2>2. docCall' \in [Services -> DocCalls] /\ calls' \in 0..MaxCalls
        /\ \A t \in Services : docCall'[t].at = "write" => docCall'[t].docs # <<>>
    BY <1>t, <2>1
  <2>3. c.docs \in Seq(Entry) /\ c.rows \subseteq IndexRow
    BY <1>t DEF DocCalls
  <2>4. manifest' \in Seq(Entry)
    BY <1>t, <1>3, <2>3 DEF RunCall, WriteSource, Collect, RemoveIndex, ReplaceIndex,
                            SaveManifest, NewManifest, UnlinkSource
  <2>5. disk' \subseteq IndexRow /\ memory' \in [Services -> SUBSET IndexRow]
    BY <1>t, <1>3, <2>3 DEF RunCall, WriteSource, Collect, RemoveIndex, ReplaceIndex,
                            SaveManifest, UnlinkSource, NoIndex
  <2>6. files' \in [Names -> Contents \cup {Missing}] /\ {shared', unfinished', reused'} \subseteq BOOLEAN
    <3>1. CASE WriteSource(s)
      <4> DEFINE e == Last(c.docs)
      <4>1. e \in Entry
        BY <1>t, <2>3, <3>1, SeqLast DEF WriteSource, ServiceAt
      <4>2. e.sha \in Contents /\ NameOf(e) \in Names
        BY <4>1 DEF Entry, NameOf, Names
      <4>3. /\ files' \in {files, [files EXCEPT ![NameOf(e)] = e.sha],
                           [files EXCEPT ![NameOf(e)] = Blank]}
            /\ reused' = (reused \/ \E x \in Registered : NameOf(x) = NameOf(e))
        BY <3>1 DEF WriteSource
      <4> HIDE DEF e
      <4> QED BY <1>t, <2>1, <4>2, <4>3 DEF Contents
    <3>2. CASE UnlinkSource(s)
      BY <1>t, <2>1, <3>2 DEF UnlinkSource
    <3>3. CASE UNCHANGED <<files, reused>>
      BY <1>t, <2>1, <3>3
    <3> QED BY <1>3, <3>1, <3>2, <3>3 DEF RunCall, Collect, RemoveIndex, ReplaceIndex, SaveManifest
  <2> QED BY <2>2, <2>4, <2>5, <2>6 DEF DocsTypes, DocsTypeOK, DocCalls, Index
<1>4. ASSUME NEW s \in Services, Search(s) PROVE DocsTypes'
  BY <1>t, <1>4 DEF Search, DocsTypes, DocsTypeOK, DocCalls, Index
<1>5. ASSUME StopProcess PROVE DocsTypes'
  BY <1>t, <1>5, IdleCallProperties DEF StopProcess, DocsTypes, DocsTypeOK, DocCalls, Index, NoIndex
<1>6. CASE UNCHANGED docVars
  <2>1. UNCHANGED <<manifest, files, disk, memory, docCall, calls, shared, unfinished, reused>>
    BY <1>6 DEF docVars
  <2> QED BY <1>t, <2>1
<1>7. ASSUME DocsNext PROVE DocsTypes'
  <2>1. CASE StopProcess
    BY <1>5, <2>1
  <2>2. CASE ~StopProcess
    <3>1. PICK s \in Services : \/ (\E e \in Entry : BeginIngest(s, e)) \/ BeginRebuild(s)
                                \/ RunCall(s) \/ Search(s)
      BY <1>7, <2>2 DEF DocsNext
    <3> QED BY <1>2, <1>3, <1>4, <3>1
  <2> QED BY <2>1, <2>2
<1>8. CASE DocsNext
  BY <1>7, <1>8 DEF DocsTypes, DocsTypeOK, DocCalls, Index
<1> QED BY <1>6, <1>8

LEMMA OneCurrentStep ==
  ASSUME DocsTypes, OneCurrentInv, [DocsNext]_docVars
  PROVE  OneCurrentInv'
<1>t. /\ manifest \in Seq(Entry) /\ docCall \in [Services -> DocCalls]
      /\ memory = [s \in Services |-> memory[s]]
  BY DEF DocsTypes, DocsTypeOK, DocCalls
<1>o. /\ OneCurrent(Range(manifest)) /\ OneCurrent(disk)
      /\ \A s \in Services : /\ OneCurrent(memory[s]) /\ OneCurrent(docCall[s].rows)
                             /\ OneCurrent(Range(docCall[s].docs))
  BY DEF OneCurrentInv, Registered
<1>e. OneCurrent({})
  BY DEF OneCurrent
<1>1. SUFFICES /\ OneCurrent(Range(manifest')) /\ OneCurrent(disk')
               /\ \A s \in Services : /\ OneCurrent(memory'[s]) /\ OneCurrent(docCall'[s].rows)
                                      /\ OneCurrent(Range(docCall'[s].docs))
  BY DEF OneCurrentInv, Registered, OneCurrent
<1>2. ASSUME NEW s \in Services, (\E e \in Entry : BeginIngest(s, e)) \/ BeginRebuild(s)
      PROVE  OneCurrentInv'
  <2>1. PICK n \in DocCalls :
           /\ docCall' = [docCall EXCEPT ![s] = n] /\ n.rows = {}
           /\ (\E e \in Entry : n.docs = Supersede(manifest, e)) \/ n.docs = manifest
           /\ UNCHANGED <<manifest, disk, memory>>
    BY <1>2, CallBegins
  <2>2. OneCurrent(Range(n.docs))
    BY <1>t, <1>o, <2>1, SupersedeOneCurrent
  <2>3. \A t \in Services : docCall'[t] = IF t = s THEN n ELSE docCall[t]
    BY <1>t, <2>1
  <2> QED BY <1>o, <1>e, <2>1, <2>2, <2>3 DEF OneCurrentInv, Registered, OneCurrent
<1>3. ASSUME NEW s \in Services, RunCall(s) PROVE OneCurrentInv'
  <2> DEFINE c == docCall[s]
             n == docCall'[s]
  <2>1. /\ docCall' = [docCall EXCEPT ![s] = n]
        /\ Continues(n, c) \/ (n.rows = RowsOf(c.docs) /\ n.docs = c.docs)
    BY <1>3, CallSteps
  <2>2. c.docs \in Seq(Entry)
    BY <1>t DEF DocCalls
  <2>3. OneCurrent(n.rows) /\ OneCurrent(Range(n.docs))
    BY <1>o, <1>e, <2>1, <2>2, RowsOneCurrent, IdleCallProperties DEF Continues
  <2> HIDE DEF n
  <2>4. \A t \in Services : docCall'[t] = IF t = s THEN n ELSE docCall[t]
    BY <1>t, <2>1
  <2>5. manifest' \in {manifest, c.docs} /\ disk' \in {disk, {}, c.rows}
        /\ (memory' = memory \/ memory' = [memory EXCEPT ![s] = {}]
            \/ memory' = [memory EXCEPT ![s] = c.rows])
    BY <1>3 DEF RunCall, WriteSource, Collect, RemoveIndex, ReplaceIndex, SaveManifest, NewManifest,
                UnlinkSource, NoIndex
  <2>6. \A t \in Services : memory'[t] \in {memory[t], {}, c.rows}
    BY <1>t, <2>5
  <2>7. OneCurrent(Range(manifest')) /\ OneCurrent(disk') /\ \A t \in Services : OneCurrent(memory'[t])
    BY <1>o, <1>e, <2>5, <2>6
  <2>8. \A t \in Services : OneCurrent(docCall'[t].rows) /\ OneCurrent(Range(docCall'[t].docs))
    BY <1>o, <2>3, <2>4
  <2> QED BY <2>7, <2>8 DEF OneCurrentInv, Registered, OneCurrent
<1>4. ASSUME NEW s \in Services, Search(s) PROVE OneCurrentInv'
  <2>1. \A t \in Services : memory'[t] \in {memory[t], disk}
    BY <1>t, <1>4 DEF Search
  <2> QED BY <1>o, <1>4, <2>1 DEF Search, OneCurrentInv, Registered, OneCurrent
<1>5. ASSUME StopProcess PROVE OneCurrentInv'
  <2>1. \A t \in Services : docCall'[t] = IdleCall /\ memory'[t] = {}
    BY <1>5 DEF StopProcess, NoIndex
  <2> QED BY <1>o, <1>e, <1>5, <2>1, IdleCallProperties
          DEF StopProcess, OneCurrentInv, Registered, OneCurrent
<1>6. CASE UNCHANGED docVars
  <2>1. UNCHANGED <<manifest, disk, memory, docCall>>
    BY <1>6 DEF docVars
  <2> QED BY <1>o, <2>1
<1>7. ASSUME DocsNext PROVE OneCurrentInv'
  <2>1. CASE StopProcess
    BY <1>5, <2>1
  <2>2. CASE ~StopProcess
    <3>1. PICK s \in Services : \/ (\E e \in Entry : BeginIngest(s, e)) \/ BeginRebuild(s)
                                \/ RunCall(s) \/ Search(s)
      BY <1>7, <2>2 DEF DocsNext
    <3> QED BY <1>2, <1>3, <1>4, <3>1
  <2> QED BY <2>1, <2>2
<1>8. CASE DocsNext
  BY <1>7, <1>8 DEF OneCurrentInv, Registered, OneCurrent
<1> QED BY <1>6, <1>8

\* A step of the only busy call: what it leaves has to fit for itself alone.
LEMMA OneCallFits ==
  ASSUME DocsTypes, Undisturbed, NEW s \in Services, RunCall(s),
         ~unfinished' => disk' = OwnRows(Registered)',
         \A e \in Range(manifest') : HasSource(e)', CallFits(s)'
  PROVE  Undisturbed'
<1>1. /\ docCall' = [docCall EXCEPT ![s] = docCall'[s]] /\ docCall[s].at # "idle"
      /\ docCall \in [Services -> DocCalls]
  BY CallSteps DEF DocsTypes, DocsTypeOK, DocCalls
<1>2. docCall[s] # IdleCall
  BY <1>1, IdleCallProperties
<1>3. \A t \in Services \ {s} : docCall[t] = IdleCall /\ docCall'[t] = IdleCall
  BY <1>1, <1>2 DEF Undisturbed
<1>4. \A t \in Services \ {s} : CallFits(t)'
  BY <1>3, IdleCallProperties DEF CallFits
<1>5. \A t, u \in Services : docCall'[t] # IdleCall /\ docCall'[u] # IdleCall => t = u
  BY <1>3
<1>6. \A e \in Registered' : HasSource(e)'
  BY DEF Registered
<1> QED BY <1>4, <1>5, <1>6 DEF Undisturbed

LEMMA UndisturbedStep ==
  ASSUME DocsTypes, DocsTypes', ~shared /\ ~reused => Undisturbed, [DocsNext]_docVars,
         ~shared' /\ ~reused'
  PROVE  Undisturbed'
<1>t. /\ manifest \in Seq(Entry) /\ files \in [Names -> Contents \cup {Missing}]
      /\ docCall \in [Services -> DocCalls] /\ shared \in BOOLEAN /\ unfinished \in BOOLEAN /\ reused \in BOOLEAN
  BY DEF DocsTypes, DocsTypeOK, DocCalls
<1>m. /\ \A i \in 1..Len(manifest) : manifest[i] \in Registered
      /\ \A e \in Registered : e \in Entry
  BY <1>t, SeqElements DEF Registered
<1>1. ASSUME NEW s \in Services, (\E e \in Entry : BeginIngest(s, e)) \/ BeginRebuild(s)
      PROVE  Undisturbed'
  <2>1. PICK n \in DocCalls :
           /\ docCall' = [docCall EXCEPT ![s] = n]
           /\ \/ /\ n.op = "ingest" /\ n.at = "write"
                 /\ \E e \in Entry : n.docs = Supersede(manifest, e)
              \/ n.op = "rebuild" /\ n.at = "collect" /\ n.docs = manifest
           /\ shared' = (shared \/ Busy # {})
           /\ UNCHANGED <<manifest, files, disk, memory, unfinished, reused>>
    BY <1>1, CallBegins
  <2>2. Busy = {} /\ Undisturbed
    BY <1>t, <2>1
  <2>3. /\ \A t \in Services : docCall[t] = IdleCall
        /\ ~unfinished => disk = OwnRows(Registered)
        /\ \A e \in Registered : HasSource(e)
    BY <2>2 DEF Busy, Undisturbed
  <2>4. docCall'[s] = n /\ \A t \in Services \ {s} : docCall'[t] = IdleCall
    BY <1>t, <2>1, <2>3
  <2>5. \A t \in Services \ {s} : CallFits(t)'
    BY <2>4, IdleCallProperties DEF CallFits
  <2>6. CallFits(s)'
    <3>1. CASE n.at = "write"
      <4>1. PICK e \in Entry : n.docs = Supersede(manifest, e) /\ n.op = "ingest"
        BY <2>1, <3>1
      <4>2. /\ n.docs # <<>> /\ Len(n.docs) = Len(manifest) + 1
            /\ \A i \in 1..Len(manifest) : n.docs[i].doc = manifest[i].doc
                 /\ n.docs[i].version = manifest[i].version /\ n.docs[i].sha = manifest[i].sha
        BY <1>t, <4>1, SupersedeProperties
      <4>3. ASSUME NEW i \in 1..Len(manifest)
            PROVE  HasSource(n.docs[i]) /\ NameOf(n.docs[i]) \in TakenNames
        <5>1. manifest[i] \in Registered /\ NameOf(n.docs[i]) = NameOf(manifest[i])
          BY <1>m, <4>2 DEF NameOf
        <5>2. HasSource(manifest[i])
          BY <2>3, <5>1
        <5> QED BY <4>2, <5>1, <5>2 DEF HasSource, TakenNames
      <4>4. Len(n.docs) - 1 = Len(manifest)
        BY <1>t, <4>2, LenProperties
      <4>5. \A i \in 1..(Len(n.docs) - 1) : HasSource(n.docs[i])' /\ NameOf(n.docs[i]) \in TakenNames'
        BY <2>1, <4>3, <4>4 DEF HasSource, TakenNames, Registered
      <4> QED BY <2>4, <3>1, <4>1, <4>2, <4>5 DEF CallFits, HasSource
    <3>2. CASE n.at = "collect" /\ n.op = "rebuild" /\ n.docs = manifest
      <4>1. \A e \in Range(manifest) : files'[NameOf(e)] = e.sha
        BY <2>1, <2>3 DEF HasSource, Registered
      <4>2. manifest' = manifest
        BY <2>1
      <4> QED BY <2>4, <3>2, <4>1, <4>2 DEF CallFits
    <3> QED BY <2>1, <3>1, <3>2
  <2>7. ~unfinished' => disk' = OwnRows(Registered)'
    BY <2>1, <2>3 DEF Registered
  <2>8. \A e \in Registered' : HasSource(e)'
    BY <2>1, <2>3 DEF Registered, HasSource
  <2>9. \A t, u \in Services : docCall'[t] # IdleCall /\ docCall'[u] # IdleCall => t = u
    BY <2>4
  <2> QED BY <2>5, <2>6, <2>7, <2>8, <2>9 DEF Undisturbed
<1>2. ASSUME NEW s \in Services, RunCall(s) PROVE Undisturbed'
  <2> DEFINE c == docCall[s]
             n == docCall'[s]
             docs == c.docs
  <2>c. /\ docCall' = [docCall EXCEPT ![s] = n] /\ n \in DocCalls /\ UNCHANGED shared
        /\ c.at # "idle" /\ c.docs \in Seq(Entry)
    BY <1>t, <1>2, CallSteps DEF DocCalls
  <2>r. reused' = reused \/ (WriteSource(s) /\ (reused' => FALSE))
    BY <1>2 DEF RunCall, WriteSource, Collect, RemoveIndex, ReplaceIndex, SaveManifest, UnlinkSource
  <2>u. ~reused
    BY <1>t, <1>2 DEF RunCall, WriteSource, Collect, RemoveIndex, ReplaceIndex, SaveManifest,
                      UnlinkSource
  <2>f. Undisturbed /\ CallFits(s) /\ (~unfinished => disk = OwnRows(Registered))
        /\ \A e \in Registered : HasSource(e)
    BY <2>c, <2>u DEF Undisturbed
  <2>k. ASSUME UNCHANGED <<manifest, files>> PROVE \A e \in Range(manifest') : HasSource(e)'
    BY <2>f, <2>k DEF HasSource, Registered
  <2>s. ASSUME NEW a, ServiceGoes(s, a) PROVE n = [op |-> c.op, at |-> a, docs |-> docs, rows |-> c.rows]
    <3>1. PICK d : d = c
      OBVIOUS
    <3>2. d = [op |-> d.op, at |-> d.at, docs |-> d.docs, rows |-> d.rows]
      BY <1>t, <3>1 DEF DocCalls
    <3>3. n = [d EXCEPT !.at = a]
      BY <1>t, <2>s, <3>1 DEF ServiceGoes
    <3>4. PICK m : m = [d EXCEPT !.at = a]
      OBVIOUS
    <3>5. m = [op |-> d.op, at |-> a, docs |-> d.docs, rows |-> d.rows]
      BY <3>2, <3>4
    <3> QED BY <3>1, <3>3, <3>4, <3>5
  <2>e. ASSUME ServiceEnds(s) PROVE n = IdleCall
    BY <1>t, <2>e DEF ServiceEnds
  <2>i. ASSUME n = IdleCall PROVE CallFits(s)'
    BY <2>i, IdleCallProperties DEF CallFits
  <2>1. CASE WriteSource(s)
    <3> DEFINE e == Last(docs)
    <3>1. /\ c.at = "write" /\ UNCHANGED <<manifest, disk, unfinished>>
          /\ \A x \in Registered : NameOf(x) # NameOf(e)
      BY <2>1 DEF WriteSource, ServiceAt
    <3>2. /\ docs # <<>> /\ c.op = "ingest"
          /\ \A i \in 1..(Len(docs) - 1) : HasSource(docs[i]) /\ NameOf(docs[i]) \in TakenNames
      BY <2>f, <3>1 DEF CallFits
    <3>3. e = docs[Len(docs)] /\ e \in Entry /\ Len(docs) \in Nat /\ Len(docs) > 0
      BY <2>c, <3>2, SeqLast, LenProperties
    <3>4. NameOf(e) \in Names /\ NameOf(e) \notin TakenNames
      BY <3>1, <3>3 DEF TakenNames, Entry, NameOf, Names
    <3>a. PICK text \in Contents \cup {Missing} :
            /\ files' = [files EXCEPT ![NameOf(e)] = text]
            /\ (text = e.sha /\ ServiceGoes(s, "collect")) \/ ServiceEnds(s)
      <4>1. CASE files' = files /\ ServiceEnds(s)
        <5>1. files = [files EXCEPT ![NameOf(e)] = files[NameOf(e)]]
          BY <1>t
        <5>2. files[NameOf(e)] \in Contents \cup {Missing}
          BY <1>t, <3>4
        <5> QED BY <4>1, <5>1, <5>2
      <4>2. CASE files' = [files EXCEPT ![NameOf(e)] = Blank] /\ ServiceEnds(s)
        BY <4>2 DEF Contents
      <4>3. CASE files' = [files EXCEPT ![NameOf(e)] = e.sha] /\ ServiceGoes(s, "collect")
        BY <3>3, <4>3 DEF Entry
      <4> QED BY <2>1, <4>1, <4>2, <4>3 DEF WriteSource
    <3> HIDE DEF e
    <3>5. \A x \in Registered : HasSource(x)'
      BY <1>t, <2>f, <3>1, <3>4, <3>a DEF HasSource, TakenNames
    <3>8. Registered' = Registered /\ TakenNames' = TakenNames
          /\ (~unfinished' => disk' = OwnRows(Registered)')
      BY <2>f, <3>1 DEF Registered, TakenNames
    <3>11. \A x \in Range(manifest') : HasSource(x)'
      BY <3>1, <3>5 DEF Registered
    <3>12. CASE ServiceEnds(s)
      BY <1>2, <2>e, <2>f, <2>i, <3>8, <3>11, <3>12, OneCallFits
    <3>13. CASE text = e.sha /\ ServiceGoes(s, "collect")
      <4>6. ASSUME NEW x \in Range(docs) PROVE files'[NameOf(x)] = x.sha
        <5>1. PICK i \in 1..Len(docs) : x = docs[i]
          BY <2>c, SeqElements
        <5>2. CASE i = Len(docs)
          BY <1>t, <3>3, <3>4, <3>a, <3>13, <5>1, <5>2
        <5>3. CASE i \in 1..(Len(docs) - 1)
          <6>1. HasSource(x) /\ NameOf(x) # NameOf(e)
            BY <3>2, <3>4, <5>1, <5>3
          <6> QED BY <1>t, <3>4, <3>a, <6>1 DEF HasSource
        <5> QED BY <3>3, <5>2, <5>3
      <4>7. n = [op |-> c.op, at |-> "collect", docs |-> docs, rows |-> c.rows]
        BY <2>s, <3>13
      <4>9. n.at = "collect" /\ n.op = "ingest" /\ n.docs = docs
        BY <3>2, <4>7
      <4> HIDE DEF n
      <4>10. CallFits(s)'
        <5>1. NameOf(Last(docs)) \notin TakenNames'
          BY <3>4, <3>8 DEF e
        <5> QED BY <4>6, <4>9, <5>1 DEF CallFits, n
      <4> QED BY <1>2, <2>f, <3>8, <4>10, <3>11, OneCallFits
    <3> QED BY <3>a, <3>12, <3>13
  <2>2. CASE Collect(s)
    <3>1. c.at = "collect" /\ UNCHANGED <<manifest, files, disk, unfinished>>
      BY <2>2 DEF Collect, ServiceAt
    <3>2. /\ \A x \in Range(docs) : files[NameOf(x)] = x.sha /\ x \in Entry
          /\ c.op = "ingest" => NameOf(Last(docs)) \notin TakenNames
          /\ c.op # "ingest" => docs = manifest
      BY <2>c, <2>f, <3>1, SeqElements DEF CallFits
    <3>3. (~unfinished' => disk' = OwnRows(Registered)') /\ TakenNames' = TakenNames
      BY <2>f, <3>1 DEF Registered, TakenNames
    <3>4. CallFits(s)'
      <4>1. CASE Raise(s)
        <5>1. CASE c.op = "ingest"
          <6>1. n = [op |-> c.op, at |-> "unlink", docs |-> docs, rows |-> c.rows]
            BY <2>s, <4>1, <5>1 DEF Raise
          <6>2. n.at = "unlink" /\ n.op = "ingest" /\ n.docs = docs
            BY <5>1, <6>1
          <6> QED BY <3>2, <3>3, <5>1, <6>2 DEF CallFits
        <5>2. CASE c.op # "ingest"
          BY <2>e, <2>i, <4>1, <5>2 DEF Raise
        <5> QED BY <5>1, <5>2
      <4>2. CASE /\ \A x \in Readable(docs) : files[NameOf(x)] # Blank
                 /\ docCall' = [docCall EXCEPT ![s].at = "remove", ![s].rows = RowsOf(docs)]
        <5>1. \A x \in Range(docs) : x \in Readable(docs) /\ x.sha \in Texts
          <6> SUFFICES ASSUME NEW x \in Range(docs) PROVE x \in Readable(docs) /\ x.sha \in Texts
            OBVIOUS
          <6>1. x.sha \in Contents /\ files[NameOf(x)] = x.sha
            BY <3>2 DEF Entry
          <6>2. x \in Readable(docs)
            BY <6>1, TextsAssumption DEF Readable, Contents, Missing, Blank
          <6> QED BY <4>2, <6>1, <6>2 DEF Contents
        <5>2. RowsOf(docs) = OwnRows(Range(docs))
          <6>1. Readable(docs) = Range(docs)
            BY <5>1 DEF Readable
          <6> QED BY <3>2, <6>1 DEF RowsOf, OwnRows
        <5>3. /\ n.at = "remove" /\ n.op = c.op /\ n.docs = docs /\ n.rows = RowsOf(docs)
          <6>1. docCall' = [docCall EXCEPT ![s] = [c EXCEPT !.at = "remove", !.rows = RowsOf(docs)]]
            BY <4>2
          <6>2. PICK d : d = c
            OBVIOUS
          <6>3. PICK R : R = RowsOf(docs)
            OBVIOUS
          <6>4. d = [op |-> d.op, at |-> d.at, docs |-> d.docs, rows |-> d.rows]
            BY <1>t, <6>2 DEF DocCalls
          <6>5. PICK m : m = [d EXCEPT !.at = "remove", !.rows = R]
            OBVIOUS
          <6>6. m = [op |-> d.op, at |-> "remove", docs |-> d.docs, rows |-> R]
            BY <6>4, <6>5
          <6>7. n = m
            BY <1>t, <6>1, <6>2, <6>3, <6>5
          <6> HIDE DEF n
          <6> QED BY <6>2, <6>3, <6>6, <6>7
        <5>4. \A x \in Range(docs) : HasSource(x)'
          BY <3>1, <3>2, <5>1 DEF HasSource
        <5> HIDE DEF n
        <5> QED BY <3>1, <3>2, <3>3, <5>2, <5>3, <5>4 DEF CallFits, n
      <4> QED BY <2>2, <4>1, <4>2 DEF Collect
    <3> QED BY <1>2, <2>f, <2>k, <3>1, <3>3, <3>4, OneCallFits
  <2>3. CASE RemoveIndex(s)
    <3>1. c.at = "remove" /\ UNCHANGED <<manifest, files>> /\ disk' = {}
      BY <2>3 DEF RemoveIndex, ServiceAt, NoIndex
    <3>2. /\ \A x \in Range(docs) : HasSource(x)
          /\ c.op = "ingest" => NameOf(Last(docs)) \notin TakenNames
          /\ c.op # "ingest" => docs = manifest
          /\ c.rows = OwnRows(Range(docs))
      BY <2>f, <3>1 DEF CallFits
    <3>3. /\ \A x \in Range(docs) : HasSource(x)'
          /\ TakenNames' = TakenNames /\ Registered' = Registered
      BY <3>1, <3>2 DEF HasSource, Registered, TakenNames
    <3>4. CASE c.rows # {}
      <4>1. n = [op |-> c.op, at |-> "replace", docs |-> docs, rows |-> c.rows]
        BY <2>3, <2>s, <3>4 DEF RemoveIndex, NoIndex
      <4>5. unfinished'
        BY <2>3, <3>4 DEF RemoveIndex, NoIndex
      <4>2. n.at = "replace" /\ n.op = c.op /\ n.docs = docs /\ n.rows = c.rows
        BY <4>1
      <4> HIDE DEF n
      <4>4. CallFits(s)'
        BY <3>1, <3>2, <3>3, <4>2 DEF CallFits, n, NoIndex
      <4> QED BY <1>2, <2>f, <2>k, <3>1, <4>4, <4>5, OneCallFits
    <3>5. CASE c.rows = {} /\ c.op = "ingest"
      <4>1. n = [op |-> c.op, at |-> "save", docs |-> docs, rows |-> c.rows]
        BY <2>3, <2>s, <3>5 DEF RemoveIndex, NoIndex, Indexed
      <4>5. unfinished'
        BY <2>3, <3>5 DEF RemoveIndex, NoIndex, Indexed
      <4>2. n.at = "save" /\ n.op = c.op /\ n.docs = docs /\ n.rows = c.rows
        BY <4>1
      <4> HIDE DEF n
      <4>4. CallFits(s)'
        BY <3>1, <3>2, <3>3, <3>5, <4>2 DEF CallFits, n
      <4> QED BY <1>2, <2>f, <2>k, <3>1, <4>4, <4>5, OneCallFits
    <3>6. CASE c.rows = {} /\ c.op # "ingest"
      <4>1. n = IdleCall
        BY <2>3, <2>e, <3>6 DEF RemoveIndex, NoIndex, Indexed
      <4>2. disk' = OwnRows(Registered)'
        BY <3>1, <3>2, <3>3, <3>6 DEF Registered
      <4> QED BY <1>2, <2>f, <2>i, <2>k, <3>1, <4>1, <4>2, OneCallFits
    <3> QED BY <3>4, <3>5, <3>6
  <2>4. CASE ReplaceIndex(s)
    <3>1. c.at = "replace" /\ UNCHANGED <<manifest, files>>
      BY <2>4 DEF ReplaceIndex, ServiceAt
    <3>2. /\ \A x \in Range(docs) : HasSource(x)
          /\ c.op = "ingest" => NameOf(Last(docs)) \notin TakenNames
          /\ c.op # "ingest" => docs = manifest
          /\ c.rows = OwnRows(Range(docs)) /\ disk = NoIndex
      BY <2>f, <3>1 DEF CallFits
    <3>4. /\ \A x \in Range(docs) : HasSource(x)'
          /\ TakenNames' = TakenNames /\ Registered' = Registered
      BY <3>1, <3>2 DEF HasSource, Registered, TakenNames
    <3>7. CASE Raise(s) /\ UNCHANGED <<disk, unfinished>>
      <4>1. ~unfinished' => disk' = OwnRows(Registered)'
        BY <2>f, <3>4, <3>7 DEF OwnRows
      <4>2. CASE c.op = "ingest"
        <5>1. n = [op |-> c.op, at |-> "unlink", docs |-> docs, rows |-> c.rows]
          BY <2>s, <3>7, <4>2 DEF Raise
        <5>2. n.at = "unlink" /\ n.op = "ingest" /\ n.docs = docs
          BY <4>2, <5>1
        <5> HIDE DEF n
        <5>3. CallFits(s)'
          BY <3>2, <3>4, <4>2, <5>2 DEF CallFits, n
        <5> QED BY <1>2, <2>f, <2>k, <3>1, <4>1, <5>3, OneCallFits
      <4>3. CASE c.op # "ingest"
        BY <1>2, <2>e, <2>f, <2>i, <2>k, <3>1, <3>7, <4>1, <4>3, OneCallFits DEF Raise
      <4> QED BY <4>2, <4>3
    <3>8. CASE disk' = c.rows /\ Indexed(s)
      <4>1. CASE c.op = "ingest"
        <5>1. n = [op |-> c.op, at |-> "save", docs |-> docs, rows |-> c.rows] /\ unfinished'
          BY <2>s, <3>8, <4>1 DEF Indexed
        <5>2. n.at = "save" /\ n.op = c.op /\ n.docs = docs /\ n.rows = c.rows
          BY <5>1
        <5> HIDE DEF n
        <5>4. CallFits(s)'
          BY <3>1, <3>2, <3>8, <3>4, <4>1, <5>2 DEF CallFits, n
        <5> QED BY <1>2, <2>f, <2>k, <3>1, <5>1, <5>4, OneCallFits
      <4>2. CASE c.op # "ingest"
        <5>1. n = IdleCall
          BY <2>e, <3>8, <4>2 DEF Indexed
        <5>2. disk' = OwnRows(Registered)'
          BY <3>1, <3>2, <3>8, <3>4, <4>2 DEF Registered
        <5> QED BY <1>2, <2>f, <2>i, <2>k, <3>1, <5>1, <5>2, OneCallFits
      <4> QED BY <4>1, <4>2
    <3> QED BY <2>4, <3>7, <3>8 DEF ReplaceIndex
  <2>5. CASE SaveManifest(s)
    <3>1. c.at = "save" /\ UNCHANGED <<files, disk>>
      BY <2>5 DEF SaveManifest, ServiceAt
    <3>2. /\ disk = OwnRows(Range(docs)) /\ \A x \in Range(docs) : HasSource(x)
          /\ c.op = "ingest" /\ NameOf(Last(docs)) \notin TakenNames
      BY <2>f, <3>1 DEF CallFits
    <3>3. CASE manifest' = docs /\ ServiceEnds(s)
      <4>1. disk' = OwnRows(Registered)' /\ \A x \in Range(manifest') : HasSource(x)'
        BY <3>1, <3>2, <3>3 DEF HasSource, Registered
      <4> QED BY <1>2, <2>e, <2>f, <2>i, <3>3, <4>1, OneCallFits
    <3>4. CASE Raise(s) /\ UNCHANGED <<manifest, unfinished>>
      <4>1. n = [op |-> c.op, at |-> "unlink", docs |-> docs, rows |-> c.rows]
        BY <2>s, <3>2, <3>4 DEF Raise
      <4>2. n.at = "unlink" /\ n.op = "ingest" /\ n.docs = docs
        BY <3>2, <4>1
      <4>3. /\ TakenNames' = TakenNames /\ Registered' = Registered
            /\ ~unfinished' => disk' = OwnRows(Registered)'
        BY <2>f, <3>1, <3>4 DEF Registered, TakenNames
      <4> HIDE DEF n
      <4>4. CallFits(s)'
        BY <3>2, <4>2, <4>3 DEF CallFits, n
      <4> QED BY <1>2, <2>f, <2>k, <3>1, <3>4, <4>3, <4>4, OneCallFits
    <3> QED BY <2>5, <3>3, <3>4 DEF SaveManifest, NewManifest
  <2>6. CASE UnlinkSource(s)
    <3> DEFINE e == Last(docs)
    <3>1. /\ c.at = "unlink" /\ UNCHANGED <<manifest, disk, unfinished>> /\ n = IdleCall
          /\ files' = [files EXCEPT ![NameOf(e)] = Missing]
      BY <2>6, <2>e DEF UnlinkSource, ServiceAt
    <3>2. NameOf(e) \notin TakenNames
      BY <2>f, <3>1 DEF CallFits
    <3> HIDE DEF e
    <3>3. \A x \in Range(manifest') : HasSource(x)'
      <4> SUFFICES ASSUME NEW x \in Registered PROVE HasSource(x)'
        BY <3>1 DEF Registered
      <4>1. HasSource(x) /\ NameOf(x) # NameOf(e) /\ NameOf(x) \in Names
        BY <1>m, <2>f, <3>2 DEF TakenNames, NameOf, Names, Entry
      <4> QED BY <1>t, <3>1, <4>1 DEF HasSource
    <3>4. ~unfinished' => disk' = OwnRows(Registered)'
      BY <2>f, <3>1 DEF Registered
    <3> QED BY <1>2, <2>f, <2>i, <3>1, <3>3, <3>4, OneCallFits
  <2> QED BY <1>2, <2>1, <2>2, <2>3, <2>4, <2>5, <2>6 DEF RunCall
<1>3. ASSUME UNCHANGED <<manifest, files, disk, docCall, shared, unfinished, reused>> PROVE Undisturbed'
  BY <1>3 DEF Undisturbed, CallFits, HasSource, TakenNames, Registered, Busy
<1>4. ASSUME StopProcess PROVE Undisturbed'
  <2>1. Undisturbed
    BY <1>t, <1>4 DEF StopProcess
  <2>2. \A t \in Services : docCall'[t] = IdleCall
    BY <1>4 DEF StopProcess
  <2>3. UNCHANGED <<manifest, files, disk, unfinished>>
    BY <1>4 DEF StopProcess
  <2>4. \A t \in Services : CallFits(t)'
    BY <2>2, IdleCallProperties DEF CallFits
  <2> QED BY <2>1, <2>2, <2>3, <2>4 DEF Undisturbed, HasSource, Registered
<1>5. CASE DocsNext
  <2>1. CASE StopProcess
    BY <1>4, <2>1
  <2>2. CASE ~StopProcess
    <3>1. PICK s \in Services : \/ (\E e \in Entry : BeginIngest(s, e)) \/ BeginRebuild(s)
                                \/ RunCall(s) \/ Search(s)
      BY <1>5, <2>2 DEF DocsNext
    <3>2. Search(s) => UNCHANGED <<manifest, files, disk, docCall, shared, unfinished, reused>>
      BY DEF Search
    <3> QED BY <1>1, <1>2, <1>3, <3>1, <3>2
  <2> QED BY <2>1, <2>2
<1>6. CASE UNCHANGED docVars
  BY <1>3, <1>6 DEF docVars
<1> QED BY <1>5, <1>6

LEMMA DocsStep == DocsInv /\ [DocsNext]_docVars => DocsInv'
BY DocsTypesStep, OneCurrentStep, UndisturbedStep DEF DocsInv

(* rag/service.py: however many services of a project overwrite each       *)
(* other, of a document at most one version is current.                    *)
THEOREM DocumentsOneCurrent == DocsSpec => []OneCurrentVersion
<1>1. DocsInv => OneCurrentVersion
  <2> SUFFICES ASSUME DocsInv PROVE OneCurrentVersion
    OBVIOUS
  <2>1. memory = [s \in Services |-> memory[s]]
    BY DEF DocsInv, DocsTypes, DocsTypeOK
  <2>2. \A i \in Range(memory) : \E s \in Services : i = memory[s]
    BY <2>1 DEF Range
  <2> QED BY <2>2 DEF DocsInv, OneCurrentInv, OneCurrentVersion
<1> QED BY DocsInit_Inv, DocsStep, <1>1, PTL DEF DocsSpec

(* rag/service.py:186-191, 279-318: for any documents, versions and        *)
(* contents, and whatever fails or stops, the index is that of the         *)
(* manifest unless the last call that began to replace it did not complete *)
(* (IndexIsManifest).                                                      *)
THEOREM DocumentsIndexed == DocsSpec => []IndexIsManifest
<1>1. DocsInv => IndexIsManifest
  BY DEF DocsInv, Undisturbed, IndexIsManifest, OwnRows
<1> QED BY DocsInit_Inv, DocsStep, <1>1, PTL DEF DocsSpec
(***************************************************************************)
(* The mapping and its load.                                               *)
(***************************************************************************)

\* What the graph holds of an upload was made by one of its loads.
MarksInv ==
  \A u \in Uploads :
    /\ loadedUnder[u] # {} => tables[u] # NoTables
    /\ \A i \in Ids : loaded.nodes[i] = u =>
         \E r \in loadedUnder[u] : i \in Prepared(tables[u], r).nodes
    /\ \A e \in Ids \X Ids : loaded.rels[e] = u =>
         \E r \in loadedUnder[u] : e \in Prepared(tables[u], r).rels

\* The approval counts the files that will be loaded.
ApprovalInv ==
  IF mapping = Unapproved THEN outcome = "none"
  ELSE /\ mapping.upload \in Uploads /\ mapping.required \in Requirements
       /\ tables[mapping.upload] # NoTables
       /\ mapping.report = DryRun(tables[mapping.upload], mapping.required)

MapInv == MapTypeOK /\ MarksInv /\ ApprovalInv /\ LoadedAsApproved

\* A cell is empty, in error, or spells an identity.
LEMMA CoercedCell ==
  ASSUME NEW cell \in Cells
  PROVE  /\ Coerced(cell) \in {Empty, TypeError} \cup Ids
         /\ Coerced(cell) = Empty <=> cell = ""
BY DEF Coerced, Cells, Empty, TypeError, Ids

\* The dry run passes over the rows of nodes that the loader passes over.
LEMMA SameNodes ==
  ASSUME NEW rows \in Seq(NodeRow), NEW required
  PROVE  /\ Identities(rows, required) = PreparedNodes(rows, required)
         /\ PreparedNodes(rows, required) \subseteq Ids
<1>1. ASSUME NEW i \in 1..Len(rows)
      PROVE  /\ Isolated(rows[i], required) <=> Skipped(rows[i], required)
             /\ ~Skipped(rows[i], required) => Coerced(rows[i].id) \in Ids
  <2>1. rows[i] \in NodeRow  BY ElementOfSeq
  <2>2. rows[i].id \in Cells  BY <2>1 DEF NodeRow
  <2> QED  BY <2>2, CoercedCell DEF Isolated, Skipped, Empty, TypeError, Ids
<1>2. {k \in 1..Len(rows) : ~Isolated(rows[k], required)} = {k \in 1..Len(rows) : ~Skipped(rows[k], required)}
  BY <1>1
<1>3. Identities(rows, required) = PreparedNodes(rows, required)
  BY <1>2 DEF Identities, PreparedNodes
<1>4. PreparedNodes(rows, required) \subseteq Ids
  BY <1>1 DEF PreparedNodes
<1> QED  BY <1>3, <1>4

\* And the rows of relationships, given the same nodes.
LEMMA SameRels ==
  ASSUME NEW rows \in Seq(RelRow), NEW required, NEW ids \in SUBSET Ids
  PROVE  /\ RelationshipKeys(rows, required, ids) = PreparedRels(rows, required, ids)
         /\ PreparedRels(rows, required, ids) \subseteq Ids \X Ids
<1>1. ASSUME NEW i \in 1..Len(rows)
      PROVE  /\ RelIsolated(rows[i], required, ids) <=> RelSkipped(rows[i], required, ids)
             /\ ~RelSkipped(rows[i], required, ids) =>
                  Coerced(rows[i].source) \in ids /\ Coerced(rows[i].target) \in ids
  <2>1. Empty \notin ids  BY DEF Empty, Ids
  <2> QED  BY <2>1 DEF RelIsolated, RelSkipped
<1>2. {k \in 1..Len(rows) : ~RelIsolated(rows[k], required, ids)}
        = {k \in 1..Len(rows) : ~RelSkipped(rows[k], required, ids)}
  BY <1>1
<1>3. RelationshipKeys(rows, required, ids) = PreparedRels(rows, required, ids)
  BY <1>2 DEF RelationshipKeys, PreparedRels, RelationshipKey
<1>4. PreparedRels(rows, required, ids) \subseteq Ids \X Ids
  BY <1>1 DEF PreparedRels
<1> QED  BY <1>3, <1>4

\* So the approved counts are those of what the loader prepares.
LEMMA DryRunCountsPrepared ==
  ASSUME NEW t \in Tables, NEW required
  PROVE  /\ Prepared(t, required).nodes \subseteq Ids
         /\ Prepared(t, required).rels \subseteq Ids \X Ids
         /\ DryRun(t, required) = [nodes |-> Cardinality(Prepared(t, required).nodes),
                                   rels  |-> Cardinality(Prepared(t, required).rels)]
<1>1. t.nodes \in Seq(NodeRow) /\ t.rels \in Seq(RelRow)  BY DEF Tables
<1> DEFINE ids == PreparedNodes(t.nodes, required)
<1>2. Identities(t.nodes, required) = ids /\ ids \in SUBSET Ids  BY <1>1, SameNodes
<1>3. /\ RelationshipKeys(t.rels, required, ids) = PreparedRels(t.rels, required, ids)
      /\ PreparedRels(t.rels, required, ids) \subseteq Ids \X Ids
  <2> HIDE DEF ids
  <2> QED  BY <1>1, <1>2, SameRels
<1>4. Prepared(t, required) = [nodes |-> ids, rels |-> PreparedRels(t.rels, required, ids)]
  BY DEF Prepared
<1>5. DryRun(t, required) = [nodes |-> Cardinality(ids),
                             rels |-> Cardinality(RelationshipKeys(t.rels, required, ids))]
  BY <1>2 DEF DryRun
<1> HIDE DEF ids
<1> QED  BY <1>2, <1>3, <1>4, <1>5

\* A mapping that requires more prepares less.
LEMMA RequiringMore ==
  ASSUME NEW t \in Tables, NEW r, NEW s, r \subseteq s
  PROVE  /\ Prepared(t, s).nodes \subseteq Prepared(t, r).nodes
         /\ Prepared(t, s).rels \subseteq Prepared(t, r).rels
<1> DEFINE few == PreparedNodes(t.nodes, s)
           all == PreparedNodes(t.nodes, r)
<1>1. few \subseteq all  BY DEF PreparedNodes, Skipped, Lacks
<1>2. PreparedRels(t.rels, s, few) \subseteq PreparedRels(t.rels, r, all)
  <2> HIDE DEF few, all
  <2> QED  BY <1>1 DEF PreparedRels, RelSkipped, Lacks
<1> QED  BY <1>1, <1>2 DEF Prepared

LEMMA MapInitially == ASSUME MapInit PROVE MapInv
<1>1. MapTypeOK
  BY DEF MapInit, MapTypeOK, Unapproved, NoReport
<1>2. MarksInv
  BY UploadsAssumption DEF MapInit, MarksInv
<1> QED  BY <1>1, <1>2 DEF MapInv, MapInit, ApprovalInv, LoadedAsApproved

LEMMA TablesTyped ==
  ASSUME MapTypeOK, NEW u \in Uploads, tables[u] # NoTables
  PROVE  tables[u] \in Tables
BY UploadsAssumption DEF MapTypeOK

LEMMA UploadKeeps ==
  ASSUME MapInv, NEW u \in Uploads, Upload(u)
  PROVE  MapInv'
<1> USE DEF MapInv, Upload
<1>1. PICK t \in Offered[u] : tables' = [tables EXCEPT ![u] = t]  OBVIOUS
<1>2. MapTypeOK'
  <2>1. \A v \in Uploads : tables'[v] \in Offered[v] \cup {NoTables}
    <3>1. DOMAIN tables' = DOMAIN tables  BY <1>1
    <3>2. \A v \in Uploads : tables'[v] = tables[v] \/ (v = u /\ tables'[v] = t)
      BY <1>1 DEF MapTypeOK
    <3> QED  BY <3>2 DEF MapTypeOK
  <2> QED  BY <2>1 DEF MapTypeOK
<1>3. \A v \in Uploads : tables[v] # NoTables => tables'[v] = tables[v]
  BY <1>1
<1>4. MarksInv'
  BY <1>3 DEF MarksInv
<1>5. ApprovalInv'
  BY <1>3 DEF ApprovalInv
<1>6. LoadedAsApproved'
  BY DEF LoadedAsApproved, CountOf
<1> QED  BY <1>2, <1>4, <1>5, <1>6

LEMMA ApproveKeeps ==
  ASSUME MapInv, NEW u \in Uploads, Approve(u)
  PROVE  MapInv'
<1> USE DEF MapInv, Approve
<1>1. PICK required \in Requirements :
        mapping' = [upload |-> u, required |-> required, report |-> DryRun(tables[u], required)]
  OBVIOUS
<1>2. tables[u] \in Tables  BY TablesTyped
<1>3. DryRun(tables[u], required) \in [nodes : Nat, rels : Nat]
  <2> DEFINE p == Prepared(tables[u], required)
  <2>1. IsFiniteSet(Ids) /\ IsFiniteSet(Ids \X Ids)
    <3>1. IsFiniteSet(Ids)
      <4>1. IsFiniteSet({"1"})  BY FS_Singleton
      <4>2. Ids = {"1"} \cup {"2"}  BY DEF Ids
      <4> QED  BY <4>1, <4>2, FS_AddElement
    <3> QED  BY <3>1, FS_Product
  <2>2. Cardinality(p.nodes) \in Nat /\ Cardinality(p.rels) \in Nat
    BY <1>2, <2>1, DryRunCountsPrepared, FS_Subset, FS_CardinalityType
  <2> QED  BY <1>2, <2>2, DryRunCountsPrepared
<1>4. MapTypeOK'  BY <1>1, <1>3 DEF MapTypeOK
<1>5. MarksInv'  BY DEF MarksInv
<1>6. ApprovalInv'
  BY <1>1 DEF ApprovalInv
<1>7. LoadedAsApproved'
  BY DEF LoadedAsApproved
<1> QED  BY <1>4, <1>5, <1>6, <1>7

LEMMA LoadKeeps ==
  ASSUME MapInv, Load
  PROVE  MapInv'
<1> DEFINE u == mapping.upload
           p == Prepared(tables[u], mapping.required)
           g == Merged(loaded, u, p)
           expected == [nodes |-> Cardinality(p.nodes), rels |-> Cardinality(p.rels)]
           Matches  == /\ CountOf(g, u) = expected
                       /\ loaded' = g /\ outcome' = "loaded"
                       /\ loadedUnder' = [loadedUnder EXCEPT ![u] = @ \cup {mapping.required}]
           Differs  == /\ CountOf(g, u) # expected
                       /\ outcome' = "mismatch" /\ UNCHANGED <<loaded, loadedUnder>>
           Fails    == outcome' = "failed" /\ UNCHANGED <<loaded, loadedUnder>>
<1>1. /\ mapping # Unapproved
      /\ Matches \/ Differs \/ Fails
      /\ UNCHANGED <<tables, mapping>>
  BY DEF Load
<1>2. /\ u \in Uploads /\ tables[u] # NoTables /\ mapping.required \in Requirements
      /\ mapping.report = DryRun(tables[u], mapping.required)
  BY <1>1 DEF MapInv, ApprovalInv
<1>3. tables[u] \in Tables  BY <1>2, TablesTyped DEF MapInv
<1>4. p.nodes \subseteq Ids /\ p.rels \subseteq Ids \X Ids /\ mapping.report = expected
  BY <1>2, <1>3, DryRunCountsPrepared
<1>5. ApprovalInv' /\ u' = u
  BY <1>1, <1>2 DEF ApprovalInv
<1>6. /\ loaded.nodes \in [Ids -> Uploads \cup {NoUpload}]
      /\ loaded.rels \in [Ids \X Ids -> Uploads \cup {NoUpload}]
      /\ loadedUnder \in [Uploads -> SUBSET Requirements]
  BY DEF MapInv, MapTypeOK
<1>7. /\ g.nodes = [i \in Ids |-> IF i \in p.nodes THEN u ELSE loaded.nodes[i]]
      /\ g.rels = [e \in Ids \X Ids |-> IF e \in p.rels THEN u ELSE loaded.rels[e]]
      /\ g = [nodes |-> g.nodes, rels |-> g.rels]
  BY DEF Merged
<1>8. ASSUME Matches PROVE MapInv'
  <2>1. \A v \in Uploads : loadedUnder'[v] = IF v = u THEN loadedUnder[v] \cup {mapping.required}
                                                       ELSE loadedUnder[v]
    BY <1>6, <1>8
  <2>2. MapTypeOK'
    <3>1. g \in [nodes : [Ids -> Uploads \cup {NoUpload}], rels : [Ids \X Ids -> Uploads \cup {NoUpload}]]
      <4> HIDE DEF g
      <4>1. /\ g.nodes \in [Ids -> Uploads \cup {NoUpload}]
            /\ g.rels \in [Ids \X Ids -> Uploads \cup {NoUpload}]
        <5> HIDE DEF u, p
        <5> QED  BY <1>2, <1>6, <1>7
      <4> QED  BY <1>7, <4>1
    <3>2. loadedUnder' \in [Uploads -> SUBSET Requirements]
      BY <1>2, <1>6, <1>8
    <3> QED  BY <1>1, <1>8, <3>1, <3>2 DEF MapInv, MapTypeOK
  <2>3. MarksInv'
    <3> SUFFICES ASSUME NEW v \in Uploads
                 PROVE  /\ loadedUnder'[v] # {} => tables[v] # NoTables
                        /\ \A i \in Ids : g.nodes[i] = v =>
                             \E r \in loadedUnder'[v] : i \in Prepared(tables[v], r).nodes
                        /\ \A e \in Ids \X Ids : g.rels[e] = v =>
                             \E r \in loadedUnder'[v] : e \in Prepared(tables[v], r).rels
      BY <1>1, <1>8 DEF MarksInv
    <3>1. loadedUnder'[v] # {} => tables[v] # NoTables
      BY <1>2, <2>1 DEF MapInv, MarksInv
    <3>2. ASSUME NEW i \in Ids, g.nodes[i] = v
          PROVE  \E r \in loadedUnder'[v] : i \in Prepared(tables[v], r).nodes
      <4>1. CASE i \in p.nodes
        <5>1. v = u  BY <1>7, <3>2, <4>1
        <5> QED  BY <2>1, <4>1, <5>1
      <4>2. CASE i \notin p.nodes
        <5>1. loaded.nodes[i] = v  BY <1>7, <3>2, <4>2
        <5>2. PICK r \in loadedUnder[v] : i \in Prepared(tables[v], r).nodes
          BY <5>1 DEF MapInv, MarksInv
        <5>3. r \in loadedUnder'[v]  BY <2>1
        <5> QED  BY <5>2, <5>3
      <4> QED  BY <4>1, <4>2
    <3>3. ASSUME NEW e \in Ids \X Ids, g.rels[e] = v
          PROVE  \E r \in loadedUnder'[v] : e \in Prepared(tables[v], r).rels
      <4>1. CASE e \in p.rels
        <5>1. v = u  BY <1>7, <3>3, <4>1
        <5> QED  BY <2>1, <4>1, <5>1
      <4>2. CASE e \notin p.rels
        <5>1. loaded.rels[e] = v  BY <1>7, <3>3, <4>2
        <5>2. PICK r \in loadedUnder[v] : e \in Prepared(tables[v], r).rels
          BY <5>1 DEF MapInv, MarksInv
        <5>3. r \in loadedUnder'[v]  BY <2>1
        <5> QED  BY <5>2, <5>3
      <4> QED  BY <4>1, <4>2
    <3> QED  BY <3>1, <3>2, <3>3
  <2>4. LoadedAsApproved'
    BY <1>1, <1>4, <1>8 DEF LoadedAsApproved
  <2> QED  BY <1>5, <2>2, <2>3, <2>4 DEF MapInv
<1>9. ASSUME Differs PROVE MapInv'
  <2>1. MapTypeOK' /\ MarksInv'
    BY <1>1, <1>9 DEF MapInv, MapTypeOK, MarksInv
  <2>2. \E r \in loadedUnder[u] : ~(mapping.required \subseteq r)
    <3> SUFFICES ASSUME \A r \in loadedUnder[u] : mapping.required \subseteq r
                 PROVE  CountOf(g, u) = expected
      BY <1>9
    <3>1. ASSUME NEW r \in loadedUnder[u]
          PROVE  /\ Prepared(tables[u], r).nodes \subseteq p.nodes
                 /\ Prepared(tables[u], r).rels \subseteq p.rels
      BY <1>3, RequiringMore
    <3>2. \A i \in Ids : loaded.nodes[i] = u => i \in p.nodes
      BY <1>2, <3>1 DEF MapInv, MarksInv
    <3>3. \A e \in Ids \X Ids : loaded.rels[e] = u => e \in p.rels
      BY <1>2, <3>1 DEF MapInv, MarksInv
    <3> HIDE DEF p, g, u
    <3>4. {i \in Ids : g.nodes[i] = u} = p.nodes
      BY <1>4, <1>7, <3>2
    <3>5. {e \in Ids \X Ids : g.rels[e] = u} = p.rels
      BY <1>4, <1>7, <3>3
    <3> QED  BY <3>4, <3>5 DEF CountOf
  <2>3. LoadedAsApproved'
    BY <1>1, <1>9, <2>2 DEF LoadedAsApproved
  <2> QED  BY <1>5, <2>1, <2>3 DEF MapInv
<1>10. ASSUME Fails PROVE MapInv'
  BY <1>1, <1>5, <1>10 DEF MapInv, MapTypeOK, MarksInv, LoadedAsApproved
<1> HIDE DEF Matches, Differs, Fails
<1> QED  BY <1>1, <1>8, <1>9, <1>10

LEMMA MapStep == MapInv /\ [MapNext]_mapVars => MapInv'
<1> SUFFICES ASSUME MapInv, [MapNext]_mapVars PROVE MapInv'
  OBVIOUS
<1>1. CASE Load  BY <1>1, LoadKeeps
<1>2. ASSUME NEW u \in Uploads, Upload(u) PROVE MapInv'  BY <1>2, UploadKeeps
<1>3. ASSUME NEW u \in Uploads, Approve(u) PROVE MapInv'  BY <1>3, ApproveKeeps
<1>4. CASE UNCHANGED mapVars
  BY <1>4 DEF mapVars, MapInv, MapTypeOK, MarksInv, ApprovalInv, LoadedAsApproved
<1> QED  BY <1>1, <1>2, <1>3, <1>4 DEF MapNext

(* A load that is taken as done left the counts that were approved, what-  *)
(* ever the files of the uploads hold and earlier loads left in the graph; *)
(* one that fails its reconciliation follows a load of the same upload by  *)
(* a mapping that required less.                                           *)
THEOREM LoadsAsApproved == MapSpec => []LoadedAsApproved
<1>1. MapInit => MapInv  BY MapInitially
<1>2. MapInv => LoadedAsApproved  BY DEF MapInv
<1> QED  BY <1>1, <1>2, MapStep, PTL DEF MapSpec

(***************************************************************************)
(* The six services together, one of which moves at a time.                *)
(***************************************************************************)

ServicesInv ==
  ExtInv /\ ShapeInv /\ MapInv /\ DocsInv /\ LimitShape /\ RouterInv /\ TypeInv

LEMMA ServicesInit_Inv == ServicesInit => ServicesInv
BY ExtInit_Inv, ExtInit_Shape, MapInitially, DocsInit_Inv, LimitInit_Shape, RouterInit_Inv, TypeInit
DEF ServicesInit, ServicesInv

\* A step of one service is a step of it, and leaves the others alone.
LEMMA OnePartMoves ==
  ASSUME [ServicesNext]_servicesVars
  PROVE  /\ [ExtNext]_extVars /\ [MapNext]_mapVars /\ [DocsNext]_docVars
         /\ [LimitNext]_limitVars /\ [RouterNext]_routeVars /\ [GateNext]_gateVars
<1>1. CASE UNCHANGED servicesVars
  BY <1>1 DEF servicesVars
<1>2. CASE Only("external", <<mapVars, docVars, limitVars, routeVars, gateVars>>) /\ ExtNext
  BY <1>2 DEF Only
<1>3. CASE Only("mapping", <<extVars, docVars, limitVars, routeVars, gateVars>>) /\ MapNext
  BY <1>3 DEF Only
<1>4. CASE Only("documents", <<extVars, mapVars, limitVars, routeVars, gateVars>>) /\ DocsNext
  BY <1>4 DEF Only
<1>5. CASE Only("limit", <<extVars, mapVars, docVars, routeVars, gateVars>>) /\ LimitNext
  BY <1>5 DEF Only
<1>6. CASE Only("router", <<extVars, mapVars, docVars, limitVars, gateVars>>) /\ RouterNext
  BY <1>6 DEF Only
<1>7. CASE Only("gate", <<extVars, mapVars, docVars, limitVars, routeVars>>) /\ GateNext
  BY <1>7 DEF Only
<1> QED BY <1>1, <1>2, <1>3, <1>4, <1>5, <1>6, <1>7 DEF ServicesNext

\* connectors.py, graph_projection, mapping, rag, rate_limit.py, main.py,
\* project_router.py and tools/registry.py: whatever the parameters and however
\* the calls of a service overlap, stop or are repeated, its variables keep
\* their types, and the limiter its bounds.
THEOREM ServicesTyped == ServicesSpec => []ServicesTypeOK
<1>1. ServicesInv /\ [ServicesNext]_servicesVars => ServicesInv'
  BY OnePartMoves, ExtStep, ExtShapeStep, MapStep, DocsStep, LimitShapeStep, RouterStep, TypeStep
  DEF ServicesInv
<1>2. ServicesInv => ServicesTypeOK
  BY ExtTyped DEF ServicesInv, ServicesTypeOK, MapInv, DocsInv, DocsTypes, LimitShape, RouterInv,
                  TypeInv
<1> QED BY ServicesInit_Inv, <1>1, <1>2, PTL DEF ServicesSpec
=============================================================================
