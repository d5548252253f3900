----------------------------- MODULE FrontEndsProof -----------------------------
(***************************************************************************)
(* Safety of what users work with, for any number of tabs, projects, rows, *)
(* drafts and questions: the conversations and the explorer of the console, *)
(* the query page and the mapping drafts of the web client, the graph that *)
(* is drawn, and the evaluation: its scripts, the comparison of rows and   *)
(* the sums of the scores.  The models share no state; each has its own    *)
(* inductive invariant.                                                    *)
(***************************************************************************)
EXTENDS Conversations, WebQuery, GraphExplorer, WebStudio, SnapshotComparison, EvaluationScores, EvaluationRun,
        SequenceTheorems, FiniteSetTheorems, WellFoundedInduction, TLAPS

(***************************************************************************)
(* The conversations of the console.                                       *)
(***************************************************************************)

\* Counting up from 0 reaches every number.
LEMMA CountingUp ==
  ASSUME NEW T \in SUBSET Nat, 0 \in T, \A n \in T : n + 1 \in T
  PROVE  T = Nat
<1> SUFFICES ASSUME Nat \ T # {} PROVE FALSE
  OBVIOUS
<1> DEFINE R == OpToRel(<, Nat)
<1>1. IsWellFoundedOn(R, Nat)
  BY NatLessThanWellFounded
<1>2. R = {ss \in Nat \X Nat : ss[1] < ss[2]}
  BY Zenon DEF OpToRel
<1>3. ASSUME NEW x \in Nat, NEW y \in Nat, x < y PROVE <<x, y>> \in R
  <2>1. <<x, y>>[1] = x /\ <<x, y>>[2] = y /\ <<x, y>> \in Nat \X Nat
    OBVIOUS
  <2> HIDE DEF R
  <2> QED  BY <1>2, <1>3, <2>1, Zenon
<1> HIDE DEF R
<1>4. PICK m \in Nat \ T : \A n \in Nat \ T : ~(<<n, m>> \in R)
  <2>1. Nat \ T \subseteq Nat  OBVIOUS
  <2> QED  BY <1>1, <2>1, WFMin
<1>5. m # 0 /\ m - 1 \in Nat /\ (m - 1) + 1 = m
  BY <1>4
<1>6. m - 1 \in T
  <2>1. m - 1 < m  BY <1>5
  <2>2. <<m - 1, m>> \in R  BY <1>3, <1>5, <2>1
  <2> QED  BY <1>4, <1>5, <2>2
<1> QED  BY <1>4, <1>5, <1>6

\* What OtherRows has gone through after m rows.
Going(g, rows, id, n) ==
  IF n = 0 THEN <<>>
  ELSE IF rows[n].id = id THEN g[n - 1] ELSE Append(g[n - 1], rows[n])
KeptUpTo(g, rows, id, m) == g = [n \in 0..m |-> Going(g, rows, id, n)]

LEMMA KeptExists ==
  ASSUME NEW rows, NEW id, NEW m \in Nat
  PROVE  \E g : KeptUpTo(g, rows, id, m)
<1> DEFINE T == {n \in Nat : \E g : KeptUpTo(g, rows, id, n)}
<1>1. 0 \in T
  <2> DEFINE g == [n \in 0..0 |-> <<>>]
  <2>1. KeptUpTo(g, rows, id, 0)
    <3>1. \A n \in 0..0 : n = 0  OBVIOUS
    <3> QED  BY <3>1 DEF KeptUpTo, Going
  <2> QED  BY <2>1
<1>2. ASSUME NEW n \in T PROVE n + 1 \in T
  <2>1. PICK g : KeptUpTo(g, rows, id, n)
    OBVIOUS
  <2> DEFINE row == IF rows[n + 1].id = id THEN g[n] ELSE Append(g[n], rows[n + 1])
  <2> PICK last : last = row
    OBVIOUS
  <2> PICK h : h = [k \in 0..(n + 1) |-> IF k = n + 1 THEN last ELSE g[k]]
    OBVIOUS
  <2>2. n \in Nat /\ n + 1 \in Nat /\ (n + 1) - 1 = n /\ n + 1 # 0
    OBVIOUS
  <2>3. /\ \A k \in 0..(n + 1) : k # n + 1 => k \in 0..n
        /\ \A k \in 0..n : k \in 0..(n + 1) /\ k # n + 1
        /\ \A k \in 0..(n + 1) : k # 0 => k - 1 \in 0..n
        /\ n \in 0..n /\ n + 1 \in 0..(n + 1)
    BY <2>2
  <2>4. \A k \in 0..n : h[k] = g[k]
    BY <2>3
  <2>5. h[n + 1] = last
    BY <2>3
  <2>6. \A k \in 0..n : g[k] = IF k = 0 THEN <<>>
                               ELSE IF rows[k].id = id THEN g[k - 1] ELSE Append(g[k - 1], rows[k])
    BY <2>1 DEF KeptUpTo, Going
  <2>7. ASSUME NEW k \in 0..(n + 1)
        PROVE  h[k] = IF k = 0 THEN <<>>
                      ELSE IF rows[k].id = id THEN h[k - 1] ELSE Append(h[k - 1], rows[k])
    <3>1. CASE k = n + 1
      <4>1. h[k] = row /\ k - 1 = n /\ h[k - 1] = g[n] /\ k # 0
        BY <2>2, <2>3, <2>4, <2>5, <3>1
      <4> QED  BY <3>1, <4>1
    <3>2. CASE k # n + 1
      <4>1. k \in 0..n /\ h[k] = g[k] /\ (k # 0 => h[k - 1] = g[k - 1])
        BY <2>2, <2>3, <2>4, <3>2
      <4> QED  BY <2>6, <4>1
    <3> QED  BY <3>1, <3>2
  <2>8. KeptUpTo(h, rows, id, n + 1)
    <3>1. h = [k \in 0..(n + 1) |-> h[k]]  OBVIOUS
    <3>2. \A k \in 0..(n + 1) : h[k] = Going(h, rows, id, k)  BY <2>7 DEF Going
    <3>3. h = [k \in 0..(n + 1) |-> Going(h, rows, id, k)]  BY <3>1, <3>2
    <3> QED  BY <3>3 DEF KeptUpTo
  <2> QED  BY <2>2, <2>8
<1> HIDE DEF T
<1>3. T = Nat
  <2>1. T \in SUBSET Nat  BY DEF T
  <2> QED  BY <1>1, <1>2, <2>1, CountingUp
<1> QED  BY <1>3 DEF T

LEMMA KeptRows ==
  ASSUME NEW S, NEW rows \in Seq(S), NEW id, NEW g, KeptUpTo(g, rows, id, Len(rows))
  PROVE  \A m \in 0..Len(rows) :
           /\ g[m] \in Seq(S)
           /\ \A k \in 1..Len(g[m]) : \E i \in 1..m : g[m][k] = rows[i] /\ rows[i].id # id
           /\ \A i \in 1..m : rows[i].id # id => \E k \in 1..Len(g[m]) : g[m][k] = rows[i]
<1> DEFINE Fine(m) ==
      /\ g[m] \in Seq(S)
      /\ \A k \in 1..Len(g[m]) : \E i \in 1..m : g[m][k] = rows[i] /\ rows[i].id # id
      /\ \A i \in 1..m : rows[i].id # id => \E k \in 1..Len(g[m]) : g[m][k] = rows[i]
    T == {m \in Nat : m <= Len(rows) => Fine(m)}
<1>0. Len(rows) \in Nat  BY LenProperties
<1>1. \A m \in 0..Len(rows) :
        g[m] = IF m = 0 THEN <<>>
               ELSE IF rows[m].id = id THEN g[m - 1] ELSE Append(g[m - 1], rows[m])
  BY DEF KeptUpTo, Going
<1>2. 0 \in T
  <2>1. g[0] = <<>>  BY <1>0, <1>1
  <2>2. g[0] \in Seq(S) /\ Len(g[0]) = 0  BY <2>1, EmptySeq
  <2>3. 1..0 = {}  OBVIOUS
  <2>4. Fine(0)  BY <2>2, <2>3
  <2> QED  BY <2>4
<1>3. ASSUME NEW m \in T PROVE m + 1 \in T
  <2>0. m \in Nat /\ m + 1 \in Nat /\ (m + 1) - 1 = m /\ m + 1 # 0
    OBVIOUS
  <2> SUFFICES ASSUME m + 1 <= Len(rows) PROVE Fine(m + 1)
    BY <2>0
  <2>1. m <= Len(rows) /\ m + 1 \in 0..Len(rows) /\ m + 1 \in 1..Len(rows)
    BY <1>0, <2>0
  <2>2. Fine(m)  BY <2>1
  <2>3. g[m + 1] = IF rows[m + 1].id = id THEN g[m] ELSE Append(g[m], rows[m + 1])
    BY <1>1, <2>0, <2>1
  <2>4. \A i \in 1..(m + 1) : i = m + 1 \/ i \in 1..m
    BY <2>0
  <2>5. \A i \in 1..m : i \in 1..(m + 1)
    BY <2>0
  <2> HIDE DEF T
  <2>6. CASE rows[m + 1].id = id
    <3>1. g[m + 1] = g[m]  BY <2>3, <2>6
    <3>2. g[m + 1] \in Seq(S)  BY <2>2, <3>1
    <3>3. \A k \in 1..Len(g[m + 1]) : \E i \in 1..(m + 1) : g[m + 1][k] = rows[i] /\ rows[i].id # id
      BY <2>2, <2>5, <3>1
    <3>4. \A i \in 1..(m + 1) : rows[i].id # id => \E k \in 1..Len(g[m + 1]) : g[m + 1][k] = rows[i]
      BY <2>2, <2>4, <2>6, <3>1
    <3> QED  BY <3>2, <3>3, <3>4
  <2>7. CASE rows[m + 1].id # id
    <3>1. g[m + 1] = Append(g[m], rows[m + 1])  BY <2>3, <2>7
    <3>2. rows[m + 1] \in S  BY <2>1, ElementOfSeq
    <3> PICK old : old = g[m]
      OBVIOUS
    <3> PICK new : new = g[m + 1]
      OBVIOUS
    <3>3. /\ old \in Seq(S) /\ Len(old) \in Nat /\ new \in Seq(S) /\ Len(new) = Len(old) + 1
          /\ new[Len(old) + 1] = rows[m + 1] /\ \A k \in 1..Len(old) : new[k] = old[k]
      BY <2>2, <3>1, <3>2, AppendProperties, LenProperties
    <3>4. /\ \A k \in 1..Len(new) : k = Len(old) + 1 \/ k \in 1..Len(old)
          /\ \A k \in 1..Len(old) : k \in 1..Len(new)
          /\ Len(old) + 1 \in 1..Len(new)
      BY <3>3
    <3>5. ASSUME NEW k \in 1..Len(new) PROVE \E i \in 1..(m + 1) : new[k] = rows[i] /\ rows[i].id # id
      <4>1. CASE k = Len(old) + 1
        <5>1. m + 1 \in 1..(m + 1)  BY <2>0
        <5> QED  BY <2>7, <3>3, <4>1, <5>1
      <4>2. CASE k \in 1..Len(old)
        BY <2>2, <2>5, <3>3, <4>2
      <4> QED  BY <3>4, <4>1, <4>2
    <3>6. ASSUME NEW i \in 1..(m + 1), rows[i].id # id PROVE \E k \in 1..Len(new) : new[k] = rows[i]
      <4>1. CASE i = m + 1
        BY <3>3, <3>4, <4>1
      <4>2. CASE i \in 1..m
        <5>1. PICK k \in 1..Len(old) : old[k] = rows[i]  BY <2>2, <3>6, <4>2
        <5> QED  BY <3>3, <3>4, <5>1
      <4> QED  BY <2>4, <4>1, <4>2
    <3> QED  BY <3>3, <3>5, <3>6
  <2> QED  BY <2>6, <2>7
<1> HIDE DEF T
<1>4. T = Nat
  <2>1. T \in SUBSET Nat  BY DEF T
  <2> QED  BY <1>2, <1>3, <2>1, CountingUp
<1>5. \A m \in 0..Len(rows) : m \in Nat /\ m <= Len(rows)
  BY <1>0
<1> HIDE DEF Fine
<1>6. \A m \in 0..Len(rows) : Fine(m)
  BY <1>4, <1>5 DEF T
<1> QED  BY <1>6 DEF Fine

\* OtherRows keeps the rows of the other conversations, and nothing else.
RowsWithout(others, rows, id) ==
  /\ \A k \in 1..Len(others) : \E i \in 1..Len(rows) : others[k] = rows[i] /\ rows[i].id # id
  /\ \A i \in 1..Len(rows) : rows[i].id # id => \E k \in 1..Len(others) : others[k] = rows[i]

LEMMA OthersKept ==
  ASSUME NEW S, NEW rows \in Seq(S), NEW id, NEW others, others = OtherRows(rows, id)
  PROVE  others \in Seq(S) /\ RowsWithout(others, rows, id)
<1>1. Len(rows) \in Nat /\ Len(rows) \in 0..Len(rows)
  BY LenProperties
<1> DEFINE g == CHOOSE h : KeptUpTo(h, rows, id, Len(rows))
<1>2. others = g[Len(rows)]
  BY DEF OtherRows, KeptUpTo, Going
<1>3. KeptUpTo(g, rows, id, Len(rows))
  BY <1>1, KeptExists
<1> HIDE DEF g
<1> QED  BY <1>1, <1>2, <1>3, KeptRows DEF RowsWithout

Said    == [from : Workspaces, n : Nat, answered : BOOLEAN]
Row     == [id : Nat, messages : Seq(Said)]
Context == [id : Nat, messages : Seq(Said), list : Seq(Row)]
Session == [open : BOOLEAN, project : Workspaces, now : Context, saved : [Workspaces -> Context],
            loaded : SUBSET Workspaces, at : Positions, to : Workspaces]

\* The last turn of a conversation is in what the list has of it.
HasTurn(messages, n) == \E k \in 1..Len(messages) : messages[k].n = n
Listed(c) ==
  \A i \in 1..Len(c.list) : c.list[i].id = c.id =>
    HasTurn(c.list[i].messages, c.messages[Len(c.messages)].n)

\* What the position of a script says of its session.
Waits(x) ==
  /\ ~x.open => x = Closed
  /\ x.at \in {"asking", "answered"} => Len(x.now.messages) > 0
  /\ x.at = "answered" => Listed(x.now)
  /\ x.at \in {"leaving", "left"} => x.to # x.project

TalkTypes ==
  /\ stored \in [Workspaces -> Seq(Row)]
  /\ tab \in [Tabs -> Session]
  /\ \A t \in Tabs : Waits(tab[t])
  /\ listed \subseteq Workspaces /\ listed # {}
  /\ turns \in Nat /\ threads \in Nat
  /\ acked \subseteq Workspaces \X Nat \X Nat
  /\ orphaned \in BOOLEAN /\ split \in BOOLEAN

\* The answered turns that count: two tabs did not hold their conversation.
Counted == {a \in acked : a[2] \notin sharedIds}

\* A conversation of project p that shows turns of p only, and of the turns A
\* all that are its own; its identifier is one of the n handed out.
Holding(id, messages, p, A, n) ==
  /\ id \in 1..n
  /\ Asked(messages, p)
  /\ \A a \in A : a[1] = p /\ a[2] = id => HasTurn(messages, a[3])
RowsHold(rows, p, A, n) ==
  \A i \in 1..Len(rows) : Holding(rows[i].id, rows[i].messages, p, A, n)
ContextHolds(c, p, A, n) == Holding(c.id, c.messages, p, A, n) /\ RowsHold(c.list, p, A, n)
KeptHolds(c, p, A, n) == c = NoContext \/ ContextHolds(c, p, A, n)

TabHolds(x, A, n) ==
  /\ ContextHolds(x.now, x.project, A, n)
  /\ \A p \in x.loaded \ {x.project} : KeptHolds(x.saved[p], p, A, n)

TableIs(s, A, n) == \A p \in Workspaces : RowsHold(s[p], p, A, n)
InTable(a, s) == \E i \in 1..Len(s[a[1]]) : s[a[1]][i].id = a[2]

TalkHolds ==
  /\ TableIs(stored, Counted, threads)
  /\ \A t \in Tabs : tab[t].open => tab[t].project \in listed /\ TabHolds(tab[t], Counted, threads)
  /\ \A a \in Counted : a[2] \in 1..threads /\ InTable(a, stored)

Calm == ~orphaned /\ ~split
TalkInv == TalkTypes /\ (Calm => TalkHolds)

LEMMA ContextsTyped ==
  /\ NoContext \in Context /\ NoContext.id = 0 /\ NoContext.messages = <<>> /\ NoContext.list = <<>>
  /\ Closed \in Session /\ ~Closed.open /\ Closed.at = "rest" /\ Closed.now = NoContext
  /\ \A id \in Nat : FreshContext(id) \in Context /\ FreshContext(id).id = id
                     /\ FreshContext(id).messages = <<>> /\ FreshContext(id).list = <<>>
<1>1. \A id \in Nat : FreshContext(id) \in Context /\ FreshContext(id).id = id
                      /\ FreshContext(id).messages = <<>> /\ FreshContext(id).list = <<>>
  BY EmptySeq DEF FreshContext, Context
<1>2. NoContext \in Context /\ NoContext.id = 0 /\ NoContext.messages = <<>> /\ NoContext.list = <<>>
  BY <1>1 DEF NoContext
<1>3. Closed \in Session /\ ~Closed.open /\ Closed.at = "rest" /\ Closed.now = NoContext
  BY <1>2, HomeAssumption DEF Closed, Session, Positions
<1> QED  BY <1>1, <1>2, <1>3

\* Fewer turns, or more identifiers, and it still holds.
LEMMA HoldsStill ==
  ASSUME NEW A, NEW B \in SUBSET A, NEW n \in Nat, NEW m \in Nat, n <= m
  PROVE  /\ \A rows, p : RowsHold(rows, p, A, n) => RowsHold(rows, p, B, m)
         /\ \A c, p : ContextHolds(c, p, A, n) => ContextHolds(c, p, B, m)
         /\ \A x : TabHolds(x, A, n) => TabHolds(x, B, m)
<1>1. ASSUME NEW id, NEW messages, NEW p, Holding(id, messages, p, A, n)
      PROVE  Holding(id, messages, p, B, m)
  BY <1>1 DEF Holding
<1>2. ASSUME NEW rows, NEW p, RowsHold(rows, p, A, n) PROVE RowsHold(rows, p, B, m)
  BY <1>1, <1>2 DEF RowsHold
<1>3. ASSUME NEW c, NEW p, ContextHolds(c, p, A, n) PROVE ContextHolds(c, p, B, m)
  BY <1>1, <1>2, <1>3 DEF ContextHolds
<1>4. ASSUME NEW x, TabHolds(x, A, n) PROVE TabHolds(x, B, m)
  BY <1>3, <1>4 DEF TabHolds, KeptHolds
<1> QED  BY <1>2, <1>3, <1>4

LEMMA EmptyHolds ==
  ASSUME NEW id, NEW p, NEW A, NEW n \in Nat, id \in 1..n, \A a \in A : a[2] # id
  PROVE  Holding(id, <<>>, p, A, n) /\ RowsHold(<<>>, p, A, n)
<1>1. Len(<<>>) = 0 /\ 1..0 = {}  OBVIOUS
<1> QED  BY <1>1 DEF Holding, RowsHold, Asked

LEMMA FirstRows ==
  ASSUME NEW rows \in Seq(Row)
  PROVE  /\ FirstN(rows) \in Seq(Row)
         /\ rows # <<>> => FirstN(rows) # <<>>
         /\ \A i \in 1..Len(FirstN(rows)) : i \in 1..Len(rows) /\ FirstN(rows)[i] = rows[i]
         /\ \A p, A, n : RowsHold(rows, p, A, n) => RowsHold(FirstN(rows), p, A, n)
<1> PICK k : k = IF Len(rows) < ListLimit THEN Len(rows) ELSE ListLimit
  OBVIOUS
<1>1. k \in 0..Len(rows) /\ Len(rows) \in Nat /\ (Len(rows) > 0 => k > 0)
  BY LenProperties, LimitsAssumption
<1> PICK first : first = SubSeq(rows, 1, k)
  OBVIOUS
<1>2. /\ first \in Seq(Row) /\ Len(first) = k
      /\ \A i \in 1..k : first[i] = rows[i] /\ i \in 1..Len(rows)
  <2>1. 1 \in 1..(Len(rows) + 1) /\ k \in 0..Len(rows) /\ k - 1 + 1 = k /\ 1 - 1 <= k
    BY <1>1
  <2>2. \A i \in 1..k : i \in 1..Len(rows) /\ 1 + i - 1 = i
    BY <1>1
  <2> QED  BY <1>1, <2>1, <2>2, SubSeqProperties
<1>3. FirstN(rows) = first
  BY DEF FirstN
<1>4. rows # <<>> => first # <<>>
  BY <1>1, <1>2, EmptySeq
<1>5. ASSUME NEW p, NEW A, NEW n, RowsHold(rows, p, A, n) PROVE RowsHold(first, p, A, n)
  BY <1>2, <1>5 DEF RowsHold
<1> QED  BY <1>2, <1>3, <1>4, <1>5

\* Saving a conversation: its row is the first, the others stay.
RowsUnder(front, rows, item) ==
  /\ Len(front) > 0 /\ front[1] = item
  /\ \A k \in 1..Len(front) :
       front[k] = item \/ \E i \in 1..Len(rows) : front[k] = rows[i] /\ rows[i].id # item.id
  /\ \A i \in 1..Len(rows) : rows[i].id # item.id => \E k \in 1..Len(front) : front[k] = rows[i]

LEMMA FrontRows ==
  ASSUME NEW rows \in Seq(Row), NEW item \in Row, NEW front, front = ToFront(rows, item)
  PROVE  front \in Seq(Row) /\ RowsUnder(front, rows, item)
<1> PICK id : id = item.id
  OBVIOUS
<1> PICK others : others = OtherRows(rows, id)
  OBVIOUS
<1>0. front = <<item>> \o others
  BY DEF ToFront
<1>1. others \in Seq(Row) /\ RowsWithout(others, rows, id)
  BY OthersKept
<1>2. <<item>> \in Seq(Row) /\ Len(<<item>>) = 1 /\ <<item>>[1] = item
  OBVIOUS
<1>4. /\ front \in Seq(Row) /\ Len(others) \in Nat /\ Len(front) = 1 + Len(others)
      /\ front[1] = item /\ \A k \in 1..Len(others) : front[1 + k] = others[k]
  <2>1. Len(others) \in Nat  BY <1>1, LenProperties
  <2>2. /\ front \in Seq(Row) /\ Len(front) = 1 + Len(others)
        /\ \A i \in 1..(1 + Len(others)) : front[i] = IF i <= 1 THEN <<item>>[i] ELSE others[i - 1]
    BY <1>0, <1>1, <1>2, ConcatProperties
  <2>3. /\ 1 \in 1..(1 + Len(others)) /\ 1 <= 1
        /\ \A k \in 1..Len(others) : 1 + k \in 1..(1 + Len(others)) /\ ~(1 + k <= 1) /\ (1 + k) - 1 = k
    BY <2>1
  <2>4. front[1] = item  BY <1>2, <2>2, <2>3
  <2>5. \A k \in 1..Len(others) : front[1 + k] = others[k]  BY <2>2, <2>3
  <2> QED  BY <2>1, <2>2, <2>4, <2>5
<1>5. ASSUME NEW k \in 1..Len(front)
      PROVE  front[k] = item \/ \E i \in 1..Len(rows) : front[k] = rows[i] /\ rows[i].id # id
  <2>1. CASE k = 1  BY <1>4, <2>1
  <2>2. CASE k # 1
    <3>1. k - 1 \in 1..Len(others) /\ 1 + (k - 1) = k  BY <1>4, <2>2
    <3>2. front[k] = others[k - 1]  BY <1>4, <3>1
    <3>3. \E i \in 1..Len(rows) : others[k - 1] = rows[i] /\ rows[i].id # id
      BY <1>1, <3>1 DEF RowsWithout
    <3> QED  BY <3>2, <3>3
  <2> QED  BY <2>1, <2>2
<1>6. ASSUME NEW i \in 1..Len(rows), rows[i].id # id
      PROVE  \E k \in 1..Len(front) : front[k] = rows[i]
  <2>1. PICK k \in 1..Len(others) : others[k] = rows[i]  BY <1>1, <1>6 DEF RowsWithout
  <2>2. 1 + k \in 1..Len(front) /\ front[1 + k] = others[k]  BY <1>4
  <2> QED  BY <2>1, <2>2
<1>7. \A i \in 1..Len(rows) : rows[i].id # id => \E k \in 1..Len(front) : front[k] = rows[i]
  BY <1>6
<1>8. Len(front) > 0  BY <1>4
<1> QED  BY <1>4, <1>5, <1>7, <1>8 DEF RowsUnder

\* The rows of the others hold what they held, whatever the saved one gains.
LEMMA FrontHolds ==
  ASSUME NEW rows \in Seq(Row), NEW item \in Row, NEW p, NEW A, NEW B, NEW n \in Nat,
         NEW m \in Nat, n <= m,
         RowsHold(rows, p, A, n), Holding(item.id, item.messages, p, B, m),
         \A b \in B : b \in A \/ b[2] = item.id, NEW front, front = ToFront(rows, item)
  PROVE  RowsHold(front, p, B, m)
<1>1. \A k \in 1..Len(front) :
        \/ front[k] = item
        \/ \E i \in 1..Len(rows) : front[k] = rows[i] /\ rows[i].id # item.id
  <2>1. RowsUnder(front, rows, item)  BY FrontRows
  <2> QED  BY <2>1 DEF RowsUnder
<1>2. ASSUME NEW i \in 1..Len(rows), rows[i].id # item.id
      PROVE  Holding(rows[i].id, rows[i].messages, p, B, m)
  <2>1. Holding(rows[i].id, rows[i].messages, p, A, n)  BY DEF RowsHold
  <2> QED  BY <1>2, <2>1 DEF Holding
<1> QED  BY <1>1, <1>2 DEF RowsHold

LEMMA ItemTyped ==
  ASSUME NEW c \in Context
  PROVE  Item(c) \in Row /\ Item(c).id = c.id /\ Item(c).messages = c.messages
BY DEF Context, Row, Item

\* sync_active_conversation_state, of the session ...
LEMMA SyncedHolds ==
  ASSUME NEW c \in Context, NEW p, NEW A, NEW B, NEW n \in Nat, NEW m \in Nat, n <= m,
         RowsHold(c.list, p, A, n), Holding(c.id, c.messages, p, B, m),
         \A b \in B : b \in A \/ (b[2] = c.id /\ c.messages # <<>>)
  PROVE  /\ SyncedContext(c) \in Context /\ ContextHolds(SyncedContext(c), p, B, m)
         /\ SyncedContext(c).id = c.id /\ SyncedContext(c).messages = c.messages
<1> PICK s : s = SyncedContext(c)
  OBVIOUS
<1>1. CASE c.messages = <<>>
  <2>1. s = c /\ B \in SUBSET A  BY <1>1 DEF SyncedContext
  <2>2. RowsHold(c.list, p, B, m)  BY <2>1, HoldsStill
  <2> QED  BY <2>1, <2>2 DEF ContextHolds
<1>2. CASE c.messages # <<>>
  <2> PICK front : front = ToFront(c.list, Item(c))
    OBVIOUS
  <2> PICK list : list = FirstN(front)
    OBVIOUS
  <2>1. Item(c) \in Row /\ Item(c).id = c.id /\ Item(c).messages = c.messages /\ c.list \in Seq(Row)
    BY ItemTyped DEF Context
  <2>2. front \in Seq(Row) /\ RowsHold(front, p, B, m)
    BY <2>1, FrontRows, FrontHolds
  <2>3. list \in Seq(Row) /\ RowsHold(list, p, B, m)
    BY <2>2, FirstRows
  <2>4. s = [c EXCEPT !.list = list]
    BY <1>2 DEF SyncedContext
  <2>5. s \in Context /\ s.id = c.id /\ s.messages = c.messages /\ s.list = list
    BY <2>3, <2>4 DEF Context
  <2> QED  BY <2>3, <2>5 DEF ContextHolds
<1> QED  BY <1>1, <1>2

LEMMA SyncedTyped ==
  ASSUME NEW c \in Context
  PROVE  /\ SyncedContext(c) \in Context
         /\ SyncedContext(c).id = c.id /\ SyncedContext(c).messages = c.messages
<1> PICK front : front = ToFront(c.list, Item(c))
  OBVIOUS
<1> PICK list : list = FirstN(front)
  OBVIOUS
<1>1. list \in Seq(Row)
  BY ItemTyped, FrontRows, FirstRows DEF Context
<1>2. [c EXCEPT !.list = list] \in Context /\ [c EXCEPT !.list = list].id = c.id
      /\ [c EXCEPT !.list = list].messages = c.messages
  BY <1>1 DEF Context
<1> QED  BY <1>2 DEF SyncedContext

\* ... and of the table: the row is there, and so are all that were.
LEMMA TableHolds ==
  ASSUME NEW s \in [Workspaces -> Seq(Row)], s = stored, NEW q \in Workspaces, NEW c \in Context,
         NEW A, NEW B, NEW n \in Nat, NEW m \in Nat, n <= m,
         TableIs(s, A, n), Holding(c.id, c.messages, q, B, m),
         \A b \in B : b \in A \/ (b[1] = q /\ b[2] = c.id /\ c.messages # <<>>)
  PROVE  /\ SyncedRows(q, c) \in [Workspaces -> Seq(Row)]
         /\ TableIs(SyncedRows(q, c), B, m)
         /\ \A a \in Workspaces \X Nat \X Nat : InTable(a, s) => InTable(a, SyncedRows(q, c))
         /\ c.messages # <<>> => \A a : a[1] = q /\ a[2] = c.id => InTable(a, SyncedRows(q, c))
<1> PICK new : new = SyncedRows(q, c)
  OBVIOUS
<1>1. CASE c.messages = <<>>
  <2>1. new = s /\ B \in SUBSET A  BY <1>1 DEF SyncedRows
  <2>2. \A p \in Workspaces : RowsHold(s[p], p, B, m)  BY <2>1, HoldsStill DEF TableIs
  <2> QED  BY <1>1, <2>1, <2>2 DEF TableIs
<1>2. CASE c.messages # <<>>
  <2> PICK front : front = ToFront(s[q], Item(c))
    OBVIOUS
  <2>1. Item(c) \in Row /\ Item(c).id = c.id /\ Item(c).messages = c.messages
    BY ItemTyped
  <2>2. /\ front \in Seq(Row) /\ Len(front) > 0 /\ front[1] = Item(c)
        /\ \A i \in 1..Len(s[q]) : s[q][i].id # c.id => \E k \in 1..Len(front) : front[k] = s[q][i]
    <3>1. front \in Seq(Row) /\ RowsUnder(front, s[q], Item(c))  BY <2>1, FrontRows
    <3> QED  BY <2>1, <3>1 DEF RowsUnder
  <2>3. \A p \in Workspaces : new[p] = IF p = q THEN front ELSE s[p]
    BY <1>2 DEF SyncedRows
  <2>4. new \in [Workspaces -> Seq(Row)]
    BY <1>2, <2>2 DEF SyncedRows
  <2>5. ASSUME NEW p \in Workspaces PROVE RowsHold(new[p], p, B, m)
    <3>1. CASE p = q
      <4>1. RowsHold(s[q], q, A, n)  BY DEF TableIs
      <4>2. RowsHold(front, q, B, m)
        BY <2>1, <4>1, FrontHolds
      <4> QED  BY <2>3, <3>1, <4>2
    <3>2. CASE p # q
      <4>1. \A i \in 1..Len(s[p]) : Holding(s[p][i].id, s[p][i].messages, p, B, m)
        BY <3>2 DEF RowsHold, Holding, TableIs
      <4> QED  BY <2>3, <3>2, <4>1 DEF RowsHold
    <3> QED  BY <3>1, <3>2
  <2>6. Len(front) \in Nat /\ 1 \in 1..Len(front)
    BY <2>2, LenProperties
  <2>7. ASSUME NEW a, a[1] = q, a[2] = c.id PROVE InTable(a, new)
    BY <2>1, <2>2, <2>3, <2>6, <2>7 DEF InTable
  <2>8. ASSUME NEW a \in Workspaces \X Nat \X Nat, InTable(a, s) PROVE InTable(a, new)
    <3>0. a[1] \in Workspaces  OBVIOUS
    <3>1. CASE a[1] = q /\ a[2] # c.id
      <4>1. PICK i \in 1..Len(s[q]) : s[q][i].id = a[2]  BY <2>8, <3>1 DEF InTable
      <4>2. PICK k \in 1..Len(front) : front[k] = s[q][i]  BY <2>2, <3>1, <4>1
      <4>3. new[a[1]] = front  BY <2>3, <3>1
      <4> QED  BY <4>1, <4>2, <4>3 DEF InTable
    <3>2. CASE a[1] # q
      BY <2>3, <2>8, <3>0, <3>2 DEF InTable
    <3>3. CASE a[1] = q /\ a[2] = c.id
      BY <2>7, <3>3
    <3> QED  BY <3>1, <3>2, <3>3
  <2> QED  BY <2>4, <2>5, <2>7, <2>8 DEF TableIs
<1> QED  BY <1>1, <1>2

\* What is read from the table is as good as the table.
LEMMA ReadTyped ==
  ASSUME NEW rows \in Seq(Row), NEW id \in Nat
  PROVE  FromStore(rows, id) \in Context
<1>1. CASE rows = <<>>
  BY <1>1, ContextsTyped DEF FromStore
<1>2. CASE rows # <<>>
  <2> PICK c : c = [id |-> rows[1].id, messages |-> rows[1].messages, list |-> FirstN(rows)]
    OBVIOUS
  <2>1. Len(rows) \in Nat /\ Len(rows) # 0  BY <1>2, LenProperties, EmptySeq
  <2>2. rows[1] \in Row  BY <2>1, ElementOfSeq
  <2>3. FirstN(rows) \in Seq(Row)  BY FirstRows
  <2>4. c \in Context  BY <2>2, <2>3 DEF Row, Context
  <2> QED  BY <1>2, <2>4 DEF FromStore
<1> QED  BY <1>1, <1>2

LEMMA ReadHolds ==
  ASSUME NEW rows \in Seq(Row), NEW id \in Nat, NEW p, NEW A, NEW n, RowsHold(rows, p, A, n),
         NEW c, c = FromStore(FirstN(rows), id)
  PROVE  (rows = <<>> /\ c = FreshContext(id)) \/ (rows # <<>> /\ ContextHolds(c, p, A, n))
<1> PICK first : first = FirstN(rows)
  OBVIOUS
<1>1. /\ first \in Seq(Row) /\ RowsHold(first, p, A, n) /\ (rows # <<>> => first # <<>>)
      /\ \A i \in 1..Len(first) : i \in 1..Len(rows)
  BY FirstRows
<1>2. CASE rows = <<>>
  <2>1. Len(first) \in Nat /\ \A i \in 1..Len(first) : FALSE
    BY <1>1, <1>2, LenProperties
  <2>2. first = <<>>  BY <1>1, <2>1, EmptySeq
  <2> QED  BY <1>2, <2>2 DEF FromStore
<1>3. CASE rows # <<>>
  <2>1. c = [id |-> first[1].id, messages |-> first[1].messages, list |-> FirstN(first)]
    BY <1>1, <1>3 DEF FromStore
  <2>2. Len(first) \in Nat /\ 1 \in 1..Len(first)
    <3>1. Len(first) \in Nat /\ Len(first) # 0  BY <1>1, <1>3, LenProperties, EmptySeq
    <3> QED  BY <3>1
  <2>3. Holding(first[1].id, first[1].messages, p, A, n)
    BY <1>1, <2>2 DEF RowsHold
  <2>4. RowsHold(FirstN(first), p, A, n)
    BY <1>1, FirstRows
  <2>5. c.id = first[1].id /\ c.messages = first[1].messages /\ c.list = FirstN(first)
    BY <2>1
  <2> QED  BY <1>3, <2>3, <2>4, <2>5 DEF ContextHolds
<1> QED  BY <1>2, <1>3

\* What counts does not grow but by a save, and a tab that holds what counted
\* holds what counts still.
LEMMA CountsLess ==
  ASSUME TalkInv, Noted, acked' \subseteq acked, threads' \in Nat, threads <= threads', split => split', Calm'
  PROVE  /\ TableIs(stored, Counted', threads')
         /\ \A u \in Tabs : tab[u].open => tab[u].project \in listed /\ TabHolds(tab[u], Counted', threads')
         /\ \A a \in Counted' : a[2] \in 1..threads' /\ a[2] \in 1..threads /\ InTable(a, stored)
<1>1. sharedIds \subseteq sharedIds' /\ ~orphaned /\ ~split
  BY DEF Noted, Calm
<1>2. TalkHolds /\ threads \in Nat
  BY <1>1 DEF TalkInv, TalkTypes, Calm
<1> PICK A : A = Counted
  OBVIOUS
<1> PICK B \in SUBSET A : B = Counted'
  BY <1>1 DEF Counted
<1>3. /\ \A rows, p : RowsHold(rows, p, A, threads) => RowsHold(rows, p, B, threads')
      /\ \A x : TabHolds(x, A, threads) => TabHolds(x, B, threads')
  BY <1>2, HoldsStill
<1>4. TableIs(stored, B, threads')
  BY <1>2, <1>3 DEF TalkHolds, TableIs
<1>5. \A u \in Tabs : tab[u].open => tab[u].project \in listed /\ TabHolds(tab[u], B, threads')
  BY <1>2, <1>3 DEF TalkHolds
<1>6. \A a \in B : a[2] \in 1..threads' /\ a[2] \in 1..threads /\ InTable(a, stored)
  <2>1. \A a \in B : a[2] \in 1..threads /\ InTable(a, stored)
    BY <1>2 DEF TalkHolds
  <2>2. \A n \in 1..threads : n \in 1..threads'
    BY <1>2
  <2> QED  BY <2>1, <2>2
<1> QED  BY <1>4, <1>5, <1>6

\* A step of one tab.
LEMMA TabStep ==
  ASSUME TalkInv, Noted, NEW t \in Tabs, NEW x \in Session, tab' = [tab EXCEPT ![t] = x], Waits(x),
         listed' = listed, turns' \in Nat, threads' \in Nat, stored' \in [Workspaces -> Seq(Row)],
         acked' \subseteq Workspaces \X Nat \X Nat, split' \in BOOLEAN,
         Calm' =>
           /\ TableIs(stored', Counted', threads')
           /\ \A u \in Tabs \ {t} : tab[u].open => TabHolds(tab[u], Counted', threads')
           /\ x.open => TabHolds(x, Counted', threads')
           /\ \A a \in Counted' : a[2] \in 1..threads' /\ InTable(a, stored')
  PROVE  TalkInv'
<1>1. /\ tab' \in [Tabs -> Session]
      /\ \A u \in Tabs : tab'[u] = IF u = t THEN x ELSE tab[u]
  BY DEF TalkInv, TalkTypes
<1>2. orphaned' \in BOOLEAN /\ (~orphaned' => \A u \in Tabs : tab'[u].open => tab'[u].project \in listed)
  BY DEF Noted, TalkInv, TalkTypes
<1>3. TalkTypes'
  <2>1. \A u \in Tabs : Waits(tab'[u])
    BY <1>1 DEF TalkInv, TalkTypes
  <2> QED  BY <1>1, <1>2, <2>1 DEF TalkInv, TalkTypes
<1>4. ASSUME Calm' PROVE TalkHolds'
  <2>1. ASSUME NEW u \in Tabs, tab'[u].open PROVE tab'[u].project \in listed' /\ TabHolds(tab'[u], Counted', threads')
    <3>1. tab'[u].project \in listed'  BY <1>2, <1>4, <2>1 DEF Calm
    <3>2. CASE u = t
      <4>1. tab'[u] = x  BY <1>1, <3>2
      <4> QED  BY <1>4, <2>1, <3>1, <4>1
    <3>3. CASE u # t
      <4>1. tab'[u] = tab[u]  BY <1>1, <3>3
      <4> QED  BY <1>4, <2>1, <3>1, <3>3, <4>1
    <3> QED  BY <3>2, <3>3
  <2>2. (\A u \in Tabs : tab[u].open => tab[u].project \in listed /\ TabHolds(tab[u], Counted, threads))'
    BY <2>1
  <2>3. TableIs(stored, Counted, threads)'
    BY <1>4
  <2>4. (\A a \in Counted : a[2] \in 1..threads /\ InTable(a, stored))'
    BY <1>4
  <2> QED  BY <2>2, <2>3, <2>4 DEF TalkHolds
<1> QED  BY <1>3, <1>4 DEF TalkInv

\* A step of a tab that writes nothing to the table.
LEMMA QuietTabStep ==
  ASSUME TalkInv, Noted, NEW t \in Tabs, NEW x \in Session, tab' = [tab EXCEPT ![t] = x], Waits(x),
         turns' \in Nat, threads' \in Nat, threads <= threads', UNCHANGED <<stored, listed, acked>>,
         split' \in BOOLEAN, split => split',
         Calm' /\ x.open => TabHolds(x, Counted', threads')
  PROVE  TalkInv'
<1>1. /\ stored' \in [Workspaces -> Seq(Row)] /\ acked' \subseteq Workspaces \X Nat \X Nat
      /\ acked' \subseteq acked /\ stored' = stored /\ listed' = listed
  BY DEF TalkInv, TalkTypes
<1>2. ASSUME Calm'
      PROVE  /\ TableIs(stored', Counted', threads')
             /\ \A u \in Tabs \ {t} : tab[u].open => TabHolds(tab[u], Counted', threads')
             /\ \A a \in Counted' : a[2] \in 1..threads' /\ InTable(a, stored')
  <2> PICK B : B = Counted'
    OBVIOUS
  <2>1. /\ TableIs(stored, B, threads')
        /\ \A u \in Tabs : tab[u].open => tab[u].project \in listed /\ TabHolds(tab[u], B, threads')
        /\ \A a \in B : a[2] \in 1..threads' /\ a[2] \in 1..threads /\ InTable(a, stored)
    BY <1>1, <1>2, CountsLess
  <2> QED  BY <1>1, <2>1
<1> QED  BY <1>1, <1>2, TabStep

\* A tab that works, and what holds of it while no identifier is made.
LEMMA TabNow ==
  ASSUME TalkInv, NEW t \in Tabs
  PROVE  /\ tab \in [Tabs -> Session] /\ tab[t] \in Session /\ tab[t].now \in Context
         /\ tab[t].project \in Workspaces /\ tab[t].to \in Workspaces
         /\ tab[t].saved \in [Workspaces -> Context] /\ tab[t].loaded \subseteq Workspaces
         /\ Waits(tab[t]) /\ (tab[t].at # "rest" => tab[t].open)
         /\ stored \in [Workspaces -> Seq(Row)] /\ threads \in Nat /\ turns \in Nat /\ split \in BOOLEAN
<1>1. Waits(tab[t]) /\ tab[t] \in Session  BY DEF TalkInv, TalkTypes
<1>2. tab[t].at # "rest" => tab[t].open  BY <1>1, ContextsTyped DEF Waits
<1> QED  BY <1>1, <1>2 DEF TalkInv, TalkTypes, Session

LEMMA TabStill ==
  ASSUME TalkInv, Noted, acked' = acked, threads' = threads, split => split', Calm', NEW t \in Tabs, tab[t].open
  PROVE  TabHolds(tab[t], Counted', threads') /\ tab[t].project \in listed
<1>1. threads \in Nat /\ threads' \in Nat /\ threads <= threads' /\ acked' \subseteq acked
  BY DEF TalkInv, TalkTypes
<1>2. tab[t].open => tab[t].project \in listed /\ TabHolds(tab[t], Counted', threads')
  BY <1>1, CountsLess
<1> QED  BY <1>2

\* A session that stops and one that goes on, with a conversation of its own.
LEMMA RestTyped ==
  ASSUME NEW x \in Session
  PROVE  /\ AtRest(x) \in Session /\ AtRest(x).at = "rest" /\ AtRest(x).now = x.now
         /\ AtRest(x).project = x.project /\ AtRest(x).loaded = x.loaded /\ AtRest(x).saved = x.saved
         /\ AtRest(x).open = x.open
BY HomeAssumption DEF AtRest, Session, Positions

LEMMA WithNow ==
  ASSUME NEW x \in Session, NEW c \in Context, NEW y, y = [x EXCEPT !.now = c]
  PROVE  /\ y \in Session /\ y.now = c /\ y.at = x.at /\ y.to = x.to /\ y.open = x.open
         /\ y.project = x.project /\ y.loaded = x.loaded /\ y.saved = x.saved
BY DEF Session

LEMMA RestWaits ==
  ASSUME NEW x \in Session, x.open, x.at = "rest"
  PROVE  Waits(x)
BY DEF Waits

LEMMA OpenTabStep ==
  ASSUME TalkInv, NEW t \in Tabs, OpenTab(t)
  PROVE  TalkInv'
<1> PICK rows : rows = stored[HomeProject]
  OBVIOUS
<1> PICK c : c = FromStore(FirstN(rows), threads + 1)
  OBVIOUS
<1> PICK x : x = [Closed EXCEPT !.open = TRUE, !.loaded = {HomeProject}, !.now = c]
  OBVIOUS
<1>1. /\ tab' = [tab EXCEPT ![t] = x] /\ NewIdIf(rows = <<>>) /\ Noted
      /\ UNCHANGED <<stored, listed, turns, acked, split>>
  BY DEF OpenTab
<1>2. /\ threads \in Nat /\ turns \in Nat /\ split \in BOOLEAN /\ rows \in Seq(Row)
      /\ HomeProject \in Workspaces
  BY TabNow, HomeAssumption
<1>3. threads' \in Nat /\ threads <= threads' /\ (rows = <<>> => threads' = threads + 1)
  BY <1>1, <1>2 DEF NewIdIf, NewId
<1>4. c \in Context
  <2>1. threads + 1 \in Nat  BY <1>2
  <2>2. FirstN(rows) \in Seq(Row)  BY <1>2, FirstRows
  <2> QED  BY <2>1, <2>2, ReadTyped
<1>5. /\ x \in Session /\ x.open /\ x.project = HomeProject /\ x.now = c /\ x.at = "rest"
      /\ x.loaded = {HomeProject}
  <2>1. Closed \in Session /\ Closed.at = "rest"  BY ContextsTyped
  <2>2. Closed.project = HomeProject  BY DEF Closed
  <2> QED  BY <1>2, <1>4, <2>1, <2>2 DEF Session
<1>6. ASSUME Calm' PROVE TabHolds(x, Counted', threads')
  <2> PICK B : B = Counted'
    OBVIOUS
  <2>1. acked' \subseteq acked  BY <1>1
  <2>2. TableIs(stored, B, threads') /\ \A a \in B : a[2] \in 1..threads
    BY <1>1, <1>3, <1>6, <2>1, CountsLess
  <2>3. RowsHold(rows, HomeProject, B, threads')  BY <1>2, <2>2 DEF TableIs
  <2>4. (rows = <<>> /\ c = FreshContext(threads + 1)) \/ ContextHolds(c, HomeProject, B, threads')
    <3> PICK id : id = threads + 1
      OBVIOUS
    <3>1. id \in Nat /\ c = FromStore(FirstN(rows), id)  BY <1>2
    <3> QED  BY <1>2, <2>3, <3>1, ReadHolds
  <2>5. CASE rows = <<>> /\ c = FreshContext(threads + 1)
    <3> PICK id \in Nat : id = threads + 1
      BY <1>2
    <3>1. id \in 1..threads' /\ threads' \in Nat /\ \A a \in B : a[2] # id
      BY <1>2, <1>3, <2>2, <2>5
    <3>2. Holding(id, <<>>, HomeProject, B, threads') /\ RowsHold(<<>>, HomeProject, B, threads')
      BY <3>1, EmptyHolds
    <3>3. c.id = id /\ c.messages = <<>> /\ c.list = <<>>
      BY <2>5, ContextsTyped
    <3> QED  BY <1>5, <3>2, <3>3 DEF TabHolds, ContextHolds
  <2>6. CASE ContextHolds(c, HomeProject, B, threads')
    BY <1>5, <2>6 DEF TabHolds
  <2> QED  BY <2>4, <2>5, <2>6
<1>7. Waits(x)  BY <1>5, RestWaits
<1> QED  BY <1>1, <1>2, <1>3, <1>5, <1>6, <1>7, QuietTabStep

LEMMA CloseTabStep ==
  ASSUME TalkInv, NEW t \in Tabs, CloseTab(t)
  PROVE  TalkInv'
<1>1. /\ tab' = [tab EXCEPT ![t] = Closed] /\ Noted
      /\ UNCHANGED <<stored, listed, turns, threads, acked, split>>
  BY DEF CloseTab
<1>2. threads \in Nat /\ turns \in Nat /\ split \in BOOLEAN /\ threads <= threads'
  BY <1>1, TabNow
<1>3. Waits(Closed) /\ Closed \in Session /\ ~Closed.open
  BY ContextsTyped DEF Waits
<1> QED  BY <1>1, <1>2, <1>3, QuietTabStep

LEMMA StopScriptStep ==
  ASSUME TalkInv, NEW t \in Tabs, StopScript(t)
  PROVE  TalkInv'
<1> PICK x : x = AtRest(tab[t])
  OBVIOUS
<1>1. /\ tab[t].at # "rest" /\ tab' = [tab EXCEPT ![t] = x] /\ Noted
      /\ UNCHANGED <<stored, listed, turns, threads, acked, split>>
  BY DEF StopScript
<1>2. tab[t] \in Session /\ tab[t].open /\ threads \in Nat /\ turns \in Nat /\ split \in BOOLEAN
  BY <1>1, TabNow
<1>3. /\ x \in Session /\ x.open /\ x.at = "rest" /\ x.now = tab[t].now /\ x.project = tab[t].project
      /\ x.loaded = tab[t].loaded /\ x.saved = tab[t].saved
  BY <1>2, RestTyped
<1>4. ASSUME Calm' PROVE TabHolds(x, Counted', threads')
  <2>1. TabHolds(tab[t], Counted', threads')  BY <1>1, <1>2, <1>4, TabStill
  <2> QED  BY <1>3, <2>1 DEF TabHolds
<1>5. Waits(x)  BY <1>3, RestWaits
<1>6. threads' \in Nat /\ threads <= threads' /\ turns' \in Nat  BY <1>1, <1>2
<1> QED  BY <1>1, <1>2, <1>3, <1>4, <1>5, <1>6, QuietTabStep

LEMMA OpenThreadStep ==
  ASSUME TalkInv, NEW t \in Tabs, NEW i \in Nat, OpenThread(t, i) \/ CutOpenThread(t, i)
  PROVE  TalkInv'
<1> DEFINE now == tab[t].now
<1> PICK item : item = now.list[i]
  OBVIOUS
<1>1. /\ tab[t].open /\ tab[t].at = "rest" /\ i \in 1..Len(now.list) /\ Noted
      /\ UNCHANGED <<stored, listed, turns, threads, acked>>
  BY DEF OpenThread, CutOpenThread, Free
<1>2. /\ tab[t] \in Session /\ now \in Context /\ tab \in [Tabs -> Session]
      /\ threads \in Nat /\ turns \in Nat /\ split \in BOOLEAN
  BY TabNow
<1>3. item \in Row /\ now.list \in Seq(Row)
  BY <1>1, <1>2, ElementOfSeq DEF Context
<1>4. PICK c \in Context : /\ c.id = item.id /\ c.list = now.list
                           /\ tab' = [tab EXCEPT ![t] = [tab[t] EXCEPT !.now = c]]
                           /\ split' \in BOOLEAN /\ (split => split')
                           /\ ~split' => c.messages = item.messages
  <2>1. CASE OpenThread(t, i)
    <3> PICK c : c = [now EXCEPT !.id = item.id, !.messages = item.messages]
      OBVIOUS
    <3>1. c \in Context /\ c.id = item.id /\ c.messages = item.messages /\ c.list = now.list
      BY <1>2, <1>3 DEF Context, Row
    <3>2. tab' = [tab EXCEPT ![t].now = c] /\ split' = split
      BY <2>1 DEF OpenThread
    <3> QED  BY <1>2, <3>1, <3>2
  <2>2. CASE CutOpenThread(t, i)
    <3> PICK c : c = [now EXCEPT !.id = item.id]
      OBVIOUS
    <3>1. c \in Context /\ c.id = item.id /\ c.list = now.list
      BY <1>2, <1>3 DEF Context, Row
    <3>2. tab' = [tab EXCEPT ![t].now.id = item.id] /\ split' = TRUE
      BY <2>2 DEF CutOpenThread
    <3>3. tab' = [tab EXCEPT ![t].now = c]
      BY <3>2
    <3> QED  BY <3>1, <3>2, <3>3
  <2> QED  BY <2>1, <2>2
<1> PICK x : x = [tab[t] EXCEPT !.now = c]
  OBVIOUS
<1>5. /\ x \in Session /\ x.open /\ x.at = "rest" /\ x.now = c /\ x.project = tab[t].project
      /\ x.loaded = tab[t].loaded /\ x.saved = tab[t].saved
  BY <1>1, <1>2, WithNow
<1>6. ASSUME Calm' PROVE TabHolds(x, Counted', threads')
  <2> PICK B : B = Counted'
    OBVIOUS
  <2>1. TabHolds(tab[t], B, threads')
    BY <1>1, <1>4, <1>6, TabStill
  <2>2. c.messages = item.messages
    BY <1>4, <1>6 DEF Calm
  <2>3. ContextHolds(c, tab[t].project, B, threads')
    BY <1>1, <1>4, <2>1, <2>2 DEF TabHolds, ContextHolds, RowsHold
  <2> QED  BY <1>5, <2>1, <2>3 DEF TabHolds
<1>7. Waits(x)  BY <1>5, RestWaits
<1>8. threads' \in Nat /\ threads <= threads' /\ turns' \in Nat  BY <1>1, <1>2
<1> QED  BY <1>1, <1>4, <1>5, <1>6, <1>7, <1>8, QuietTabStep

LEMMA AskOneStep ==
  ASSUME TalkInv, NEW t \in Tabs, Ask(t)
  PROVE  TalkInv'
<1> DEFINE now == tab[t].now
<1> PICK said : said = [from |-> AnswersFrom(t), n |-> turns + 1, answered |-> FALSE]
  OBVIOUS
<1> PICK messages : messages = Append(now.messages, said)
  OBVIOUS
<1> PICK c : c = [now EXCEPT !.messages = messages]
  OBVIOUS
<1> PICK x : x = [tab[t] EXCEPT !.at = "asking", !.now = c]
  OBVIOUS
<1>0. tab' = [tab EXCEPT ![t].at = "asking", ![t].now.messages = messages]
  BY DEF Ask
<1>1. /\ tab[t].open /\ turns' = turns + 1 /\ Noted /\ UNCHANGED <<stored, listed, threads, acked, split>>
  BY DEF Ask, Free
<1>2. /\ tab \in [Tabs -> Session] /\ tab[t] \in Session /\ now \in Context /\ turns \in Nat
      /\ turns' \in Nat /\ listed \subseteq Workspaces /\ listed # {} /\ threads \in Nat /\ split \in BOOLEAN
      /\ Waits(tab[t])
  BY <1>1, TabNow DEF TalkInv, TalkTypes
<1>3. AnswersFrom(t) \in Workspaces
  BY <1>2 DEF AnswersFrom, Session
<1>4. said \in Said /\ said.from = AnswersFrom(t)
  BY <1>2, <1>3 DEF Said
<1>5. /\ now.messages \in Seq(Said) /\ Len(now.messages) \in Nat
      /\ messages \in Seq(Said) /\ Len(messages) = Len(now.messages) + 1
      /\ messages[Len(now.messages) + 1] = said
      /\ \A k \in 1..Len(now.messages) : messages[k] = now.messages[k]
  BY <1>2, <1>4, LenProperties, AppendProperties DEF Context
<1>6. c \in Context /\ c.id = now.id /\ c.messages = messages /\ c.list = now.list
  BY <1>2, <1>5 DEF Context
<1>7. /\ x \in Session /\ x.open /\ x.at = "asking" /\ x.now = c /\ x.project = tab[t].project
      /\ x.loaded = tab[t].loaded /\ x.saved = tab[t].saved
  BY <1>1, <1>2, <1>6 DEF Session, Positions
<1>8. tab' = [tab EXCEPT ![t] = x]
  <2> PICK y : y = [tab[t] EXCEPT !.at = "asking"]
    OBVIOUS
  <2> PICK mid : mid = [tab EXCEPT ![t] = y]
    OBVIOUS
  <2>1. y.now = now  BY <1>2 DEF Session
  <2>2. mid[t] = y  BY <1>2
  <2>3. tab' = [mid EXCEPT ![t] = [mid[t] EXCEPT !.now = [mid[t].now EXCEPT !.messages = messages]]]
    BY <1>0
  <2>4. tab' = [mid EXCEPT ![t] = [y EXCEPT !.now = c]]
    BY <2>1, <2>2, <2>3
  <2>5. [y EXCEPT !.now = c] = x
    OBVIOUS
  <2>6. [mid EXCEPT ![t] = x] = [tab EXCEPT ![t] = x]
    BY <1>2
  <2> QED  BY <2>4, <2>5, <2>6
<1>9. Waits(x)
  <2>1. x.now.messages = messages  BY <1>6, <1>7
  <2>2. Len(messages) > 0  BY <1>5
  <2> QED  BY <1>7, <2>1, <2>2 DEF Waits
<1>10. ASSUME Calm' PROVE TabHolds(x, Counted', threads')
  <2> PICK B : B = Counted'
    OBVIOUS
  <2>1. TabHolds(tab[t], B, threads') /\ tab[t].project \in listed
    BY <1>1, <1>10, TabStill
  <2>2. said.from = tab[t].project
    BY <1>4, <2>1 DEF AnswersFrom
  <2>3. \A k \in 1..Len(messages) : k = Len(now.messages) + 1 \/ k \in 1..Len(now.messages)
    BY <1>5
  <2>4. Asked(messages, tab[t].project)
    BY <1>5, <2>1, <2>2, <2>3 DEF TabHolds, ContextHolds, Holding, Asked
  <2>5. \A n : HasTurn(now.messages, n) => HasTurn(messages, n)
    BY <1>5 DEF HasTurn
  <2>6. ContextHolds(c, tab[t].project, B, threads')
    BY <1>6, <2>1, <2>4, <2>5 DEF TabHolds, ContextHolds, Holding
  <2> QED  BY <1>7, <2>1, <2>6 DEF TabHolds
<1>11. threads' \in Nat /\ threads <= threads'  BY <1>1, <1>2
<1> QED  BY <1>1, <1>2, <1>7, <1>8, <1>9, <1>10, <1>11, QuietTabStep

\* Marking a turn as answered leaves what it asked, and all others.
LEMMA SaidMarked ==
  ASSUME NEW ms \in Seq(Said), NEW i \in 1..Len(ms), NEW said \in Said,
         said.from = ms[i].from, said.n = ms[i].n,
         NEW new, new = [ms EXCEPT ![i] = said]
  PROVE  /\ new \in Seq(Said) /\ Len(new) = Len(ms)
         /\ \A k \in 1..Len(ms) : new[k].n = ms[k].n /\ new[k].from = ms[k].from
<1>1. /\ new \in Seq(Said) /\ Len(new) = Len(ms)
      /\ \A k \in 1..Len(ms) : new[k] = IF k = i THEN said ELSE ms[k]
  BY ExceptSeq
<1> QED  BY <1>1

LEMMA AnsweredHolds ==
  ASSUME NEW c \in Context, Len(c.messages) > 0, NEW d, d = WithAnswer(c)
  PROVE  /\ d \in Context /\ d.id = c.id /\ d.list = c.list /\ Len(d.messages) > 0
         /\ \A p, A, n : ContextHolds(c, p, A, n) => ContextHolds(d, p, A, n)
<1> PICK ms \in Seq(Said) : ms = c.messages
  BY DEF Context
<1> PICK last : last = Len(ms)
  OBVIOUS
<1> PICK said : said = [ms[last] EXCEPT !.answered = TRUE]
  OBVIOUS
<1> PICK messages : messages = [ms EXCEPT ![last] = said]
  OBVIOUS
<1>1. last \in Nat /\ last \in 1..Len(ms) /\ ms[last] \in Said
  <2>1. last \in Nat /\ last \in 1..Len(ms)  BY LenProperties
  <2> QED  BY <2>1, ElementOfSeq
<1>2. said \in Said /\ said.from = ms[last].from /\ said.n = ms[last].n
  BY <1>1 DEF Said
<1>3. /\ messages \in Seq(Said) /\ Len(messages) = Len(ms)
      /\ \A k \in 1..Len(ms) : messages[k].n = ms[k].n /\ messages[k].from = ms[k].from
  BY <1>1, <1>2, SaidMarked
<1>4. d = [c EXCEPT !.messages = messages]
  BY DEF WithAnswer
<1>5. d \in Context /\ d.id = c.id /\ d.list = c.list /\ d.messages = messages
  BY <1>3, <1>4 DEF Context
<1>6. ASSUME NEW p, NEW A, NEW n, ContextHolds(c, p, A, n) PROVE ContextHolds(d, p, A, n)
  <2>1. Asked(messages, p)  BY <1>3, <1>6 DEF ContextHolds, Holding, Asked
  <2>2. \A k : HasTurn(ms, k) => HasTurn(messages, k)  BY <1>3 DEF HasTurn
  <2> QED  BY <1>5, <1>6, <2>1, <2>2 DEF ContextHolds, Holding
<1>7. Len(d.messages) > 0  BY <1>3, <1>5
<1> QED  BY <1>5, <1>6, <1>7

\* A conversation that was listed is listed with its last turn.
LEMMA SyncedListed ==
  ASSUME NEW c \in Context, Len(c.messages) > 0
  PROVE  Listed(SyncedContext(c))
<1> PICK item : item = Item(c)
  OBVIOUS
<1> PICK front : front = ToFront(c.list, item)
  OBVIOUS
<1> PICK list : list = FirstN(front)
  OBVIOUS
<1> PICK s : s = SyncedContext(c)
  OBVIOUS
<1>1. item \in Row /\ item.id = c.id /\ item.messages = c.messages /\ c.list \in Seq(Row)
      /\ c.messages \in Seq(Said)
  BY ItemTyped DEF Context
<1>2. front \in Seq(Row) /\ RowsUnder(front, c.list, item)
  BY <1>1, FrontRows
<1>3. \A i \in 1..Len(list) : i \in 1..Len(front) /\ list[i] = front[i]
  BY <1>2, FirstRows
<1>4. c.messages # <<>> /\ Len(c.messages) \in Nat
  BY <1>1, EmptySeq, LenProperties
<1>5. s = [c EXCEPT !.list = list]
  BY <1>4 DEF SyncedContext
<1>6. s.id = c.id /\ s.messages = c.messages /\ s.list = list
  BY <1>5 DEF Context
<1>7. ASSUME NEW i \in 1..Len(list), list[i].id = c.id PROVE list[i].messages = c.messages
  BY <1>1, <1>2, <1>3, <1>7 DEF RowsUnder
<1>8. HasTurn(c.messages, c.messages[Len(c.messages)].n)
  <2>1. Len(c.messages) \in 1..Len(c.messages)  BY <1>4
  <2> QED  BY <2>1 DEF HasTurn
<1> QED  BY <1>6, <1>7, <1>8 DEF Listed

LEMMA SyncedStill ==
  ASSUME NEW c \in Context, NEW p, NEW B, NEW n \in Nat, ContextHolds(c, p, B, n)
  PROVE  ContextHolds(SyncedContext(c), p, B, n)
<1>1. RowsHold(c.list, p, B, n) /\ Holding(c.id, c.messages, p, B, n) /\ n <= n
  BY DEF ContextHolds
<1>2. \A b \in B : b \in B \/ (b[2] = c.id /\ c.messages # <<>>)
  OBVIOUS
<1> QED  BY <1>1, <1>2, SyncedHolds

LEMMA AnswerStep ==
  ASSUME TalkInv, NEW t \in Tabs, Answer(t)
  PROVE  TalkInv'
<1> DEFINE now == tab[t].now
<1> PICK c : c = WithAnswer(now)
  OBVIOUS
<1> PICK s : s = SyncedContext(c)
  OBVIOUS
<1>1. /\ tab[t].at = "asking" /\ Noted /\ UNCHANGED <<stored, listed, turns, threads, acked, split>>
  BY DEF Answer
<1>2. /\ tab \in [Tabs -> Session] /\ tab[t] \in Session /\ now \in Context /\ tab[t].open
      /\ Len(now.messages) > 0 /\ turns \in Nat /\ threads \in Nat /\ split \in BOOLEAN
  BY <1>1, TabNow DEF Waits
<1>3. /\ c \in Context /\ Len(c.messages) > 0
      /\ \A p, A, n : ContextHolds(now, p, A, n) => ContextHolds(c, p, A, n)
  BY <1>2, AnsweredHolds
<1>4. s \in Context /\ s.messages = c.messages /\ Listed(s)
  BY <1>3, SyncedTyped, SyncedListed
<1>5. PICK x \in Session :
        /\ tab' = [tab EXCEPT ![t] = x] /\ x.open /\ x.now \in {c, s} /\ x.project = tab[t].project
        /\ x.loaded = tab[t].loaded /\ x.saved = tab[t].saved
        /\ x.at = "rest" \/ (x.at = "answered" /\ x.now = s)
  <2>1. CASE tab' = [tab EXCEPT ![t].now = SyncedContext(WithAnswer(@)), ![t].at = "answered"]
    <3> PICK x : x = [tab[t] EXCEPT !.now = s, !.at = "answered"]
      OBVIOUS
    <3>1. /\ x \in Session /\ x.open /\ x.now = s /\ x.at = "answered" /\ x.project = tab[t].project
          /\ x.loaded = tab[t].loaded /\ x.saved = tab[t].saved
      BY <1>2, <1>4 DEF Session, Positions
    <3>2. tab' = [tab EXCEPT ![t].now = s, ![t].at = "answered"]
      BY <2>1
    <3>3. tab' = [tab EXCEPT ![t] = x]
      BY <1>2, <3>2 DEF Session
    <3> QED  BY <3>1, <3>3
  <2>2. CASE tab' = [tab EXCEPT ![t] = [AtRest(@) EXCEPT !.now = WithAnswer(tab[t].now)]]
    <3> PICK y : y = AtRest(tab[t])
      OBVIOUS
    <3> PICK x : x = [y EXCEPT !.now = c]
      OBVIOUS
    <3>1. /\ y \in Session /\ y.at = "rest" /\ y.now = now /\ y.open /\ y.project = tab[t].project
          /\ y.loaded = tab[t].loaded /\ y.saved = tab[t].saved
      BY <1>2, RestTyped
    <3>2. /\ x \in Session /\ x.open /\ x.now = c /\ x.at = "rest" /\ x.project = tab[t].project
          /\ x.loaded = tab[t].loaded /\ x.saved = tab[t].saved
      BY <1>3, <3>1, WithNow
    <3>3. tab' = [tab EXCEPT ![t] = x]
      BY <2>2
    <3> QED  BY <3>2, <3>3
  <2> QED  BY <2>1, <2>2 DEF Answer
<1>6. Waits(x)
  BY <1>3, <1>4, <1>5 DEF Waits
<1>7. ASSUME Calm' PROVE TabHolds(x, Counted', threads')
  <2> PICK B : B = Counted'
    OBVIOUS
  <2> PICK n \in Nat : n = threads'
    BY <1>1, <1>2
  <2>1. TabHolds(tab[t], B, n)
    BY <1>1, <1>2, <1>7, TabStill
  <2>2. ContextHolds(c, tab[t].project, B, n)
    BY <1>3, <2>1 DEF TabHolds
  <2>3. ContextHolds(s, tab[t].project, B, n)
    BY <1>3, <2>2, SyncedStill
  <2> QED  BY <1>5, <2>1, <2>2, <2>3 DEF TabHolds
<1>8. threads' \in Nat /\ threads <= threads' /\ turns' \in Nat  BY <1>1, <1>2
<1> QED  BY <1>1, <1>2, <1>5, <1>6, <1>7, <1>8, QuietTabStep

\* A turn answered in a conversation that a context does not have, or in
\* another project, is none that it had to show.
LEMMA HoldsBeside ==
  ASSUME NEW A, NEW B, NEW n, NEW p, NEW c, ContextHolds(c, p, A, n),
         \A b \in B : b \in A \/ b[1] # p \/ b[2] \notin Ids(c)
  PROVE  ContextHolds(c, p, B, n)
BY DEF ContextHolds, RowsHold, Holding, Ids

\* Nor is it one of a tab, its own excepted.
LEMMA TabBeside ==
  ASSUME NEW A, NEW B, NEW n, NEW x \in Session, TabHolds(x, A, n), NEW e,
         \A b \in B : b \in A \/ b = e, e[2] \notin Holds(x), x.open
  PROVE  TabHolds(x, B, n)
<1>1. e[2] \notin Ids(x.now) /\ \A p \in Workspaces : e[2] \notin Ids(x.saved[p])
  BY DEF Holds
<1>2. ContextHolds(x.now, x.project, B, n)
  BY <1>1, HoldsBeside DEF TabHolds
<1>3. ASSUME NEW p \in x.loaded \ {x.project} PROVE KeptHolds(x.saved[p], p, B, n)
  <2>1. p \in Workspaces  BY DEF Session
  <2>2. CASE x.saved[p] = NoContext  BY <2>2 DEF KeptHolds
  <2>3. CASE ContextHolds(x.saved[p], p, A, n)
    <3>1. ContextHolds(x.saved[p], p, B, n)  BY <1>1, <2>1, <2>3, HoldsBeside
    <3> QED  BY <3>1 DEF KeptHolds
  <2> QED  BY <2>2, <2>3 DEF TabHolds, KeptHolds
<1> QED  BY <1>2, <1>3 DEF TabHolds

\* Only the tab that saves has the conversation, or it no longer counts.
LEMMA SavedBeside ==
  ASSUME TalkInv, NEW t \in Tabs, NEW x \in Session, tab' = [tab EXCEPT ![t] = x], Noted, x.open,
         x.now.id \notin sharedIds', NEW u \in Tabs \ {t}
  PROVE  x.now.id \notin Holds(tab[u])
<1>1. tab'[t] = x /\ tab'[u] = tab[u]
  BY DEF TalkInv, TalkTypes
<1>2. <<t, u>> \in {v \in Tabs \X Tabs : v[1] # v[2]}
  OBVIOUS
<1>3. Holds(tab'[<<t, u>>[1]]) \cap Holds(tab'[<<t, u>>[2]]) \subseteq sharedIds'
  BY <1>2 DEF Noted
<1>4. Holds(x) \cap Holds(tab[u]) \subseteq sharedIds'
  BY <1>1, <1>3
<1>5. x.now.id \in Holds(x)
  BY DEF Holds, Ids
<1> QED  BY <1>4, <1>5

\* A conversation that is saved with its last turn; its list has it already.
LEMMA LastHolds ==
  ASSUME NEW c \in Context, Len(c.messages) > 0, Listed(c), NEW q, NEW A, NEW n, ContextHolds(c, q, A, n),
         NEW e, e[2] = c.id, e[3] = c.messages[Len(c.messages)].n, NEW B, \A b \in B : b \in A \/ b = e
  PROVE  ContextHolds(c, q, B, n)
<1>1. HasTurn(c.messages, e[3])
  <2>1. Len(c.messages) \in 1..Len(c.messages)
    <3>1. c.messages \in Seq(Said)  BY DEF Context
    <3>2. Len(c.messages) \in Nat  BY <3>1, LenProperties
    <3> QED  BY <3>2
  <2> QED  BY <2>1 DEF HasTurn
<1>2. Holding(c.id, c.messages, q, B, n)
  BY <1>1 DEF ContextHolds, Holding
<1>3. ASSUME NEW i \in 1..Len(c.list) PROVE Holding(c.list[i].id, c.list[i].messages, q, B, n)
  BY DEF ContextHolds, RowsHold, Holding, Listed
<1> QED  BY <1>2, <1>3 DEF ContextHolds, RowsHold

LEMMA TableSaved ==
  ASSUME stored \in [Workspaces -> Seq(Row)], NEW c \in Context, NEW q \in Workspaces,
         NEW A, NEW B, NEW n \in Nat, TableIs(stored, A, n), Holding(c.id, c.messages, q, B, n),
         \A b \in B : b \in A \/ (b[1] = q /\ b[2] = c.id /\ c.messages # <<>>),
         NEW table, table = SyncedRows(q, c)
  PROVE  /\ TableIs(table, B, n)
         /\ \A a \in Workspaces \X Nat \X Nat : InTable(a, stored) => InTable(a, table)
         /\ c.messages # <<>> => \A a : a[1] = q /\ a[2] = c.id => InTable(a, table)
<1>1. n <= n
  OBVIOUS
<1> QED  BY <1>1, TableHolds

LEMMA SaveTyped ==
  ASSUME TalkInv, NEW t \in Tabs
  PROVE  SyncedRows(tab[t].project, tab[t].now) \in [Workspaces -> Seq(Row)]
<1> DEFINE now == tab[t].now
<1>1. stored \in [Workspaces -> Seq(Row)] /\ now \in Context /\ tab[t].project \in Workspaces
  BY TabNow
<1> PICK front : front = ToFront(stored[tab[t].project], Item(now))
  OBVIOUS
<1>2. front \in Seq(Row)
  BY <1>1, ItemTyped, FrontRows
<1> QED  BY <1>1, <1>2 DEF SyncedRows

LEMMA SaveStep ==
  ASSUME TalkInv, NEW t \in Tabs, Save(t)
  PROVE  TalkInv'
<1> PICK c : c = tab[t].now
  OBVIOUS
<1> PICK q : q = tab[t].project
  OBVIOUS
<1> PICK at : at = tab[t].at
  OBVIOUS
<1> PICK after : after = AfterSave[at]
  OBVIOUS
<1> PICK e : e = <<q, c.id, c.messages[Len(c.messages)].n>>
  OBVIOUS
<1> PICK x : x = [tab[t] EXCEPT !.at = after]
  OBVIOUS
<1>1. /\ at \in Saving /\ Noted /\ UNCHANGED <<listed, turns, threads, split>>
      /\ stored' = SyncedRows(q, c) /\ acked' = (IF at # "answered" THEN acked ELSE acked \cup {e})
      /\ tab' = [tab EXCEPT ![t] = x]
  BY DEF Save
<1>2. /\ tab \in [Tabs -> Session] /\ tab[t] \in Session /\ c \in Context /\ tab[t].open
      /\ q \in Workspaces /\ turns \in Nat /\ threads \in Nat /\ split \in BOOLEAN /\ Waits(tab[t])
      /\ stored \in [Workspaces -> Seq(Row)] /\ acked \subseteq Workspaces \X Nat \X Nat
  BY <1>1, TabNow DEF Saving, TalkInv, TalkTypes
<1>3. /\ after \in Positions /\ after \notin {"asking", "answered", "leaving"} /\ (after = "left" => at = "leaving")
  BY <1>1 DEF Saving, AfterSave, Positions
<1>4. /\ x \in Session /\ x.open /\ x.now = c /\ x.at = after /\ x.project = q /\ x.to = tab[t].to
      /\ x.loaded = tab[t].loaded /\ x.saved = tab[t].saved
  BY <1>2, <1>3 DEF Session
<1>5. Waits(x)
  BY <1>2, <1>3, <1>4 DEF Waits
<1>6. at = "answered" => /\ Len(c.messages) > 0 /\ Listed(c) /\ c.messages # <<>>
                         /\ e \in Workspaces \X Nat \X Nat
  <2> SUFFICES ASSUME at = "answered" PROVE /\ Len(c.messages) > 0 /\ Listed(c) /\ c.messages # <<>>
                                            /\ e \in Workspaces \X Nat \X Nat
    OBVIOUS
  <2>1. Len(c.messages) > 0 /\ Listed(c)  BY <1>2 DEF Waits
  <2>2. c.messages \in Seq(Said) /\ c.id \in Nat  BY <1>2 DEF Context
  <2>3. Len(c.messages) \in 1..Len(c.messages)
    <3>1. Len(c.messages) \in Nat  BY <2>2, LenProperties
    <3> QED  BY <2>1, <3>1
  <2>4. c.messages[Len(c.messages)] \in Said  BY <2>2, <2>3, ElementOfSeq
  <2>5. c.messages[Len(c.messages)].n \in Nat  BY <2>4 DEF Said
  <2> QED  BY <1>2, <2>1, <2>2, <2>5, EmptySeq
<1>7. ASSUME Calm'
      PROVE  /\ TableIs(stored', Counted', threads')
             /\ \A u \in Tabs \ {t} : tab[u].open => TabHolds(tab[u], Counted', threads')
             /\ TabHolds(x, Counted', threads')
             /\ \A a \in Counted' : a[2] \in 1..threads' /\ InTable(a, stored')
  <2> PICK A : A = Counted
    OBVIOUS
  <2> PICK B : B = Counted'
    OBVIOUS
  <2> PICK n \in Nat : n = threads
    BY <1>2
  <2>1. sharedIds \subseteq sharedIds' /\ TalkHolds
    BY <1>1, <1>7 DEF Noted, Calm, TalkInv
  <2>2. \A b \in B : /\ b \in A \/ (at = "answered" /\ b = e)
                     /\ b[2] \notin sharedIds' /\ b \in Workspaces \X Nat \X Nat
    BY <1>1, <1>2, <1>6, <2>1 DEF Counted
  <2>3. /\ TableIs(stored, A, n)
        /\ \A u \in Tabs : tab[u].open => TabHolds(tab[u], A, n)
        /\ \A a \in A : a[2] \in 1..n /\ InTable(a, stored)
    BY <2>1 DEF TalkHolds
  <2>4. ContextHolds(c, q, A, n) /\ TabHolds(tab[t], A, n)
    BY <1>2, <2>3 DEF TabHolds
  <2>5. e[1] = q /\ e[2] = c.id /\ e[3] = c.messages[Len(c.messages)].n
    OBVIOUS
  <2>6. ContextHolds(c, q, B, n)
    <3>1. CASE at = "answered"
      <4>1. \A b \in B : b \in A \/ b = e  BY <2>2
      <4> QED  BY <1>2, <1>6, <2>4, <2>5, <3>1, <4>1, LastHolds
    <3>2. CASE at # "answered"
      <4>1. \A b \in B : b \in A  BY <2>2, <3>2
      <4> QED  BY <2>4, <4>1, HoldsBeside
    <3> QED  BY <3>1, <3>2
  <2>7. \A b \in B : b \in A \/ (b[1] = q /\ b[2] = c.id /\ c.messages # <<>>)
    BY <1>6, <2>2, <2>5
  <2>8. /\ TableIs(stored', B, n)
        /\ \A a \in Workspaces \X Nat \X Nat : InTable(a, stored) => InTable(a, stored')
        /\ c.messages # <<>> => \A a : a[1] = q /\ a[2] = c.id => InTable(a, stored')
    <3>1. n <= n /\ Holding(c.id, c.messages, q, B, n)  BY <2>6 DEF ContextHolds
    <3>2. TableIs(stored, A, n) /\ c \in Context /\ q \in Workspaces /\ n \in Nat
          /\ stored \in [Workspaces -> Seq(Row)]
      BY <1>2, <2>3
    <3> QED  BY <1>1, <2>7, <3>1, <3>2, TableSaved
  <2>9. TabHolds(x, B, n)
    <3>1. ASSUME NEW p \in x.loaded \ {q} PROVE KeptHolds(x.saved[p], p, B, n)
      <4>1. KeptHolds(x.saved[p], p, A, n)  BY <1>4, <2>4 DEF TabHolds
      <4>2. \A b \in B : b \in A \/ b[1] # p  BY <2>2, <2>5
      <4>3. CASE x.saved[p] = NoContext  BY <4>3 DEF KeptHolds
      <4>4. CASE ContextHolds(x.saved[p], p, A, n)
        <5>1. ContextHolds(x.saved[p], p, B, n)  BY <4>2, <4>4, HoldsBeside
        <5> QED  BY <5>1 DEF KeptHolds
      <4> QED  BY <4>1, <4>3, <4>4 DEF KeptHolds
    <3> QED  BY <1>4, <2>6, <3>1 DEF TabHolds
  <2>10. ASSUME NEW u \in Tabs \ {t}, tab[u].open PROVE TabHolds(tab[u], B, n)
    <3>0. tab[u] \in Session /\ TabHolds(tab[u], A, n)  BY <1>2, <2>3, <2>10
    <3>1. CASE e \notin B
      <4>1. \A b \in B : b \in A  BY <2>2, <3>1
      <4>2. B \in SUBSET A /\ n <= n  BY <4>1
      <4>3. \A y : TabHolds(y, A, n) => TabHolds(y, B, n)  BY <4>2, HoldsStill
      <4> QED  BY <3>0, <4>3
    <3>2. CASE e \in B
      <4>1. e[2] \notin sharedIds' /\ x.now.id = e[2]  BY <1>4, <2>2, <2>5, <3>2
      <4>2. e[2] \notin Holds(tab[u])
        <5>1. x.now.id \notin Holds(tab[u])  BY <1>1, <1>4, <4>1, SavedBeside
        <5> QED  BY <4>1, <5>1
      <4>3. \A b \in B : b \in A \/ b = e  BY <2>2
      <4> QED  BY <2>10, <3>0, <4>2, <4>3, TabBeside
    <3> QED  BY <3>1, <3>2
  <2>11. \A a \in B : a[2] \in 1..n /\ InTable(a, stored')
    <3>1. c.id \in 1..n  BY <2>6 DEF ContextHolds, Holding
    <3> QED  BY <1>6, <2>2, <2>3, <2>5, <2>8, <3>1
  <2> QED  BY <1>1, <2>8, <2>9, <2>10, <2>11
<1>8. stored' \in [Workspaces -> Seq(Row)]  BY <1>1, SaveTyped
<1>9. acked' \subseteq Workspaces \X Nat \X Nat  BY <1>1, <1>2, <1>6
<1>10. threads' \in Nat /\ turns' \in Nat /\ split' \in BOOLEAN /\ listed' = listed  BY <1>1, <1>2
<1> QED  BY <1>1, <1>4, <1>5, <1>7, <1>8, <1>9, <1>10, TabStep

\* The first step of a new conversation, and of a switch.
LEMMA StartSyncStep ==
  ASSUME TalkInv, NEW t \in Tabs, NEW to \in Workspaces, NEW saving \in {"ending", "leaving"},
         NEW saved \in {"ended", "left"}, StartSync(t, to, saving, saved),
         saving = "leaving" \/ saved = "left" => to # tab[t].project
  PROVE  TalkInv'
<1> PICK s : s = SyncedContext(tab[t].now)
  OBVIOUS
<1> PICK at : at = IF tab[t].now.messages = <<>> THEN saved ELSE saving
  OBVIOUS
<1> PICK x : x = [tab[t] EXCEPT !.now = s, !.to = to, !.at = at]
  OBVIOUS
<1>1. /\ tab[t].open /\ Noted /\ UNCHANGED <<stored, listed, turns, threads, acked, split>>
      /\ tab' = [tab EXCEPT ![t].now = s, ![t].to = to, ![t].at = at]
  BY DEF StartSync, Free
<1>2. /\ tab \in [Tabs -> Session] /\ tab[t] \in Session /\ tab[t].now \in Context
      /\ turns \in Nat /\ threads \in Nat /\ split \in BOOLEAN
  BY TabNow
<1>3. s \in Context /\ at \in {"ending", "leaving", "ended", "left"}
      /\ (at \in {"leaving", "left"} => to # tab[t].project)
  BY <1>2, SyncedTyped
<1>4. /\ x \in Session /\ x.open /\ x.now = s /\ x.at = at /\ x.project = tab[t].project /\ x.to = to
      /\ x.loaded = tab[t].loaded /\ x.saved = tab[t].saved
  BY <1>1, <1>2, <1>3 DEF Session, Positions
<1>5. tab' = [tab EXCEPT ![t] = x]
  BY <1>1, <1>2 DEF Session
<1>6. Waits(x)
  BY <1>3, <1>4 DEF Waits
<1>7. ASSUME Calm' PROVE TabHolds(x, Counted', threads')
  <2> PICK B : B = Counted'
    OBVIOUS
  <2> PICK n \in Nat : n = threads'
    BY <1>1, <1>2
  <2>1. TabHolds(tab[t], B, n)
    BY <1>1, <1>7, TabStill
  <2>2. ContextHolds(s, tab[t].project, B, n)
    BY <1>2, <2>1, SyncedStill DEF TabHolds
  <2> QED  BY <1>4, <2>1, <2>2 DEF TabHolds
<1>8. threads' \in Nat /\ threads <= threads' /\ turns' \in Nat  BY <1>1, <1>2
<1> QED  BY <1>1, <1>2, <1>4, <1>5, <1>6, <1>7, <1>8, QuietTabStep

LEMMA EndThreadStep ==
  ASSUME TalkInv, NEW t \in Tabs, EndThread(t)
  PROVE  TalkInv'
<1> DEFINE now == tab[t].now
<1> PICK id : id = threads + 1
  OBVIOUS
<1> PICK y : y = AtRest(tab[t])
  OBVIOUS
<1>1. /\ tab[t].at = "ended" /\ threads' = id /\ Noted /\ UNCHANGED <<stored, listed, turns, acked, split>>
  BY DEF EndThread, NewId
<1>2. PICK messages \in {<<>>, now.messages} :
        tab' = [tab EXCEPT ![t] = [y EXCEPT !.now = [now EXCEPT !.id = id, !.messages = messages]]]
  BY DEF EndThread
<1> PICK c : c = [now EXCEPT !.id = id, !.messages = messages]
  OBVIOUS
<1> PICK x : x = [y EXCEPT !.now = c]
  OBVIOUS
<1>3. /\ tab \in [Tabs -> Session] /\ tab[t] \in Session /\ now \in Context /\ tab[t].open
      /\ turns \in Nat /\ threads \in Nat /\ split \in BOOLEAN /\ id \in Nat /\ id \in 1..id /\ threads <= id
      /\ id \notin 1..threads
  BY <1>1, TabNow
<1>4. /\ y \in Session /\ y.at = "rest" /\ y.now = now /\ y.open /\ y.project = tab[t].project
      /\ y.loaded = tab[t].loaded /\ y.saved = tab[t].saved
  BY <1>3, RestTyped
<1>5. c \in Context /\ c.id = id /\ c.messages = messages /\ c.list = now.list
  BY <1>2, <1>3, EmptySeq DEF Context
<1>6. /\ x \in Session /\ x.open /\ x.now = c /\ x.at = "rest" /\ x.project = tab[t].project
      /\ x.loaded = tab[t].loaded /\ x.saved = tab[t].saved
  BY <1>4, <1>5, WithNow
<1>7. tab' = [tab EXCEPT ![t] = x]
  BY <1>2
<1>8. ASSUME Calm' PROVE TabHolds(x, Counted', threads')
  <2> PICK B : B = Counted'
    OBVIOUS
  <2>1. acked' \subseteq acked /\ threads' \in Nat /\ threads <= threads'  BY <1>1, <1>3
  <2>2. TabHolds(tab[t], B, threads') /\ \A a \in B : a[2] \in 1..threads
    BY <1>1, <1>3, <1>8, <2>1, CountsLess
  <2>3. Asked(messages, tab[t].project)
    <3>1. Asked(now.messages, tab[t].project)  BY <2>2 DEF TabHolds, ContextHolds, Holding
    <3>2. Asked(<<>>, tab[t].project)  BY DEF Asked
    <3> QED  BY <1>2, <3>1, <3>2
  <2>4. \A a \in B : a[2] # id
    BY <1>3, <2>2
  <2>5. Holding(id, messages, tab[t].project, B, threads')
    BY <1>1, <1>3, <2>3, <2>4 DEF Holding
  <2>6. ContextHolds(c, tab[t].project, B, threads')
    BY <1>5, <2>2, <2>5 DEF TabHolds, ContextHolds
  <2> QED  BY <1>6, <2>2, <2>6 DEF TabHolds
<1>9. Waits(x)  BY <1>6, RestWaits
<1>10. threads' \in Nat /\ threads <= threads' /\ turns' \in Nat  BY <1>1, <1>3
<1> QED  BY <1>1, <1>3, <1>6, <1>7, <1>8, <1>9, <1>10, QuietTabStep

\* The context a switch restores: of a project that was loaded what was kept,
\* of another one what the table has.
LEMMA RestoredHolds ==
  ASSUME TalkInv, NEW t \in Tabs, tab[t].at = "left"
  PROVE  /\ Restored(t) \in Context
         /\ \A B, n : TableIs(stored, B, n) /\ TabHolds(tab[t], B, n) => KeptHolds(Restored(t), tab[t].to, B, n)
<1> PICK to \in Workspaces : to = tab[t].to
  BY TabNow
<1> PICK rows \in Seq(Row) : rows = stored[to]
  BY TabNow
<1>1. /\ tab[t] \in Session /\ tab[t].saved \in [Workspaces -> Context] /\ tab[t].loaded \subseteq Workspaces
      /\ to # tab[t].project
  BY TabNow DEF Waits
<1>2. CASE to \in tab[t].loaded
  <2>1. Restored(t) = tab[t].saved[to]  BY <1>2 DEF Restored
  <2> QED  BY <1>1, <1>2, <2>1 DEF TabHolds
<1>3. CASE to \notin tab[t].loaded
  <2> PICK c : c = FromStore(FirstN(rows), 0)
    OBVIOUS
  <2>1. Restored(t) = c  BY <1>3 DEF Restored
  <2>2. c \in Context
    <3>1. FirstN(rows) \in Seq(Row) /\ 0 \in Nat  BY FirstRows
    <3> QED  BY <3>1, ReadTyped
  <2>3. ASSUME NEW B, NEW n, TableIs(stored, B, n) PROVE KeptHolds(c, to, B, n)
    <3>1. RowsHold(rows, to, B, n)  BY <2>3 DEF TableIs
    <3>2. c = FreshContext(0) \/ ContextHolds(c, to, B, n)
      <4> PICK id \in Nat : id = 0
        OBVIOUS
      <4>1. c = FromStore(FirstN(rows), id)  OBVIOUS
      <4>2. c = FreshContext(id) \/ ContextHolds(c, to, B, n)
        BY <3>1, <4>1, ReadHolds
      <4> QED  BY <4>2
    <3> QED  BY <3>2 DEF KeptHolds, NoContext
  <2> QED  BY <2>1, <2>2, <2>3
<1> QED  BY <1>2, <1>3

LEMMA ResolvedHolds ==
  ASSUME TalkInv, NEW t \in Tabs, tab[t].at = "left", NewIdIf(Restored(t) = NoContext)
  PROVE  /\ Resolved(t) \in Context /\ threads' \in Nat /\ threads <= threads'
         /\ \A B : /\ KeptHolds(Restored(t), tab[t].to, B, threads') /\ \A a \in B : a[2] \in 1..threads
                   => ContextHolds(Resolved(t), tab[t].to, B, threads')
<1>1. threads \in Nat /\ Restored(t) \in Context
  BY TabNow, RestoredHolds
<1>2. CASE Restored(t) = NoContext
  <2> PICK id \in Nat : id = threads + 1
    BY <1>1
  <2>1. Resolved(t) = FreshContext(id) /\ threads' = id  BY <1>2 DEF Resolved, NewIdIf, NewId
  <2>2. FreshContext(id) \in Context /\ FreshContext(id).id = id
        /\ FreshContext(id).messages = <<>> /\ FreshContext(id).list = <<>>
    BY ContextsTyped
  <2>3. ASSUME NEW B, \A a \in B : a[2] \in 1..threads PROVE ContextHolds(FreshContext(id), tab[t].to, B, id)
    <3>1. id \in 1..id /\ \A a \in B : a[2] # id  BY <1>1, <2>3
    <3>2. \A p : Holding(id, <<>>, p, B, id) /\ RowsHold(<<>>, p, B, id)  BY <3>1, EmptyHolds
    <3> QED  BY <2>2, <3>2 DEF ContextHolds
  <2>4. threads' \in Nat /\ threads <= threads'  BY <1>1, <2>1
  <2> QED  BY <2>1, <2>2, <2>3, <2>4
<1>3. CASE Restored(t) # NoContext
  <2>1. Resolved(t) = Restored(t) /\ threads' = threads  BY <1>3 DEF Resolved, NewIdIf
  <2>2. threads' \in Nat /\ threads <= threads'  BY <1>1, <2>1
  <2>3. \A B : KeptHolds(Restored(t), tab[t].to, B, threads') => ContextHolds(Restored(t), tab[t].to, B, threads')
    BY <1>3 DEF KeptHolds
  <2> QED  BY <1>1, <2>1, <2>2, <2>3
<1> QED  BY <1>2, <1>3

LEMMA WithSaved ==
  ASSUME NEW x \in Session, NEW saved \in [Workspaces -> Context], NEW y, y = [x EXCEPT !.saved = saved]
  PROVE  /\ y \in Session /\ y.saved = saved /\ y.loaded = x.loaded
         /\ y.now = x.now /\ y.at = x.at /\ y.open = x.open /\ y.project = x.project
BY DEF Session

LEMMA WithLoaded ==
  ASSUME NEW x \in Session, NEW loaded \in SUBSET Workspaces, NEW y, y = [x EXCEPT !.loaded = loaded]
  PROVE  /\ y \in Session /\ y.saved = x.saved /\ y.loaded = loaded
         /\ y.now = x.now /\ y.at = x.at /\ y.open = x.open /\ y.project = x.project
BY DEF Session

LEMMA SwitchingTyped ==
  ASSUME TalkInv, NEW t \in Tabs, tab[t].at = "left", NEW y, y = Switching(t)
  PROVE  /\ y \in Session /\ y.open /\ y.at = "rest" /\ y.now = tab[t].now /\ y.project = tab[t].project
         /\ y.loaded = tab[t].loaded \cup {tab[t].to}
         /\ \A p \in Workspaces : y.saved[p] = IF p = tab[t].to THEN Restored(t)
                                               ELSE IF p = tab[t].project THEN tab[t].now ELSE tab[t].saved[p]
<1> PICK z : z = AtRest(tab[t])
  OBVIOUS
<1> PICK r \in Context : r = Restored(t)
  BY RestoredHolds
<1> PICK old \in Workspaces : old = tab[t].project
  BY TabNow
<1> PICK to \in Workspaces : to = tab[t].to
  BY TabNow
<1> PICK c \in Context : c = tab[t].now
  BY TabNow
<1> PICK was \in [Workspaces -> Context] : was = tab[t].saved
  BY TabNow
<1>a. PICK saved : saved = [[was EXCEPT ![old] = c] EXCEPT ![to] = r]
  OBVIOUS
<1>c. PICK loaded : loaded = tab[t].loaded \cup {to}
  OBVIOUS
<1>1. tab[t] \in Session /\ tab[t].open /\ loaded \in SUBSET Workspaces
  BY <1>c, TabNow
<1>2. /\ z \in Session /\ z.at = "rest" /\ z.now = c /\ z.open /\ z.project = old /\ z.loaded = tab[t].loaded
  BY <1>1, RestTyped
<1>3. /\ saved \in [Workspaces -> Context]
      /\ \A p \in Workspaces : saved[p] = IF p = to THEN r ELSE IF p = old THEN c ELSE was[p]
  BY <1>a
<1>b. PICK w : w = [z EXCEPT !.saved = saved]
  OBVIOUS
<1>4. y = [w EXCEPT !.loaded = loaded]
  BY <1>a, <1>b, <1>c DEF Switching
<1>5. /\ y \in Session /\ y.saved = saved /\ y.loaded = loaded /\ y.at = "rest" /\ y.now = c /\ y.open
      /\ y.project = old
  <2>1. /\ w \in Session /\ w.saved = saved /\ w.loaded = z.loaded
        /\ w.now = z.now /\ w.at = z.at /\ w.open = z.open /\ w.project = z.project
    <3>1. z \in Session /\ saved \in [Workspaces -> Context]  BY <1>2, <1>3
    <3> QED  BY <1>b, <3>1, WithSaved
  <2>2. /\ y \in Session /\ y.saved = w.saved /\ y.loaded = loaded
        /\ y.now = w.now /\ y.at = w.at /\ y.open = w.open /\ y.project = w.project
    BY <1>1, <1>4, <2>1, WithLoaded
  <2> QED  BY <1>2, <2>1, <2>2
<1> QED  BY <1>3, <1>5, <1>c

LEMMA FinishSwitchStep ==
  ASSUME TalkInv, NEW t \in Tabs, FinishSwitch(t)
  PROVE  TalkInv'
<1> PICK y : y = Switching(t)
  OBVIOUS
<1> PICK r : r = Resolved(t)
  OBVIOUS
<1> PICK to : to = tab[t].to
  OBVIOUS
<1> PICK x : x = [y EXCEPT !.now = r, !.project = to]
  OBVIOUS
<1>1. /\ tab[t].at = "left" /\ NewIdIf(Restored(t) = NoContext) /\ tab' = [tab EXCEPT ![t] = x] /\ Noted
      /\ UNCHANGED <<stored, listed, turns, acked, split>>
  BY DEF FinishSwitch
<1>2. /\ to \in Workspaces /\ to # tab[t].project /\ turns \in Nat /\ split \in BOOLEAN /\ tab[t].open
      /\ tab[t].loaded \subseteq Workspaces
  BY <1>1, TabNow DEF Waits
<1>3. r \in Context /\ threads' \in Nat /\ threads <= threads'
  BY <1>1, ResolvedHolds
<1>4. /\ y \in Session /\ y.open /\ y.at = "rest"
      /\ y.loaded = tab[t].loaded \cup {to}
      /\ \A p \in Workspaces : y.saved[p] = IF p = to THEN Restored(t)
                                            ELSE IF p = tab[t].project THEN tab[t].now ELSE tab[t].saved[p]
  BY <1>1, SwitchingTyped
<1>5. /\ x \in Session /\ x.open /\ x.at = "rest" /\ x.now = r /\ x.project = to
      /\ x.loaded = y.loaded /\ x.saved = y.saved
  BY <1>2, <1>3, <1>4 DEF Session
<1>6. ASSUME Calm' PROVE TabHolds(x, Counted', threads')
  <2> PICK B : B = Counted'
    OBVIOUS
  <2>1. acked' \subseteq acked  BY <1>1
  <2>2. TableIs(stored, B, threads') /\ TabHolds(tab[t], B, threads') /\ \A a \in B : a[2] \in 1..threads
    BY <1>1, <1>2, <1>3, <1>6, <2>1, CountsLess
  <2>3. KeptHolds(Restored(t), to, B, threads')
    BY <1>1, <2>2, RestoredHolds
  <2>4. ContextHolds(r, to, B, threads')
    BY <1>1, <2>2, <2>3, ResolvedHolds
  <2>5. ASSUME NEW p \in x.loaded \ {to} PROVE KeptHolds(x.saved[p], p, B, threads')
    <3>1. p \in tab[t].loaded /\ p \in Workspaces  BY <1>2, <1>4, <1>5
    <3>2. CASE p = tab[t].project
      BY <1>4, <1>5, <2>2, <3>1, <3>2 DEF TabHolds, KeptHolds
    <3>3. CASE p # tab[t].project
      BY <1>4, <1>5, <2>2, <2>5, <3>1, <3>3 DEF TabHolds
    <3> QED  BY <3>2, <3>3
  <2> QED  BY <1>5, <2>4, <2>5 DEF TabHolds
<1>7. Waits(x)  BY <1>5, RestWaits
<1> QED  BY <1>1, <1>2, <1>3, <1>5, <1>6, <1>7, QuietTabStep

LEMMA CutSwitchStep ==
  ASSUME TalkInv, NEW t \in Tabs, CutSwitch(t)
  PROVE  TalkInv'
<1> PICK y : y = Switching(t)
  OBVIOUS
<1> PICK now \in Context : now = tab[t].now
  BY TabNow
<1> PICK r : r = Resolved(t)
  OBVIOUS
<1>1. /\ tab[t].at = "left" /\ NewIdIf(Restored(t) = NoContext) /\ Noted
      /\ UNCHANGED <<stored, listed, turns, acked>>
  BY DEF CutSwitch
<1>2. PICK c \in PartOf(now, r) : tab' = [tab EXCEPT ![t] = [y EXCEPT !.now = c]] /\ split' = (split \/ c # now)
  BY DEF CutSwitch
<1> PICK x : x = [y EXCEPT !.now = c]
  OBVIOUS
<1>3. /\ turns \in Nat /\ split \in BOOLEAN /\ tab[t].open /\ tab[t].loaded \subseteq Workspaces
      /\ tab[t].to \in Workspaces
  BY <1>1, TabNow
<1>4. r \in Context /\ threads' \in Nat /\ threads <= threads'
  BY <1>1, ResolvedHolds
<1>5. c \in Context
  BY <1>4 DEF PartOf, Context
<1>6. /\ y \in Session /\ y.open /\ y.at = "rest" /\ y.now = now /\ y.project = tab[t].project
      /\ y.loaded = tab[t].loaded \cup {tab[t].to}
      /\ \A p \in Workspaces : y.saved[p] = IF p = tab[t].to THEN Restored(t)
                                            ELSE IF p = tab[t].project THEN tab[t].now ELSE tab[t].saved[p]
  BY <1>1, SwitchingTyped
<1>7. /\ x \in Session /\ x.open /\ x.at = "rest" /\ x.now = c /\ x.project = tab[t].project
      /\ x.loaded = y.loaded /\ x.saved = y.saved
  BY <1>5, <1>6, WithNow
<1>8. ASSUME Calm' PROVE TabHolds(x, Counted', threads')
  <2> PICK B : B = Counted'
    OBVIOUS
  <2>1. acked' \subseteq acked /\ c = now /\ (split => split')  BY <1>1, <1>2, <1>8 DEF Calm
  <2>2. TableIs(stored, B, threads') /\ TabHolds(tab[t], B, threads')
    BY <1>1, <1>3, <1>4, <1>8, <2>1, CountsLess
  <2>3. KeptHolds(Restored(t), tab[t].to, B, threads')
    BY <1>1, <2>2, RestoredHolds
  <2>4. ASSUME NEW p \in x.loaded \ {x.project} PROVE KeptHolds(x.saved[p], p, B, threads')
    <3>1. p \in Workspaces /\ (p = tab[t].to \/ p \in tab[t].loaded)  BY <1>3, <1>6, <1>7
    <3>2. CASE p = tab[t].to  BY <1>6, <1>7, <2>3, <3>1, <3>2
    <3>3. CASE p # tab[t].to  BY <1>6, <1>7, <2>2, <2>4, <3>1, <3>3 DEF TabHolds
    <3> QED  BY <3>2, <3>3
  <2> QED  BY <1>7, <2>1, <2>2, <2>4 DEF TabHolds
<1>9. Waits(x)  BY <1>7, RestWaits
<1>10. split' \in BOOLEAN /\ (split => split') /\ turns' \in Nat  BY <1>1, <1>2, <1>3
<1> QED  BY <1>1, <1>2, <1>3, <1>4, <1>7, <1>8, <1>9, <1>10, QuietTabStep

LEMMA ClearAllStep ==
  ASSUME TalkInv, NEW t \in Tabs, ClearAll(t)
  PROVE  TalkInv'
<1> PICK q : q = AnswersFrom(t)
  OBVIOUS
<1> PICK now \in Context : now = tab[t].now
  BY TabNow
<1> PICK id : id = threads + 1
  OBVIOUS
<1>1. /\ tab[t].open /\ tab[t].at = "rest" /\ threads' = id /\ Noted /\ UNCHANGED <<listed, turns, split>>
      /\ stored' = [stored EXCEPT ![q] = <<>>] /\ acked' = {a \in acked : a[1] # q}
  BY DEF ClearAll, Free, NewId
<1>2. PICK c \in {now, [now EXCEPT !.list = <<>>], [now EXCEPT !.list = <<>>, !.id = id], FreshContext(id)} :
        tab' = [tab EXCEPT ![t].now = c]
  BY DEF ClearAll
<1> PICK x : x = [tab[t] EXCEPT !.now = c]
  OBVIOUS
<1>3. /\ threads \in Nat /\ id \in Nat /\ id = threads + 1 /\ threads <= id /\ id \in 1..id /\ id \notin 1..threads
      /\ tab[t] \in Session /\ turns \in Nat /\ listed \subseteq Workspaces /\ listed # {}
      /\ acked \subseteq Workspaces \X Nat \X Nat /\ stored \in [Workspaces -> Seq(Row)] /\ split \in BOOLEAN
  BY TabNow DEF TalkInv, TalkTypes
<1>4. q \in Workspaces /\ acked' \subseteq acked /\ acked' \subseteq Workspaces \X Nat \X Nat
  BY <1>1, <1>3 DEF AnswersFrom, Session
<1>5. /\ c \in Context /\ c.id \in {now.id, id} /\ c.messages \in {now.messages, <<>>} /\ c.list \in {now.list, <<>>}
      /\ c.id = now.id => c.messages = now.messages \/ c = FreshContext(id)
  <2>1. FreshContext(id) \in Context /\ FreshContext(id).id = id
        /\ FreshContext(id).messages = <<>> /\ FreshContext(id).list = <<>>
    BY <1>3, ContextsTyped
  <2> QED  BY <1>2, <1>3, <2>1, EmptySeq DEF Context
<1>6. /\ x \in Session /\ x.open /\ x.at = "rest" /\ x.now = c /\ x.project = tab[t].project
      /\ x.loaded = tab[t].loaded /\ x.saved = tab[t].saved
  BY <1>1, <1>3, <1>5, WithNow
<1>7. /\ stored' \in [Workspaces -> Seq(Row)] /\ stored'[q] = <<>>
      /\ \A p \in Workspaces : p # q => stored'[p] = stored[p]
  BY <1>1, <1>3, <1>4, EmptySeq
<1>8. ASSUME Calm'
      PROVE  /\ TableIs(stored', Counted', threads')
             /\ \A u \in Tabs \ {t} : tab[u].open => TabHolds(tab[u], Counted', threads')
             /\ TabHolds(x, Counted', threads')
             /\ \A a \in Counted' : a[2] \in 1..threads' /\ InTable(a, stored')
  <2> PICK B : B = Counted'
    OBVIOUS
  <2>0. threads' \in Nat /\ threads <= threads' /\ split => split'  BY <1>1, <1>3
  <2>1. /\ TableIs(stored, B, threads')
        /\ \A u \in Tabs : tab[u].open => tab[u].project \in listed /\ TabHolds(tab[u], B, threads')
        /\ \A a \in B : a[2] \in 1..threads' /\ a[2] \in 1..threads /\ InTable(a, stored)
    BY <1>1, <1>3, <1>4, <1>8, <2>0, CountsLess
  <2>2. \A a \in B : a[2] # id /\ a[1] # q /\ a[1] \in Workspaces
    BY <1>1, <1>3, <2>1 DEF Counted
  <2>3. q = tab[t].project
    BY <1>1, <2>1 DEF AnswersFrom
  <2>4. ContextHolds(now, q, B, threads')
    BY <1>1, <2>1, <2>3 DEF TabHolds
  <2>5. \A p : RowsHold(<<>>, p, B, threads') /\ Asked(<<>>, p)
    BY DEF RowsHold, Asked
  <2>6. Holding(c.id, c.messages, q, B, threads')
    <3>1. c.id \in 1..threads'  BY <1>1, <1>3, <1>5, <2>4 DEF ContextHolds, Holding
    <3>2. Asked(c.messages, q)  BY <1>5, <2>4, <2>5 DEF ContextHolds, Holding
    <3> QED  BY <2>2, <3>1, <3>2 DEF Holding
  <2>7. ContextHolds(c, q, B, threads')
    BY <1>5, <2>4, <2>5, <2>6 DEF ContextHolds
  <2>8. TabHolds(x, B, threads')
    BY <1>1, <1>6, <2>1, <2>3, <2>7 DEF TabHolds
  <2>9. TableIs(stored', B, threads')
    BY <1>7, <2>1, <2>5 DEF TableIs
  <2>10. \A a \in B : InTable(a, stored')
    BY <1>7, <2>1, <2>2 DEF InTable
  <2> QED  BY <2>1, <2>8, <2>9, <2>10
<1>9. Waits(x)  BY <1>6, RestWaits
<1>10. tab' = [tab EXCEPT ![t] = x]  BY <1>2
<1> QED  BY <1>1, <1>3, <1>4, <1>6, <1>7, <1>8, <1>9, <1>10, TabStep

LEMMA ArchiveStep ==
  ASSUME TalkInv, NEW p \in Workspaces, ArchiveProject(p)
  PROVE  TalkInv'
<1>1. /\ p \in listed /\ Cardinality(listed) > 1 /\ listed' = listed \ {p} /\ Noted
      /\ UNCHANGED <<stored, tab, turns, threads, acked, split>>
  BY DEF ArchiveProject
<1>2. listed' # {}
  <2> SUFFICES ASSUME listed' = {} PROVE FALSE
    OBVIOUS
  <2>1. listed = {p}  BY <1>1
  <2>2. Cardinality({p}) = 1  BY FS_Singleton
  <2> QED  BY <1>1, <2>1, <2>2
<1>3. TalkTypes'
  <2>1. listed' \subseteq Workspaces  BY <1>1 DEF TalkInv, TalkTypes
  <2>2. orphaned' \in BOOLEAN  BY <1>1 DEF Noted, TalkInv, TalkTypes
  <2> QED  BY <1>1, <1>2, <2>1, <2>2 DEF TalkInv, TalkTypes
<1>4. ASSUME Calm' PROVE TalkHolds'
  <2> PICK B : B = Counted'
    OBVIOUS
  <2>0. threads \in Nat /\ threads' \in Nat /\ threads <= threads' /\ acked' \subseteq acked
    BY <1>1 DEF TalkInv, TalkTypes
  <2>1. /\ TableIs(stored, B, threads')
        /\ \A u \in Tabs : tab[u].open => TabHolds(tab[u], B, threads')
        /\ \A a \in B : a[2] \in 1..threads' /\ InTable(a, stored)
    BY <1>1, <1>4, <2>0, CountsLess
  <2>2. \A u \in Tabs : tab'[u].open => tab'[u].project \in listed'
    BY <1>1, <1>4 DEF Noted, Calm
  <2>3. TableIs(stored', Counted', threads')
    BY <1>1, <2>1
  <2>4. \A u \in Tabs : tab'[u].open => tab'[u].project \in listed' /\ TabHolds(tab'[u], Counted', threads')
    BY <1>1, <2>1, <2>2
  <2>5. \A a \in Counted' : a[2] \in 1..threads' /\ InTable(a, stored')
    BY <1>1, <2>1
  <2> QED  BY <2>3, <2>4, <2>5 DEF TalkHolds
<1> QED  BY <1>3, <1>4 DEF TalkInv

LEMMA TalkStutter ==
  ASSUME TalkInv, UNCHANGED talkVars
  PROVE  TalkInv'
<1>1. UNCHANGED <<stored, tab, listed, turns, threads, acked, sharedIds, orphaned, split>>
  BY DEF talkVars
<1>2. Counted' = Counted  BY <1>1 DEF Counted
<1>3. TalkTypes'  BY <1>1 DEF TalkInv, TalkTypes
<1>4. ASSUME Calm' PROVE TalkHolds'
  <2>1. TalkHolds  BY <1>1, <1>4 DEF TalkInv, Calm
  <2>2. TableIs(stored', Counted', threads')
    BY <1>1, <1>2, <2>1 DEF TalkHolds
  <2>3. \A u \in Tabs : tab'[u].open => tab'[u].project \in listed' /\ TabHolds(tab'[u], Counted', threads')
    BY <1>1, <1>2, <2>1 DEF TalkHolds
  <2>4. \A a \in Counted' : a[2] \in 1..threads' /\ InTable(a, stored')
    BY <1>1, <1>2, <2>1 DEF TalkHolds
  <2> QED  BY <2>2, <2>3, <2>4 DEF TalkHolds
<1> QED  BY <1>3, <1>4 DEF TalkInv

LEMMA TalkStarts == TalkInit => TalkInv
<1> SUFFICES ASSUME TalkInit PROVE TalkInv
  OBVIOUS
<1>1. /\ stored = [p \in Workspaces |-> <<>>] /\ tab = [t \in Tabs |-> Closed] /\ listed = Workspaces
      /\ turns = 0 /\ threads = 0 /\ acked = {} /\ sharedIds = {} /\ orphaned = FALSE /\ split = FALSE
  BY DEF TalkInit
<1>2. TalkTypes
  <2>1. stored \in [Workspaces -> Seq(Row)]  BY <1>1, EmptySeq
  <2>2. Waits(Closed)  BY ContextsTyped DEF Waits
  <2>3. tab \in [Tabs -> Session] /\ \A t \in Tabs : Waits(tab[t])
    BY <1>1, <2>2, ContextsTyped
  <2> QED  BY <1>1, <2>1, <2>3, HomeAssumption DEF TalkTypes
<1>3. TalkHolds
  <2>1. Counted = {}  BY <1>1 DEF Counted
  <2>2. \A p \in Workspaces : Len(stored[p]) = 0  BY <1>1
  <2>3. TableIs(stored, Counted, threads)  BY <2>2 DEF TableIs, RowsHold
  <2>4. \A t \in Tabs : ~tab[t].open  BY <1>1, ContextsTyped
  <2> QED  BY <2>1, <2>3, <2>4 DEF TalkHolds
<1> QED  BY <1>2, <1>3 DEF TalkInv

LEMMA TalkStep == TalkInv /\ [TalkNext]_talkVars => TalkInv'
<1> SUFFICES ASSUME TalkInv, [TalkNext]_talkVars PROVE TalkInv'
  OBVIOUS
<1>1. ASSUME NEW t \in Tabs,
             \/ OpenTab(t) \/ CloseTab(t) \/ StopScript(t) \/ ClearAll(t)
             \/ Ask(t) \/ Answer(t) \/ Save(t) \/ EndThread(t)
             \/ FinishSwitch(t) \/ CutSwitch(t)
      PROVE  TalkInv'
  BY <1>1, OpenTabStep, CloseTabStep, StopScriptStep, ClearAllStep, AskOneStep, AnswerStep, SaveStep,
     EndThreadStep, FinishSwitchStep, CutSwitchStep
<1>2. ASSUME NEW t \in Tabs, NewThread(t) PROVE TalkInv'
  BY <1>2, StartSyncStep, HomeAssumption DEF NewThread
<1>3. ASSUME NEW t \in Tabs, NEW i \in 1..ListLimit, OpenThread(t, i) \/ CutOpenThread(t, i) PROVE TalkInv'
  <2>1. i \in Nat  BY LimitsAssumption
  <2> QED  BY <1>3, <2>1, OpenThreadStep
<1>4. ASSUME NEW t \in Tabs, NEW p \in Workspaces, SwitchTo(t, p) PROVE TalkInv'
  BY <1>4, StartSyncStep DEF SwitchTo
<1>5. ASSUME NEW p \in Workspaces, ArchiveProject(p) PROVE TalkInv'
  BY <1>5, ArchiveStep
<1>6. CASE UNCHANGED talkVars  BY <1>6, TalkStutter
<1> QED  BY <1>1, <1>2, <1>3, <1>4, <1>5, <1>6 DEF TalkNext

\* What a tab shows, lists and stores under a project was answered from it,
\* as long as no stop left half of another conversation on a page and no tab
\* is left on an archived project.
THEOREM TurnsStayApart == TalkSpec => []TurnsApart
<1>1. TalkInv => TurnsApart
  <2> SUFFICES ASSUME TalkInv, ~split, ~orphaned PROVE OwnTurns
    BY DEF TurnsApart
  <2>1. TalkHolds /\ TalkTypes  BY DEF TalkInv, Calm
  <2>2. \A p \in Workspaces : AskedAll(stored[p], p)
    BY <2>1 DEF TalkHolds, TableIs, RowsHold, Holding, AskedAll
  <2>3. ASSUME NEW t \in Tabs, tab[t].open
        PROVE  /\ Asked(tab[t].now.messages, tab[t].project)
               /\ AskedAll(tab[t].now.list, tab[t].project)
    BY <2>1, <2>3 DEF TalkHolds, TabHolds, ContextHolds, RowsHold, Holding, AskedAll
  <2>4. ASSUME NEW t \in Tabs, ~tab[t].open
        PROVE  /\ Asked(tab[t].now.messages, tab[t].project)
               /\ AskedAll(tab[t].now.list, tab[t].project)
    <3>1. tab[t].now.messages = <<>> /\ tab[t].now.list = <<>>
      BY <2>1, <2>4, ContextsTyped DEF TalkTypes, Waits
    <3>2. Len(<<>>) = 0  OBVIOUS
    <3> QED  BY <3>1, <3>2 DEF Asked, AskedAll
  <2> QED  BY <2>2, <2>3, <2>4 DEF OwnTurns
<1> QED  BY <1>1, TalkStarts, TalkStep, PTL DEF TalkSpec

\* A turn whose answer was saved stays in the table, whatever is opened,
\* switched, stopped and saved again, when no other tab holds its conversation
\* and neither of the two exceptions of TurnsStayApart has occurred.
THEOREM TurnsStayKept == TalkSpec => []TurnsKept
<1>1. TalkInv => TurnsKept
  <2> SUFFICES ASSUME TalkInv, ~split, ~orphaned, NEW a \in acked, a[2] \notin sharedIds
               PROVE  \E i \in 1..Len(stored[a[1]]) :
                        /\ stored[a[1]][i].id = a[2]
                        /\ \E k \in 1..Len(stored[a[1]][i].messages) :
                             stored[a[1]][i].messages[k].n = a[3]
    BY DEF TurnsKept
  <2>1. a \in Counted /\ TalkHolds /\ a[1] \in Workspaces
    BY DEF Counted, TalkInv, TalkTypes, Calm
  <2>2. PICK i \in 1..Len(stored[a[1]]) : stored[a[1]][i].id = a[2]
    BY <2>1 DEF TalkHolds, InTable
  <2>3. HasTurn(stored[a[1]][i].messages, a[3])
    BY <2>1, <2>2 DEF TalkHolds, TableIs, RowsHold, Holding
  <2> QED  BY <2>2, <2>3 DEF HasTurn
<1> QED  BY <1>1, TalkStarts, TalkStep, PTL DEF TalkSpec

(***************************************************************************)
(* The query page of the web client.                                       *)
(***************************************************************************)

WebTypes ==
  /\ selected \in Selectable /\ readiness \in MaybeProject /\ inFlight \in MaybeProject
  /\ shown \in MaybeProject /\ historyOf \in MaybeProject
  /\ switches \subseteq Selectable /\ refreshes \subseteq Selectable
  /\ switching \in BOOLEAN /\ resetDue \in BOOLEAN /\ overtaken \in BOOLEAN
  /\ kept \in [Selectable -> SUBSET Selectable] /\ reviews \subseteq Selectable \X Selectable
  /\ asks \in 0..MaxAsked

\* The open question is one for the selected project.
WebInv ==
  WebTypes /\ AnswersApart /\ (~overtaken => inFlight \in {selected, NoProject})

LEMMA WebStep ==
  ASSUME WebInv, [WebNext]_webVars
  PROVE  WebInv'
<1> USE DEF WebInv, WebTypes, AnswersApart, MaybeProject
<1>1. ASSUME NEW p \in Selectable, StartSwitch(p) PROVE WebInv'
  BY <1>1 DEF StartSwitch
<1>2. ASSUME NEW p \in Selectable, Switched(p) PROVE WebInv'
  <2>1. WebTypes'  BY <1>2 DEF Switched
  <2>2. ~overtaken' => selected' = selected \/ (resetDue' /\ inFlight = NoProject)
    BY <1>2 DEF Switched
  <2> QED  BY <1>2, <2>1, <2>2 DEF Switched
<1>3. ASSUME NEW p \in Selectable, SwitchFails(p) PROVE WebInv'
  BY <1>3 DEF SwitchFails
<1>4. ASSUME NEW p \in Selectable, Refreshed(p) PROVE WebInv'
  BY <1>4 DEF Refreshed
<1>5. ASSUME ResetPage PROVE WebInv'
  BY <1>5 DEF ResetPage
<1>6. ASSUME SendQuestion PROVE WebInv'
  <2>1. asks' \in 0..MaxAsked  BY <1>6, MaxAskedAssumption DEF SendQuestion
  <2> QED  BY <1>6, <2>1 DEF SendQuestion
<1>7. ASSUME ReceiveAnswer PROVE WebInv'
  <2>1. inFlight \in Selectable /\ SavedUnder = inFlight
    BY <1>7 DEF ReceiveAnswer, SavedUnder
  <2>2. \A p \in Selectable :
          kept'[p] = IF p = inFlight THEN kept[p] \cup {inFlight} ELSE kept[p]
    BY <1>7, <2>1 DEF ReceiveAnswer
  <2>3. kept' \in [Selectable -> SUBSET Selectable]
    BY <1>7, <2>1 DEF ReceiveAnswer
  <2>4. \A p \in Selectable : kept'[p] \subseteq {p}
    BY <2>1, <2>2
  <2>5. shown' = inFlight /\ historyOf' = inFlight /\ inFlight' = NoProject
    BY <1>7, <2>1 DEF ReceiveAnswer
  <2>6. UNCHANGED <<selected, readiness, switches, refreshes, switching, resetDue, reviews, asks,
                    overtaken>>
    BY <1>7 DEF ReceiveAnswer
  <2> QED  BY <2>1, <2>3, <2>4, <2>5, <2>6
<1>8. ASSUME QuestionFails PROVE WebInv'
  BY <1>8 DEF QuestionFails
<1>9. ASSUME OpenEntry PROVE WebInv'
  <2>1. historyOf \in Selectable /\ shown' = historyOf
    BY <1>9 DEF OpenEntry
  <2> QED  BY <1>9, <2>1 DEF OpenEntry
<1>10. ASSUME SendReview PROVE WebInv'
  BY <1>10 DEF SendReview
<1>11. ASSUME UNCHANGED webVars PROVE WebInv'
  BY <1>11 DEF webVars
<1> QED
  BY <1>1, <1>2, <1>3, <1>4, <1>5, <1>6, <1>7, <1>8, <1>9, <1>10, <1>11 DEF WebNext

(* The history of a project holds its own answers, whatever was switched   *)
(* under a question; and while none was, the page shows no answer of       *)
(* another project once it has been reset.                                 *)
THEOREM AnswersStayApart == WebSpec => []AnswersApart
<1>1. WebInit => WebInv
  <2> SUFFICES ASSUME WebInit PROVE WebInv
    OBVIOUS
  <2>1. WebTypes
    <3>1. /\ switching = FALSE /\ resetDue = TRUE /\ overtaken = FALSE
          /\ refreshes = {selected} /\ selected \in Selectable /\ switches = {} /\ reviews = {}
      BY DEF WebInit
    <3>2. kept = [p \in Selectable |-> {}] /\ asks = 0 /\ asks \in 0..MaxAsked
      BY MaxAskedAssumption DEF WebInit
    <3>3. /\ readiness = NoProject /\ inFlight = NoProject /\ shown = NoProject
          /\ historyOf = NoProject
      BY DEF WebInit
    <3> QED  BY <3>1, <3>2, <3>3 DEF WebTypes, MaybeProject
  <2>2. AnswersApart  BY DEF WebInit, AnswersApart
  <2> QED  BY <2>1, <2>2 DEF WebInv, WebInit
<1>2. WebInv /\ [WebNext]_webVars => WebInv'  BY WebStep
<1>3. WebInv => AnswersApart  BY DEF WebInv
<1> QED  BY <1>1, <1>2, <1>3, PTL DEF WebSpec

(***************************************************************************)
(* The graph explorer.                                                     *)
(***************************************************************************)

Rooted   == {None} \cup {<<n>> : n \in Nodes}
Subgraph == [root : Rooted, nodes : SUBSET Nodes, edges : SUBSET Edges,
             depth : Nat, truncated : BOOLEAN]
Visits   == [node : Rooted, depth : Nat]
Explored == [result : Subgraph, picked : SUBSET Nodes, history : Seq(Visits),
             hidden : SUBSET NodeLabels]

ExplorerTypes ==
  /\ viewed \in Owners
  /\ context \in [Owners -> Explored]
  /\ arrived \in Subgraph
  /\ writing = <<>> \/ (/\ writing \in {"open", "pick", "restart", "merge", "record"} \X SUBSET Nodes)

ExplorerInv == ExplorerTypes /\ (viewed # OpenProject => InScope(viewed, arrived))

LEMMA NoPayloadTyped ==
  /\ NoPayload \in Subgraph /\ NoContextYet \in Explored
  /\ NoPayload.nodes = {} /\ NoPayload.edges = {} /\ NoPayload.root = None
BY EmptySeq DEF NoPayload, NoContextYet, Subgraph, Explored, Rooted, None

\* What the database answers is a graph of the project that asks.
LEMMA AnswerInProject ==
  ASSUME NEW p \in Owners, NEW label, NEW key, NEW depth \in Depths, NEW limit \in PathLimits,
         NEW a \in Subgraphs(p, label, key, depth, limit)
  PROVE  a \in Subgraph /\ (p # OpenProject => InScope(p, a))
<1>1. CASE a = NoPayload
  BY <1>1, NoPayloadTyped DEF InScope
<1>2. CASE a # NoPayload
  <2>1. PICK root \in Roots(p, label, key) : a \in Payloads(p, root, depth, limit)
    BY <1>2 DEF Subgraphs
  <2>2. root \in Nodes /\ InProject(p, Owner[root])
    BY <2>1 DEF Roots
  <2> DEFINE within == {e \in Edges : InProject(p, e.owner) /\ \A n \in Ends(e) : InProject(p, Owner[n])}
             all == PathsFrom(p, root, depth)
  <2>3. \A path \in all : \E length \in 1..depth : path \in [1..length -> within]
    BY DEF PathsFrom
  <2>4. PICK s \in SUBSET all :
          a = LET edges == UNION {ToSet(path) : path \in s}
              IN [root |-> <<root>>, nodes |-> {root} \cup UNION {Ends(e) : e \in edges},
                  edges |-> edges, depth |-> depth, truncated |-> Cardinality(s) >= limit]
    <3> DEFINE of(paths) ==
          LET edges == UNION {ToSet(path) : path \in paths}
          IN [root |-> <<root>>, nodes |-> {root} \cup UNION {Ends(e) : e \in edges},
              edges |-> edges, depth |-> depth, truncated |-> Cardinality(paths) >= limit]
        some == IF Cardinality(all) <= limit THEN {all} ELSE kSubset(limit, all)
    <3>1. Payloads(p, root, depth, limit) = {of(s) : s \in some}
      BY DEF Payloads
    <3>2. some \subseteq SUBSET all
      BY DEF kSubset
    <3> HIDE DEF some, all
    <3>3. \E s \in SUBSET all : a = of(s)
      BY <2>1, <3>1, <3>2
    <3> QED  BY <3>3
  <2> DEFINE edges == UNION {ToSet(path) : path \in s}
  <2>5. edges \subseteq within
    <3>1. ASSUME NEW path \in s, NEW e \in ToSet(path) PROVE e \in within
      <4> HIDE DEF within, all
      <4>1. PICK length \in 1..depth : path \in [1..length -> within]
        BY <2>3
      <4>2. PICK i \in DOMAIN path : e = path[i]
        BY DEF ToSet
      <4> QED  BY <4>1, <4>2
    <3> QED  BY <3>1
  <2>6. /\ a.root = <<root>> /\ a.nodes = {root} \cup UNION {Ends(e) : e \in edges}
        /\ a.edges = edges /\ a = [root |-> a.root, nodes |-> a.nodes, edges |-> a.edges,
                                   depth |-> depth, truncated |-> Cardinality(s) >= limit]
    BY <2>4
  <2> HIDE DEF edges, within, all
  <2>7. /\ edges \subseteq Edges
        /\ \A e \in edges : /\ InProject(p, e.owner) /\ Ends(e) \subseteq Nodes
                            /\ \A n \in Ends(e) : InProject(p, Owner[n])
    BY <2>5, GraphAssumption DEF within, Ends
  <2>8. a.nodes \subseteq Nodes /\ \A n \in a.nodes : InProject(p, Owner[n])
    BY <2>2, <2>6, <2>7
  <2>9. depth \in Nat /\ (Cardinality(s) >= limit) \in BOOLEAN
    BY GraphAssumption
  <2>10. a \in Subgraph
    <3>1. a.root \in Rooted  BY <2>2, <2>6 DEF Rooted
    <3>2. a.edges \in SUBSET Edges  BY <2>6, <2>7
    <3>3. a.nodes \in SUBSET Nodes  BY <2>8
    <3> PICK full \in BOOLEAN : full = (Cardinality(s) >= limit)
      BY <2>9
    <3>4. a = [root |-> a.root, nodes |-> a.nodes, edges |-> a.edges, depth |-> depth,
               truncated |-> full]
      BY <2>6
    <3>5. \A rt \in Rooted, ns \in SUBSET Nodes, es \in SUBSET Edges, n \in Nat, b \in BOOLEAN :
            [root |-> rt, nodes |-> ns, edges |-> es, depth |-> n, truncated |-> b] \in Subgraph
      BY DEF Subgraph
    <3>6. [root |-> a.root, nodes |-> a.nodes, edges |-> a.edges, depth |-> depth,
           truncated |-> full] \in Subgraph
      BY <2>9, <3>1, <3>2, <3>3, <3>5
    <3> QED  BY <3>4, <3>6
  <2>11. p # OpenProject => InScope(p, a)
    BY <2>6, <2>7, <2>8 DEF InScope, InProject
  <2> QED  BY <2>10, <2>11
<1> QED  BY <1>1, <1>2

\* Hiding labels and bounding what is drawn only leave things out.
LEMMA DrawnInScope ==
  ASSUME NEW p \in Owners, p # OpenProject, NEW ctx \in Explored
  PROVE  InScope(p, Drawn(p, ctx))
<1>1. CASE ctx.result.root = None \/ ~InScope(p, ctx.result)
  BY <1>1, NoPayloadTyped DEF Drawn, InScope
<1>2. CASE ctx.result.root # None /\ InScope(p, ctx.result)
  <2> PICK r : r = ctx.result
    OBVIOUS
  <2>1. r \in Subgraph /\ InScope(p, r)
    BY <1>2 DEF Explored
  <2> PICK f : f = Filtered(r, ctx.hidden)
    OBVIOUS
  <2>2. f \in Subgraph /\ f.nodes \subseteq r.nodes /\ f.edges \subseteq r.edges
    BY <2>1 DEF Filtered, Subgraph
  <2>3. ASSUME NEW left \in SUBSET f.nodes, NEW k, k = OnlyKept(f, left)
        PROVE  k.nodes \subseteq f.nodes /\ k.edges \subseteq f.edges
    BY <2>2, <2>3 DEF OnlyKept, Subgraph
  <2> PICK d : d = Bounded(f, ctx.picked)
    OBVIOUS
  <2>4. d.nodes \subseteq f.nodes /\ d.edges \subseteq f.edges
    <3>1. d = f \/ \E left \in SUBSET f.nodes : d = OnlyKept(f, left)
      BY DEF Bounded
    <3> QED  BY <2>3, <3>1
  <2>5. Drawn(p, ctx) = d
    BY <1>2 DEF Drawn
  <2> QED  BY <2>1, <2>2, <2>4, <2>5 DEF InScope
<1> QED  BY <1>1, <1>2

LEMMA ExplorerStarts == ExplorerInit => ExplorerInv
BY NoPayloadTyped, GraphAssumption DEF ExplorerInit, ExplorerInv, ExplorerTypes, InScope

LEMMA WritesTyped ==
  ASSUME ExplorerInv, WriteNext
  PROVE  context' \in [Owners -> Explored]
<1> DEFINE here == context[viewed]
<1>1. here \in Explored /\ viewed \in Owners /\ arrived \in Subgraph
      /\ writing \in {"open", "pick", "restart", "merge", "record"} \X SUBSET Nodes
  BY DEF ExplorerInv, ExplorerTypes, WriteNext
<1>2. ASSUME NEW n \in Explored, context' = [context EXCEPT ![viewed] = n]
      PROVE  context' \in [Owners -> Explored]
  BY <1>1, <1>2 DEF ExplorerInv, ExplorerTypes
<1>3. arrived.root \in Rooted /\ arrived.depth \in Nat
  BY <1>1 DEF Subgraph
<1>4. Visit(arrived.root, arrived.depth) \in Visits
  BY <1>3 DEF Visit, Visits
<1>5. Restarted \in Seq(Visits)
  BY <1>4 DEF Restarted
<1>6. here.history \in Seq(Visits) /\ here.result \in Subgraph
  BY <1>1 DEF Explored
<1>7. Recorded \in Seq(Visits)
  BY <1>5, <1>6, ConcatProperties DEF Recorded, Here
<1>8. Merge(here.result, arrived) \in Subgraph
  BY <1>1, <1>6 DEF Merge, Subgraph
<1>9. CASE writing[1] = "open"
  <2>1. context' = [context EXCEPT ![viewed] = [here EXCEPT !.result = arrived]]
    BY <1>9 DEF WriteNext, Set
  <2>2. [here EXCEPT !.result = arrived] \in Explored  BY <1>1 DEF Explored
  <2> QED  BY <1>2, <2>1, <2>2
<1>10. CASE writing[1] = "pick"
  <2>1. context' = [context EXCEPT ![viewed] = [here EXCEPT !.picked = writing[2]]]
    BY <1>10 DEF WriteNext, Set
  <2>2. [here EXCEPT !.picked = writing[2]] \in Explored  BY <1>1 DEF Explored
  <2> QED  BY <1>2, <2>1, <2>2
<1>11. CASE writing[1] = "restart"
  <2>1. context' = [context EXCEPT ![viewed] = [here EXCEPT !.history = Restarted]]
    BY <1>11 DEF WriteNext, Set
  <2>2. [here EXCEPT !.history = Restarted] \in Explored  BY <1>1, <1>5 DEF Explored
  <2> QED  BY <1>2, <2>1, <2>2
<1>12. CASE writing[1] = "merge"
  <2>1. context' = [context EXCEPT ![viewed] = [here EXCEPT !.result = Merge(here.result, arrived)]]
    BY <1>12 DEF WriteNext, Set, Here
  <2>2. [here EXCEPT !.result = Merge(here.result, arrived)] \in Explored
    BY <1>1, <1>8 DEF Explored
  <2> QED  BY <1>2, <2>1, <2>2
<1>13. CASE writing[1] = "record"
  <2>1. context' = [context EXCEPT ![viewed] = [here EXCEPT !.history = Recorded]]
    BY <1>13 DEF WriteNext, Set
  <2>2. [here EXCEPT !.history = Recorded] \in Explored  BY <1>1, <1>7 DEF Explored
  <2> QED  BY <1>2, <2>1, <2>2
<1> QED  BY <1>1, <1>9, <1>10, <1>11, <1>12, <1>13

LEMMA ExplorerStep ==
  ASSUME ExplorerInv, [ExplorerNext]_explorerVars
  PROVE  ExplorerInv'
<1> DEFINE here == context[viewed]
<1>0. here \in Explored /\ viewed \in Owners
  BY DEF ExplorerInv, ExplorerTypes
<1>1. ASSUME NEW p \in Owners, SwitchProject(p) PROVE ExplorerInv'
  <2>1. viewed' = p /\ arrived' = NoPayload /\ writing' = <<>> /\ context' = context
    BY <1>1 DEF SwitchProject, Click
  <2>2. ExplorerTypes'
    BY <2>1, NoPayloadTyped DEF ExplorerInv, ExplorerTypes
  <2> QED  BY <2>1, <2>2, NoPayloadTyped DEF ExplorerInv, InScope
\* A click that changes the context of the project.
<1>2. ASSUME NEW n \in Explored, context' = [context EXCEPT ![viewed] = n], Click, viewed' = viewed
      PROVE  ExplorerInv'
  <2>1. arrived' = NoPayload /\ writing' = <<>>  BY <1>2 DEF Click
  <2>2. context' \in [Owners -> Explored]
    BY <1>0, <1>2 DEF ExplorerInv, ExplorerTypes
  <2>3. ExplorerTypes'
    BY <1>2, <2>1, <2>2, NoPayloadTyped DEF ExplorerInv, ExplorerTypes
  <2> QED  BY <2>1, <2>3, NoPayloadTyped DEF ExplorerInv, InScope
<1>10. ASSUME NEW p \in Owners, CutSwitchProject(p) PROVE ExplorerInv'
  <2>1. PICK n \in HalfRestored(here, context[p]) : context' = [context EXCEPT ![viewed] = n]
    BY <1>10 DEF CutSwitchProject, Here
  <2>2. context[p] \in Explored  BY <1>10 DEF ExplorerInv, ExplorerTypes
  <2>3. n \in Explored  BY <1>0, <2>1, <2>2 DEF HalfRestored, Explored
  <2>4. Click /\ viewed' = viewed  BY <1>10 DEF CutSwitchProject
  <2> QED  BY <1>2, <2>1, <2>3, <2>4
<1>3. ASSUME NEW label \in NodeLabels, HideLabel(label) PROVE ExplorerInv'
  <2> DEFINE hidden == IF label \in Here.hidden THEN Here.hidden \ {label} ELSE Here.hidden \cup {label}
  <2> PICK h : h = [here EXCEPT !.hidden = hidden]
    OBVIOUS
  <2>1. h \in Explored  BY <1>0 DEF Explored, Here
  <2> PICK n : n = Redrawn(h)
    OBVIOUS
  <2>2. n \in Explored  BY <2>1 DEF Redrawn, Explored
  <2>3. context' = [context EXCEPT ![viewed] = n] /\ Click /\ viewed' = viewed
    BY <1>3 DEF HideLabel, Here
  <2> QED  BY <1>2, <2>2, <2>3
<1>4. ASSUME NEW m \in Nodes, Pick(m) PROVE ExplorerInv'
  <2> PICK n : n = [here EXCEPT !.picked = {m}]
    OBVIOUS
  <2>1. n \in Explored  BY <1>0 DEF Explored
  <2>2. context' = [context EXCEPT ![viewed] = n] /\ Click /\ viewed' = viewed
    BY <1>4 DEF Pick, Set
  <2> QED  BY <1>2, <2>1, <2>2
<1>5. ASSUME NEW label, NEW key, NEW depth \in Depths, NEW limit \in PathLimits, NEW next,
             next \in {"open", "merge"} \X SUBSET Nodes, UNCHANGED <<viewed, context>>,
             arrived' \in Subgraphs(viewed, label, key, depth, limit),
             writing' = IF InScope(viewed, arrived') THEN next ELSE <<>>
      PROVE  ExplorerInv'
  <2>1. arrived' \in Subgraph /\ (viewed # OpenProject => InScope(viewed, arrived'))
    BY <1>0, <1>5, AnswerInProject
  <2>2. ExplorerTypes'
    BY <1>5, <2>1 DEF ExplorerInv, ExplorerTypes
  <2> QED  BY <1>5, <2>1, <2>2 DEF ExplorerInv, InScope
<1>6. ASSUME NEW n \in Nodes, NEW depth \in Depths, NEW limit \in PathLimits,
             OpenFound(n, depth, limit) \/ Expand(n, depth, limit)
      PROVE  ExplorerInv'
  <2>1. CASE OpenFound(n, depth, limit)
    <3>1. <<"open", {n}>> \in {"open", "merge"} \X SUBSET Nodes  OBVIOUS
    <3> QED  BY <1>5, <2>1, <3>1 DEF OpenFound, AskSubgraph
  <2>2. CASE Expand(n, depth, limit)
    <3>1. <<"merge", {}>> \in {"open", "merge"} \X SUBSET Nodes  OBVIOUS
    <3> QED  BY <1>5, <2>2, <3>1 DEF Expand, AskSubgraph
  <2> QED  BY <1>6, <2>1, <2>2
<1>7. ASSUME NEW n \in Nodes, NEW depth \in Depths, NEW limit \in PathLimits,
             OpenTyped(Label[n], Key[n], depth, limit)
      PROVE  ExplorerInv'
  <2>1. arrived' \in Subgraphs(viewed, Label[n], Key[n], depth, limit)
    BY <1>7 DEF OpenTyped, AskSubgraph
  <2>2. arrived' \in Subgraph  BY <1>0, <2>1, AnswerInProject
  <2>3. arrived'.root \in {None} \cup {<<m>> : m \in Nodes}
    BY <2>2 DEF Subgraph, Rooted
  <2>4. ToSet(arrived'.root) \in SUBSET Nodes
    BY <2>3 DEF ToSet, None
  <2>5. <<"open", ToSet(arrived'.root)>> \in {"open", "merge"} \X SUBSET Nodes
    BY <2>4
  <2> QED  BY <1>5, <1>7, <2>1, <2>5 DEF OpenTyped, AskSubgraph
<1>8. CASE WriteNext
  <2>1. context' \in [Owners -> Explored]  BY <1>8, WritesTyped
  <2>2. /\ viewed' = viewed /\ arrived' \in {NoPayload, arrived}
        /\ writing' \in {<<"pick", writing[2]>>, <<"restart", {}>>, <<"record", {}>>, <<>>}
        /\ writing # <<>>
    BY <1>8 DEF WriteNext
  <2>3. writing[2] \in SUBSET Nodes
    BY <2>2 DEF ExplorerInv, ExplorerTypes
  <2>4. ExplorerTypes'
    BY <2>1, <2>2, <2>3, NoPayloadTyped DEF ExplorerInv, ExplorerTypes
  <2> QED  BY <2>2, <2>4, NoPayloadTyped DEF ExplorerInv, InScope
<1>9. CASE UNCHANGED explorerVars
  BY <1>9 DEF explorerVars, ExplorerInv, ExplorerTypes, InScope
<1> QED  BY <1>1, <1>3, <1>4, <1>6, <1>7, <1>8, <1>9, <1>10 DEF ExplorerNext

\* A project other than cip-dmd receives and draws nodes and relationships of
\* its own only, however often it opens and expands.
THEOREM GraphApart == ExplorerSpec => []GraphStaysInProject
<1>1. ExplorerInv => GraphStaysInProject
  BY DrawnInScope DEF ExplorerInv, ExplorerTypes, GraphStaysInProject, Shown
<1> QED  BY <1>1, ExplorerStarts, ExplorerStep, PTL DEF ExplorerSpec

(***************************************************************************)
(* The drawing of the graph explorer, and the way that is highlighted.     *)
(***************************************************************************)

\* A graph that can be drawn from root, one that its edges do not leave.
Drawable(ev) ==
  /\ ev.nodes \subseteq Nodes /\ ev.edges \subseteq Edges
  /\ \A e \in ev.edges : Ends(e) \subseteq ev.nodes

Touch(ev, m, n) == \E e \in ev.edges : m \in Ends(e) /\ n = Other(e, m)

\* The search k steps from root: parents lead back to it one step at a time,
\* and the neighbours of all nodes but the last ones were reached.
Searched(ev, root, parents, depth, k) ==
  /\ root \in DOMAIN parents /\ DOMAIN parents \subseteq {root} \cup ev.nodes
  /\ parents[root] = None
  /\ depth \in [DOMAIN parents -> 0..k] /\ depth[root] = 0
  /\ \A n \in DOMAIN parents \ {root} :
       /\ parents[n] \in ev.edges /\ n \in Ends(parents[n])
       /\ Other(parents[n], n) \in DOMAIN parents
       /\ depth[n] = depth[Other(parents[n], n)] + 1
  /\ \A n \in DOMAIN parents : depth[n] < k =>
       \A m \in ev.nodes : Touch(ev, m, n) => m \in DOMAIN parents /\ depth[m] <= depth[n] + 1

Enclosed(ev, seen) == Beside(ev, seen) \subseteq seen
\* While there is something new beside what was reached, a step reaches it.
Grown(ev, parents, k) ==
  Enclosed(ev, DOMAIN parents) \/ Cardinality(DOMAIN parents \cap ev.nodes) >= k + 1

LEMMA EdgesAreNot ==
  ASSUME NEW e \in Edges
  PROVE  e # None /\ Ends(e) \subseteq Nodes
         /\ \A n \in Ends(e) : Other(e, n) \in Ends(e) /\ Ends(e) = {Other(e, n), n}
<1>1. e \in [from : Nodes, to : Nodes, owner : Owners]
  BY GraphAssumption
<1>2. DOMAIN e = {"from", "to", "owner"}
  BY <1>1
<1>3. DOMAIN None = {}
  BY DEF None
<1>4. e # None
  BY <1>2, <1>3
<1> QED  BY <1>1, <1>4 DEF Ends, Other

LEMMA BesideTouches ==
  ASSUME NEW ev, NEW seen, NEW m
  PROVE  m \in Beside(ev, seen) <=> m \in ev.nodes /\ \E n \in seen : Touch(ev, m, n)
BY DEF Beside, Touch

\* What a step adds was reached over a relationship.
LEMMA SpreadAdds ==
  ASSUME NEW ev, NEW parents, NEW new, new = Spread(ev, parents)
  PROVE  /\ DOMAIN new = DOMAIN parents \cup Beside(ev, DOMAIN parents)
         /\ \A n \in DOMAIN parents : new[n] = parents[n]
         /\ \A n \in Beside(ev, DOMAIN parents) : n \notin DOMAIN parents =>
              new[n] \in ev.edges /\ n \in Ends(new[n]) /\ Other(new[n], n) \in DOMAIN parents
<1> DEFINE seen == DOMAIN parents
           over(n) == {e \in ev.edges : n \in Ends(e) /\ Other(e, n) \in seen}
<1>1. new = [n \in seen \cup Beside(ev, seen) |->
               IF n \in seen THEN parents[n]
               ELSE CHOOSE e \in ev.edges : n \in Ends(e) /\ Other(e, n) \in seen]
  BY DEF Spread
<1>2. DOMAIN new = seen \cup Beside(ev, seen) /\ \A n \in seen : new[n] = parents[n]
  BY <1>1
<1>3. ASSUME NEW n \in Beside(ev, seen), n \notin seen
      PROVE  new[n] \in ev.edges /\ n \in Ends(new[n]) /\ Other(new[n], n) \in seen
  <2>1. \E e \in ev.edges : n \in Ends(e) /\ Other(e, n) \in seen
    BY <1>2, <1>3 DEF Beside
  <2>2. new[n] = CHOOSE e \in ev.edges : n \in Ends(e) /\ Other(e, n) \in seen
    BY <1>1, <1>2, <1>3
  <2> QED  BY <2>1, <2>2
<1> QED  BY <1>2, <1>3

LEMMA SearchStarts ==
  ASSUME NEW ev, Drawable(ev), NEW root \in Nodes, NEW parents, parents = [n \in {root} |-> None]
  PROVE  Searched(ev, root, parents, [n \in {root} |-> 0], 0) /\ Grown(ev, parents, 0)
<1>1. DOMAIN parents = {root} /\ parents[root] = None
  OBVIOUS
<1>2. Searched(ev, root, parents, [n \in {root} |-> 0], 0)
  BY <1>1 DEF Searched
<1>3. Grown(ev, parents, 0)
  <2>1. CASE root \in ev.nodes
    <3>1. DOMAIN parents \cap ev.nodes = {root}  BY <1>1, <2>1
    <3>2. Cardinality({root}) = 1  BY FS_Singleton
    <3> QED  BY <3>1, <3>2 DEF Grown
  <2>2. CASE root \notin ev.nodes
    <3>1. Beside(ev, {root}) = {}
      <4> SUFFICES ASSUME NEW e \in ev.edges, NEW n \in Ends(e), Other(e, n) = root PROVE FALSE
        BY DEF Beside
      <4>1. e \in Edges /\ Ends(e) \subseteq ev.nodes  BY DEF Drawable
      <4>2. Other(e, n) \in Ends(e)  BY <4>1, EdgesAreNot
      <4> QED  BY <2>2, <4>1, <4>2
    <3> QED  BY <1>1, <3>1 DEF Grown, Enclosed
  <2> QED  BY <2>1, <2>2
<1> QED  BY <1>2, <1>3

LEMMA SearchGoesOn ==
  ASSUME NEW ev, Drawable(ev), NEW root \in Nodes, NEW k \in Nat, NEW parents, NEW depth,
         Searched(ev, root, parents, depth, k), NEW new, new = Spread(ev, parents)
  PROVE  \E next : Searched(ev, root, new, next, k + 1)
<1>0. new = Spread(ev, parents)
  OBVIOUS
<1>1. /\ DOMAIN new = DOMAIN parents \cup Beside(ev, DOMAIN parents)
      /\ \A n \in DOMAIN parents : new[n] = parents[n]
      /\ \A n \in Beside(ev, DOMAIN parents) : n \notin DOMAIN parents =>
           new[n] \in ev.edges /\ n \in Ends(new[n]) /\ Other(new[n], n) \in DOMAIN parents
  BY <1>0, SpreadAdds
<1> DEFINE next == [n \in DOMAIN new |-> IF n \in DOMAIN parents THEN depth[n] ELSE k + 1]
<1>2. /\ \A n \in DOMAIN parents : n \in DOMAIN new /\ next[n] = depth[n] /\ depth[n] \in 0..k
      /\ \A n \in DOMAIN new \ DOMAIN parents : next[n] = k + 1
  BY <1>1 DEF Searched
<1>3. root \in DOMAIN new /\ new[root] = None /\ next[root] = 0
  BY <1>1, <1>2 DEF Searched
<1>4. DOMAIN new \subseteq {root} \cup ev.nodes
  BY <1>1 DEF Searched, Beside
<1>5. next \in [DOMAIN new -> 0..(k + 1)]
  <2>1. \A i \in 0..k : i \in 0..(k + 1)  OBVIOUS
  <2>2. k + 1 \in 0..(k + 1)  OBVIOUS
  <2>3. \A n \in DOMAIN new : next[n] \in 0..(k + 1)
    BY <1>2, <2>1, <2>2
  <2> QED  BY <2>3
<1> HIDE DEF next
<1>6. ASSUME NEW n \in DOMAIN new \ {root}
      PROVE  /\ new[n] \in ev.edges /\ n \in Ends(new[n])
             /\ Other(new[n], n) \in DOMAIN new
             /\ next[n] = next[Other(new[n], n)] + 1
  <2>1. CASE n \in DOMAIN parents
    <3>1. /\ parents[n] \in ev.edges /\ n \in Ends(parents[n])
          /\ Other(parents[n], n) \in DOMAIN parents
          /\ depth[n] = depth[Other(parents[n], n)] + 1
      BY <1>6, <2>1 DEF Searched
    <3> QED  BY <1>1, <1>2, <2>1, <3>1
  <2>2. CASE n \notin DOMAIN parents
    <3> DEFINE o == Other(new[n], n)
    <3>1. /\ new[n] \in ev.edges /\ n \in Ends(new[n])
          /\ o \in DOMAIN parents /\ next[n] = k + 1 /\ n \in ev.nodes
      BY <1>1, <1>2, <1>4, <1>6, <2>2
    <3>2. Touch(ev, n, o)  BY <3>1 DEF Touch
    <3>3. ~(depth[o] < k)  BY <2>2, <3>1, <3>2 DEF Searched
    <3>4. depth[o] \in 0..k /\ next[o] = depth[o] /\ o \in DOMAIN new  BY <1>2, <3>1
    <3>5. depth[o] = k  BY <3>3, <3>4
    <3> QED  BY <3>1, <3>4, <3>5
  <2> QED  BY <2>1, <2>2
<1>7. ASSUME NEW n \in DOMAIN new, next[n] < k + 1, NEW m \in ev.nodes, Touch(ev, m, n)
      PROVE  m \in DOMAIN new /\ next[m] <= next[n] + 1
  <2>1. n \in DOMAIN parents /\ next[n] = depth[n] /\ depth[n] \in 0..k
    BY <1>2, <1>7
  <2>2. m \in DOMAIN new
    BY <1>1, <1>7, <2>1, BesideTouches
  <2>3. CASE depth[n] < k
    <3>1. m \in DOMAIN parents /\ depth[m] <= depth[n] + 1  BY <1>7, <2>1, <2>3 DEF Searched
    <3> QED  BY <1>2, <2>1, <2>2, <3>1
  <2>4. CASE depth[n] = k
    <3>1. next[m] \in 0..(k + 1)  BY <1>5, <2>2
    <3> QED  BY <2>1, <2>2, <2>4, <3>1
  <2> QED  BY <2>1, <2>3, <2>4
<1>8. Searched(ev, root, new, next, k + 1)
  BY <1>3, <1>4, <1>5, <1>6, <1>7 DEF Searched
<1> QED  BY <1>8

LEMMA SearchGrows ==
  ASSUME NEW ev, Drawable(ev), IsFiniteSet(ev.nodes), NEW k \in Nat, NEW parents,
         Grown(ev, parents, k), NEW new, new = Spread(ev, parents)
  PROVE  Grown(ev, new, k + 1)
<1>1. DOMAIN new = DOMAIN parents \cup Beside(ev, DOMAIN parents)
  BY SpreadAdds
<1>2. CASE Enclosed(ev, DOMAIN parents)
  <2>1. DOMAIN new = DOMAIN parents  BY <1>1, <1>2 DEF Enclosed
  <2> QED  BY <1>2, <2>1 DEF Grown
<1>3. CASE ~Enclosed(ev, DOMAIN parents)
  <2>1. PICK n \in Beside(ev, DOMAIN parents) : n \notin DOMAIN parents  BY <1>3 DEF Enclosed
  <2> DEFINE old == DOMAIN parents \cap ev.nodes
             all == DOMAIN new \cap ev.nodes
  <2>2. n \in ev.nodes  BY <2>1 DEF Beside
  <2>3. n \notin old /\ old \cup {n} \subseteq all /\ all \subseteq ev.nodes /\ old \subseteq ev.nodes
    BY <1>1, <2>1, <2>2
  <2>4. Cardinality(old) >= k + 1  BY <1>3 DEF Grown
  <2> HIDE DEF old, all
  <2>5. IsFiniteSet(old) /\ IsFiniteSet(all)  BY <2>3, FS_Subset
  <2>6. Cardinality(old \cup {n}) = Cardinality(old) + 1  BY <2>3, <2>5, FS_AddElement
  <2>7. Cardinality(old \cup {n}) <= Cardinality(all)  BY <2>3, <2>5, FS_Subset
  <2>8. Cardinality(old) \in Nat /\ Cardinality(all) \in Nat  BY <2>5, FS_CardinalityType
  <2>9. Cardinality(all) >= (k + 1) + 1  BY <2>4, <2>6, <2>7, <2>8
  <2> QED  BY <2>9 DEF Grown, all
<1> QED  BY <1>2, <1>3

\* The levels of the search up to m.
LevelsUpTo(l, ev, from, m) ==
  l = [d \in 0..m |-> IF d = 0 THEN [n \in {from} |-> None] ELSE Spread(ev, l[d - 1])]

LEMMA LevelsExist ==
  ASSUME NEW ev, NEW from, NEW m \in Nat
  PROVE  \E l : LevelsUpTo(l, ev, from, m)
<1> DEFINE T == {k \in Nat : \E l : LevelsUpTo(l, ev, from, k)}
<1> DEFINE start == [n \in {from} |-> None]
<1>1. 0 \in T
  <2> DEFINE l == [d \in 0..0 |-> start]
  <2>1. \A d \in 0..0 : d = 0  OBVIOUS
  <2>2. LevelsUpTo(l, ev, from, 0)  BY <2>1 DEF LevelsUpTo
  <2> QED  BY <2>2
<1>2. ASSUME NEW k \in T PROVE k + 1 \in T
  <2>1. k \in Nat /\ k + 1 \in Nat  OBVIOUS
  <2>2. PICK l : LevelsUpTo(l, ev, from, k)  OBVIOUS
  <2>3. PICK last : last = Spread(ev, l[k])  OBVIOUS
  <2>4. PICK h : h = [d \in 0..(k + 1) |-> IF d = k + 1 THEN last ELSE l[d]]  OBVIOUS
  <2>5. /\ \A d \in 0..(k + 1) : d # k + 1 => d \in 0..k /\ (d # 0 => d - 1 \in 0..k)
        /\ \A d \in 0..k : d \in 0..(k + 1) /\ d # k + 1
        /\ k + 1 \in 0..(k + 1) /\ k + 1 # 0 /\ (k + 1) - 1 = k /\ k \in 0..k
    BY <2>1
  <2>6. h[k + 1] = last /\ \A d \in 0..k : h[d] = l[d]
    BY <2>4, <2>5
  <2>7. \A d \in 0..k : l[d] = IF d = 0 THEN start ELSE Spread(ev, l[d - 1])
    BY <2>2 DEF LevelsUpTo
  <2>8. ASSUME NEW d \in 0..(k + 1)
        PROVE  h[d] = IF d = 0 THEN start ELSE Spread(ev, h[d - 1])
    <3> HIDE DEF start
    <3>1. CASE d = k + 1  BY <2>3, <2>5, <2>6, <3>1
    <3>2. CASE d # k + 1  BY <2>5, <2>6, <2>7, <3>2
    <3> QED  BY <3>1, <3>2
  <2>9. LevelsUpTo(h, ev, from, k + 1)
    <3>1. h = [d \in 0..(k + 1) |-> h[d]]  BY <2>4
    <3> QED  BY <2>8, <3>1 DEF LevelsUpTo
  <2> QED  BY <2>1, <2>9
<1>3. T \in SUBSET Nat  OBVIOUS
<1> HIDE DEF T
<1>4. T = Nat  BY <1>1, <1>2, <1>3, CountingUp
<1> QED  BY <1>4 DEF T

\* The search ends with the neighbours of all it reached.
LEMMA ReachedIsSearched ==
  ASSUME NEW ev, Drawable(ev), IsFiniteSet(ev.nodes), NEW root \in Nodes,
         NEW parents, parents = Reached(ev, root)
  PROVE  /\ \E depth : Searched(ev, root, parents, depth, Cardinality(ev.nodes))
         /\ Enclosed(ev, DOMAIN parents)
<1>1. PICK size \in Nat : size = Cardinality(ev.nodes)
  BY FS_CardinalityType
<1> DEFINE l == CHOOSE l : LevelsUpTo(l, ev, root, size)
<1>2. LevelsUpTo(l, ev, root, size)
  BY LevelsExist
<1>3. parents = l[size]
  BY <1>1 DEF Reached, LevelsUpTo
<1> HIDE DEF l
<1>4. \A d \in 0..size : l[d] = IF d = 0 THEN [n \in {root} |-> None] ELSE Spread(ev, l[d - 1])
  BY <1>2 DEF LevelsUpTo
<1> DEFINE Good(d) == (\E depth : Searched(ev, root, l[d], depth, d)) /\ Grown(ev, l[d], d)
           T == {d \in Nat : d <= size => Good(d)}
<1>5. 0 \in T
  <2>1. 0 \in 0..size /\ 0 \in Nat  OBVIOUS
  <2>2. l[0] = [n \in {root} |-> None]  BY <1>4, <2>1
  <2>3. Searched(ev, root, l[0], [n \in {root} |-> 0], 0) /\ Grown(ev, l[0], 0)
    BY <2>2, SearchStarts
  <2> QED  BY <2>1, <2>3
<1>6. ASSUME NEW d \in T PROVE d + 1 \in T
  <2>1. d \in Nat /\ d + 1 \in Nat  OBVIOUS
  <2>2. ASSUME d + 1 <= size PROVE Good(d + 1)
    <3>1. Good(d)  BY <2>1, <2>2
    <3>2. d + 1 \in 0..size /\ d + 1 # 0 /\ (d + 1) - 1 = d  BY <2>1, <2>2
    <3>3. l[d + 1] = Spread(ev, l[d])  BY <1>4, <3>2
    <3>4. PICK depth : Searched(ev, root, l[d], depth, d)  BY <3>1
    <3>5. \E next : Searched(ev, root, l[d + 1], next, d + 1)
      BY <2>1, <3>3, <3>4, SearchGoesOn
    <3>6. Grown(ev, l[d + 1], d + 1)  BY <2>1, <3>1, <3>3, SearchGrows
    <3> QED  BY <3>5, <3>6
  <2> QED  BY <2>1, <2>2
<1>7. T \in SUBSET Nat  OBVIOUS
<1>8. size \in T
  <2> HIDE DEF T
  <2> QED  BY <1>5, <1>6, <1>7, CountingUp
<1>9. Good(size)  BY <1>8
<1>10. Enclosed(ev, DOMAIN parents)
  <2> SUFFICES ASSUME Cardinality(DOMAIN parents \cap ev.nodes) >= size + 1 PROVE FALSE
    BY <1>3, <1>9 DEF Grown
  <2>1. DOMAIN parents \cap ev.nodes \subseteq ev.nodes  OBVIOUS
  <2>2. Cardinality(DOMAIN parents \cap ev.nodes) <= size
    BY <1>1, <2>1, FS_Subset
  <2>3. Cardinality(DOMAIN parents \cap ev.nodes) \in Nat
    BY <2>1, FS_Subset, FS_CardinalityType
  <2> QED  BY <2>2, <2>3
<1> QED  BY <1>1, <1>3, <1>9, <1>10

\* The ways back, right for the nodes up to k steps away.
Ways(way, parents, depth, k) ==
  /\ way = [n \in DOMAIN parents |-> way[n]]
  /\ \A n \in DOMAIN parents : depth[n] <= k =>
       way[n] = IF parents[n] = None THEN <<>> ELSE Append(way[Other(parents[n], n)], parents[n])

LEMMA WaysExist ==
  ASSUME NEW ev, Drawable(ev), NEW root, NEW size \in Nat, NEW parents, NEW depth,
         Searched(ev, root, parents, depth, size), NEW k \in Nat
  PROVE  \E way : Ways(way, parents, depth, k)
<1> DEFINE T == {i \in Nat : \E way : Ways(way, parents, depth, i)}
<1>0. \A n \in DOMAIN parents : depth[n] \in Nat
  BY DEF Searched
<1>1. \A n \in DOMAIN parents \ {root} :
        /\ parents[n] # None
        /\ Other(parents[n], n) \in DOMAIN parents
        /\ depth[n] = depth[Other(parents[n], n)] + 1
  BY EdgesAreNot DEF Searched, Drawable
<1>2. root \in DOMAIN parents /\ parents[root] = None /\ depth[root] = 0
  BY DEF Searched
<1>3. 0 \in T
  <2> DEFINE way == [n \in DOMAIN parents |-> <<>>]
  <2>1. \A n \in DOMAIN parents : depth[n] <= 0 => n = root
    BY <1>0, <1>1
  <2>2. Ways(way, parents, depth, 0)  BY <1>2, <2>1 DEF Ways
  <2> QED  BY <2>2
<1>4. ASSUME NEW i \in T PROVE i + 1 \in T
  <2>1. i \in Nat /\ i + 1 \in Nat  OBVIOUS
  <2>2. PICK way : Ways(way, parents, depth, i)  OBVIOUS
  <2> DEFINE next == [n \in DOMAIN parents |->
                        IF depth[n] = i + 1 THEN Append(way[Other(parents[n], n)], parents[n])
                        ELSE way[n]]
  <2>3. /\ next = [n \in DOMAIN parents |-> next[n]]
        /\ \A n \in DOMAIN parents :
             /\ depth[n] = i + 1 => next[n] = Append(way[Other(parents[n], n)], parents[n])
             /\ depth[n] # i + 1 => next[n] = way[n]
    OBVIOUS
  <2> HIDE DEF next
  <2>4. ASSUME NEW n \in DOMAIN parents, depth[n] <= i + 1
        PROVE  next[n] = IF parents[n] = None THEN <<>>
                         ELSE Append(next[Other(parents[n], n)], parents[n])
    <3>1. CASE n = root
      <4>1. depth[n] # i + 1 /\ depth[n] <= i  BY <1>2, <2>1, <3>1
      <4> QED  BY <1>2, <2>2, <2>3, <3>1, <4>1 DEF Ways
    <3>2. CASE n # root
      <4>1. PICK o : o = Other(parents[n], n)  OBVIOUS
      <4>2. o \in DOMAIN parents /\ depth[n] = depth[o] + 1 /\ parents[n] # None
        BY <1>1, <3>2, <4>1
      <4>3. depth[o] \in Nat /\ depth[o] # i + 1  BY <1>0, <2>1, <2>4, <4>2
      <4>4. next[o] = way[o]  BY <2>3, <4>2, <4>3
      <4>5. next[n] = Append(way[o], parents[n])
        <5>1. CASE depth[n] = i + 1  BY <2>3, <4>1, <5>1
        <5>2. CASE depth[n] # i + 1
          <6>1. depth[n] <= i  BY <1>0, <2>1, <2>4, <5>2
          <6> QED  BY <2>2, <2>3, <4>1, <4>2, <5>2, <6>1 DEF Ways
        <5> QED  BY <5>1, <5>2
      <4> QED  BY <4>1, <4>2, <4>4, <4>5
    <3> QED  BY <3>1, <3>2
  <2>5. Ways(next, parents, depth, i + 1)  BY <2>3, <2>4 DEF Ways
  <2> QED  BY <2>1, <2>5
<1>5. T \in SUBSET Nat  OBVIOUS
<1> HIDE DEF T
<1>6. T = Nat  BY <1>3, <1>4, <1>5, CountingUp
<1> QED  BY <1>6 DEF T

WayOf(way, parents) ==
  way = [n \in DOMAIN parents |->
           IF parents[n] = None THEN <<>> ELSE Append(way[Other(parents[n], n)], parents[n])]

LEMMA WayBackIsWay ==
  ASSUME NEW ev, Drawable(ev), NEW root, NEW size \in Nat, NEW parents, NEW depth,
         Searched(ev, root, parents, depth, size)
  PROVE  WayOf(WayBack(parents), parents)
<1>1. PICK way : Ways(way, parents, depth, size)
  BY WaysExist
<1>2. \A n \in DOMAIN parents : depth[n] <= size
  BY DEF Searched
<1>3. WayOf(way, parents)
  BY <1>1, <1>2 DEF Ways, WayOf
<1>4. WayBack(parents) = CHOOSE w : WayOf(w, parents)
  BY DEF WayBack, WayOf
<1> QED  BY <1>3, <1>4

\* A path is longer by a relationship that leads on from its end.
LEMMA LeadsOn ==
  ASSUME NEW from, NEW S, NEW path \in Seq(S), NEW e \in S, NEW m \in Nodes, NEW n \in Nodes,
         Leads(from, path, m), Ends(e) = {m, n}
  PROVE  Leads(from, Append(path, e), n)
<1>1. PICK k \in Nat : k = Len(path)
  OBVIOUS
<1>2. PICK at \in [0..k -> Nodes] :
        /\ at[0] = from /\ at[k] = m
        /\ \A i \in DOMAIN path : Ends(path[i]) = {at[i - 1], at[i]}
  BY <1>1 DEF Leads
<1>3. PICK longer : longer = Append(path, e)
  OBVIOUS
<1>4. /\ Len(longer) = k + 1 /\ DOMAIN longer = 1..(k + 1) /\ DOMAIN path = 1..k
      /\ longer[k + 1] = e /\ \A i \in 1..k : longer[i] = path[i]
  BY <1>1, <1>3
<1> DEFINE on == [i \in 0..(k + 1) |-> IF i = k + 1 THEN n ELSE at[i]]
<1>5. /\ \A i \in 0..k : i \in 0..(k + 1) /\ i # k + 1
      /\ \A i \in 0..(k + 1) : i # k + 1 => i \in 0..k
      /\ \A i \in 1..(k + 1) : i - 1 \in 0..k /\ i \in 0..(k + 1) /\ (i # k + 1 => i \in 1..k /\ i \in 0..k)
      /\ 0 \in 0..k /\ k \in 0..k /\ k + 1 \in 0..(k + 1) /\ (k + 1) - 1 = k
  OBVIOUS
<1>6. on[k + 1] = n /\ \A i \in 0..k : on[i] = at[i]
  BY <1>5
<1>7. on \in [0..(k + 1) -> Nodes]
  BY <1>5
<1> HIDE DEF on
<1>8. ASSUME NEW i \in 1..(k + 1) PROVE Ends(longer[i]) = {on[i - 1], on[i]}
  <2>1. CASE i = k + 1
    <3>1. longer[i] = e /\ on[i - 1] = m /\ on[i] = n  BY <1>2, <1>4, <1>5, <1>6, <2>1
    <3> QED  BY <3>1
  <2>2. CASE i # k + 1
    <3>1. i \in 1..k /\ i \in 0..k /\ i - 1 \in 0..k  BY <1>5, <2>2
    <3>2. longer[i] = path[i] /\ on[i - 1] = at[i - 1] /\ on[i] = at[i]  BY <1>4, <1>6, <3>1
    <3>3. Ends(path[i]) = {at[i - 1], at[i]}  BY <1>2, <1>4, <3>1
    <3> QED  BY <3>2, <3>3
  <2> QED  BY <2>1, <2>2
<1>9. on[0] = from /\ on[k + 1] = n
  BY <1>2, <1>5, <1>6
<1>10. \E a \in [0..Len(longer) -> Nodes] :
         /\ a[0] = from /\ a[Len(longer)] = n
         /\ \A i \in DOMAIN longer : Ends(longer[i]) = {a[i - 1], a[i]}
  BY <1>4, <1>7, <1>8, <1>9
<1>11. Leads(from, longer, n)
  BY <1>10 DEF Leads
<1> QED  BY <1>3, <1>11

LEMMA NoWay ==
  ASSUME NEW n \in Nodes
  PROVE  Leads(n, <<>>, n)
<1>1. [i \in 0..0 |-> n] \in [0..Len(<<>>) -> Nodes]
  OBVIOUS
<1>2. [i \in 0..0 |-> n][0] = n /\ Len(<<>>) = 0 /\ DOMAIN <<>> = {}
  OBVIOUS
<1> QED  BY <1>1, <1>2 DEF Leads

\* The way back is a path from the root, as long as the search was deep.
LEMMA WayIsPath ==
  ASSUME NEW ev, Drawable(ev), NEW root \in Nodes, NEW size \in Nat, NEW parents, NEW depth,
         Searched(ev, root, parents, depth, size), NEW way, way = WayBack(parents),
         NEW n \in DOMAIN parents
  PROVE  way[n] \in Seq(ev.edges) /\ Len(way[n]) = depth[n] /\ Leads(root, way[n], n)
<1>1. \A m \in DOMAIN parents :
        way[m] = IF parents[m] = None THEN <<>> ELSE Append(way[Other(parents[m], m)], parents[m])
  <2>1. WayOf(way, parents)  BY WayBackIsWay
  <2> QED  BY ONLY <2>1 DEF WayOf
<1>2. \A m \in DOMAIN parents : depth[m] \in Nat /\ m \in Nodes
  BY DEF Searched, Drawable
<1>3. \A m \in DOMAIN parents \ {root} :
        /\ parents[m] # None /\ parents[m] \in ev.edges
        /\ Other(parents[m], m) \in DOMAIN parents
        /\ Ends(parents[m]) = {Other(parents[m], m), m}
        /\ depth[m] = depth[Other(parents[m], m)] + 1
  BY EdgesAreNot DEF Searched, Drawable
<1>4. root \in DOMAIN parents /\ parents[root] = None /\ depth[root] = 0
  BY DEF Searched
<1>5. \A m \in DOMAIN parents : depth[m] = 0 => m = root
  <2> SUFFICES ASSUME NEW m \in DOMAIN parents, m # root, depth[m] = 0 PROVE FALSE
    OBVIOUS
  <2>1. PICK o \in DOMAIN parents : depth[m] = depth[o] + 1  BY <1>3
  <2>2. depth[o] \in Nat  BY <1>2
  <2> QED  BY <2>1, <2>2
<1> DEFINE Good(m) == way[m] \in Seq(ev.edges) /\ Len(way[m]) = depth[m] /\ Leads(root, way[m], m)
           T == {k \in Nat : \A m \in DOMAIN parents : depth[m] = k => Good(m)}
<1>6. Good(root)
  <2>1. way[root] = <<>>  BY <1>1, <1>4
  <2>2. <<>> \in Seq(ev.edges) /\ Len(<<>>) = 0  OBVIOUS
  <2>3. Leads(root, <<>>, root)  BY NoWay
  <2> QED  BY <1>4, <2>1, <2>2, <2>3
<1>7. 0 \in T
  <2> HIDE DEF Good
  <2> QED  BY <1>5, <1>6
<1>8. ASSUME NEW k \in T PROVE k + 1 \in T
  <2>1. k \in Nat /\ k + 1 \in Nat /\ k + 1 # 0  OBVIOUS
  <2>2. ASSUME NEW m \in DOMAIN parents, depth[m] = k + 1 PROVE Good(m)
    <3>1. m # root  BY <1>4, <2>1, <2>2
    <3>2. PICK o : o = Other(parents[m], m)  OBVIOUS
    <3>3. PICK e \in ev.edges : e = parents[m]  BY <1>3, <3>1
    <3>4. o \in DOMAIN parents /\ depth[m] = depth[o] + 1 /\ Ends(e) = {o, m} /\ e # None
      BY <1>3, <3>1, <3>2, <3>3
    <3>5. depth[o] = k  BY <1>2, <2>1, <2>2, <3>4
    <3>6. Good(o)  BY <3>4, <3>5
    <3>7. way[m] = Append(way[o], e)  BY <1>1, <3>2, <3>3, <3>4
    <3>8. o \in Nodes /\ m \in Nodes  BY <1>2, <3>4
    <3>9. PICK path \in Seq(ev.edges) : path = way[o] /\ Len(path) = k  BY <3>5, <3>6
    <3>10. Leads(root, path, o)  BY <3>6, <3>9
    <3>11. Leads(root, Append(path, e), m)
      BY ONLY <3>4, <3>8, <3>10, e \in ev.edges, path \in Seq(ev.edges), LeadsOn
    <3>12. Append(path, e) \in Seq(ev.edges) /\ Len(Append(path, e)) = Len(path) + 1
      BY ONLY e \in ev.edges, path \in Seq(ev.edges)
    <3> QED  BY <2>2, <3>7, <3>9, <3>11, <3>12
  <2> HIDE DEF Good
  <2> QED  BY <2>1, <2>2
<1>9. T \in SUBSET Nat  OBVIOUS
<1> HIDE DEF T
<1>10. T = Nat  BY <1>7, <1>8, <1>9, CountingUp
<1> QED  BY <1>2, <1>10 DEF T

\* What the highlighted ways of a drawing are: those of the search.
LEMMA DrawingWays ==
  ASSUME NEW ev, Drawable(ev), IsFiniteSet(ev.nodes), NEW root \in Nodes,
         NEW seen, seen = DOMAIN Reached(ev, root)
  PROVE  /\ Enclosed(ev, seen)
         /\ \A n \in seen :
              /\ PathTo(ev, <<root>>, n) \in Seq(ev.edges)
              /\ Leads(root, PathTo(ev, <<root>>, n), n)
              /\ n = root \/ PathTo(ev, <<root>>, n) # <<>>
         /\ root \in seen /\ \A n : n \notin seen => PathTo(ev, <<root>>, n) = <<>>
         /\ \A n \in seen, m \in seen \cap ev.nodes : Touch(ev, m, n) =>
              Len(PathTo(ev, <<root>>, m)) <= Len(PathTo(ev, <<root>>, n)) + 1
<1>1. PICK size \in Nat : size = Cardinality(ev.nodes)
  BY FS_CardinalityType
<1>2. PICK parents : parents = Reached(ev, root)
  OBVIOUS
<1>3. PICK depth : Searched(ev, root, parents, depth, size)
  BY <1>1, <1>2, ReachedIsSearched
<1>4. Enclosed(ev, seen) /\ seen = DOMAIN parents
  BY <1>2, ReachedIsSearched
<1>5. PICK way : way = WayBack(parents)
  OBVIOUS
<1>6. \A n : PathTo(ev, <<root>>, n) = IF n \in seen THEN way[n] ELSE <<>>
  <2>1. <<root>> # None /\ <<root>>[1] = root  BY DEF None
  <2> QED  BY <1>2, <1>4, <1>5, <2>1 DEF PathTo
<1>7. \A n \in seen : way[n] \in Seq(ev.edges) /\ Len(way[n]) = depth[n] /\ Leads(root, way[n], n)
  BY <1>3, <1>4, <1>5, WayIsPath
<1>8. /\ root \in seen /\ \A n \in seen : depth[n] \in Nat /\ depth[n] <= size
      /\ \A n \in seen \ {root} : \E o \in seen : depth[n] = depth[o] + 1
  <2>1. root \in seen /\ depth \in [seen -> 0..size]  BY <1>3, <1>4 DEF Searched
  <2>2. \A i \in 0..size : i \in Nat /\ i <= size  OBVIOUS
  <2>3. \A n \in seen : depth[n] \in 0..size  BY <2>1
  <2>4. \A n \in seen \ {root} : Other(parents[n], n) \in seen /\ depth[n] = depth[Other(parents[n], n)] + 1
    BY <1>3, <1>4 DEF Searched
  <2>5. \A n \in seen \ {root} : \E o \in seen : depth[n] = depth[o] + 1
    BY <2>4, Zenon
  <2> QED  BY <2>1, <2>2, <2>3, <2>5
<1>9. ASSUME NEW n \in seen, n # root PROVE way[n] # <<>>
  <2>1. depth[n] # 0  BY <1>8, <1>9
  <2>2. Len(<<>>) = 0  OBVIOUS
  <2> QED  BY <1>7, <2>1, <2>2
<1>10. ASSUME NEW n \in seen, NEW m \in seen \cap ev.nodes, Touch(ev, m, n)
       PROVE  depth[m] <= depth[n] + 1
  <2>1. CASE depth[n] < size  BY <1>3, <1>4, <1>10, <2>1 DEF Searched
  <2>2. CASE depth[n] = size  BY <1>8, <2>2
  <2> QED  BY <1>8, <2>1, <2>2
<1>11. \A n \in seen : PathTo(ev, <<root>>, n) = way[n]
  BY <1>6
<1>12. ASSUME NEW n \in seen, NEW m \in seen \cap ev.nodes, Touch(ev, m, n)
       PROVE  Len(PathTo(ev, <<root>>, m)) <= Len(PathTo(ev, <<root>>, n)) + 1
  <2>1. Len(way[m]) = depth[m] /\ Len(way[n]) = depth[n]  BY <1>7
  <2>2. depth[m] <= depth[n] + 1  BY <1>10, <1>12
  <2>3. PathTo(ev, <<root>>, m) = way[m] /\ PathTo(ev, <<root>>, n) = way[n]  BY <1>11
  <2> QED  BY <2>1, <2>2, <2>3
<1>13. \A n \in seen : /\ PathTo(ev, <<root>>, n) \in Seq(ev.edges)
                       /\ Leads(root, PathTo(ev, <<root>>, n), n)
                       /\ n = root \/ PathTo(ev, <<root>>, n) # <<>>
  BY <1>7, <1>9, <1>11
<1>14. \A n : n \notin seen => PathTo(ev, <<root>>, n) = <<>>
  BY <1>6
<1> QED  BY <1>4, <1>8, <1>12, <1>13, <1>14

\* What the page draws is nothing, or a graph with a root.
LEMMA DrawnIsDrawable ==
  ASSUME NEW p, NEW ctx \in Explored, NEW d, d = Drawn(p, ctx)
  PROVE  \/ d = NoPayload
         \/ /\ Drawable(d) /\ IsFiniteSet(d.nodes)
            /\ \E root \in Nodes : d.root = <<root>>
<1>1. CASE ctx.result.root = None \/ ~InScope(p, ctx.result)
  BY <1>1 DEF Drawn
<1>2. CASE ctx.result.root # None /\ InScope(p, ctx.result)
  <2>1. PICK r \in Subgraph : r = ctx.result
    BY DEF Explored
  <2>2. PICK root \in Nodes : r.root = <<root>>
    BY <1>2, <2>1 DEF Subgraph, Rooted
  <2>3. PICK f : f = Filtered(r, ctx.hidden)
    OBVIOUS
  <2>4. /\ f.root = <<root>> /\ f.nodes \subseteq Nodes /\ f.edges \subseteq Edges
        /\ \A e \in f.edges : Ends(e) \subseteq f.nodes
        /\ f \in Subgraph
    BY <2>1, <2>2, <2>3 DEF Filtered, Subgraph
  <2>5. ASSUME NEW left \in SUBSET f.nodes, NEW k, k = OnlyKept(f, left)
        PROVE  k.root = <<root>> /\ Drawable(k)
    <3>1. k = [f EXCEPT !.nodes = left, !.edges = {e \in f.edges : Ends(e) \subseteq left}]
      BY <2>5 DEF OnlyKept
    <3>2. /\ k.root = f.root /\ k.nodes = left
          /\ k.edges = {e \in f.edges : Ends(e) \subseteq left}
      BY <2>4, <3>1 DEF Subgraph
    <3> QED  BY <2>4, <2>5, <3>2 DEF Drawable
  <2>6. d = f \/ \E left \in SUBSET f.nodes : d = OnlyKept(f, left)
    BY <1>2, <2>1, <2>3 DEF Drawn, Bounded
  <2>7. d.root = <<root>> /\ Drawable(d)
    BY <2>4, <2>5, <2>6 DEF Drawable
  <2>8. IsFiniteSet(d.nodes)
    BY <2>7, GraphAssumption, FS_Subset DEF Drawable
  <2> QED  BY <2>7, <2>8
<1> QED  BY <1>1, <1>2

LEMMA DrawingInv ==
  ASSUME ExplorerInv
  PROVE  DrawingIsGraph
<1>1. PICK ev : ev = Shown(viewed)
  OBVIOUS
<1>2. viewed \in Owners /\ context[viewed] \in Explored
  BY DEF ExplorerInv, ExplorerTypes
<1>3. PICK way : way = [n \in ev.nodes |-> PathTo(ev, ev.root, n)]
  OBVIOUS
<1>4. PICK found : found = {n \in ev.nodes : n \in ToSet(ev.root) \/ way[n] # <<>>}
  OBVIOUS
<1> DEFINE Ways1 == \A n \in ev.nodes :
              /\ ToSet(way[n]) \subseteq ev.edges
              /\ way[n] # <<>> => Leads(ev.root[1], way[n], n)
           Edges1 == \A e \in ev.edges :
              /\ Ends(e) \subseteq ev.nodes
              /\ Ends(e) \cap found # {} =>
                   /\ Ends(e) \subseteq found
                   /\ \A m, n \in Ends(e) : Len(way[m]) <= Len(way[n]) + 1
<1>5. ASSUME ev = NoPayload PROVE Ways1 /\ Edges1
  <2>1. ev.nodes = {} /\ ev.edges = {}  BY <1>5, NoPayloadTyped
  <2> QED  BY <2>1
<1>6. ASSUME ev # NoPayload PROVE Ways1 /\ Edges1
  <2>1. Drawable(ev) /\ IsFiniteSet(ev.nodes) /\ \E root \in Nodes : ev.root = <<root>>
    BY <1>1, <1>2, <1>6, DrawnIsDrawable DEF Shown
  <2>2. PICK root \in Nodes : ev.root = <<root>>  BY <2>1
  <2>3. PICK seen : seen = DOMAIN Reached(ev, root)  OBVIOUS
  <2>4. \A n \in ev.nodes : way[n] = PathTo(ev, <<root>>, n)
    BY <1>3, <2>2
  <2>5. /\ Enclosed(ev, seen)
        /\ \A n \in seen :
             /\ PathTo(ev, <<root>>, n) \in Seq(ev.edges)
             /\ Leads(root, PathTo(ev, <<root>>, n), n)
             /\ n = root \/ PathTo(ev, <<root>>, n) # <<>>
        /\ root \in seen /\ \A n : n \notin seen => PathTo(ev, <<root>>, n) = <<>>
        /\ \A n \in seen, m \in seen \cap ev.nodes : Touch(ev, m, n) =>
             Len(PathTo(ev, <<root>>, m)) <= Len(PathTo(ev, <<root>>, n)) + 1
    BY <2>1, <2>3, DrawingWays
  <2>6. ev.root[1] = root /\ ToSet(ev.root) = {root}
    BY <2>2 DEF ToSet
  <2>7. found = ev.nodes \cap seen
    BY <1>4, <2>4, <2>5, <2>6
  <2>8. \A w \in Seq(ev.edges) : ToSet(w) \subseteq ev.edges
    BY DEF ToSet
  <2>9. Ways1
    <3> SUFFICES ASSUME NEW n \in ev.nodes
                 PROVE  /\ ToSet(way[n]) \subseteq ev.edges
                        /\ way[n] # <<>> => Leads(root, way[n], n)
      BY <2>6
    <3>1. CASE n \in seen
      <4>1. way[n] \in Seq(ev.edges) /\ Leads(root, way[n], n)  BY <2>4, <2>5, <3>1
      <4> QED  BY <2>8, <4>1
    <3>2. CASE n \notin seen
      <4>1. way[n] = <<>>  BY <2>4, <2>5, <3>2
      <4>2. <<>> \in Seq(ev.edges)  OBVIOUS
      <4> QED  BY <2>8, <4>1, <4>2
    <3> QED  BY <3>1, <3>2
  <2>10. Edges1
    <3> SUFFICES ASSUME NEW e \in ev.edges
                 PROVE  /\ Ends(e) \subseteq ev.nodes
                        /\ Ends(e) \cap found # {} =>
                             /\ Ends(e) \subseteq found
                             /\ \A m, n \in Ends(e) : Len(way[m]) <= Len(way[n]) + 1
      OBVIOUS
    <3>1. Ends(e) \subseteq ev.nodes /\ e \in Edges  BY <2>1 DEF Drawable
    <3>2. \A m, n \in Ends(e) : m # n => Touch(ev, m, n)
      BY <3>1, EdgesAreNot DEF Touch
    <3>3. ASSUME NEW x \in Ends(e) \cap found PROVE Ends(e) \subseteq seen
      <4> SUFFICES ASSUME NEW m \in Ends(e), m # x PROVE m \in seen
        BY <2>7, <3>3
      <4>1. x \in seen /\ Touch(ev, m, x) /\ m \in ev.nodes  BY <2>7, <3>1, <3>2
      <4>2. m \in Beside(ev, seen)  BY <4>1, BesideTouches
      <4> QED  BY <2>5, <4>2 DEF Enclosed
    <3>4. ASSUME Ends(e) \subseteq seen, NEW m \in Ends(e), NEW n \in Ends(e)
          PROVE  Len(way[m]) <= Len(way[n]) + 1
      <4>1. m \in seen /\ n \in seen /\ m \in ev.nodes /\ n \in ev.nodes  BY <3>1, <3>4
      <4>2. way[m] = PathTo(ev, <<root>>, m) /\ way[n] = PathTo(ev, <<root>>, n)  BY <2>4, <4>1
      <4>3. CASE m # n
        <5>1. Touch(ev, m, n)  BY <3>2, <4>3
        <5> QED  BY <2>5, <4>1, <4>2, <5>1
      <4>4. CASE m = n
        <5>1. way[n] \in Seq(ev.edges)  BY <2>5, <4>1, <4>2
        <5>2. Len(way[n]) \in Nat  BY <5>1
        <5> QED  BY <4>4, <5>2
      <4> QED  BY <4>3, <4>4
    <3>5. ASSUME Ends(e) \cap found # {}
          PROVE  Ends(e) \subseteq found /\ \A m, n \in Ends(e) : Len(way[m]) <= Len(way[n]) + 1
      <4>1. Ends(e) \subseteq seen  BY <3>3, <3>5
      <4>2. Ends(e) \subseteq found  BY <2>7, <3>1, <4>1
      <4> QED  BY <3>4, <4>1, <4>2
    <3> QED  BY <3>1, <3>5
  <2> QED  BY <2>9, <2>10
<1>7. Ways1 /\ Edges1
  BY <1>5, <1>6
<1> QED  BY <1>1, <1>3, <1>4, <1>7 DEF DrawingIsGraph

\* graph_explorer.py:67 and :196: no relationship is drawn without its ends,
\* and the highlighted path leads to the node that was clicked over drawn
\* relationships; it exists whenever they join the two, and is shortest.
THEOREM DrawingHolds == ExplorerSpec => []DrawingIsGraph
<1>1. ExplorerInv /\ [ExplorerNext]_explorerVars => ExplorerInv'  BY ExplorerStep
<1>2. ExplorerInv => DrawingIsGraph  BY DrawingInv
<1> QED  BY <1>1, <1>2, ExplorerStarts, PTL DEF ExplorerSpec

(***************************************************************************)
(* The Schema Studio of the web client.                                    *)
(***************************************************************************)

\* A mapping that was written for the upload it names.
Fits(m) == m.text = m.upload

\* An effect that waits holds what the server had, or nothing yet.
EffectFits(e) ==
  /\ e \in [run : Nat, project : Studios, uploads : Seq(Nat), approved : [upload : Nat, text : Nat],
            asked : SUBSET {"uploads", "mapping"}]
  /\ Fits(e.approved)

\* Everything that holds a mapping, on the server, under way and on the page.
StudioInv ==
  /\ uploaded \in [Studios -> Seq(Nat)]
  /\ approval \in [Studios -> [upload : Nat, text : Nat]]
  /\ onPage \in Studios \cup {NoStudio} /\ uploading \in Studios \cup {NoStudio}
  /\ known \in [upload : Nat, text : Nat] /\ Fits(known)
  /\ chosen \in Nat /\ text = chosen /\ uploadList \in Seq(Nat) /\ visits \in Nat
  /\ \A e \in loads : EffectFits(e)
  /\ call # NoCall =>
       /\ call \in [kind : {"preview", "approve", "load"}, project : Studios,
                    upload : Nat, text : Nat, ok : BOOLEAN]
       /\ Fits(call)
       /\ call.ok => Accepts(call.project, call.upload)
  /\ ApprovalFitsUpload

LEMMA AppendKeeps ==
  ASSUME NEW s \in Seq(Nat), NEW n \in Nat
  PROVE  Append(s, n) \in Seq(Nat) /\ ToSet(s) \subseteq ToSet(Append(s, n))
<1>1. /\ Append(s, n) \in Seq(Nat) /\ DOMAIN s = 1..Len(s) /\ Len(s) \in Nat
      /\ DOMAIN Append(s, n) = 1..(Len(s) + 1)
      /\ \A i \in 1..Len(s) : Append(s, n)[i] = s[i]
  BY AppendProperties, LenProperties
<1> QED  BY <1>1 DEF ToSet

\* An upload is never taken away.
LEMMA UploadStays ==
  ASSUME StudioInv, NEW p \in Studios, NewUpload(p)
  PROVE  /\ uploaded' \in [Studios -> Seq(Nat)]
         /\ \A q \in Studios : ToSet(uploaded[q]) \subseteq ToSet(uploaded'[q])
<1>1. PICK n \in Nat : uploaded' = [uploaded EXCEPT ![p] = Append(@, n)]
  <2> DEFINE next == 1 + Cardinality(UNION {ToSet(uploaded[q]) : q \in Studios})
  <2>1. next \in UploadIds /\ uploaded' = [uploaded EXCEPT ![p] = Append(@, next)]
    BY DEF NewUpload
  <2> HIDE DEF next
  <2>2. next \in Nat  BY <2>1, MaxUploadsAssumption DEF UploadIds
  <2> QED  BY <2>1, <2>2
<1>2. Append(uploaded[p], n) \in Seq(Nat) /\ ToSet(uploaded[p]) \subseteq ToSet(Append(uploaded[p], n))
  BY AppendKeeps DEF StudioInv
<1> QED  BY <1>1, <1>2 DEF StudioInv

\* So what was accepted, and what was approved, stays so.
LEMMA UploadKeepsStudio ==
  ASSUME StudioInv, NEW p \in Studios, NewUpload(p), onPage' \in Studios \cup {NoStudio},
         uploading' \in Studios \cup {NoStudio},
         UNCHANGED <<approval, uploadList, chosen, text, known, loads, call, visits>>
  PROVE  StudioInv'
<1>1. /\ uploaded' \in [Studios -> Seq(Nat)]
      /\ \A q \in Studios : ToSet(uploaded[q]) \subseteq ToSet(uploaded'[q])
  BY UploadStays
<1>2. ApprovalFitsUpload'  BY <1>1 DEF StudioInv, ApprovalFitsUpload
<1>3. call # NoCall /\ call.ok => Accepts(call.project, call.upload)'
  BY <1>1 DEF StudioInv, Accepts
<1>4. \A e \in loads' : EffectFits(e)'  BY DEF StudioInv, EffectFits, Fits
<1> QED  BY <1>1, <1>2, <1>3, <1>4 DEF StudioInv, Fits

\* What the page takes from an effect.
LEMMA TextIsForUpload ==
  ASSUME NEW m \in [upload : Nat, text : Nat], Fits(m), NEW u \in Nat
  PROVE  TextFor(m, u) = u
BY DEF TextFor, Fits

LEMMA FirstIsUpload ==
  ASSUME NEW e, EffectFits(e)
  PROVE  First(e) \in Nat
<1>1. e.uploads \in Seq(Nat) /\ e.approved.upload \in Nat  BY DEF EffectFits
<1>2. e.uploads # <<>> => e.uploads[1] \in Nat
  BY <1>1, LenProperties, EmptySeq, ElementOfSeq
<1> QED  BY <1>1, <1>2 DEF First, NoUpload

LEMMA ReverseTyped ==
  ASSUME NEW s \in Seq(Nat)
  PROVE  Reverse(s) \in Seq(Nat)
<1>1. Len(s) \in Nat /\ \A i \in 1..Len(s) : s[i] \in Nat  BY LenProperties, ElementOfSeq
<1>2. \A i \in 1..Len(s) : (Len(s) - i) + 1 \in 1..Len(s)  BY <1>1
<1>3. Reverse(s) \in [1..Len(s) -> Nat]  BY <1>1, <1>2 DEF Reverse
<1> QED  BY <1>1, <1>3, SeqDef

LEMMA StudioStep ==
  ASSUME StudioInv, [StudioNext]_studioVars
  PROVE  StudioInv'
<1>1. ASSUME NEW p \in Studios, OthersUpload(p) PROVE StudioInv'
  BY <1>1, UploadKeepsStudio DEF OthersUpload, StudioInv
<1>2. ASSUME NEW p \in Studios, NEW u \in UploadIds, OthersApprove(p, u) PROVE StudioInv'
  <2>1. /\ u \in Nat /\ u \in ToSet(uploaded[p])
        /\ approval' = [approval EXCEPT ![p] = [upload |-> u, text |-> u]]
        /\ UNCHANGED <<uploaded, onPage, uploadList, chosen, text, known, loads, call, uploading, visits>>
    BY <1>2 DEF OthersApprove, Accepts, UploadIds
  <2>2. approval' \in [Studios -> [upload : Nat, text : Nat]]  BY <2>1 DEF StudioInv
  <2>3. ApprovalFitsUpload'  BY <2>1 DEF StudioInv, ApprovalFitsUpload
  <2> QED  BY <2>1, <2>2, <2>3 DEF StudioInv, Accepts, Fits, EffectFits
<1>3. ASSUME NEW p \in Studios, OpenStudio(p) PROVE StudioInv'
  <2>1. EffectFits(Effect(visits, p))
    BY EmptySeq DEF StudioInv, EffectFits, Effect, Fits, NoMapping, NoUpload
  <2>2. /\ onPage' = p /\ visits' \in Nat /\ loads' = loads \cup {Effect(visits, p)}
        /\ UNCHANGED <<uploaded, approval, uploadList, chosen, text, known, call, uploading>>
    BY <1>3 DEF OpenStudio, StudioInv
  <2>3. \A e \in loads' : EffectFits(e)'  BY <2>1, <2>2 DEF StudioInv, EffectFits, Fits
  <2> QED  BY <2>2, <2>3 DEF StudioInv, ApprovalFitsUpload, Accepts, Fits
<1>4. ASSUME NEW e \in loads, NEW what \in {"uploads", "mapping"}, AnswerEffect(e, what) PROVE StudioInv'
  <2>1. PICK told \in {approval[e.project], NoMapping} :
          loads' = (loads \ {e}) \cup
                   {[e EXCEPT !.asked = @ \cup {what},
                       !.uploads  = IF what = "uploads" THEN Reverse(uploaded[e.project]) ELSE @,
                       !.approved = IF what = "mapping" THEN told ELSE @]}
    BY <1>4 DEF AnswerEffect
  <2>2. UNCHANGED <<uploaded, approval, onPage, uploadList, chosen, text, known, call, uploading, visits>>
    BY <1>4 DEF AnswerEffect
  <2>3. /\ e \in [run : Nat, project : Studios, uploads : Seq(Nat), approved : [upload : Nat, text : Nat],
                  asked : SUBSET {"uploads", "mapping"}]
        /\ Fits(e.approved)
    BY DEF StudioInv, EffectFits
  <2>4. told \in [upload : Nat, text : Nat] /\ Fits(told)
    BY <2>3 DEF StudioInv, ApprovalFitsUpload, Fits, NoMapping, NoUpload
  <2>5. Reverse(uploaded[e.project]) \in Seq(Nat)
    BY <2>3, ReverseTyped DEF StudioInv
  <2> DEFINE n == [e EXCEPT !.asked = @ \cup {what},
                       !.uploads  = IF what = "uploads" THEN Reverse(uploaded[e.project]) ELSE @,
                       !.approved = IF what = "mapping" THEN told ELSE @]
  <2>6. EffectFits(n)
    <3>1. n \in [run : Nat, project : Studios, uploads : Seq(Nat), approved : [upload : Nat, text : Nat],
                 asked : SUBSET {"uploads", "mapping"}]
      BY <2>3, <2>4, <2>5
    <3>2. n.approved = IF what = "mapping" THEN told ELSE e.approved
      BY <2>3
    <3>3. Fits(n.approved)  BY <2>3, <2>4, <3>2
    <3> HIDE DEF n
    <3> QED  BY <3>1, <3>3 DEF EffectFits
  <2> HIDE DEF n
  <2>7. \A f \in loads' : EffectFits(f)'
    BY <2>1, <2>6 DEF n, StudioInv, EffectFits, Fits
  <2> QED  BY <2>2, <2>7 DEF StudioInv, ApprovalFitsUpload, Accepts, Fits
<1>5. ASSUME NEW e \in loads, EffectDone(e) PROVE StudioInv'
  <2>1. /\ loads' = loads \ {e} /\ uploadList' = e.uploads /\ known' = e.approved /\ chosen' = First(e)
        /\ text' = IF First(e) = NoUpload THEN NoUpload ELSE TextFor(e.approved, First(e))
        /\ UNCHANGED <<uploaded, approval, onPage, call, uploading, visits>>
    BY <1>5 DEF EffectDone
  <2>2. /\ EffectFits(e) /\ e.approved \in [upload : Nat, text : Nat] /\ Fits(e.approved)
        /\ e.uploads \in Seq(Nat)
    BY DEF StudioInv, EffectFits
  <2>3. First(e) \in Nat  BY <2>2, FirstIsUpload
  <2>4. text' = First(e)  BY <2>1, <2>2, <2>3, TextIsForUpload
  <2>5. \A f \in loads' : EffectFits(f)'  BY <2>1 DEF StudioInv, EffectFits, Fits
  <2> QED  BY <2>1, <2>2, <2>3, <2>4, <2>5 DEF StudioInv, ApprovalFitsUpload, Accepts, Fits
<1>6. ASSUME NEW e \in loads, EffectFails(e) PROVE StudioInv'
  BY <1>6 DEF EffectFails, StudioInv, EffectFits, ApprovalFitsUpload, Accepts, Fits
<1>7. ASSUME NEW u \in UploadIds, Choose(u) PROVE StudioInv'
  <2>1. /\ u \in Nat /\ chosen' = u /\ text' = TextFor(known, u)
        /\ UNCHANGED <<uploaded, approval, onPage, uploadList, known, loads, call, uploading, visits>>
    BY <1>7 DEF Choose, UploadIds
  <2>2. text' = u  BY <2>1, TextIsForUpload DEF StudioInv
  <2> QED  BY <2>1, <2>2 DEF StudioInv, EffectFits, ApprovalFitsUpload, Accepts, Fits
<1>8. ASSUME NEW kind \in {"preview", "approve", "load"}, PressButton(kind) PROVE StudioInv'
  <2>1. /\ onPage \in Studios
        /\ call' = [kind |-> kind, project |-> onPage, upload |-> chosen, text |-> text, ok |-> FALSE]
        /\ UNCHANGED <<uploaded, approval, onPage, uploadList, chosen, text, known, loads, uploading, visits>>
    BY <1>8 DEF PressButton, StudioInv
  <2>2. /\ call' \in [kind : {"preview", "approve", "load"}, project : Studios,
                      upload : Nat, text : Nat, ok : BOOLEAN]
        /\ call'.text = call'.upload /\ call'.ok = FALSE
    BY <2>1 DEF StudioInv
  <2> QED  BY <2>1, <2>2 DEF StudioInv, EffectFits, ApprovalFitsUpload, Accepts, Fits
<1>9. ASSUME ServeButton PROVE StudioInv'
  <2>1. /\ call # NoCall /\ Accepts(call.project, call.upload)
        /\ call' = [call EXCEPT !.ok = TRUE]
        /\ UNCHANGED <<uploaded, onPage, uploadList, chosen, text, known, loads, uploading, visits>>
    BY <1>9 DEF ServeButton
  <2>2. /\ call \in [kind : {"preview", "approve", "load"}, project : Studios,
                     upload : Nat, text : Nat, ok : BOOLEAN]
        /\ call.text = call.upload
    BY <2>1 DEF StudioInv, Fits
  <2>3. /\ call' \in [kind : {"preview", "approve", "load"}, project : Studios,
                      upload : Nat, text : Nat, ok : BOOLEAN]
        /\ call'.text = call.text /\ call'.upload = call.upload /\ call'.project = call.project
    BY <2>1, <2>2
  <2>4. \/ approval' = [approval EXCEPT ![call.project] = [upload |-> call.upload, text |-> call.text]]
        \/ approval' = approval
    BY <1>9 DEF ServeButton
  <2>5. approval' \in [Studios -> [upload : Nat, text : Nat]] /\ ApprovalFitsUpload'
    <3>1. CASE approval' = approval  BY <2>1, <3>1 DEF StudioInv, ApprovalFitsUpload
    <3>2. CASE approval' = [approval EXCEPT ![call.project] = [upload |-> call.upload, text |-> call.text]]
      BY <2>1, <2>2, <3>2 DEF StudioInv, ApprovalFitsUpload, Accepts
    <3> QED  BY <2>4, <3>1, <3>2
  <2> QED  BY <2>1, <2>2, <2>3, <2>5 DEF StudioInv, EffectFits, Accepts, Fits
<1>10. ASSUME ButtonDone PROVE StudioInv'
  <2>1. /\ call # NoCall /\ call' = NoCall
        /\ known' \in {known, [upload |-> call.upload, text |-> call.text]}
        /\ UNCHANGED <<uploaded, approval, onPage, uploadList, chosen, text, loads, uploading, visits>>
    BY <1>10 DEF ButtonDone
  <2>2. known' \in [upload : Nat, text : Nat] /\ Fits(known)'
    BY <2>1 DEF StudioInv, Fits
  <2> QED  BY <2>1, <2>2 DEF StudioInv, EffectFits, ApprovalFitsUpload, Accepts, Fits
<1>11. ASSUME PressUpload PROVE StudioInv'
  BY <1>11 DEF PressUpload, StudioInv, EffectFits, ApprovalFitsUpload, Accepts, Fits
<1>12. ASSUME UploadDone PROVE StudioInv'
  <2>1. CASE UNCHANGED uploaded
    BY <1>12, <2>1 DEF UploadDone, StudioInv, EffectFits, ApprovalFitsUpload, Accepts, Fits
  <2>2. CASE NewUpload(uploading)
    BY <1>12, <2>2, UploadKeepsStudio DEF UploadDone, StudioInv
  <2> QED  BY <1>12, <2>1, <2>2 DEF UploadDone
<1>13. ASSUME UNCHANGED studioVars PROVE StudioInv'
  BY <1>13 DEF studioVars, StudioInv, EffectFits, ApprovalFitsUpload, Accepts, Fits
<1> QED
  BY <1>1, <1>2, <1>3, <1>4, <1>5, <1>6, <1>7, <1>8, <1>9, <1>10, <1>11, <1>12, <1>13 DEF StudioNext

(* Whatever uploads and mappings arrive late or out of step, the mapping a *)
(* project has approved was written for the upload it names, one of its    *)
(* own.                                                                    *)
THEOREM ApprovalsFit == StudioSpec => []ApprovalFitsUpload
<1>1. StudioInit => StudioInv
  BY EmptySeq DEF StudioInit, StudioInv, ApprovalFitsUpload, Fits, NoMapping, NoUpload, NoCall
<1>2. StudioInv /\ [StudioNext]_studioVars => StudioInv'  BY StudioStep
<1>3. StudioInv => ApprovalFitsUpload  BY DEF StudioInv
<1> QED  BY <1>1, <1>2, <1>3, PTL DEF StudioSpec

(***************************************************************************)
(* The evaluation scripts.                                                 *)
(***************************************************************************)

QuestionAt(i) == ((i - 1) % QuestionCount) + 1

RunNumbers == [blind : Nat, correction : Nat]
Hashes     == Seq(Contents)
Script     == [op : Ops, at : Ats, run : Nat, fingerprint : Hashes, scored : Hashes,
               read : RunNumbers]
Report     == [op : Ops, fingerprint : Hashes, scored : Hashes]

EvaluationTypes ==
  /\ data \in Contents
  /\ snapshots \in [Questions -> Contents]
  /\ reports \in Seq(Report)
  /\ latest \in [project : Nat, old : Nat, correction : Nat]
  /\ metrics \in [old : RunNumbers, project : RunNumbers]
  /\ script \in [Terminals -> Script]
  /\ alone \in BOOLEAN

\* An answer was scored with other contents of a snapshot than those the
\* fingerprint names only if the snapshot was replaced in between: as long as
\* nothing has returned, it is still another one.
ScoredWith(fingerprint, scored) ==
  /\ Len(fingerprint) = QuestionCount
  /\ \A i \in 1..Len(scored) :
       /\ scored[i] # fingerprint[QuestionAt(i)]
       /\ QuestionAt(i) \notin returned
       => snapshots[QuestionAt(i)] # fingerprint[QuestionAt(i)]

ScriptScores(r) ==
  /\ r.at = "load" => r.scored = <<>>
  /\ r.op = "run_evaluation" /\ r.at \in {"ask", "write_run"} => ScoredWith(r.fingerprint, r.scored)

ScoresInv ==
  /\ \A t \in Terminals : ScriptScores(script[t])
  /\ \A n \in 1..Len(reports) :
       reports[n].op = "run_evaluation" => ScoredWith(reports[n].fingerprint, reports[n].scored)

\* Numbers in the metrics, and those a script is about to write, are of runs
\* of the script that owns them.
WritingAts == {"write_latest", "write_old_latest", "read_metrics", "write_metrics",
               "write_project_metrics"}
IsRunOf(op, n) == n # NoRun => n \in 1..Len(reports) /\ reports[n].op = op
Owned(m) == IsRunOf("run_evaluation", m.blind) /\ IsRunOf("correction", m.correction)
ScriptOwns(r) ==
  /\ r.at # "idle" => r.op # "none"
  /\ Owned(r.read)
  /\ r.at \in WritingAts => r.run \in 1..Len(reports) /\ reports[r.run].op = r.op
  /\ r.at \in WritingAts \cup {"write_run"} => r.op \in {"run_evaluation", "correction"}
  /\ r.at \in {"write_old_latest", "write_project_metrics"} => r.op = "run_evaluation"

OwnedInv ==
  /\ Owned(metrics.old) /\ Owned(metrics.project)
  /\ \A t \in Terminals : ScriptOwns(script[t])

\* With one script at a time: what a script has still to write, the places
\* that show the last runs, and how far they agree while it writes.
IsLastIn(rs, op, n) ==
  /\ n \in 0..Len(rs)
  /\ n = 0 \/ rs[n].op = op
  /\ \A m \in (n + 1)..Len(rs) : rs[m].op # op
IsLast(op, n) == IsLastIn(reports, op, n)

Settled ==
  /\ IsLast("run_evaluation", metrics.old.blind) /\ IsLast("correction", metrics.old.correction)
  /\ metrics.project.blind = metrics.old.blind
  /\ latest.project = metrics.old.blind /\ latest.old = metrics.old.blind

Writes(r) ==
  /\ r.at \in WritingAts /\ r.op = "run_evaluation" =>
       IsLast("run_evaluation", r.run) /\ IsLast("correction", metrics.old.correction)
  /\ r.at \in WritingAts /\ r.op = "correction" =>
       /\ IsLast("correction", r.run) /\ IsLast("run_evaluation", metrics.old.blind)
       /\ metrics.project.blind = metrics.old.blind
       /\ latest.project = metrics.old.blind /\ latest.old = metrics.old.blind
  /\ r.at \in WritingAts \ {"write_latest"} /\ r.op = "run_evaluation" => latest.project = r.run
  /\ r.at \in WritingAts \ {"write_latest", "write_old_latest"} /\ r.op = "run_evaluation" =>
       latest.old = r.run
  /\ r.at = "write_metrics" => r.read = metrics.old
  /\ r.at = "write_project_metrics" => metrics.old.blind = r.run

OneScript ==
  /\ \A t, u \in Terminals : script[t].at # "idle" /\ script[u].at # "idle" => t = u
  /\ (\A t \in Terminals : script[t].at \notin WritingAts) => Settled
  /\ \A t \in Terminals : Writes(script[t])

EvaluationInv == EvaluationTypes /\ ScoresInv /\ OwnedInv /\ (alone => OneScript)

\* A question of the split, whatever its turn.
LEMMA QuestionTyped ==
  ASSUME NEW i \in Nat
  PROVE  (i % QuestionCount) + 1 \in Questions /\ QuestionAt(i + 1) = (i % QuestionCount) + 1
<1>1. QuestionCount \in Nat /\ QuestionCount > 0  BY CountsAssumption
<1>2. i % QuestionCount \in 0..(QuestionCount - 1)  BY <1>1
<1>3. (i + 1) - 1 = i  OBVIOUS
<1>4. (i % QuestionCount) + 1 \in Questions  BY <1>1, <1>2 DEF Questions
<1> QED  BY <1>3, <1>4 DEF QuestionAt

LEMMA QuestionAtTyped ==
  ASSUME NEW n \in Nat, NEW i \in 1..n
  PROVE  QuestionAt(i) \in Questions
<1>1. i - 1 \in Nat /\ (i - 1) + 1 = i  OBVIOUS
<1> QED  BY <1>1, QuestionTyped

LEMMA RecordsTyped ==
  /\ Idle \in Script /\ Idle.at = "idle" /\ Idle.op = "none" /\ Idle.read = NoMetrics
  /\ Idle.scored = <<>> /\ Idle.fingerprint = <<>>
  /\ NoMetrics \in RunNumbers /\ NoMetrics.blind = NoRun /\ NoMetrics.correction = NoRun
BY EmptySeq DEF Idle, Script, Ops, Ats, Hashes, NoMetrics, RunNumbers, NoRun

\* What an approval may do to the snapshots: contents that a fingerprint names
\* come back only where it is noted.
Approved ==
  /\ snapshots' \in [Questions -> Contents]
  /\ \A q \in Questions :
       snapshots'[q] # snapshots[q] /\ Hashed(q, snapshots'[q]) => q \in returned'
  /\ returned \subseteq returned'

LEMMA ScoresStay ==
  ASSUME EvaluationTypes, Approved, NEW f \in Hashes, NEW s \in Hashes,
         \A q \in DOMAIN f : Hashed(q, f[q]), ScoredWith(f, s)
  PROVE  ScoredWith(f, s)'
<1>1. Len(f) = QuestionCount /\ DOMAIN f = Questions
  BY LenProperties DEF ScoredWith, Hashes, Questions
<1>2. ASSUME NEW i \in 1..Len(s), s[i] # f[QuestionAt(i)], QuestionAt(i) \notin returned'
      PROVE  snapshots'[QuestionAt(i)] # f[QuestionAt(i)]
  <2>1. QuestionAt(i) \in Questions
    BY LenProperties, QuestionAtTyped DEF Hashes
  <2>2. snapshots[QuestionAt(i)] # f[QuestionAt(i)]
    BY <1>2 DEF ScoredWith, Approved
  <2> QED  BY <1>1, <1>2, <2>1, <2>2 DEF Approved
<1> QED  BY <1>1, <1>2 DEF ScoredWith

\* A step of one script over reports that stay as they are.
LEMMA PlainStep ==
  ASSUME EvaluationInv, NEW t \in Terminals, NEW n \in Script, script' = [script EXCEPT ![t] = n],
         UNCHANGED <<data, reports>>, Approved,
         latest' \in [project : Nat, old : Nat, correction : Nat],
         metrics' \in [old : RunNumbers, project : RunNumbers], alone' \in BOOLEAN,
         ScriptScores(n)', ScriptOwns(n), Owned(metrics'.old), Owned(metrics'.project),
         alone' => OneScript'
  PROVE  EvaluationInv'
<1>1. /\ script' \in [Terminals -> Script]
      /\ \A u \in Terminals : script'[u] = IF u = t THEN n ELSE script[u]
  BY DEF EvaluationInv, EvaluationTypes
<1>2. EvaluationTypes'
  BY <1>1 DEF EvaluationInv, EvaluationTypes, Approved
<1>3. ScoresInv'
  <2>1. ASSUME NEW u \in Terminals PROVE ScriptScores(script[u])'
    <3>1. CASE u = t
      <4>1. script'[u] = n  BY <1>1, <3>1
      <4> QED  BY <4>1 DEF ScriptScores
    <3>2. CASE u # t
      <4>1. /\ script'[u] = script[u] /\ ScriptScores(script[u])
            /\ script[u].scored \in Hashes /\ script[u].fingerprint \in Hashes
        BY <1>1, <3>2 DEF EvaluationInv, EvaluationTypes, ScoresInv, Script
      <4>2. \A q \in DOMAIN script[u].fingerprint : Hashed(q, script[u].fingerprint[q])
        BY DEF Hashed, Names
      <4> QED  BY <4>1, <4>2, ScoresStay DEF ScriptScores, EvaluationInv
    <3> QED  BY <3>1, <3>2
  <2>2. ASSUME NEW k \in 1..Len(reports), reports[k].op = "run_evaluation"
        PROVE  ScoredWith(reports[k].fingerprint, reports[k].scored)'
    <3>1. reports[k] \in Report /\ k \in DOMAIN reports
      BY ElementOfSeq, LenProperties DEF EvaluationInv, EvaluationTypes
    <3> PICK f : f = reports[k].fingerprint
      OBVIOUS
    <3> PICK s : s = reports[k].scored
      OBVIOUS
    <3>2. f \in Hashes /\ s \in Hashes /\ ScoredWith(f, s)
      BY <2>2, <3>1 DEF Report, EvaluationInv, ScoresInv
    <3>3. \A q \in DOMAIN f : Hashed(q, f[q])
      BY <3>1 DEF Hashed, Names
    <3>4. ScoredWith(f, s)'
      BY <3>2, <3>3, ScoresStay DEF EvaluationInv
    <3> QED  BY <3>4 DEF ScoredWith
  <2> QED  BY <2>1, <2>2 DEF ScoresInv
<1>4. OwnedInv'
  BY <1>1 DEF EvaluationInv, OwnedInv, ScriptOwns, Owned, IsRunOf
<1> QED  BY <1>2, <1>3, <1>4 DEF EvaluationInv

\* When one script is at work, what holds of it holds of all.
LEMMA OnlyScript ==
  ASSUME EvaluationTypes, NEW t \in Terminals, NEW n, script' = [script EXCEPT ![t] = n],
         \A u \in Terminals \ {t} : script[u].at = "idle",
         n.at \notin WritingAts => Settled', Writes(n)'
  PROVE  OneScript'
<1>1. \A u \in Terminals : script'[u] = IF u = t THEN n ELSE script[u]
  BY DEF EvaluationTypes
<1>2. ASSUME NEW u \in Terminals \ {t} PROVE script'[u].at = "idle" /\ Writes(script[u])'
  <2>1. script'[u].at = "idle"  BY <1>1, <1>2
  <2> QED  BY <2>1 DEF Writes, WritingAts
<1>3. script'[t] = n  BY <1>1
<1>4. Writes(script[t])'
  BY <1>3 DEF Writes
<1>5. \A u, v \in Terminals : script'[u].at # "idle" /\ script'[v].at # "idle" => u = v
  BY <1>2
<1>6. (\A u \in Terminals : script'[u].at \notin WritingAts) => Settled'
  BY <1>3
<1>7. \A u \in Terminals : Writes(script[u])'
  BY <1>2, <1>4
<1> QED  BY <1>5, <1>6, <1>7 DEF OneScript

LEMMA AtWork ==
  ASSUME OneScript, NEW t \in Terminals, script[t].at # "idle"
  PROVE  /\ \A u \in Terminals \ {t} : script[u].at = "idle"
         /\ script[t].at \notin WritingAts => Settled
         /\ Writes(script[t])
<1>1. \A u \in Terminals \ {t} : script[u].at = "idle"  BY DEF OneScript
<1>2. script[t].at \notin WritingAts => \A u \in Terminals : script[u].at \notin WritingAts
  BY <1>1 DEF WritingAts
<1> QED  BY <1>1, <1>2 DEF OneScript

\* What a script becomes by moving on.
LEMMA MovedOn ==
  ASSUME NEW r \in Script, NEW s \in Ats, NEW n, n = [r EXCEPT !.at = s]
  PROVE  /\ n \in Script /\ n.at = s /\ n.op = r.op /\ n.run = r.run /\ n.read = r.read
         /\ n.fingerprint = r.fingerprint /\ n.scored = r.scored
BY DEF Script

\* And when the snapshots stay too.
LEMMA SteadyStep ==
  ASSUME EvaluationInv, NEW t \in Terminals, NEW n \in Script, script' = [script EXCEPT ![t] = n],
         UNCHANGED <<data, reports, snapshots, returned>>,
         latest' \in [project : Nat, old : Nat, correction : Nat],
         metrics' \in [old : RunNumbers, project : RunNumbers], alone' \in BOOLEAN,
         ScriptScores(n), ScriptOwns(n), Owned(metrics'.old), Owned(metrics'.project),
         alone' => OneScript'
  PROVE  EvaluationInv'
<1>1. ScriptScores(n)'  BY DEF ScriptScores, ScoredWith
<1>2. Approved
  BY DEF EvaluationInv, EvaluationTypes, Approved
<1> QED  BY <1>1, <1>2, PlainStep

LEMMA ReloadStep == ASSUME EvaluationInv, ReloadGraph PROVE EvaluationInv'
<1>1. data' \in Contents /\ UNCHANGED <<snapshots, reports, latest, metrics, script, alone, returned>>
  BY DEF ReloadGraph
<1>2. EvaluationTypes'
  BY <1>1 DEF EvaluationInv, EvaluationTypes
<1>3. ScoresInv'
  BY <1>1 DEF EvaluationInv, ScoresInv, ScriptScores, ScoredWith
<1>4. OwnedInv'
  BY <1>1 DEF EvaluationInv, OwnedInv, ScriptOwns, Owned, IsRunOf
<1>5. alone' => OneScript'
  BY <1>1 DEF EvaluationInv, OneScript, Writes, Settled, IsLast
<1> QED  BY <1>2, <1>3, <1>4, <1>5 DEF EvaluationInv

\* A script that ends, or is stopped, before it writes.
LEMMA ExitStep ==
  ASSUME EvaluationInv, NEW t \in Terminals, Exit(t),
         UNCHANGED <<data, snapshots, reports, returned>>,
         latest' \in [project : Nat, old : Nat, correction : Nat],
         metrics' \in [old : RunNumbers, project : RunNumbers], alone' \in BOOLEAN,
         Owned(metrics'.old), Owned(metrics'.project),
         alone' => Settled' /\ \A u \in Terminals \ {t} : script[u].at = "idle"
  PROVE  EvaluationInv'
<1>1. script' = [script EXCEPT ![t] = Idle]  BY DEF Exit
<1>2. ScriptScores(Idle) /\ ScriptOwns(Idle)
  BY RecordsTyped DEF ScriptScores, ScriptOwns, Owned, IsRunOf, WritingAts
<1>3. Writes(Idle)'  BY RecordsTyped DEF Writes, WritingAts
<1>4. alone' => OneScript'
  BY <1>1, <1>3, OnlyScript DEF EvaluationInv
<1> QED  BY <1>1, <1>2, <1>4, SteadyStep, RecordsTyped

LEMMA StartStep ==
  ASSUME EvaluationInv, NEW t \in Terminals, NEW op \in Ops \ {"none"}, StartScript(t, op)
  PROVE  EvaluationInv'
<1> DEFINE n == [Idle EXCEPT !.op = op, !.at = "load"]
<1>1. /\ script[t] = Idle /\ script' = [script EXCEPT ![t] = n]
      /\ alone' = (alone /\ \A other \in Terminals : script[other] = Idle)
      /\ UNCHANGED <<data, snapshots, reports, latest, metrics, returned>>
  BY DEF StartScript
<1>2. /\ n \in Script /\ n.at = "load" /\ n.op = op /\ n.read = NoMetrics /\ n.scored = <<>>
  BY RecordsTyped DEF Script, Ats
<1> HIDE DEF n
<1>3. ScriptScores(n) /\ ScriptOwns(n) /\ Writes(n)'
  BY <1>2, RecordsTyped DEF ScriptScores, ScriptOwns, Owned, IsRunOf, WritingAts, Writes
<1>4. alone' => OneScript'
  <2> SUFFICES ASSUME alone' PROVE OneScript'
    OBVIOUS
  <2>1. alone /\ \A u \in Terminals : script[u].at = "idle"  BY <1>1, RecordsTyped
  <2>2. Settled  BY <2>1 DEF EvaluationInv, OneScript, WritingAts
  <2>3. Settled'  BY <1>1, <2>2 DEF Settled, IsLast
  <2> QED  BY <1>1, <1>3, <2>1, <2>3, OnlyScript DEF EvaluationInv
<1>5. alone' \in BOOLEAN  BY <1>1
<1> QED  BY <1>1, <1>2, <1>3, <1>4, <1>5, SteadyStep DEF EvaluationInv, EvaluationTypes, OwnedInv

\* A step that writes nothing and does not end the script.
LEMMA QuietStep ==
  ASSUME EvaluationInv, NEW t \in Terminals, NEW n \in Script, script' = [script EXCEPT ![t] = n],
         UNCHANGED <<data, snapshots, reports, latest, metrics, alone, returned>>,
         script[t].at # "idle", script[t].at \notin WritingAts, n.at \in {"load", "ask", "write_run"},
         n.read = script[t].read, n.op = script[t].op, ScriptScores(n),
         n.at = "write_run" => n.op \in {"run_evaluation", "correction"}
  PROVE  EvaluationInv'
<1>1. ScriptOwns(n)
  BY DEF EvaluationInv, OwnedInv, ScriptOwns, WritingAts
<1>2. alone' => OneScript'
  <2> SUFFICES ASSUME alone PROVE OneScript'
    OBVIOUS
  <2>1. Settled /\ \A u \in Terminals \ {t} : script[u].at = "idle"
    BY AtWork DEF EvaluationInv
  <2>2. Settled' /\ Writes(n)'
    BY <2>1 DEF Settled, IsLast, Writes, WritingAts
  <2> QED  BY <2>1, <2>2, OnlyScript DEF EvaluationInv
<1> QED  BY <1>1, <1>2, SteadyStep DEF EvaluationInv, EvaluationTypes, OwnedInv

LEMMA LoadStep ==
  ASSUME EvaluationInv, NEW t \in Terminals, HashSnapshot(t) \/ LoadContract(t)
  PROVE  EvaluationInv'
<1> DEFINE r == script[t]
<1>1. /\ r \in Script /\ r.at = "load" /\ r.scored = <<>> /\ Len(r.fingerprint) \in Nat
      /\ UNCHANGED <<data, snapshots, reports, latest, metrics, alone, returned>>
  BY LenProperties DEF HashSnapshot, LoadContract, Is, EvaluationInv, EvaluationTypes, ScoresInv, ScriptScores,
     Script, Hashes
<1>2. CASE HashSnapshot(t)
  <2> DEFINE q == Len(r.fingerprint) + 1
  <2> PICK n : n = [r EXCEPT !.fingerprint = Append(@, snapshots[q])]
    OBVIOUS
  <2>1. script' = [script EXCEPT ![t] = n] /\ q \in Questions
    BY <1>1, <1>2 DEF HashSnapshot, Questions
  <2>2. snapshots[q] \in Contents
    BY <2>1 DEF EvaluationInv, EvaluationTypes
  <2>3. Append(r.fingerprint, snapshots[q]) \in Hashes
    BY <1>1, <2>2, AppendProperties DEF Script, Hashes
  <2>4. n \in Script /\ n.at = "load" /\ n.op = r.op /\ n.read = r.read /\ n.scored = <<>>
    BY <1>1, <2>3 DEF Script
  <2>5. ScriptScores(n)  BY <2>4 DEF ScriptScores
  <2> QED  BY <1>1, <2>1, <2>4, <2>5, QuietStep DEF WritingAts
<1>3. CASE LoadContract(t)
  <2> PICK n : n = [r EXCEPT !.at = "ask", !.fingerprint = Fingerprint(@)]
    OBVIOUS
  <2>1. /\ script' = [script EXCEPT ![t] = n]
        /\ r.op = "run_evaluation" => Len(r.fingerprint) = QuestionCount
    BY <1>3 DEF LoadContract
  <2>2. /\ n \in Script /\ n.at = "ask" /\ n.op = r.op /\ n.read = r.read
        /\ n.fingerprint = r.fingerprint /\ n.scored = <<>>
    BY <1>1 DEF Script, Ats, Fingerprint
  <2>3. Len(<<>>) = 0  BY EmptySeq
  <2>4. ScriptScores(n)  BY <2>1, <2>2, <2>3 DEF ScriptScores, ScoredWith
  <2> QED  BY <1>1, <2>1, <2>2, <2>4, QuietStep DEF WritingAts
<1> QED  BY <1>2, <1>3

\* The snapshot of a question, read when it is asked.
LEMMA ScoredStep ==
  ASSUME EvaluationInv, NEW t \in Terminals, Is(t, "ask"), Scored(t, Question(t)),
         UNCHANGED <<data, reports, latest, metrics, alone>>, Approved,
         script[t].op = "run_evaluation" => snapshots' = snapshots /\ returned' = returned
  PROVE  EvaluationInv'
<1> DEFINE r == script[t]
           v == IF r.op = "run_evaluation" THEN snapshots[Question(t)] ELSE 0
<1>1. /\ r \in Script /\ r.at = "ask" /\ r.scored \in Seq(Contents) /\ Len(r.scored) \in Nat
  BY LenProperties DEF EvaluationInv, EvaluationTypes, Script, Hashes, Is
<1>2. Question(t) \in Questions /\ QuestionAt(Len(r.scored) + 1) = Question(t)
  BY <1>1, QuestionTyped DEF Question, Position
<1>3. v \in Contents
  BY <1>2, CountsAssumption DEF EvaluationInv, EvaluationTypes, Contents
<1> PICK w \in Contents : w = v
  BY <1>3
<1> PICK n : n = [r EXCEPT !.scored = Append(@, w)]
  OBVIOUS
<1> HIDE DEF v
<1>4. /\ n \in Script /\ n.at = "ask" /\ n.op = r.op /\ n.read = r.read
      /\ n.fingerprint = r.fingerprint /\ n.scored = Append(r.scored, w)
  <2>1. Append(r.scored, w) \in Hashes  BY <1>1, AppendProperties DEF Hashes
  <2> QED  BY <1>1, <2>1 DEF Script
<1>5. script' = [script EXCEPT ![t] = n]
  BY DEF Scored, v
<1>7. ScriptScores(n)'
  <2> SUFFICES ASSUME n.op = "run_evaluation" PROVE ScoredWith(n.fingerprint, n.scored)'
    BY <1>4 DEF ScriptScores
  <2>1. /\ ScoredWith(r.fingerprint, r.scored) /\ w = snapshots[Question(t)]
        /\ snapshots' = snapshots /\ returned' = returned
    BY <1>1, <1>4 DEF EvaluationInv, ScoresInv, ScriptScores, v
  <2>2. Len(n.scored) = Len(r.scored) + 1 /\ n.scored[Len(r.scored) + 1] = w
        /\ \A i \in 1..Len(r.scored) : n.scored[i] = r.scored[i]
    BY <1>1, <1>3, <1>4, AppendProperties
  <2>4. ASSUME NEW i \in 1..Len(n.scored), n.scored[i] # n.fingerprint[QuestionAt(i)],
               QuestionAt(i) \notin returned
        PROVE  snapshots[QuestionAt(i)] # n.fingerprint[QuestionAt(i)]
    <3>1. CASE i = Len(r.scored) + 1
      BY <1>2, <2>1, <2>2, <2>4, <3>1
    <3>2. CASE i # Len(r.scored) + 1
      <4>1. i \in 1..Len(r.scored)  BY <1>1, <2>2, <3>2
      <4> QED  BY <1>4, <2>1, <2>2, <2>4, <4>1 DEF ScoredWith
    <3> QED  BY <3>1, <3>2
  <2> QED  BY <1>4, <2>1, <2>4 DEF ScoredWith
<1>6. ScriptOwns(n)
  BY <1>1, <1>4 DEF EvaluationInv, OwnedInv, ScriptOwns, WritingAts
<1>8. alone' => OneScript'
  <2> SUFFICES ASSUME alone PROVE OneScript'
    OBVIOUS
  <2>1. Settled /\ \A u \in Terminals \ {t} : script[u].at = "idle"
    BY <1>1, AtWork DEF EvaluationInv, WritingAts
  <2>2. Settled' /\ Writes(n)'
    BY <1>4, <2>1 DEF Settled, IsLast, Writes, WritingAts
  <2> QED  BY <1>5, <2>1, <2>2, OnlyScript DEF EvaluationInv
<1> QED  BY <1>4, <1>5, <1>6, <1>7, <1>8, PlainStep DEF EvaluationInv, EvaluationTypes, OwnedInv

LEMMA AskStep ==
  ASSUME EvaluationInv, NEW t \in Terminals, UpdateExpected(t) \/ AskQuestion(t)
  PROVE  EvaluationInv'
<1>0. Question(t) \in Questions
  <2>1. Len(script[t].scored) \in Nat
    BY LenProperties DEF EvaluationInv, EvaluationTypes, Script, Hashes
  <2> QED  BY <2>1, QuestionTyped DEF Question, Position
<1>1. CASE UpdateExpected(t)
  <2>1. /\ Is(t, "ask") /\ script[t].op = "update_expected"
        /\ snapshots' = [snapshots EXCEPT ![Question(t)] = data]
        /\ Scored(t, Question(t)) /\ UNCHANGED <<data, reports, latest, metrics, alone>>
    BY <1>1 DEF UpdateExpected, Asking
  <2>2. /\ data # snapshots[Question(t)] /\ Hashed(Question(t), data) => Question(t) \in returned'
        /\ returned \subseteq returned'
    BY <1>1 DEF UpdateExpected
  <2>3. Approved
    BY <1>0, <2>1, <2>2 DEF EvaluationInv, EvaluationTypes, Approved
  <2> QED  BY <2>1, <2>3, ScoredStep
<1>2. CASE AskQuestion(t)
  <2>1. /\ Is(t, "ask") /\ Scored(t, Question(t))
        /\ UNCHANGED <<data, snapshots, reports, latest, metrics, alone, returned>>
    BY <1>2 DEF AskQuestion, Asking
  <2>2. Approved
    BY <2>1 DEF EvaluationInv, EvaluationTypes, Approved
  <2> QED  BY <2>1, <2>2, ScoredStep
<1> QED  BY <1>1, <1>2

LEMMA EndOfAsking ==
  ASSUME EvaluationInv, NEW t \in Terminals, UpdateRefused(t) \/ Finish(t)
  PROVE  EvaluationInv'
<1> DEFINE r == script[t]
<1>1. /\ r \in Script /\ r.at = "ask" /\ UNCHANGED <<data, snapshots, reports, latest, metrics, alone, returned>>
  BY DEF UpdateRefused, Finish, Asking, Is, EvaluationInv, EvaluationTypes
<1>2. alone => Settled /\ \A u \in Terminals \ {t} : script[u].at = "idle"
  BY <1>1, AtWork DEF EvaluationInv, WritingAts
<1>3. CASE Exit(t)
  <2>1. alone' => Settled'  BY <1>1, <1>2 DEF Settled, IsLast
  <2> QED  BY <1>1, <1>2, <1>3, <2>1, ExitStep DEF EvaluationInv, EvaluationTypes, OwnedInv
<1>4. CASE Finish(t) /\ ~(r.op \in {"update_expected", "verify_expected"})
  <2> PICK n : n = [r EXCEPT !.at = "write_run"]
    OBVIOUS
  <2>1. script' = [script EXCEPT ![t] = n]
    BY <1>4 DEF Finish, Now
  <2>2. /\ n \in Script /\ n.at = "write_run" /\ n.op = r.op /\ n.read = r.read
        /\ n.fingerprint = r.fingerprint /\ n.scored = r.scored
    BY <1>1, MovedOn DEF Ats
  <2>3. ScriptScores(n)
    BY <1>1, <2>2 DEF EvaluationInv, ScoresInv, ScriptScores
  <2>4. r.op \in {"run_evaluation", "correction"}
    BY <1>1, <1>4 DEF EvaluationInv, OwnedInv, ScriptOwns, Script, Ops
  <2> QED  BY <1>1, <2>1, <2>2, <2>3, <2>4, QuietStep DEF WritingAts
<1> QED  BY <1>3, <1>4 DEF UpdateRefused, Finish

\* The report that is written is the last one of its script.
LEMMA LastReport ==
  ASSUME NEW rs \in Seq(Report), NEW rep \in Report, NEW op
  PROVE  /\ rep.op = op => IsLastIn(Append(rs, rep), op, Len(rs) + 1)
         /\ rep.op # op => \A n : IsLastIn(rs, op, n) => IsLastIn(Append(rs, rep), op, n)
<1> PICK new : new = Append(rs, rep)
  OBVIOUS
<1>1. /\ Len(rs) \in Nat /\ Len(new) = Len(rs) + 1
      /\ \A i \in 1..Len(rs) : new[i] = rs[i]
      /\ new[Len(rs) + 1] = rep
  BY LenProperties, AppendProperties
<1>2. ASSUME rep.op = op PROVE IsLastIn(new, op, Len(rs) + 1)
  BY <1>1, <1>2 DEF IsLastIn
<1>3. ASSUME rep.op # op, NEW n, IsLastIn(rs, op, n) PROVE IsLastIn(new, op, n)
  <2>1. /\ n \in 0..Len(rs) /\ (n = 0 \/ rs[n].op = op)
        /\ \A m \in (n + 1)..Len(rs) : rs[m].op # op
    BY <1>3 DEF IsLastIn
  <2>2. n \in 0..Len(new)  BY <1>1, <2>1
  <2>3. n = 0 \/ new[n].op = op  BY <1>1, <2>1
  <2>4. ASSUME NEW m \in (n + 1)..Len(new) PROVE new[m].op # op
    <3>1. CASE m = Len(rs) + 1  BY <1>1, <1>3, <3>1
    <3>2. CASE m # Len(rs) + 1
      <4>1. m \in (n + 1)..Len(rs) /\ m \in 1..Len(rs)  BY <1>1, <2>1, <3>2
      <4> QED  BY <1>1, <2>1, <4>1
    <3> QED  BY <3>1, <3>2
  <2> QED  BY <2>2, <2>3, <2>4 DEF IsLastIn
<1> QED  BY <1>2, <1>3

LEMMA WriteRunStep ==
  ASSUME EvaluationInv, NEW t \in Terminals, WriteRun(t)
  PROVE  EvaluationInv'
<1> DEFINE r == script[t]
<1> PICK rep : rep = [op |-> r.op, fingerprint |-> r.fingerprint, scored |-> r.scored]
  OBVIOUS
<1> PICK n : n = [Idle EXCEPT !.op = r.op, !.at = "write_latest", !.run = Len(reports) + 1]
  OBVIOUS
<1>1. /\ r.at = "write_run" /\ reports' = Append(reports, rep) /\ script' = [script EXCEPT ![t] = n]
      /\ UNCHANGED <<data, snapshots, latest, metrics, alone, returned>>
  BY DEF WriteRun, Is
<1>2. r \in Script /\ r.op \in {"run_evaluation", "correction"} /\ reports \in Seq(Report)
  BY <1>1 DEF EvaluationInv, EvaluationTypes, OwnedInv, ScriptOwns
<1>3. /\ rep \in Report /\ rep.op = r.op /\ rep.fingerprint = r.fingerprint /\ rep.scored = r.scored
  BY <1>2 DEF Script, Report
<1>4. /\ Len(reports) \in Nat /\ reports' \in Seq(Report) /\ Len(reports') = Len(reports) + 1
      /\ \A i \in 1..Len(reports) : reports'[i] = reports[i]
      /\ reports'[Len(reports) + 1] = rep
  BY <1>1, <1>2, <1>3, LenProperties, AppendProperties
<1>5. /\ n \in Script /\ n.at = "write_latest" /\ n.op = r.op /\ n.read = NoMetrics
      /\ n.run = Len(reports) + 1
  <2>1. Len(reports) + 1 \in Nat  BY <1>4
  <2> PICK k \in Nat : k = Len(reports) + 1
    BY <2>1
  <2>2. n = [Idle EXCEPT !.op = r.op, !.at = "write_latest", !.run = k]
    OBVIOUS
  <2>3. /\ n \in Script /\ n.at = "write_latest" /\ n.op = r.op /\ n.read = NoMetrics
        /\ n.run = k
    BY <1>2, <2>2, RecordsTyped DEF Script, Ats
  <2> QED  BY <2>3
<1>6. /\ script' \in [Terminals -> Script]
      /\ \A u \in Terminals : script'[u] = IF u = t THEN n ELSE script[u]
  BY <1>1, <1>5 DEF EvaluationInv, EvaluationTypes
<1>7. EvaluationTypes'
  BY <1>1, <1>4, <1>6 DEF EvaluationInv, EvaluationTypes
<1>8. ScriptScores(r)
  BY DEF EvaluationInv, ScoresInv
<1>9. ScoresInv'
  <2>1. ASSUME NEW u \in Terminals PROVE ScriptScores(script[u])'
    <3>1. CASE u = t
      <4>1. script'[u] = n  BY <1>6, <3>1
      <4> QED  BY <1>5, <4>1 DEF ScriptScores
    <3>2. CASE u # t
      BY <1>1, <1>6, <3>2 DEF EvaluationInv, ScoresInv, ScriptScores, ScoredWith
    <3> QED  BY <3>1, <3>2
  <2>2. ASSUME NEW k \in 1..Len(reports'), reports'[k].op = "run_evaluation"
        PROVE  /\ Len(reports'[k].fingerprint) = QuestionCount
               /\ \A i \in 1..Len(reports'[k].scored) :
                    /\ reports'[k].scored[i] # reports'[k].fingerprint[QuestionAt(i)]
                    /\ QuestionAt(i) \notin returned
                    => snapshots[QuestionAt(i)] # reports'[k].fingerprint[QuestionAt(i)]
    <3>1. CASE k = Len(reports) + 1
      <4>1. reports'[k] = rep  BY <1>4, <3>1
      <4> QED  BY <1>1, <1>3, <1>8, <2>2, <4>1 DEF ScriptScores, ScoredWith
    <3>2. CASE k # Len(reports) + 1
      <4>1. k \in 1..Len(reports) /\ reports'[k] = reports[k]  BY <1>4, <3>2
      <4> QED  BY <2>2, <4>1 DEF EvaluationInv, ScoresInv, ScoredWith
    <3> QED  BY <3>1, <3>2
  <2> QED  BY <1>1, <2>1, <2>2 DEF ScoresInv, ScoredWith
<1>10. \A op, m : IsRunOf(op, m) => IsRunOf(op, m)'
  BY <1>4 DEF IsRunOf
<1>11. OwnedInv'
  <2>1. Owned(metrics.old)' /\ Owned(metrics.project)'
    BY <1>1, <1>10 DEF EvaluationInv, OwnedInv, Owned
  <2>2. ASSUME NEW u \in Terminals PROVE ScriptOwns(script[u])'
    <3>1. CASE u = t
      <4>1. script'[u] = n  BY <1>6, <3>1
      <4>2. Owned(n.read)'
        BY <1>5, RecordsTyped DEF Owned, IsRunOf
      <4>3. n.run \in 1..Len(reports') /\ reports'[n.run].op = n.op
        BY <1>3, <1>4, <1>5
      <4> QED  BY <1>2, <1>5, <4>1, <4>2, <4>3 DEF ScriptOwns, Owned, IsRunOf
    <3>2. CASE u # t
      <4>1. script'[u] = script[u] /\ ScriptOwns(script[u])
        BY <1>6, <3>2 DEF EvaluationInv, OwnedInv
      <4>2. Owned(script[u].read) => Owned(script[u].read)'
        BY <1>10, <4>1 DEF Owned
      <4> QED  BY <1>4, <4>1, <4>2 DEF ScriptOwns
    <3> QED  BY <3>1, <3>2
  <2> QED  BY <2>1, <2>2 DEF OwnedInv
<1>12. ASSUME alone PROVE OneScript'
  <2>1. Settled /\ \A u \in Terminals \ {t} : script[u].at = "idle"
    BY <1>1, <1>12, AtWork DEF EvaluationInv, WritingAts
  <2>2. Writes(n)'
    <3>1. CASE r.op = "run_evaluation"
      <4>1. IsLast("run_evaluation", n.run)' /\ IsLast("correction", metrics.old.correction)'
        BY <1>1, <1>2, <1>3, <1>5, <2>1, <3>1, LastReport DEF IsLast, Settled
      <4> QED  BY <1>5, <3>1, <4>1 DEF Writes, WritingAts
    <3>2. CASE r.op = "correction"
      <4>1. IsLast("correction", n.run)' /\ IsLast("run_evaluation", metrics.old.blind)'
        BY <1>1, <1>2, <1>3, <1>5, <2>1, <3>2, LastReport DEF IsLast, Settled
      <4>2. /\ metrics'.project.blind = metrics'.old.blind
            /\ latest'.project = metrics'.old.blind /\ latest'.old = metrics'.old.blind
        BY <1>1, <2>1 DEF Settled
      <4> QED  BY <1>5, <3>2, <4>1, <4>2 DEF Writes, WritingAts
    <3> QED  BY <1>2, <3>1, <3>2
  <2>3. n.at \in WritingAts  BY <1>5 DEF WritingAts
  <2> QED  BY <1>1, <2>1, <2>2, <2>3, OnlyScript DEF EvaluationInv
<1> QED  BY <1>1, <1>7, <1>9, <1>11, <1>12 DEF EvaluationInv

\* A step of a script between its report and its end.
LEMMA WritingStep ==
  ASSUME EvaluationInv, NEW t \in Terminals, NEW n \in Script, script' = [script EXCEPT ![t] = n],
         script[t].at \in WritingAts, n.at \in WritingAts, UNCHANGED <<data, snapshots, reports, alone, returned>>,
         n.op = script[t].op, n.run = script[t].run, n.fingerprint = script[t].fingerprint,
         n.scored = script[t].scored,
         latest' \in [project : Nat, old : Nat, correction : Nat],
         metrics' \in [old : RunNumbers, project : RunNumbers],
         Owned(n.read), Owned(metrics'.old), Owned(metrics'.project),
         n.at \in {"write_old_latest", "write_project_metrics"} => n.op = "run_evaluation",
         alone => Writes(n)'
  PROVE  EvaluationInv'
<1> DEFINE r == script[t]
<1>1. ScriptScores(r) /\ ScriptOwns(r)
  BY DEF EvaluationInv, ScoresInv, OwnedInv
<1>2. ScriptScores(n)
  BY <1>1 DEF ScriptScores, WritingAts
<1>3. ScriptOwns(n)
  BY <1>1 DEF ScriptOwns, WritingAts
<1>4. ASSUME alone PROVE OneScript'
  <2>1. \A u \in Terminals \ {t} : script[u].at = "idle"
    BY <1>4, AtWork DEF EvaluationInv, WritingAts
  <2> QED  BY <1>4, <2>1, OnlyScript DEF EvaluationInv
<1> QED  BY <1>2, <1>3, <1>4, SteadyStep DEF EvaluationInv, EvaluationTypes

LEMMA WriteLatestStep ==
  ASSUME EvaluationInv, NEW t \in Terminals, WriteLatest(t) \/ WriteOldLatest(t)
  PROVE  EvaluationInv'
<1> DEFINE r == script[t]
<1>1. r \in Script /\ ScriptOwns(r)
  BY DEF EvaluationInv, EvaluationTypes, OwnedInv
<1>2. alone => Writes(r)
  BY DEF EvaluationInv, OneScript
<1>3. /\ r.at \in {"write_latest", "write_old_latest"} /\ r.run \in Nat
      /\ UNCHANGED <<data, snapshots, reports, metrics, alone, returned>>
  BY <1>1 DEF WriteLatest, WriteOldLatest, Is, Script
<1>4. ASSUME NEW s \in {"read_metrics", "write_old_latest"}, NEW n, n = [r EXCEPT !.at = s],
             script' = [script EXCEPT ![t] = n],
             s = "write_old_latest" => n.op = "run_evaluation",
             latest' \in [project : Nat, old : Nat, correction : Nat], alone => Writes(n)'
      PROVE  EvaluationInv'
  <2>1. /\ n \in Script /\ n.at = s /\ n.op = r.op /\ n.run = r.run /\ n.read = r.read
        /\ n.fingerprint = r.fingerprint /\ n.scored = r.scored
    BY <1>1, <1>4, MovedOn DEF Ats
  <2>2. Owned(n.read) /\ Owned(metrics'.old) /\ Owned(metrics'.project)
    BY <1>1, <1>3, <2>1 DEF ScriptOwns, EvaluationInv, OwnedInv
  <2>3. metrics' \in [old : RunNumbers, project : RunNumbers]
    BY <1>3 DEF EvaluationInv, EvaluationTypes
  <2> QED  BY <1>3, <1>4, <2>1, <2>2, <2>3, WritingStep DEF WritingAts
<1>5. CASE WriteLatest(t) /\ r.op = "correction"
  <2> PICK n : n = [r EXCEPT !.at = "read_metrics"]
    OBVIOUS
  <2>1. /\ r.at = "write_latest" /\ script' = [script EXCEPT ![t] = n]
        /\ latest' = [latest EXCEPT !.correction = r.run]
    BY <1>5 DEF WriteLatest, Is, Now
  <2>2. /\ latest' \in [project : Nat, old : Nat, correction : Nat]
        /\ latest'.project = latest.project /\ latest'.old = latest.old
    BY <1>3, <2>1 DEF EvaluationInv, EvaluationTypes
  <2>3. n.at = "read_metrics" /\ n.op = "correction" /\ n.run = r.run
    BY <1>1, <1>5, MovedOn DEF Ats
  <2>4. alone => Writes(n)'
    BY <1>2, <1>3, <1>5, <2>1, <2>2, <2>3 DEF Writes, WritingAts, IsLast
  <2> QED  BY <1>4, <2>1, <2>2, <2>4
<1>6. CASE WriteLatest(t) /\ r.op # "correction"
  <2> PICK n : n = [r EXCEPT !.at = "write_old_latest"]
    OBVIOUS
  <2>1. /\ r.at = "write_latest" /\ script' = [script EXCEPT ![t] = n]
        /\ latest' = [latest EXCEPT !.project = r.run]
    BY <1>6 DEF WriteLatest, Is, Now
  <2>2. /\ latest' \in [project : Nat, old : Nat, correction : Nat]
        /\ latest'.project = r.run
    BY <1>3, <2>1 DEF EvaluationInv, EvaluationTypes
  <2>3. r.op = "run_evaluation"
    BY <1>1, <1>6, <2>1 DEF ScriptOwns, WritingAts
  <2>5. n.at = "write_old_latest" /\ n.op = "run_evaluation" /\ n.run = r.run
    BY <1>1, <2>3, MovedOn DEF Ats
  <2>4. alone => Writes(n)'
    BY <1>2, <1>3, <2>1, <2>2, <2>3, <2>5 DEF Writes, WritingAts, IsLast
  <2> QED  BY <1>4, <2>1, <2>2, <2>4, <2>5
<1>7. CASE WriteOldLatest(t)
  <2> PICK n : n = [r EXCEPT !.at = "read_metrics"]
    OBVIOUS
  <2>1. /\ r.at = "write_old_latest" /\ script' = [script EXCEPT ![t] = n]
        /\ latest' = [latest EXCEPT !.old = r.run]
    BY <1>7 DEF WriteOldLatest, Is, Now
  <2>2. /\ latest' \in [project : Nat, old : Nat, correction : Nat]
        /\ latest'.old = r.run /\ latest'.project = latest.project
    BY <1>3, <2>1 DEF EvaluationInv, EvaluationTypes
  <2>3. r.op = "run_evaluation"
    BY <1>1, <2>1 DEF ScriptOwns
  <2>5. n.at = "read_metrics" /\ n.op = "run_evaluation" /\ n.run = r.run
    BY <1>1, <2>3, MovedOn DEF Ats
  <2>4. alone => Writes(n)'
    BY <1>2, <1>3, <2>1, <2>2, <2>3, <2>5 DEF Writes, WritingAts, IsLast
  <2> QED  BY <1>4, <2>1, <2>2, <2>4
<1> QED  BY <1>5, <1>6, <1>7

LEMMA ReadMetricsStep ==
  ASSUME EvaluationInv, NEW t \in Terminals, ReadMetrics(t)
  PROVE  EvaluationInv'
<1> DEFINE r == script[t]
<1> PICK n : n = [r EXCEPT !.at = "write_metrics", !.read = metrics.old]
  OBVIOUS
<1>1. /\ r.at = "read_metrics" /\ script' = [script EXCEPT ![t] = n]
      /\ UNCHANGED <<data, snapshots, reports, latest, metrics, alone, returned>>
  BY DEF ReadMetrics, Is
<1>2. r \in Script /\ metrics.old \in RunNumbers /\ Owned(metrics.old)
  BY DEF EvaluationInv, EvaluationTypes, OwnedInv
<1>3. /\ n \in Script /\ n.at = "write_metrics" /\ n.op = r.op /\ n.run = r.run
      /\ n.read = metrics.old /\ n.fingerprint = r.fingerprint /\ n.scored = r.scored
  BY <1>2 DEF Script, Ats
<1>4. alone => Writes(r)
  BY DEF EvaluationInv, OneScript
<1>5. alone => Writes(n)'
  BY <1>1, <1>3, <1>4 DEF Writes, WritingAts, IsLast
<1>6. Owned(n.read) /\ Owned(metrics'.old) /\ Owned(metrics'.project)
  BY <1>1, <1>2, <1>3 DEF EvaluationInv, OwnedInv
<1>7. /\ latest' \in [project : Nat, old : Nat, correction : Nat]
      /\ metrics' \in [old : RunNumbers, project : RunNumbers]
  BY <1>1 DEF EvaluationInv, EvaluationTypes
<1> QED  BY <1>1, <1>3, <1>5, <1>6, <1>7, WritingStep DEF WritingAts

\* The row a script writes: its own number is the new one, the other is the
\* one it read.
LEMMA MergedRow ==
  ASSUME EvaluationInv, NEW t \in Terminals, script[t].at \in WritingAts
  PROVE  /\ MergedOf(t) \in RunNumbers /\ Owned(MergedOf(t))
         /\ script[t].op = "correction" =>
              MergedOf(t).correction = script[t].run /\ MergedOf(t).blind = script[t].read.blind
         /\ script[t].op = "run_evaluation" =>
              MergedOf(t).blind = script[t].run /\ MergedOf(t).correction = script[t].read.correction
<1> DEFINE r == script[t]
<1>1. /\ r \in Script /\ r.read \in RunNumbers /\ r.run \in Nat
      /\ r.op \in {"run_evaluation", "correction"}
      /\ r.run \in 1..Len(reports) /\ reports[r.run].op = r.op /\ Owned(r.read)
  BY DEF EvaluationInv, EvaluationTypes, OwnedInv, ScriptOwns, Script
<1> PICK m : m = MergedOf(t)
  OBVIOUS
<1>2. CASE r.op = "correction"
  <2>1. m = [r.read EXCEPT !.correction = r.run]
    BY <1>2 DEF MergedOf, Merged
  <2>2. m \in RunNumbers /\ m.correction = r.run /\ m.blind = r.read.blind
    BY <1>1, <2>1 DEF RunNumbers
  <2>3. Owned(m)  BY <1>1, <1>2, <2>2 DEF Owned, IsRunOf
  <2> QED  BY <1>2, <2>2, <2>3
<1>3. CASE r.op = "run_evaluation"
  <2>1. m = [r.read EXCEPT !.blind = r.run]
    BY <1>3 DEF MergedOf, Merged
  <2>2. m \in RunNumbers /\ m.blind = r.run /\ m.correction = r.read.correction
    BY <1>1, <2>1 DEF RunNumbers
  <2>3. Owned(m)  BY <1>1, <1>3, <2>2 DEF Owned, IsRunOf
  <2> QED  BY <1>3, <2>2, <2>3
<1> QED  BY <1>1, <1>2, <1>3

LEMMA WriteMetricsStep ==
  ASSUME EvaluationInv, NEW t \in Terminals, WriteMetrics(t)
  PROVE  EvaluationInv'
<1> DEFINE r == script[t]
<1> PICK m : m = MergedOf(t)
  OBVIOUS
<1>1. /\ r.at = "write_metrics" /\ metrics' = [metrics EXCEPT !.old = m]
      /\ UNCHANGED <<data, snapshots, reports, latest, alone, returned>>
  BY DEF WriteMetrics, Is
<1>2. r \in Script /\ ScriptOwns(r) /\ metrics \in [old : RunNumbers, project : RunNumbers]
  BY DEF EvaluationInv, EvaluationTypes, OwnedInv
<1>3. r.at \in WritingAts  BY <1>1 DEF WritingAts
<1>4. /\ m \in RunNumbers /\ Owned(m)
      /\ r.op = "correction" => m.correction = r.run /\ m.blind = r.read.blind
      /\ r.op = "run_evaluation" => m.blind = r.run /\ m.correction = r.read.correction
  BY <1>3, MergedRow
<1>5. /\ metrics' \in [old : RunNumbers, project : RunNumbers]
      /\ metrics'.old = m /\ metrics'.project = metrics.project
  BY <1>1, <1>2, <1>4
<1>6. Owned(metrics'.old) /\ Owned(metrics'.project)
  BY <1>4, <1>5 DEF EvaluationInv, OwnedInv
<1>7. latest' \in [project : Nat, old : Nat, correction : Nat]
  BY <1>1 DEF EvaluationInv, EvaluationTypes
<1>8. alone => Writes(r) /\ \A u \in Terminals \ {t} : script[u].at = "idle"
  BY <1>1, AtWork DEF EvaluationInv, WritingAts
<1>9. CASE r.op = "correction"
  <2>1. Exit(t)  BY <1>9 DEF WriteMetrics
  <2>2. alone' => Settled'
    BY <1>1, <1>4, <1>5, <1>8, <1>9 DEF Writes, WritingAts, Settled, IsLast
  <2>3. alone' \in BOOLEAN  BY <1>1 DEF EvaluationInv, EvaluationTypes
  <2> QED  BY <1>1, <1>5, <1>6, <1>7, <1>8, <2>1, <2>2, <2>3, ExitStep
<1>10. CASE r.op # "correction"
  <2>0. r.op = "run_evaluation"
    BY <1>2, <1>3, <1>10 DEF ScriptOwns
  <2> PICK n : n = [r EXCEPT !.at = "write_project_metrics"]
    OBVIOUS
  <2>1. script' = [script EXCEPT ![t] = n]
    BY <1>10 DEF WriteMetrics, Now
  <2>2. /\ n \in Script /\ n.at = "write_project_metrics" /\ n.op = r.op /\ n.run = r.run
        /\ n.read = r.read /\ n.fingerprint = r.fingerprint /\ n.scored = r.scored
    BY <1>2, MovedOn DEF Ats
  <2>3. alone => Writes(n)'
    BY <1>1, <1>4, <1>5, <1>8, <2>0, <2>2 DEF Writes, WritingAts, IsLast
  <2>4. Owned(n.read)  BY <1>2, <2>2 DEF ScriptOwns
  <2> QED  BY <1>1, <1>3, <1>5, <1>6, <1>7, <2>0, <2>1, <2>2, <2>3, <2>4, WritingStep DEF WritingAts
<1> QED  BY <1>9, <1>10

LEMMA WriteProjectMetricsStep ==
  ASSUME EvaluationInv, NEW t \in Terminals, WriteProjectMetrics(t)
  PROVE  EvaluationInv'
<1> DEFINE r == script[t]
<1> PICK m : m = MergedOf(t)
  OBVIOUS
<1>1. /\ r.at = "write_project_metrics" /\ metrics' = [metrics EXCEPT !.project = m] /\ Exit(t)
      /\ UNCHANGED <<data, snapshots, reports, latest, alone, returned>>
  BY DEF WriteProjectMetrics, Is
<1>2. r \in Script /\ ScriptOwns(r) /\ metrics \in [old : RunNumbers, project : RunNumbers]
  BY DEF EvaluationInv, EvaluationTypes, OwnedInv
<1>3. r.at \in WritingAts /\ r.op = "run_evaluation"
  BY <1>1, <1>2 DEF WritingAts, ScriptOwns
<1>4. m \in RunNumbers /\ Owned(m) /\ m.blind = r.run
  BY <1>3, MergedRow
<1>5. /\ metrics' \in [old : RunNumbers, project : RunNumbers]
      /\ metrics'.old = metrics.old /\ metrics'.project = m
  BY <1>1, <1>2, <1>4
<1>6. Owned(metrics'.old) /\ Owned(metrics'.project)
  BY <1>4, <1>5 DEF EvaluationInv, OwnedInv
<1>7. latest' \in [project : Nat, old : Nat, correction : Nat] /\ alone' \in BOOLEAN
  BY <1>1 DEF EvaluationInv, EvaluationTypes
<1>8. alone => Writes(r) /\ \A u \in Terminals \ {t} : script[u].at = "idle"
  BY <1>1, AtWork DEF EvaluationInv, WritingAts
<1>9. alone' => Settled'
  BY <1>1, <1>3, <1>4, <1>5, <1>8 DEF Writes, WritingAts, Settled, IsLast
<1> QED  BY <1>1, <1>5, <1>6, <1>7, <1>8, <1>9, ExitStep

LEMMA StopStep ==
  ASSUME EvaluationInv, NEW t \in Terminals, StopScriptAt(t)
  PROVE  EvaluationInv'
BY ExitStep DEF StopScriptAt, EvaluationInv, EvaluationTypes, OwnedInv

LEMMA EvaluationStutter ==
  ASSUME EvaluationInv, UNCHANGED evaluationVars
  PROVE  EvaluationInv'
<1>1. UNCHANGED <<data, snapshots, reports, latest, metrics, script, alone, returned>>
  BY DEF evaluationVars
<1>2. EvaluationTypes'
  BY <1>1 DEF EvaluationInv, EvaluationTypes
<1>3. ScoresInv'
  BY <1>1 DEF EvaluationInv, ScoresInv, ScriptScores, ScoredWith
<1>4. OwnedInv'
  BY <1>1 DEF EvaluationInv, OwnedInv, ScriptOwns, Owned, IsRunOf
<1>5. alone' => OneScript'
  BY <1>1 DEF EvaluationInv, OneScript, Writes, Settled, IsLast
<1> QED  BY <1>2, <1>3, <1>4, <1>5 DEF EvaluationInv

LEMMA EvaluationStarts == EvaluationInit => EvaluationInv
<1> SUFFICES ASSUME EvaluationInit PROVE EvaluationInv
  OBVIOUS
<1> USE DEF EvaluationInit
<1>1. reports = <<>> /\ reports \in Seq(Report) /\ Len(reports) = 0
  BY EmptySeq
<1>2. /\ \A t \in Terminals : script[t] = Idle
      /\ metrics.old = NoMetrics /\ metrics.project = NoMetrics
      /\ latest.project = 0 /\ latest.old = 0
  BY DEF NoRun
<1>3. EvaluationTypes
  BY <1>1, RecordsTyped, CountsAssumption DEF EvaluationTypes, NoRun, Contents
<1>4. ScoresInv
  BY <1>1, <1>2, RecordsTyped DEF ScoresInv, ScriptScores
<1>5. OwnedInv
  BY <1>2, RecordsTyped DEF OwnedInv, ScriptOwns, Owned, IsRunOf, WritingAts
<1>6. Settled
  BY <1>1, <1>2, RecordsTyped DEF Settled, IsLast, IsLastIn, NoRun
<1>7. OneScript
  BY <1>2, <1>6, RecordsTyped DEF OneScript, Writes, WritingAts
<1> QED  BY <1>3, <1>4, <1>5, <1>7 DEF EvaluationInv

LEMMA EvaluationStep == EvaluationInv /\ [EvaluationNext]_evaluationVars => EvaluationInv'
<1> SUFFICES ASSUME EvaluationInv, [EvaluationNext]_evaluationVars PROVE EvaluationInv'
  OBVIOUS
<1>1. CASE ReloadGraph  BY <1>1, ReloadStep
<1>2. ASSUME NEW t \in Terminals, NEW op \in Ops \ {"none"}, StartScript(t, op) PROVE EvaluationInv'
  BY <1>2, StartStep
<1>3. ASSUME NEW t \in Terminals,
             \/ HashSnapshot(t) \/ LoadContract(t) \/ UpdateExpected(t) \/ UpdateRefused(t) \/ AskQuestion(t) \/ Finish(t)
             \/ WriteRun(t) \/ WriteLatest(t) \/ WriteOldLatest(t)
             \/ ReadMetrics(t) \/ WriteMetrics(t) \/ WriteProjectMetrics(t)
             \/ StopScriptAt(t)
      PROVE  EvaluationInv'
  BY <1>3, LoadStep, AskStep, EndOfAsking, WriteRunStep, WriteLatestStep, ReadMetricsStep,
     WriteMetricsStep, WriteProjectMetricsStep, StopStep
<1>4. CASE UNCHANGED evaluationVars  BY <1>4, EvaluationStutter
<1> QED  BY <1>1, <1>2, <1>3, <1>4 DEF EvaluationNext

\* What holds besides while no two scripts overlap and none is stopped: every
\* answer is scored with the snapshot of the fingerprint, and the number of
\* corrections in the project's place is the one of its evaluation.
SameScores(fingerprint, scored) ==
  \A i \in 1..Len(scored) : scored[i] = fingerprint[QuestionAt(i)]
IsLastAmong(rs, count, op, n) ==
  /\ n \in 0..count
  /\ n = 0 \/ rs[n].op = op
  /\ \A m \in (n + 1)..count : rs[m].op # op

ScriptAlone(r) ==
  /\ r.op = "run_evaluation" /\ r.at \in {"load", "ask", "write_run"} =>
       /\ \A q \in 1..Len(r.fingerprint) : r.fingerprint[q] = snapshots[q]
       /\ SameScores(r.fingerprint, r.scored)
  /\ r.op = "run_evaluation" /\ r.at \in WritingAts => r.run = Len(reports)
  /\ r.at = "write_project_metrics" => r.read.correction = metrics.old.correction
ReportsAlone ==
  \A n \in 1..Len(reports) :
    reports[n].op = "run_evaluation" => SameScores(reports[n].fingerprint, reports[n].scored)
CorrectionThen ==
  /\ metrics.project.blind \in 0..Len(reports)
  /\ IsLastAmong(reports, metrics.project.blind, "correction", metrics.project.correction)

AloneInv == alone => (\A t \in Terminals : ScriptAlone(script[t])) /\ ReportsAlone /\ CorrectionThen

\* The script that takes a step is the only one.
LEMMA AloneStays ==
  ASSUME EvaluationInv, alone, NEW t \in Terminals, NEW n, script' = [script EXCEPT ![t] = n],
         \A u \in Terminals \ {t} : script[u].at = "idle",
         ScriptAlone(n)', ReportsAlone', CorrectionThen'
  PROVE  AloneInv'
<1>1. \A u \in Terminals : script'[u] = IF u = t THEN n ELSE script[u]
  BY DEF EvaluationInv, EvaluationTypes
<1>2. ASSUME NEW u \in Terminals PROVE ScriptAlone(script[u])'
  <2>1. CASE u = t
    <3>1. script'[u] = n  BY <1>1, <2>1
    <3> QED  BY <3>1 DEF ScriptAlone
  <2>2. CASE u # t
    <3>1. script'[u].at = "idle"  BY <1>1, <2>2
    <3> QED  BY <3>1 DEF ScriptAlone, WritingAts
  <2> QED  BY <2>1, <2>2
<1> QED  BY <1>2 DEF AloneInv

\* A step before the report, or one that ends the script.
LEMMA AloneQuiet ==
  ASSUME EvaluationInv, AloneInv, alone, NEW t \in Terminals, NEW n,
         script' = [script EXCEPT ![t] = n], UNCHANGED <<reports, metrics>>,
         \A u \in Terminals \ {t} : script[u].at = "idle", ScriptAlone(n)'
  PROVE  AloneInv'
<1>1. ReportsAlone' /\ CorrectionThen'
  BY DEF AloneInv, ReportsAlone, CorrectionThen
<1> QED  BY <1>1, AloneStays

LEMMA AloneExit ==
  ASSUME EvaluationInv, AloneInv, NEW t \in Terminals, Exit(t), UNCHANGED <<reports, metrics>>,
         alone' => alone, script[t].at # "idle"
  PROVE  AloneInv'
<1> SUFFICES ASSUME alone' PROVE AloneInv'
  BY DEF AloneInv
<1>1. \A u \in Terminals \ {t} : script[u].at = "idle"
  BY AtWork DEF EvaluationInv
<1>2. ScriptAlone(Idle)'
  BY RecordsTyped DEF ScriptAlone, WritingAts
<1> QED  BY <1>1, <1>2, AloneQuiet DEF Exit

LEMMA AloneLoads ==
  ASSUME EvaluationInv, AloneInv, NEW t \in Terminals, HashSnapshot(t) \/ LoadContract(t)
  PROVE  AloneInv'
<1> SUFFICES ASSUME alone PROVE AloneInv'
  BY DEF AloneInv, HashSnapshot, LoadContract
<1> DEFINE r == script[t]
<1>1. /\ r \in Script /\ r.at = "load" /\ r.scored = <<>>
      /\ r.fingerprint \in Seq(Contents) /\ Len(r.fingerprint) \in Nat
      /\ UNCHANGED <<data, snapshots, reports, latest, metrics, alone, returned>>
  BY LenProperties DEF HashSnapshot, LoadContract, Is, EvaluationInv, EvaluationTypes, ScoresInv, ScriptScores,
     Script, Hashes
<1>2. \A u \in Terminals \ {t} : script[u].at = "idle"
  BY <1>1, AtWork DEF EvaluationInv
<1>3. r.op = "run_evaluation" => \A q \in 1..Len(r.fingerprint) : r.fingerprint[q] = snapshots[q]
  BY <1>1 DEF AloneInv, ScriptAlone
<1>4. Len(<<>>) = 0  BY EmptySeq
<1>5. CASE HashSnapshot(t)
  <2> DEFINE k == Len(r.fingerprint) + 1
  <2>1. k \in Questions /\ snapshots[k] \in Contents /\ r.op = "run_evaluation"
    BY <1>1, <1>5 DEF HashSnapshot, Questions, EvaluationInv, EvaluationTypes
  <2> PICK f : f = Append(r.fingerprint, snapshots[k])
    OBVIOUS
  <2> PICK n : n = [r EXCEPT !.fingerprint = f]
    OBVIOUS
  <2>2. script' = [script EXCEPT ![t] = n]
    BY <1>5 DEF HashSnapshot
  <2>3. n.at = "load" /\ n.scored = <<>> /\ n.fingerprint = f
    BY <1>1 DEF Script
  <2>4. /\ Len(f) = Len(r.fingerprint) + 1 /\ f[k] = snapshots[k]
        /\ \A q \in 1..Len(r.fingerprint) : f[q] = r.fingerprint[q]
    BY <1>1, <2>1, AppendProperties
  <2>5. \A q \in 1..Len(f) : f[q] = snapshots[q]
    BY <1>1, <1>3, <2>1, <2>4
  <2>6. ScriptAlone(n)'
    BY <1>1, <1>4, <2>3, <2>5 DEF ScriptAlone, SameScores, WritingAts
  <2> QED  BY <1>1, <1>2, <2>2, <2>6, AloneQuiet
<1>6. CASE LoadContract(t)
  <2> PICK n : n = [r EXCEPT !.at = "ask", !.fingerprint = Fingerprint(@)]
    OBVIOUS
  <2>1. script' = [script EXCEPT ![t] = n]
    BY <1>6 DEF LoadContract
  <2>2. n.at = "ask" /\ n.op = r.op /\ n.fingerprint = r.fingerprint /\ n.scored = <<>>
    BY <1>1 DEF Script, Fingerprint
  <2>3. ScriptAlone(n)'
    BY <1>1, <1>3, <1>4, <2>2 DEF ScriptAlone, SameScores, WritingAts
  <2> QED  BY <1>1, <1>2, <2>1, <2>3, AloneQuiet
<1> QED  BY <1>5, <1>6

LEMMA AloneAsks ==
  ASSUME EvaluationInv, AloneInv, NEW t \in Terminals, UpdateExpected(t) \/ AskQuestion(t)
  PROVE  AloneInv'
<1> SUFFICES ASSUME alone PROVE AloneInv'
  BY DEF AloneInv, UpdateExpected, AskQuestion
<1> DEFINE r == script[t]
           v == IF r.op = "run_evaluation" THEN snapshots[Question(t)] ELSE 0
<1>1. /\ r \in Script /\ r.at = "ask" /\ r.scored \in Seq(Contents) /\ Len(r.scored) \in Nat
      /\ UNCHANGED <<reports, metrics>> /\ Scored(t, Question(t))
  BY LenProperties DEF UpdateExpected, AskQuestion, Asking, Is, EvaluationInv, EvaluationTypes, Script, Hashes
<1>2. \A u \in Terminals \ {t} : script[u].at = "idle"
  BY <1>1, AtWork DEF EvaluationInv
<1>3. Question(t) \in Questions /\ QuestionAt(Len(r.scored) + 1) = Question(t)
  BY <1>1, QuestionTyped DEF Question, Position
<1>4. v \in Contents
  BY <1>3, CountsAssumption DEF EvaluationInv, EvaluationTypes, Contents
<1> PICK w \in Contents : w = v
  BY <1>4
<1> PICK s : s = Append(r.scored, w)
  OBVIOUS
<1> PICK n : n = [r EXCEPT !.scored = s]
  OBVIOUS
<1>5. script' = [script EXCEPT ![t] = n]
  BY <1>1 DEF Scored
<1>6. n.at = "ask" /\ n.op = r.op /\ n.fingerprint = r.fingerprint /\ n.scored = s
  BY <1>1 DEF Script
<1>7. ScriptAlone(n)'
  <2> SUFFICES ASSUME r.op = "run_evaluation"
               PROVE  /\ \A q \in 1..Len(r.fingerprint) : r.fingerprint[q] = snapshots'[q]
                      /\ SameScores(r.fingerprint, s)
    BY <1>6 DEF ScriptAlone, SameScores, WritingAts
  <2>1. snapshots' = snapshots /\ w = snapshots[Question(t)]
    BY DEF UpdateExpected, AskQuestion, Asking
  <2>2. /\ \A q \in 1..Len(r.fingerprint) : r.fingerprint[q] = snapshots[q]
        /\ SameScores(r.fingerprint, r.scored)
    BY <1>1 DEF AloneInv, ScriptAlone
  <2>3. Len(r.fingerprint) = QuestionCount
    BY <1>1 DEF EvaluationInv, ScoresInv, ScriptScores, ScoredWith
  <2>4. Len(s) = Len(r.scored) + 1 /\ s[Len(r.scored) + 1] = w
        /\ \A i \in 1..Len(r.scored) : s[i] = r.scored[i]
    BY <1>1, AppendProperties
  <2>5. ASSUME NEW i \in 1..Len(s) PROVE s[i] = r.fingerprint[QuestionAt(i)]
    <3>1. CASE i = Len(r.scored) + 1
      BY <1>3, <2>1, <2>2, <2>3, <2>4, <3>1 DEF Questions
    <3>2. CASE i # Len(r.scored) + 1
      <4>1. i \in 1..Len(r.scored)  BY <1>1, <2>4, <3>2
      <4> QED  BY <2>2, <2>4, <4>1 DEF SameScores
    <3> QED  BY <3>1, <3>2
  <2> QED  BY <2>1, <2>2, <2>5 DEF SameScores
<1> QED  BY <1>1, <1>2, <1>5, <1>7, AloneQuiet

LEMMA AloneReports ==
  ASSUME EvaluationInv, AloneInv, NEW t \in Terminals, WriteRun(t)
  PROVE  AloneInv'
<1> SUFFICES ASSUME alone PROVE AloneInv'
  BY DEF AloneInv, WriteRun
<1> DEFINE r == script[t]
<1> PICK rep : rep = [op |-> r.op, fingerprint |-> r.fingerprint, scored |-> r.scored]
  OBVIOUS
<1> PICK n : n = [Idle EXCEPT !.op = r.op, !.at = "write_latest", !.run = Len(reports) + 1]
  OBVIOUS
<1>1. /\ r.at = "write_run" /\ reports' = Append(reports, rep) /\ script' = [script EXCEPT ![t] = n]
      /\ UNCHANGED <<data, snapshots, latest, metrics, alone, returned>>
  BY DEF WriteRun, Is
<1>2. r \in Script /\ reports \in Seq(Report)
  BY DEF EvaluationInv, EvaluationTypes
<1>3. rep \in Report /\ rep.op = r.op /\ rep.fingerprint = r.fingerprint /\ rep.scored = r.scored
  BY <1>2 DEF Script, Report
<1>4. /\ Len(reports) \in Nat /\ Len(reports') = Len(reports) + 1
      /\ \A i \in 1..Len(reports) : reports'[i] = reports[i]
      /\ reports'[Len(reports) + 1] = rep
  BY <1>1, <1>2, <1>3, LenProperties, AppendProperties
<1>5. \A u \in Terminals \ {t} : script[u].at = "idle"
  BY <1>1, AtWork DEF EvaluationInv
<1>6. n.at = "write_latest" /\ n.run = Len(reports) + 1
  BY RecordsTyped DEF Script
<1>7. ScriptAlone(n)'
  BY <1>4, <1>6 DEF ScriptAlone
<1>8. ReportsAlone'
  <2> SUFFICES ASSUME NEW k \in 1..Len(reports'), reports'[k].op = "run_evaluation"
               PROVE  SameScores(reports'[k].fingerprint, reports'[k].scored)
    BY DEF ReportsAlone, SameScores
  <2>1. CASE k = Len(reports) + 1
    BY <1>1, <1>3, <1>4, <2>1 DEF AloneInv, ScriptAlone
  <2>2. CASE k # Len(reports) + 1
    <3>1. k \in 1..Len(reports)  BY <1>4, <2>2
    <3> QED  BY <1>4, <3>1 DEF AloneInv, ReportsAlone
  <2> QED  BY <2>1, <2>2
<1>9. CorrectionThen'
  <2> PICK c : c = metrics.project.blind
    OBVIOUS
  <2>1. c \in 0..Len(reports) /\ IsLastAmong(reports, c, "correction", metrics.project.correction)
    BY DEF AloneInv, CorrectionThen
  <2>2. \A m \in 1..c : reports'[m] = reports[m]
    BY <1>4, <2>1
  <2>3. IsLastAmong(reports', c, "correction", metrics.project.correction)
    BY <1>4, <2>1, <2>2 DEF IsLastAmong
  <2> QED  BY <1>1, <1>4, <2>1, <2>3 DEF CorrectionThen, IsLastAmong
<1> QED  BY <1>1, <1>5, <1>7, <1>8, <1>9, AloneStays

\* The places where the last runs are shown; the metrics are merged.
LEMMA AlonePublishes ==
  ASSUME EvaluationInv, AloneInv, NEW t \in Terminals,
         WriteLatest(t) \/ WriteOldLatest(t) \/ ReadMetrics(t) \/ WriteMetrics(t)
  PROVE  AloneInv'
<1> SUFFICES ASSUME alone PROVE AloneInv'
  BY DEF AloneInv, WriteLatest, WriteOldLatest, ReadMetrics, WriteMetrics
<1> DEFINE r == script[t]
<1>1. /\ r \in Script /\ r.at \in WritingAts /\ r.at # "write_project_metrics"
      /\ UNCHANGED <<reports, snapshots>>
      /\ Writes(r) /\ ScriptAlone(r)
  BY DEF EvaluationInv, EvaluationTypes, OneScript, AloneInv, WritingAts, Is,
     WriteLatest, WriteOldLatest, ReadMetrics, WriteMetrics
<1>2. \A u \in Terminals \ {t} : script[u].at = "idle"
  BY <1>1, AtWork DEF EvaluationInv, WritingAts
<1>3. ASSUME NEW at \in {"write_old_latest", "read_metrics"}, Now(t, at), UNCHANGED metrics
      PROVE  AloneInv'
  <2> PICK n : n = [r EXCEPT !.at = at]
    OBVIOUS
  <2>1. n.at = at /\ n.op = r.op /\ n.run = r.run
    BY <1>1 DEF Script
  <2>2. ScriptAlone(n)'
    BY <1>1, <2>1 DEF ScriptAlone, WritingAts
  <2>3. script' = [script EXCEPT ![t] = n]
    BY <1>3 DEF Now
  <2> QED  BY <1>1, <1>2, <1>3, <2>2, <2>3, AloneQuiet
<1>4. CASE ReadMetrics(t)
  <2> PICK n : n = [r EXCEPT !.at = "write_metrics", !.read = metrics.old]
    OBVIOUS
  <2>1. n.at = "write_metrics" /\ n.op = r.op /\ n.run = r.run
    BY <1>1 DEF Script
  <2>2. ScriptAlone(n)'
    BY <1>1, <2>1 DEF ScriptAlone, WritingAts
  <2>3. script' = [script EXCEPT ![t] = n] /\ UNCHANGED metrics
    BY <1>4 DEF ReadMetrics
  <2> QED  BY <1>1, <1>2, <2>2, <2>3, AloneQuiet
<1>5. CASE WriteMetrics(t)
  <2> PICK m : m = MergedOf(t)
    OBVIOUS
  <2>1. r.at = "write_metrics" /\ metrics' = [metrics EXCEPT !.old = m]
    BY <1>5 DEF WriteMetrics, Is
  <2>2. /\ metrics \in [old : RunNumbers, project : RunNumbers] /\ m \in RunNumbers
        /\ r.op = "run_evaluation" => m.correction = r.read.correction
    BY <1>1, MergedRow DEF EvaluationInv, EvaluationTypes
  <2>3. metrics'.old = m /\ metrics'.project = metrics.project
    BY <2>1, <2>2
  <2>4. ReportsAlone' /\ CorrectionThen'
    BY <1>1, <2>3 DEF AloneInv, ReportsAlone, CorrectionThen
  <2>5. CASE r.op = "correction"
    <3>1. ScriptAlone(Idle)'
      BY RecordsTyped DEF ScriptAlone, WritingAts
    <3> QED  BY <1>2, <1>5, <2>4, <2>5, <3>1, AloneStays DEF WriteMetrics, Exit
  <2>6. CASE r.op # "correction"
    <3> PICK n : n = [r EXCEPT !.at = "write_project_metrics"]
      OBVIOUS
    <3>1. script' = [script EXCEPT ![t] = n]
      BY <1>5, <2>6 DEF WriteMetrics, Now
    <3>2. n.at = "write_project_metrics" /\ n.op = r.op /\ n.run = r.run /\ n.read = r.read
      BY <1>1 DEF Script
    <3>3. r.op = "run_evaluation"
      BY <1>1, <2>6 DEF EvaluationInv, OwnedInv, ScriptOwns
    <3>4. ScriptAlone(n)'
      BY <1>1, <2>2, <2>3, <3>2, <3>3 DEF ScriptAlone, WritingAts
    <3> QED  BY <1>2, <2>4, <3>1, <3>4, AloneStays
  <2> QED  BY <2>5, <2>6
<1> QED  BY <1>3, <1>4, <1>5 DEF WriteLatest, WriteOldLatest

LEMMA AloneEnds ==
  ASSUME EvaluationInv, AloneInv, NEW t \in Terminals, WriteProjectMetrics(t)
  PROVE  AloneInv'
<1> SUFFICES ASSUME alone PROVE AloneInv'
  BY DEF AloneInv, WriteProjectMetrics
<1> DEFINE r == script[t]
<1> PICK m : m = MergedOf(t)
  OBVIOUS
<1>1. /\ r.at = "write_project_metrics" /\ metrics' = [metrics EXCEPT !.project = m] /\ Exit(t)
      /\ UNCHANGED <<data, snapshots, reports, latest, alone, returned>>
  BY DEF WriteProjectMetrics, Is
<1>2. /\ r \in Script /\ r.op = "run_evaluation" /\ r.at \in WritingAts
      /\ metrics \in [old : RunNumbers, project : RunNumbers]
      /\ Writes(r) /\ ScriptAlone(r)
  BY <1>1 DEF EvaluationInv, EvaluationTypes, OwnedInv, ScriptOwns, OneScript, AloneInv, WritingAts
<1>3. m \in RunNumbers /\ m.blind = Len(reports) /\ m.correction = metrics.old.correction
  BY <1>1, <1>2, MergedRow DEF ScriptAlone
<1>4. metrics'.project = m  BY <1>1, <1>2
<1>5. IsLastAmong(reports, Len(reports), "correction", metrics.old.correction)
  BY <1>2 DEF Writes, IsLast, IsLastIn, IsLastAmong
<1>6. Len(reports) \in Nat
  BY LenProperties DEF EvaluationInv, EvaluationTypes
<1>7. CorrectionThen'
  BY <1>1, <1>3, <1>4, <1>5, <1>6 DEF CorrectionThen, IsLastAmong
<1>8. ReportsAlone'
  BY <1>1 DEF AloneInv, ReportsAlone
<1>9. \A u \in Terminals \ {t} : script[u].at = "idle"
  BY <1>1, AtWork DEF EvaluationInv
<1>10. ScriptAlone(Idle)'
  BY RecordsTyped DEF ScriptAlone, WritingAts
<1> QED  BY <1>1, <1>7, <1>8, <1>9, <1>10, AloneStays DEF Exit

LEMMA AloneStarts ==
  ASSUME EvaluationInv, AloneInv, NEW t \in Terminals, NEW op \in Ops \ {"none"}, StartScript(t, op)
  PROVE  AloneInv'
<1> SUFFICES ASSUME alone' PROVE AloneInv'
  BY DEF AloneInv
<1> PICK n : n = [Idle EXCEPT !.op = op, !.at = "load"]
  OBVIOUS
<1>1. /\ alone /\ script' = [script EXCEPT ![t] = n]
      /\ UNCHANGED <<data, snapshots, reports, latest, metrics, returned>>
      /\ \A u \in Terminals : script[u].at = "idle"
  BY RecordsTyped DEF StartScript
<1>2. n.at = "load" /\ n.fingerprint = <<>> /\ n.scored = <<>> /\ Len(<<>>) = 0
  BY RecordsTyped, EmptySeq DEF Script
<1>3. ScriptAlone(n)'
  BY <1>2 DEF ScriptAlone, SameScores, WritingAts
<1> QED  BY <1>1, <1>3, AloneQuiet

LEMMA AloneStep ==
  ASSUME EvaluationInv, AloneInv, [EvaluationNext]_evaluationVars
  PROVE  AloneInv'
<1>1. CASE ReloadGraph \/ UNCHANGED evaluationVars
  <2>1. UNCHANGED <<snapshots, reports, metrics, script, alone>>
    BY <1>1 DEF ReloadGraph, evaluationVars
  <2> QED  BY <2>1 DEF AloneInv, ScriptAlone, ReportsAlone, CorrectionThen
<1>2. ASSUME NEW t \in Terminals, NEW op \in Ops \ {"none"}, StartScript(t, op) PROVE AloneInv'
  BY <1>2, AloneStarts
<1>3. ASSUME NEW t \in Terminals, UpdateRefused(t) \/ StopScriptAt(t) PROVE AloneInv'
  <2>1. CASE StopScriptAt(t)  BY <2>1 DEF StopScriptAt, AloneInv
  <2>2. CASE UpdateRefused(t)
    <3>1. script[t].at # "idle"  BY <2>2 DEF UpdateRefused, Asking, Is
    <3> QED  BY <2>2, <3>1, AloneExit DEF UpdateRefused
  <2> QED  BY <1>3, <2>1, <2>2
<1>4. ASSUME NEW t \in Terminals, Finish(t) PROVE AloneInv'
  <2> SUFFICES ASSUME alone PROVE AloneInv'
    BY <1>4 DEF AloneInv, Finish
  <2> DEFINE r == script[t]
  <2>1. /\ r \in Script /\ r.at = "ask" /\ UNCHANGED <<snapshots, reports, metrics, alone>>
    BY <1>4 DEF Finish, Is, EvaluationInv, EvaluationTypes
  <2>2. CASE Exit(t)  BY <2>1, <2>2, AloneExit
  <2>3. CASE Now(t, "write_run")
    <3> PICK n : n = [r EXCEPT !.at = "write_run"]
      OBVIOUS
    <3>1. n.at = "write_run" /\ n.op = r.op /\ n.fingerprint = r.fingerprint /\ n.scored = r.scored
      BY <2>1 DEF Script
    <3>2. ScriptAlone(n)'
      BY <2>1, <3>1 DEF AloneInv, ScriptAlone, SameScores, WritingAts
    <3>3. \A u \in Terminals \ {t} : script[u].at = "idle"
      BY <2>1, AtWork DEF EvaluationInv
    <3> QED  BY <2>1, <2>3, <3>2, <3>3, AloneQuiet DEF Now
  <2> QED  BY <1>4, <2>2, <2>3 DEF Finish
<1> QED
  BY <1>1, <1>2, <1>3, <1>4, AloneLoads, AloneAsks, AloneReports, AlonePublishes, AloneEnds DEF EvaluationNext

LEMMA AloneInit == EvaluationInit => AloneInv
<1> SUFFICES ASSUME EvaluationInit PROVE AloneInv
  OBVIOUS
<1>1. /\ \A t \in Terminals : script[t] = Idle
      /\ reports = <<>> /\ Len(reports) = 0 /\ metrics.project = NoMetrics
  BY EmptySeq DEF EvaluationInit
<1>2. metrics.project.blind = 0 /\ metrics.project.correction = 0
  BY <1>1, RecordsTyped DEF NoRun
<1> QED
  BY <1>1, <1>2, RecordsTyped DEF AloneInv, ScriptAlone, ReportsAlone, CorrectionThen, IsLastAmong, WritingAts

\* A report with the fingerprint of the contract now was scored with the
\* snapshots there are now, unless scripts overlapped and a snapshot got back
\* contents an evaluation had read: an answer that was scored with others was
\* scored after they were replaced, and nothing brought them back.
THEOREM FingerprintHolds == EvaluationSpec => []FingerprintNamesSnapshots
<1>1. EvaluationInv /\ AloneInv => FingerprintNamesSnapshots
  <2> SUFFICES ASSUME EvaluationInv, AloneInv, NEW n \in DOMAIN reports, reports[n].op = "run_evaluation",
                      reports[n].fingerprint = Fingerprint(snapshots),
                      NEW i \in DOMAIN reports[n].scored
               PROVE  \/ reports[n].scored[i] = snapshots[((i - 1) % QuestionCount) + 1]
                      \/ ((i - 1) % QuestionCount) + 1 \in returned /\ ~alone
    BY DEF FingerprintNamesSnapshots
  <2>1. n \in 1..Len(reports) /\ reports[n] \in Report
    BY LenProperties, ElementOfSeq DEF EvaluationInv, EvaluationTypes
  <2>2. reports[n].scored \in Seq(Contents)  BY <2>1 DEF Report, Hashes
  <2>3. i \in 1..Len(reports[n].scored)
    BY <2>2, LenProperties
  <2>4. reports[n].fingerprint = snapshots
    BY DEF Fingerprint
  <2>5. \/ reports[n].scored[i] = snapshots[QuestionAt(i)]
        \/ QuestionAt(i) \in returned
    BY <2>1, <2>3, <2>4 DEF EvaluationInv, ScoresInv, ScoredWith
  <2>6. alone => reports[n].scored[i] = snapshots[QuestionAt(i)]
    BY <2>1, <2>3, <2>4 DEF AloneInv, ReportsAlone, SameScores
  <2> QED  BY <2>5, <2>6 DEF QuestionAt
<1>2. EvaluationInit => EvaluationInv /\ AloneInv
  BY EvaluationStarts, AloneInit
<1>3. EvaluationInv /\ AloneInv /\ [EvaluationNext]_evaluationVars => EvaluationInv' /\ AloneInv'
  BY EvaluationStep, AloneStep
<1> QED  BY <1>1, <1>2, <1>3, PTL DEF EvaluationSpec

LEMMA LastAmongIsOne ==
  ASSUME NEW rs, NEW count \in Nat, NEW op, NEW n, NEW m,
         IsLastAmong(rs, count, op, n), IsLastAmong(rs, count, op, m)
  PROVE  n = m
<1>1. n \in 0..count /\ m \in 0..count
  BY DEF IsLastAmong
<1>2. ~(n < m)  BY <1>1 DEF IsLastAmong
<1>3. ~(m < n)  BY <1>1 DEF IsLastAmong
<1> QED  BY <1>1, <1>2, <1>3

LEMMA LastUpToIs ==
  ASSUME NEW count \in Nat, NEW op, NEW n, IsLastAmong(reports, count, op, n)
  PROVE  LastUpTo(count, op) = n
<1>1. \A k \in 0..count :
        IsLastAmong(reports, count, op, k) <=>
          /\ k = 0 \/ reports[k].op = op
          /\ \A m \in (k + 1)..count : reports[m].op # op
  BY DEF IsLastAmong
<1>2. n \in 0..count /\ IsLastAmong(reports, count, op, n)
  BY DEF IsLastAmong
<1>3. IsLastAmong(reports, count, op, LastUpTo(count, op))
  BY <1>1, <1>2 DEF LastUpTo
<1> QED  BY <1>2, <1>3, LastAmongIsOne

\* Every number in the metrics has its report, of the script that owns it.
\* When no scripts overlapped or were stopped, the old place shows the last
\* evaluation and the last correction, and the project's place the last
\* evaluation and the correction that was the last one when it was published.
THEOREM NumbersHold == EvaluationSpec => []NumbersHaveReport
<1>1. EvaluationInv /\ AloneInv => NumbersHaveReport
  <2> SUFFICES ASSUME EvaluationInv, AloneInv PROVE NumbersHaveReport
    OBVIOUS
  <2>1. ASSUME NEW place \in {"old", "project"}
        PROVE  /\ metrics[place].blind # NoRun => reports[metrics[place].blind].op = "run_evaluation"
               /\ metrics[place].correction # NoRun =>
                    reports[metrics[place].correction].op = "correction"
    BY DEF EvaluationInv, OwnedInv, Owned, IsRunOf
  <2>2. ASSUME alone, \A t \in Terminals : script[t] = Idle
        PROVE  /\ metrics.old = [blind |-> LastRun("run_evaluation"),
                                 correction |-> LastRun("correction")]
               /\ metrics.project = [blind |-> metrics.old.blind,
                                     correction |-> LastUpTo(metrics.old.blind, "correction")]
               /\ latest.project = metrics.old.blind /\ latest.old = latest.project
    <3>1. \A t \in Terminals : script[t].at \notin WritingAts
      BY <2>2, RecordsTyped DEF WritingAts
    <3>2. Settled  BY <2>2, <3>1 DEF EvaluationInv, OneScript
    <3>3. Len(reports) \in Nat
      BY LenProperties DEF EvaluationInv, EvaluationTypes
    <3>4. /\ IsLastAmong(reports, Len(reports), "run_evaluation", metrics.old.blind)
          /\ IsLastAmong(reports, Len(reports), "correction", metrics.old.correction)
      BY <3>2 DEF Settled, IsLast, IsLastIn, IsLastAmong
    <3>5. /\ metrics.old.blind = LastRun("run_evaluation")
          /\ metrics.old.correction = LastRun("correction")
      BY <3>3, <3>4, LastUpToIs DEF LastRun
    <3>6. metrics.old \in RunNumbers /\ metrics.project \in RunNumbers
      BY DEF EvaluationInv, EvaluationTypes
    <3>7. metrics.old = [blind |-> LastRun("run_evaluation"), correction |-> LastRun("correction")]
      BY <3>5, <3>6 DEF RunNumbers
    <3>8. metrics.project.blind = metrics.old.blind
      BY <3>2 DEF Settled
    <3>9. metrics.project.correction = LastUpTo(metrics.old.blind, "correction")
      <4>1. /\ metrics.project.blind \in Nat
            /\ IsLastAmong(reports, metrics.project.blind, "correction", metrics.project.correction)
        BY <2>2, <3>6 DEF AloneInv, CorrectionThen, RunNumbers
      <4> QED  BY <3>8, <4>1, LastUpToIs
    <3>10. metrics.project = [blind |-> metrics.old.blind,
                              correction |-> LastUpTo(metrics.old.blind, "correction")]
      BY <3>6, <3>8, <3>9 DEF RunNumbers
    <3> QED  BY <3>2, <3>7, <3>10 DEF Settled
  <2> QED  BY <2>1, <2>2 DEF NumbersHaveReport
<1>2. EvaluationInit => EvaluationInv /\ AloneInv
  BY EvaluationStarts, AloneInit
<1>3. EvaluationInv /\ AloneInv /\ [EvaluationNext]_evaluationVars => EvaluationInv' /\ AloneInv'
  BY EvaluationStep, AloneStep
<1> QED  BY <1>1, <1>2, <1>3, PTL DEF EvaluationSpec

(***************************************************************************)
(* The comparison of rows: assign finds a row for every expected one       *)
(* whenever there is a way to pair them.                                   *)
(***************************************************************************)

\* What assign is called with: the rows of the answer that were not seen stand
\* for expected rows they have the values of, no two for the same one, and none
\* for the row the call is about.
CandidatesIn(options, rows) ==
  /\ IsFiniteSet(rows) /\ rows \in SUBSET Nat
  /\ DOMAIN options \in SUBSET (Nat \ {0})
  /\ \A i \in DOMAIN options : options[i] \in SUBSET rows
Stands(options, matched, fresh) ==
  /\ \A j \in fresh : matched[j] # 0 => j \in options[matched[j]]
  /\ \A j, k \in fresh : matched[j] # 0 /\ matched[j] = matched[k] => j = k
Sound(options, rows, c) ==
  /\ c \in Calls(options, rows)
  /\ Stands(options, c.matched, rows \ c.seen)
  /\ \A j \in rows \ c.seen : c.matched[j] # c.row

\* What it returns: either one more expected row has a row of the answer, or the
\* rows seen are all taken, and no row that took one has a candidate elsewhere.
Placed(options, rows, c, r) ==
  /\ r.matched \in [rows -> {0} \cup DOMAIN options]
  /\ Stands(options, r.matched, rows \ c.seen)
  /\ \A j \in c.seen : r.matched[j] = c.matched[j]
  /\ \A x \in DOMAIN options :
       (\E j \in rows \ c.seen : r.matched[j] = x)
         <=> x = c.row \/ \E j \in rows \ c.seen : c.matched[j] = x
Stuck(options, rows, c, r) ==
  /\ c.seen \subseteq r.seen /\ r.seen \subseteq rows
  /\ options[c.row] \subseteq r.seen
  /\ \A j \in r.seen \ c.seen : c.matched[j] # 0 /\ options[c.matched[j]] \subseteq r.seen
Answered(options, rows, c, r) ==
  (r.ok /\ Placed(options, rows, c, r)) \/ (~r.ok /\ Stuck(options, rows, c, r))

\* Every set of numbers has a least one.
LEMMA LeastIs ==
  ASSUME NEW js \in SUBSET Nat, js # {}
  PROVE  Least(js) \in js
<1> SUFFICES ASSUME \A j \in js : \E k \in js : ~(j <= k) PROVE FALSE
  BY DEF Least
<1> DEFINE T == {n \in Nat : \A k \in js : n <= k}
<1>1. 0 \in T  OBVIOUS
<1>2. ASSUME NEW n \in T PROVE n + 1 \in T
  <2>1. n \notin js  OBVIOUS
  <2> QED  BY <2>1
<1>3. T = Nat
  <2>1. T \in SUBSET Nat  OBVIOUS
  <2> HIDE DEF T
  <2> QED  BY <1>1, <1>2, <2>1, CountingUp
<1>4. PICK j \in js : TRUE  OBVIOUS
<1>5. j + 1 \in T  BY <1>3, <1>4
<1> QED  BY <1>4, <1>5

LEMMA FewerUnseen ==
  ASSUME NEW rows, IsFiniteSet(rows), NEW s \in SUBSET rows, NEW t \in SUBSET rows,
         s \subseteq t, NEW j \in t, j \notin s
  PROVE  /\ Cardinality(rows \ t) \in Nat /\ Cardinality(rows \ s) \in Nat
         /\ Cardinality(rows \ t) < Cardinality(rows \ s)
<1>1. IsFiniteSet(rows \ s)  BY FS_Difference
<1>2. rows \ t \in SUBSET (rows \ s)  OBVIOUS
<1>3. /\ IsFiniteSet(rows \ t) /\ Cardinality(rows \ t) <= Cardinality(rows \ s)
      /\ (Cardinality(rows \ s) = Cardinality(rows \ t) => rows \ s = rows \ t)
  BY <1>1, <1>2, FS_Subset
<1>4. rows \ s # rows \ t  OBVIOUS
<1>5. Cardinality(rows \ t) \in Nat /\ Cardinality(rows \ s) \in Nat
  BY <1>1, <1>3, FS_CardinalityType
<1> QED  BY <1>3, <1>4, <1>5

\* One call, when the calls it makes return what they should.
LEMMA AssignedAnswers ==
  ASSUME NEW options, NEW rows, CandidatesIn(options, rows), NEW inner, NEW c, Sound(options, rows, c),
         \A x : Sound(options, rows, x) /\ Cardinality(rows \ x.seen) < Cardinality(rows \ c.seen)
                  => Answered(options, rows, x, inner[x])
  PROVE  Answered(options, rows, c, Assigned(c, options, inner))
<1> DEFINE new == options[c.row] \ c.seen
           j   == Least(new)
           shifted == Call(c.matched[j], c.matched, c.seen \cup {j})
           moved == inner[shifted]
           next == Call(c.row, c.matched, moved.seen)
           r == Assigned(c, options, inner)
<1> SUFFICES Answered(options, rows, c, r)
  OBVIOUS
<1>0. /\ c.row \in DOMAIN options /\ c.matched \in [rows -> {0} \cup DOMAIN options]
      /\ c.seen \in SUBSET rows /\ new \in SUBSET rows /\ c.row # 0
  BY DEF Sound, Calls, CandidatesIn
<1>1. CASE new = {}
  <2>1. r = Returns(FALSE, c.matched, c.seen)  BY <1>1 DEF Assigned
  <2>2. r.ok = FALSE /\ r.seen = c.seen  BY <2>1 DEF Returns
  <2>3. Stuck(options, rows, c, r)  BY <1>0, <1>1, <2>2 DEF Stuck
  <2> QED  BY <2>2, <2>3 DEF Answered
<1>2. CASE new # {}
  <2>1. new \in SUBSET Nat  BY <1>0 DEF CandidatesIn
  <2>2. j \in new  BY <1>2, <2>1, LeastIs
  <2>3. j \in rows /\ j \in options[c.row] /\ j \notin c.seen  BY <1>0, <2>2
  <2> DEFINE fresh == rows \ c.seen
  <2>4. /\ \A k \in fresh : c.matched[k] # 0 => k \in options[c.matched[k]]
        /\ \A k, l \in fresh : c.matched[k] # 0 /\ c.matched[k] = c.matched[l] => k = l
        /\ \A k \in fresh : c.matched[k] # c.row
    BY DEF Sound, Stands
  <2> PICK b : b = j
    OBVIOUS
  <2>5. b \in fresh /\ b \in options[c.row] /\ b \notin c.seen /\ b \in rows  BY <2>3
  <2>6. CASE c.matched[j] = 0
    <3>1. r = Returns(TRUE, [c.matched EXCEPT ![b] = c.row], c.seen \cup {b})
      BY <1>2, <2>6 DEF Assigned
    <3> PICK m : m = r.matched
      OBVIOUS
    <3>2. r.ok = TRUE /\ m = [c.matched EXCEPT ![b] = c.row]  BY <3>1 DEF Returns
    <3>3. m \in [rows -> {0} \cup DOMAIN options]  BY <1>0, <3>2
    <3>4. m[b] = c.row /\ \A k \in rows : k # b => m[k] = c.matched[k]
      BY <1>0, <2>5, <3>2
    <3> HIDE DEF new, j, r
    <3>5. \A k \in c.seen : m[k] = c.matched[k]  BY <1>0, <2>5, <3>4
    <3>6. Stands(options, m, rows \ c.seen)
      BY <2>4, <2>5, <3>4 DEF Stands
    <3>7. c.matched[b] = 0  BY <2>6
    <3>8. ASSUME NEW x \in DOMAIN options
          PROVE  (\E k \in fresh : m[k] = x) <=> x = c.row \/ \E k \in fresh : c.matched[k] = x
      <4>1. x # 0  BY DEF CandidatesIn
      <4> QED  BY <2>5, <3>4, <3>7, <4>1
    <3> QED  BY <3>2, <3>3, <3>5, <3>6, <3>8 DEF Answered, Placed
  <2>7. CASE c.matched[j] # 0
    <3>1. /\ shifted.row = c.matched[b] /\ shifted.matched = c.matched
          /\ shifted.seen = c.seen \cup {b}
      BY DEF Call
    <3>2. Sound(options, rows, shifted)
      <4>1. shifted \in Calls(options, rows)
        BY <1>0, <2>3, <2>7 DEF Calls, Call
      <4>2. Stands(options, shifted.matched, rows \ shifted.seen)
        BY <2>4, <3>1 DEF Stands
      <4>3. \A k \in rows \ shifted.seen : shifted.matched[k] # shifted.row
        BY <2>4, <2>5, <2>7, <3>1
      <4> QED  BY <4>1, <4>2, <4>3 DEF Sound
    <3>3. Cardinality(rows \ shifted.seen) < Cardinality(rows \ c.seen)
      <4>1. shifted.seen \in SUBSET rows /\ c.seen \subseteq shifted.seen /\ b \in shifted.seen
        BY <1>0, <2>5, <3>1
      <4> QED  BY <1>0, <2>5, <4>1, FewerUnseen DEF CandidatesIn
    <3>4. Answered(options, rows, shifted, moved)
      BY <3>2, <3>3
    <3>5. CASE moved.ok
      <4>1. Placed(options, rows, shifted, moved)  BY <3>4, <3>5 DEF Answered
      <4>2. r = Returns(TRUE, [moved.matched EXCEPT ![b] = c.row], moved.seen)
        BY <1>2, <2>7, <3>5 DEF Assigned
      <4> PICK old : old = moved.matched
        OBVIOUS
      <4> PICK m : m = r.matched
        OBVIOUS
      <4>3. r.ok = TRUE /\ m = [old EXCEPT ![b] = c.row]
        <5> HIDE DEF r, moved, j
        <5>1. r.ok = TRUE /\ r.matched = [moved.matched EXCEPT ![b] = c.row]
          BY <4>2 DEF Returns
        <5> QED  BY <5>1
      <4> DEFINE rest == rows \ shifted.seen
      <4>4. rest = fresh \ {b}  BY <3>1
      <4>5. /\ old \in [rows -> {0} \cup DOMAIN options]
            /\ \A k \in c.seen \cup {b} : old[k] = c.matched[k]
            /\ Stands(options, old, rest)
            /\ \A x \in DOMAIN options :
                 (\E k \in rest : old[k] = x) <=> x = c.matched[b] \/ \E k \in rest : c.matched[k] = x
        BY <3>1, <4>1 DEF Placed
      <4> HIDE DEF new, j, r, shifted, moved, rest
      <4>6. m \in [rows -> {0} \cup DOMAIN options]  BY <1>0, <4>3, <4>5
      <4>7. m[b] = c.row /\ \A k \in rows : k # b => m[k] = old[k]
        BY <1>0, <2>5, <4>3, <4>5
      <4>8. \A k \in c.seen : m[k] = c.matched[k]
        BY <1>0, <2>5, <4>5, <4>7
      <4>9. \A k \in rest : old[k] # c.row
        <5> SUFFICES ASSUME NEW k \in rest, old[k] = c.row PROVE FALSE
          OBVIOUS
        <5>1. c.row = c.matched[b] \/ \E l \in rest : c.matched[l] = c.row
          BY <1>0, <4>5
        <5> QED  BY <2>4, <2>5, <4>4, <5>1
      <4>10. Stands(options, m, fresh)
        <5>1. /\ \A k \in rest : old[k] # 0 => k \in options[old[k]]
              /\ \A k, l \in rest : old[k] # 0 /\ old[k] = old[l] => k = l
          BY <4>5 DEF Stands
        <5>2. \A k \in fresh : k = b \/ (k \in rest /\ m[k] = old[k])
          BY <4>4, <4>7
        <5>3. \A k \in fresh : m[k] # 0 => k \in options[m[k]]
          BY <2>5, <4>7, <5>1, <5>2
        <5>4. \A k, l \in fresh : m[k] # 0 /\ m[k] = m[l] => k = l
          BY <4>7, <4>9, <5>1, <5>2
        <5> QED  BY <5>3, <5>4 DEF Stands
      <4>11. ASSUME NEW x \in DOMAIN options
             PROVE  (\E k \in fresh : m[k] = x) <=> x = c.row \/ \E k \in fresh : c.matched[k] = x
        <5>1. ASSUME NEW k \in fresh, m[k] = x PROVE x = c.row \/ \E l \in fresh : c.matched[l] = x
          <6>1. CASE k = b  BY <4>7, <5>1, <6>1
          <6>2. CASE k # b
            <7>1. k \in rest /\ old[k] = x  BY <4>4, <4>7, <5>1, <6>2
            <7>2. x = c.matched[b] \/ \E l \in rest : c.matched[l] = x  BY <4>5, <7>1
            <7> QED  BY <2>5, <4>4, <7>2
          <6> QED  BY <6>1, <6>2
        <5>2. CASE x = c.row  BY <2>5, <4>7, <5>2
        <5>3. ASSUME NEW k \in fresh, c.matched[k] = x PROVE \E l \in fresh : m[l] = x
          <6>1. x = c.matched[b] \/ \E l \in rest : c.matched[l] = x
            BY <4>4, <5>3
          <6>2. PICK l \in rest : old[l] = x  BY <4>5, <6>1
          <6>3. m[l] = x /\ l \in fresh  BY <4>4, <4>7, <6>2
          <6> QED  BY <6>3
        <5> QED  BY <5>1, <5>2, <5>3
      <4> QED  BY <4>3, <4>6, <4>8, <4>10, <4>11 DEF Answered, Placed
    <3>6. CASE ~moved.ok
      <4>1. Stuck(options, rows, shifted, moved)  BY <3>4, <3>6 DEF Answered
      <4>2. r = inner[next]  BY <1>2, <2>7, <3>6 DEF Assigned
      <4> PICK s : s = moved.seen
        OBVIOUS
      <4>3. next.row = c.row /\ next.matched = c.matched /\ next.seen = s
        BY DEF Call
      <4>4. /\ c.seen \subseteq s /\ b \in s /\ s \subseteq rows
            /\ options[c.matched[b]] \subseteq s
            /\ \A k \in s \ (c.seen \cup {b}) : c.matched[k] # 0 /\ options[c.matched[k]] \subseteq s
        BY <3>1, <4>1 DEF Stuck
      <4>5. \A k \in s \ c.seen : c.matched[k] # 0 /\ options[c.matched[k]] \subseteq s
        BY <2>7, <4>4
      <4>6. Sound(options, rows, next)
        <5>1. next \in Calls(options, rows)
          BY <1>0, <4>4 DEF Calls, Call
        <5>2. rows \ s \subseteq fresh  BY <4>4
        <5>3. Stands(options, c.matched, rows \ s)  BY <2>4, <5>2 DEF Stands
        <5>4. \A k \in rows \ s : c.matched[k] # c.row  BY <2>4, <5>2
        <5> QED  BY <4>3, <5>1, <5>3, <5>4 DEF Sound
      <4>7. Cardinality(rows \ next.seen) < Cardinality(rows \ c.seen)
        <5>1. s \in SUBSET rows  BY <4>4
        <5> QED  BY <1>0, <2>5, <4>3, <4>4, <5>1, FewerUnseen DEF CandidatesIn
      <4>8. Answered(options, rows, next, r)  BY <4>2, <4>6, <4>7
      <4> HIDE DEF new, j, r, shifted, moved, next
      <4>9. CASE r.ok
        <5>1. Placed(options, rows, next, r)  BY <4>8, <4>9 DEF Answered
        <5> PICK m : m = r.matched
          OBVIOUS
        <5> DEFINE rest == rows \ s
        <5>2. /\ m \in [rows -> {0} \cup DOMAIN options]
              /\ \A k \in s : m[k] = c.matched[k]
              /\ Stands(options, m, rest)
              /\ \A x \in DOMAIN options :
                   (\E k \in rest : m[k] = x) <=> x = c.row \/ \E k \in rest : c.matched[k] = x
          BY <4>3, <5>1 DEF Placed
        <5>3. /\ \A k \in fresh : k \in rest \/ k \in s
              /\ \A k \in s : k \notin c.seen => k \in fresh
              /\ \A k \in rest : k \in fresh /\ k \notin s
          BY <4>4
        <5> HIDE DEF rest
        <5>4. \A k \in rest, l \in fresh : l \in s /\ m[k] = m[l] => m[k] = 0
          <6> SUFFICES ASSUME NEW k \in rest, NEW l \in fresh, l \in s, m[k] = m[l], m[k] # 0
                       PROVE  FALSE
            OBVIOUS
          <6>1. m[k] \in DOMAIN options /\ m[l] = c.matched[l]  BY <5>2, <5>3
          <6>2. m[k] = c.row \/ \E a \in rest : c.matched[a] = m[k]  BY <5>2, <6>1
          <6> QED  BY <2>4, <5>3, <6>1, <6>2
        <5>5. Stands(options, m, fresh)
          <6>1. /\ \A k \in rest : m[k] # 0 => k \in options[m[k]]
                /\ \A k, l \in rest : m[k] # 0 /\ m[k] = m[l] => k = l
            BY <5>2 DEF Stands
          <6>2. \A k \in fresh : m[k] # 0 => k \in options[m[k]]
            BY <2>4, <5>2, <5>3, <6>1
          <6>3. \A k, l \in fresh : m[k] # 0 /\ m[k] = m[l] => k = l
            BY <2>4, <5>2, <5>3, <5>4, <6>1
          <6> QED  BY <6>2, <6>3 DEF Stands
        <5>6. ASSUME NEW x \in DOMAIN options
              PROVE  (\E k \in fresh : m[k] = x) <=> x = c.row \/ \E k \in fresh : c.matched[k] = x
          <6>1. (\E k \in rest : m[k] = x) <=> x = c.row \/ \E k \in rest : c.matched[k] = x
            BY <5>2
          <6> QED  BY <5>2, <5>3, <6>1
        <5>7. \A k \in c.seen : m[k] = c.matched[k]  BY <4>4, <5>2
        <5> QED  BY <4>9, <5>2, <5>5, <5>6, <5>7 DEF Answered, Placed
      <4>10. CASE ~r.ok
        <5>1. Stuck(options, rows, next, r)  BY <4>8, <4>10 DEF Answered
        <5>2. /\ s \subseteq r.seen /\ r.seen \subseteq rows /\ options[c.row] \subseteq r.seen
              /\ \A k \in r.seen \ s : c.matched[k] # 0 /\ options[c.matched[k]] \subseteq r.seen
          BY <4>3, <5>1 DEF Stuck
        <5>3. \A k \in r.seen \ c.seen : c.matched[k] # 0 /\ options[c.matched[k]] \subseteq r.seen
          BY <4>5, <5>2
        <5>4. c.seen \subseteq r.seen  BY <4>4, <5>2
        <5> QED  BY <4>10, <5>2, <5>3, <5>4 DEF Answered, Stuck
      <4> QED  BY <4>9, <4>10
    <3> QED  BY <3>5, <3>6
  <2> QED  BY <2>6, <2>7
<1> QED  BY <1>1, <1>2

\* The calls by the number of rows they may still see.
Level(g, options, rows, n) ==
  [c \in Calls(options, rows) |-> Assigned(c, options, IF n = 0 THEN <<>> ELSE g[n - 1])]
DeepUpTo(g, options, rows, m) == g = [n \in 0..m |-> Level(g, options, rows, n)]

LEMMA DepthExists ==
  ASSUME NEW options, NEW rows, NEW m \in Nat
  PROVE  \E g : DeepUpTo(g, options, rows, m)
<1> DEFINE T == {n \in Nat : \E g : DeepUpTo(g, options, rows, n)}
           Top(inner) == [c \in Calls(options, rows) |-> Assigned(c, options, inner)]
<1>1. 0 \in T
  <2> PICK t : t = Top(<<>>)
    OBVIOUS
  <2> DEFINE g == [n \in 0..0 |-> t]
  <2>1. \A n \in 0..0 : n = 0  OBVIOUS
  <2>2. Level(g, options, rows, 0) = t  BY DEF Level
  <2>3. g = [n \in 0..0 |-> Level(g, options, rows, n)]
    <3> HIDE DEF Top
    <3>1. \A n \in 0..0 : Level(g, options, rows, n) = t  BY <2>1, <2>2
    <3> QED  BY <3>1
  <2> QED  BY <2>3 DEF DeepUpTo
<1>2. ASSUME NEW n \in T PROVE n + 1 \in T
  <2>1. PICK g : DeepUpTo(g, options, rows, n)
    OBVIOUS
  <2> PICK last : last = Top(g[n])
    OBVIOUS
  <2> PICK h : h = [k \in 0..(n + 1) |-> IF k = n + 1 THEN last ELSE g[k]]
    OBVIOUS
  <2>2. n \in Nat /\ n + 1 \in Nat /\ (n + 1) - 1 = n /\ n + 1 # 0
    OBVIOUS
  <2>3. /\ \A k \in 0..(n + 1) : k # n + 1 => k \in 0..n
        /\ \A k \in 0..n : k \in 0..(n + 1) /\ k # n + 1
        /\ \A k \in 0..(n + 1) : k # 0 => k - 1 \in 0..n
        /\ n \in 0..n /\ n + 1 \in 0..(n + 1)
    BY <2>2
  <2>4. \A k \in 0..n : h[k] = g[k]
    BY <2>3
  <2>5. h[n + 1] = last
    BY <2>3
  <2>6. \A k \in 0..n : g[k] = Level(g, options, rows, k)
    BY <2>1 DEF DeepUpTo
  <2>7. ASSUME NEW k \in 0..(n + 1)
        PROVE  h[k] = Level(h, options, rows, k)
    <3>1. CASE k = n + 1
      <4>1. k - 1 = n /\ h[k - 1] = g[n] /\ k # 0
        BY <2>2, <2>3, <2>4, <3>1
      <4>2. Level(h, options, rows, k) = Top(g[n])  BY <4>1 DEF Level
      <4> QED  BY <2>5, <3>1, <4>2
    <3>2. CASE k # n + 1
      <4>1. k \in 0..n /\ h[k] = g[k] /\ (k # 0 => h[k - 1] = g[k - 1])
        BY <2>2, <2>3, <2>4, <3>2
      <4>2. Level(h, options, rows, k) = Level(g, options, rows, k)  BY <4>1 DEF Level
      <4> QED  BY <2>6, <4>1, <4>2
    <3> QED  BY <3>1, <3>2
  <2>8. DeepUpTo(h, options, rows, n + 1)
    <3>1. h = [k \in 0..(n + 1) |-> h[k]]  OBVIOUS
    <3>2. h = [k \in 0..(n + 1) |-> Level(h, options, rows, k)]  BY <2>7, <3>1
    <3> QED  BY <3>2 DEF DeepUpTo
  <2> QED  BY <2>2, <2>8
<1> HIDE DEF T
<1>3. T = Nat
  <2>1. T \in SUBSET Nat  BY DEF T
  <2> QED  BY <1>1, <1>2, <2>1, CountingUp
<1> QED  BY <1>3 DEF T

LEMMA AssignAnswers ==
  ASSUME NEW options, NEW rows, CandidatesIn(options, rows), NEW c, Sound(options, rows, c)
  PROVE  Answered(options, rows, c, Assign(options, rows)[c])
<1> DEFINE N == Cardinality(rows)
<1>0. IsFiniteSet(rows) /\ N \in Nat  BY FS_CardinalityType DEF CandidatesIn
<1> DEFINE g == CHOOSE h : DeepUpTo(h, options, rows, N)
<1>1. Assign(options, rows) = g[N]
  BY DEF Assign, DeepUpTo, Level
<1>2. DeepUpTo(g, options, rows, N)
  BY <1>0, DepthExists
<1> HIDE DEF g
<1>3. \A n \in 0..N : g[n] = Level(g, options, rows, n)
  BY <1>2 DEF DeepUpTo
<1>4. \A x : Sound(options, rows, x) =>
        /\ x \in Calls(options, rows)
        /\ Cardinality(rows \ x.seen) \in Nat /\ Cardinality(rows \ x.seen) <= N
  <2> SUFFICES ASSUME NEW x, Sound(options, rows, x)
               PROVE  /\ x \in Calls(options, rows)
                      /\ Cardinality(rows \ x.seen) \in Nat /\ Cardinality(rows \ x.seen) <= N
    OBVIOUS
  <2>1. x \in Calls(options, rows)  BY DEF Sound
  <2>2. rows \ x.seen \in SUBSET rows  OBVIOUS
  <2>3. IsFiniteSet(rows \ x.seen) /\ Cardinality(rows \ x.seen) <= N
    BY <1>0, <2>2, FS_Subset
  <2> QED  BY <2>1, <2>3, FS_CardinalityType
<1> DEFINE Good(n) ==
      \A x : Sound(options, rows, x) /\ Cardinality(rows \ x.seen) <= n
               => Answered(options, rows, x, g[n][x])
    T == {n \in Nat : n <= N => Good(n)}
<1> HIDE DEF N
<1>5. ASSUME NEW n \in Nat, n <= N, NEW x, Sound(options, rows, x), Cardinality(rows \ x.seen) <= n,
             n # 0 => Good(n - 1)
      PROVE  Answered(options, rows, x, g[n][x])
  <2> PICK inner : inner = IF n = 0 THEN <<>> ELSE g[n - 1]
    OBVIOUS
  <2>1. n \in 0..N  BY <1>0, <1>5
  <2>2. g[n][x] = Assigned(x, options, inner)
    BY <1>3, <1>4, <1>5, <2>1 DEF Level
  <2>3. \A y : Sound(options, rows, y) /\ Cardinality(rows \ y.seen) < Cardinality(rows \ x.seen)
                  => Answered(options, rows, y, inner[y])
    <3> SUFFICES ASSUME NEW y, Sound(options, rows, y),
                        Cardinality(rows \ y.seen) < Cardinality(rows \ x.seen)
                 PROVE  Answered(options, rows, y, inner[y])
      OBVIOUS
    <3>1. Cardinality(rows \ y.seen) \in Nat /\ Cardinality(rows \ x.seen) \in Nat
      BY <1>4, <1>5
    <3>2. n # 0 /\ Cardinality(rows \ y.seen) <= n - 1  BY <1>5, <3>1
    <3>3. inner = g[n - 1]  BY <3>2
    <3> QED  BY <1>5, <3>2, <3>3
  <2>4. Answered(options, rows, x, Assigned(x, options, inner))
    BY <1>5, <2>3, AssignedAnswers
  <2> QED  BY <2>2, <2>4
<1> HIDE DEF Good
<1>6. 0 \in T
  <2>1. Good(0)  BY <1>5, <1>0 DEF Good
  <2> QED  BY <2>1
<1>7. ASSUME NEW n \in T PROVE n + 1 \in T
  <2>0. n \in Nat /\ n + 1 \in Nat /\ (n + 1) - 1 = n  OBVIOUS
  <2>1. ASSUME n + 1 <= N PROVE Good(n + 1)
    <3>1. Good((n + 1) - 1)  BY <1>0, <2>0, <2>1
    <3>2. \A x : Sound(options, rows, x) /\ Cardinality(rows \ x.seen) <= n + 1
                   => Answered(options, rows, x, g[n + 1][x])
      BY <1>5, <2>0, <2>1, <3>1
    <3> QED  BY <3>2 DEF Good
  <2> QED  BY <2>0, <2>1
<1>8. T = Nat
  <2>1. T \in SUBSET Nat  OBVIOUS
  <2> HIDE DEF T
  <2> QED  BY <1>6, <1>7, <2>1, CountingUp
<1>9. N \in T /\ N <= N
  BY <1>0, <1>8
<1>10. Good(N)
  BY <1>9
<1>11. Answered(options, rows, c, g[N][c])
  BY <1>4, <1>10 DEF Good
<1> QED  BY <1>1, <1>11 DEF N

\* The order in which the expected rows are assigned goes through each of them once.
LEMMA SoonerIsLess ==
  ASSUME NEW n \in Nat, NEW rows, NEW options \in [1..n -> SUBSET rows], IsFiniteSet(rows),
         NEW a \in 1..n
  PROVE  /\ Cardinality(Sooner(options, a)) \in 0..(n - 1)
         /\ \A b \in 1..n : a # b =>
              \/ Cardinality(Sooner(options, a)) < Cardinality(Sooner(options, b))
              \/ Cardinality(Sooner(options, b)) < Cardinality(Sooner(options, a))
<1> DEFINE size(i) == Cardinality(options[i])
<1>1. \A i \in 1..n : size(i) \in Nat
  <2> SUFFICES ASSUME NEW i \in 1..n PROVE size(i) \in Nat
    OBVIOUS
  <2>1. options[i] \in SUBSET rows  OBVIOUS
  <2>2. IsFiniteSet(options[i])  BY <2>1, FS_Subset
  <2> QED  BY <2>2, FS_CardinalityType
<1>2. \A i \in 1..n : Sooner(options, i)
                        = {x \in 1..n : size(x) < size(i) \/ (size(x) = size(i) /\ x < i)}
  BY DEF Sooner
<1>3. IsFiniteSet(1..n) /\ Cardinality(1..n) = n
  BY FS_Interval
<1>4. \A i \in 1..n : IsFiniteSet(Sooner(options, i))
  <2> SUFFICES ASSUME NEW i \in 1..n PROVE IsFiniteSet(Sooner(options, i))
    OBVIOUS
  <2>1. Sooner(options, i) \in SUBSET (1..n)  BY <1>2
  <2> QED  BY <1>3, <2>1, FS_Subset
<1> HIDE DEF size
<1>5. \A i \in 1..n : i \notin Sooner(options, i)
  BY <1>1, <1>2
<1>6. ASSUME NEW x \in 1..n, NEW y \in 1..n, x \in Sooner(options, y)
      PROVE  Cardinality(Sooner(options, x)) < Cardinality(Sooner(options, y))
  <2>1. Sooner(options, x) \in SUBSET Sooner(options, y)
    BY <1>1, <1>2, <1>6
  <2>2. x \notin Sooner(options, x)  BY <1>5
  <2>3. /\ Cardinality(Sooner(options, x)) <= Cardinality(Sooner(options, y))
        /\ (Cardinality(Sooner(options, x)) = Cardinality(Sooner(options, y))
             => Sooner(options, x) = Sooner(options, y))
    BY <1>4, <2>1, FS_Subset
  <2>4. Cardinality(Sooner(options, x)) \in Nat /\ Cardinality(Sooner(options, y)) \in Nat
    BY <1>4, FS_CardinalityType
  <2> QED  BY <1>6, <2>2, <2>3, <2>4
<1>7. \A b \in 1..n : a # b => a \in Sooner(options, b) \/ b \in Sooner(options, a)
  BY <1>1, <1>2
<1>8. Cardinality(Sooner(options, a)) \in 0..(n - 1)
  <2>1. Sooner(options, a) \in SUBSET ((1..n) \ {a})  BY <1>2, <1>5
  <2>2. IsFiniteSet((1..n) \ {a}) /\ Cardinality((1..n) \ {a}) = n - 1
    <3>1. a \in 1..n  OBVIOUS
    <3>2. Cardinality((1..n) \ {a}) = Cardinality(1..n) - 1 /\ IsFiniteSet((1..n) \ {a})
      BY <1>3, <3>1, FS_RemoveElement
    <3> QED  BY <1>3, <3>2
  <2>3. Cardinality(Sooner(options, a)) <= n - 1
    BY <2>1, <2>2, FS_Subset
  <2>4. Cardinality(Sooner(options, a)) \in Nat  BY <1>4, FS_CardinalityType
  <2> QED  BY <2>3, <2>4
<1> QED  BY <1>6, <1>7, <1>8

LEMMA OrderIsAll ==
  ASSUME NEW n \in Nat, NEW rows, NEW options \in [1..n -> SUBSET rows], IsFiniteSet(rows)
  PROVE  /\ Order(options) \in [1..n -> 1..n]
         /\ \A k, l \in 1..n : Order(options)[k] = Order(options)[l] => k = l
         /\ \A i \in 1..n : \E k \in 1..n : Order(options)[k] = i
<1> PICK order : order = Order(options)
  OBVIOUS
<1> DEFINE rank == [i \in 1..n |-> Cardinality(Sooner(options, i))]
<1>0. IsFiniteSet(1..n) /\ Cardinality(1..n) = n /\ IsFiniteSet(0..(n - 1)) /\ Cardinality(0..(n - 1)) = n
  BY FS_Interval
<1>1. \A i \in 1..n : rank[i] \in 0..(n - 1)
  BY SoonerIsLess
<1>2. \A i, j \in 1..n : rank[i] = rank[j] => i = j
  <2> SUFFICES ASSUME NEW i \in 1..n, NEW j \in 1..n, rank[i] = rank[j], i # j PROVE FALSE
    OBVIOUS
  <2>1. rank[i] < rank[j] \/ rank[j] < rank[i]  BY SoonerIsLess
  <2>2. rank[i] \in Int  BY <1>1
  <2> QED  BY <2>1, <2>2
<1>3. rank \in [1..n -> 0..(n - 1)]  BY <1>1
<1>4. order = [k \in 1..n |-> CHOOSE i \in 1..n : rank[i] = k - 1]
  BY DEF Order
<1> HIDE DEF rank
<1>5. rank \in Injection(1..n, 0..(n - 1))
  BY <1>2, <1>3 DEF Injection, IsInjective
<1>6. rank \in Surjection(1..n, 0..(n - 1))
  BY <1>0, <1>5, FS_Injection
<1>7. \A k \in 1..n : \E i \in 1..n : rank[i] = k - 1
  <2> SUFFICES ASSUME NEW k \in 1..n PROVE \E i \in 1..n : rank[i] = k - 1
    OBVIOUS
  <2>1. k - 1 \in 0..(n - 1)  OBVIOUS
  <2> QED  BY <1>6, <2>1 DEF Surjection
<1>8. \A k \in 1..n : order[k] \in 1..n /\ rank[order[k]] = k - 1
  BY <1>4, <1>7
<1>9. order \in [1..n -> 1..n]
  BY <1>4, <1>8
<1>10. \A k, l \in 1..n : order[k] = order[l] => k = l
  <2> SUFFICES ASSUME NEW k \in 1..n, NEW l \in 1..n, order[k] = order[l] PROVE k = l
    OBVIOUS
  <2>1. k - 1 = l - 1  BY <1>8
  <2> QED  BY <2>1
<1>11. ASSUME NEW i \in 1..n PROVE \E k \in 1..n : order[k] = i
  <2>1. rank[i] \in 0..(n - 1)  BY <1>3
  <2>2. rank[i] + 1 \in 1..n /\ (rank[i] + 1) - 1 = rank[i]  BY <2>1
  <2> QED  BY <1>2, <1>8, <2>2
<1> QED  BY <1>9, <1>10, <1>11

\* Rows that are all taken cannot take one more: f gives each of the expected
\* rows that took one of S, and one other, a row of S of its own.
LEMMA NoRoom ==
  ASSUME NEW S, IsFiniteSet(S), NEW m, NEW f, NEW i,
         \A j, k \in S : m[j] = m[k] => j = k, \A j \in S : m[j] # i,
         \A j \in S : f[m[j]] \in S, f[i] \in S,
         \A j, k \in S : f[m[j]] = f[m[k]] => m[j] = m[k], \A j \in S : f[m[j]] # f[i]
  PROVE  FALSE
<1> DEFINE taken == {m[j] : j \in S}
           g == [j \in S |-> m[j]]
           given == [x \in taken \cup {i} |-> f[x]]
<1>1. g \in Bijection(S, taken)
  <2>1. g \in [S -> taken] /\ \A j \in S : g[j] = m[j]  OBVIOUS
  <2>2. \A x \in taken : \E j \in S : g[j] = x  OBVIOUS
  <2> HIDE DEF g, taken
  <2>3. g \in Injection(S, taken)  BY <2>1 DEF Injection, IsInjective
  <2>4. g \in Surjection(S, taken)  BY <2>1, <2>2 DEF Surjection
  <2> QED  BY <2>3, <2>4 DEF Bijection
<1>2. IsFiniteSet(taken) /\ Cardinality(taken) = Cardinality(S)
  <2>1. ExistsBijection(S, taken)  BY <1>1 DEF ExistsBijection
  <2> HIDE DEF taken
  <2> QED  BY <2>1, FS_Bijection
<1>3. i \notin taken  OBVIOUS
<1>4. given \in [taken \cup {i} -> S]  OBVIOUS
<1>5. \A x, y \in taken \cup {i} : given[x] = given[y] => x = y
  <2>1. \A x \in taken \cup {i} : given[x] = f[x] /\ (x = i \/ \E j \in S : x = m[j])
    OBVIOUS
  <2> HIDE DEF given, taken
  <2> QED  BY <2>1
<1> HIDE DEF taken, given
<1>6. IsFiniteSet(taken \cup {i}) /\ Cardinality(taken \cup {i}) = Cardinality(S) + 1
  BY <1>2, <1>3, FS_AddElement
<1>7. Cardinality(S) \in Nat  BY FS_CardinalityType
<1>8. Cardinality(S) < Cardinality(taken \cup {i})  BY <1>6, <1>7
<1>9. \E x, y \in taken \cup {i} : x # y /\ given[x] = given[y]
  BY <1>4, <1>6, <1>8, FS_PigeonHole
<1> QED  BY <1>5, <1>9

\* What has been assigned after k expected rows.
Assigning(g, order, assign, rows, k) ==
  IF k = 0 THEN Returns(TRUE, [j \in rows |-> 0], {})
  ELSE IF ~g[k - 1].ok THEN g[k - 1] ELSE assign[Call(order[k], g[k - 1].matched, {})]
AssignedUpTo(g, order, assign, rows, m) == g = [k \in 0..m |-> Assigning(g, order, assign, rows, k)]

LEMMA AssignedExists ==
  ASSUME NEW order, NEW assign, NEW rows, NEW m \in Nat
  PROVE  \E g : AssignedUpTo(g, order, assign, rows, m)
<1> DEFINE T == {n \in Nat : \E g : AssignedUpTo(g, order, assign, rows, n)}
<1>1. 0 \in T
  <2> PICK start : start = Returns(TRUE, [j \in rows |-> 0], {})
    OBVIOUS
  <2> DEFINE g == [n \in 0..0 |-> start]
  <2>1. \A n \in 0..0 : n = 0  OBVIOUS
  <2>2. Assigning(g, order, assign, rows, 0) = start  BY DEF Assigning
  <2>3. g = [n \in 0..0 |-> Assigning(g, order, assign, rows, n)]
    <3>1. \A n \in 0..0 : Assigning(g, order, assign, rows, n) = start  BY <2>1, <2>2
    <3> QED  BY <3>1
  <2> QED  BY <2>3 DEF AssignedUpTo
<1>2. ASSUME NEW n \in T PROVE n + 1 \in T
  <2>1. PICK g : AssignedUpTo(g, order, assign, rows, n)
    OBVIOUS
  <2> DEFINE next == IF ~g[n].ok THEN g[n] ELSE assign[Call(order[n + 1], g[n].matched, {})]
  <2> PICK last : last = next
    OBVIOUS
  <2> PICK h : h = [k \in 0..(n + 1) |-> IF k = n + 1 THEN last ELSE g[k]]
    OBVIOUS
  <2>2. n \in Nat /\ n + 1 \in Nat /\ (n + 1) - 1 = n /\ n + 1 # 0
    OBVIOUS
  <2>3. /\ \A k \in 0..(n + 1) : k # n + 1 => k \in 0..n
        /\ \A k \in 0..n : k \in 0..(n + 1) /\ k # n + 1
        /\ \A k \in 0..(n + 1) : k # 0 => k - 1 \in 0..n
        /\ n \in 0..n /\ n + 1 \in 0..(n + 1)
    BY <2>2
  <2>4. \A k \in 0..n : h[k] = g[k]
    BY <2>3
  <2>5. h[n + 1] = last
    BY <2>3
  <2>6. \A k \in 0..n : g[k] = Assigning(g, order, assign, rows, k)
    BY <2>1 DEF AssignedUpTo
  <2>7. ASSUME NEW k \in 0..(n + 1)
        PROVE  h[k] = Assigning(h, order, assign, rows, k)
    <3>1. CASE k = n + 1
      <4>1. k - 1 = n /\ h[k - 1] = g[n] /\ k # 0
        BY <2>2, <2>3, <2>4, <3>1
      <4>2. Assigning(h, order, assign, rows, k) = next  BY <3>1, <4>1 DEF Assigning
      <4> QED  BY <2>5, <3>1, <4>2
    <3>2. CASE k # n + 1
      <4>1. k \in 0..n /\ h[k] = g[k] /\ (k # 0 => h[k - 1] = g[k - 1])
        BY <2>2, <2>3, <2>4, <3>2
      <4>2. Assigning(h, order, assign, rows, k) = Assigning(g, order, assign, rows, k)
        <5>1. CASE k = 0  BY <5>1 DEF Assigning
        <5>2. CASE k # 0
          <6> DEFINE after(v) == IF ~v.ok THEN v ELSE assign[Call(order[k], v.matched, {})]
          <6>1. h[k - 1] = g[k - 1]  BY <4>1, <5>2
          <6>2. Assigning(h, order, assign, rows, k) = after(h[k - 1])  BY <5>2, Zenon DEF Assigning
          <6>3. Assigning(g, order, assign, rows, k) = after(g[k - 1])  BY <5>2, Zenon DEF Assigning
          <6> HIDE DEF after
          <6> QED  BY <6>1, <6>2, <6>3
        <5> QED  BY <5>1, <5>2
      <4> QED  BY <2>6, <4>1, <4>2
    <3> QED  BY <3>1, <3>2
  <2>8. AssignedUpTo(h, order, assign, rows, n + 1)
    <3>1. h = [k \in 0..(n + 1) |-> h[k]]  OBVIOUS
    <3>2. h = [k \in 0..(n + 1) |-> Assigning(h, order, assign, rows, k)]  BY <2>7, <3>1
    <3> QED  BY <3>2 DEF AssignedUpTo
  <2> QED  BY <2>2, <2>8
<1> HIDE DEF T
<1>3. T = Nat
  <2>1. T \in SUBSET Nat  BY DEF T
  <2> QED  BY <1>1, <1>2, <2>1, CountingUp
<1> QED  BY <1>3 DEF T

\* A way to give every expected row a candidate of its own.
Pairs(options, rows, f) ==
  /\ f \in [DOMAIN options -> rows]
  /\ \A i, j \in DOMAIN options : f[i] = f[j] => i = j
  /\ \A i \in DOMAIN options : f[i] \in options[i]

\* The first k of the order have a row each, or there is no way to pair them all.
SoFar(options, rows, order, k, r) ==
  \/ /\ r.ok
     /\ r.matched \in [rows -> {0} \cup DOMAIN options]
     /\ Stands(options, r.matched, rows)
     /\ \A x \in DOMAIN options : (\E j \in rows : r.matched[j] = x) <=> \E l \in 1..k : order[l] = x
  \/ ~r.ok /\ \A f : ~Pairs(options, rows, f)

\* What a call with nothing seen yet returns.
LEMMA PlacedOne ==
  ASSUME NEW options, NEW rows, NEW i, NEW m, NEW r, Placed(options, rows, Call(i, m, {}), r)
  PROVE  /\ r.matched \in [rows -> {0} \cup DOMAIN options]
         /\ Stands(options, r.matched, rows)
         /\ \A x \in DOMAIN options :
              (\E j \in rows : r.matched[j] = x) <=> x = i \/ \E j \in rows : m[j] = x
<1> PICK c : c = Call(i, m, {})
  OBVIOUS
<1>1. c.row = i /\ c.matched = m /\ c.seen = {} /\ rows \ c.seen = rows
  BY DEF Call
<1>2. Placed(options, rows, c, r)
  OBVIOUS
<1>3. r.matched \in [rows -> {0} \cup DOMAIN options]  BY <1>2 DEF Placed
<1>4. Stands(options, r.matched, rows)  BY <1>1, <1>2 DEF Placed
<1>5. \A x \in DOMAIN options :
        (\E j \in rows \ c.seen : r.matched[j] = x) <=> x = c.row \/ \E j \in rows \ c.seen : c.matched[j] = x
  BY <1>2, Zenon DEF Placed
<1> QED  BY <1>1, <1>3, <1>4, <1>5

LEMMA StuckIsFull ==
  ASSUME NEW options, NEW rows, IsFiniteSet(rows), NEW i \in DOMAIN options,
         NEW m \in [rows -> {0} \cup DOMAIN options], NEW r,
         Stands(options, m, rows), \A j \in rows : m[j] # i,
         Stuck(options, rows, Call(i, m, {}), r), NEW f
  PROVE  ~Pairs(options, rows, f)
<1> PICK S : S = r.seen
  OBVIOUS
<1>1. /\ S \in SUBSET rows /\ options[i] \subseteq S
      /\ \A j \in S : m[j] # 0 /\ options[m[j]] \subseteq S
  BY DEF Stuck, Call
<1>2. IsFiniteSet(S)  BY <1>1, FS_Subset
<1> SUFFICES ASSUME Pairs(options, rows, f) PROVE FALSE
  OBVIOUS
<1>3. /\ \A x, y \in DOMAIN options : f[x] = f[y] => x = y
      /\ \A x \in DOMAIN options : f[x] \in options[x]
  BY DEF Pairs
<1>4. \A j \in S : m[j] \in DOMAIN options /\ m[j] # i  BY <1>1
<1>5. \A j, l \in S : m[j] = m[l] => j = l  BY <1>1 DEF Stands
<1>6. \A j \in S : f[m[j]] \in S  BY <1>1, <1>3, <1>4
<1>7. f[i] \in S  BY <1>1, <1>3
<1>8. \A j, l \in S : f[m[j]] = f[m[l]] => m[j] = m[l]  BY <1>3, <1>4
<1>9. \A j \in S : f[m[j]] # f[i]  BY <1>3, <1>4
<1>10. \A j \in S : m[j] # i  BY <1>4
<1> QED  BY <1>2, <1>5, <1>6, <1>7, <1>8, <1>9, <1>10, NoRoom

LEMMA OneCall ==
  ASSUME NEW options, NEW rows, CandidatesIn(options, rows), NEW i \in DOMAIN options,
         NEW m \in [rows -> {0} \cup DOMAIN options],
         Stands(options, m, rows), \A j \in rows : m[j] # i,
         NEW r, Answered(options, rows, Call(i, m, {}), r)
  PROVE  \/ /\ r.ok
            /\ r.matched \in [rows -> {0} \cup DOMAIN options]
            /\ Stands(options, r.matched, rows)
            /\ \A x \in DOMAIN options :
                 (\E j \in rows : r.matched[j] = x) <=> x = i \/ \E j \in rows : m[j] = x
         \/ ~r.ok /\ \A f : ~Pairs(options, rows, f)
<1>1. CASE r.ok
  <2>1. Placed(options, rows, Call(i, m, {}), r)  BY <1>1 DEF Answered
  <2> QED  BY <1>1, <2>1, PlacedOne
<1>2. CASE ~r.ok
  <2>1. Stuck(options, rows, Call(i, m, {}), r)  BY <1>2 DEF Answered
  <2>2. IsFiniteSet(rows)  BY DEF CandidatesIn
  <2> SUFFICES ASSUME NEW f PROVE ~Pairs(options, rows, f)
    BY <1>2
  <2> QED  BY <2>1, <2>2, StuckIsFull
<1> QED  BY <1>1, <1>2

LEMMA OneMore ==
  ASSUME NEW n \in Nat, NEW rows \in SUBSET Nat, IsFiniteSet(rows), NEW options \in [1..n -> SUBSET rows],
         NEW order \in [1..n -> 1..n], \A k, l \in 1..n : order[k] = order[l] => k = l,
         NEW k \in 1..n, NEW old, SoFar(options, rows, order, k - 1, old), old.ok
  PROVE  SoFar(options, rows, order, k, Assign(options, rows)[Call(order[k], old.matched, {})])
<1>a. PICK m : m = old.matched
  OBVIOUS
<1>b. PICK i : i = order[k]
  OBVIOUS
<1>c. PICK c : c = Call(i, m, {})
  OBVIOUS
<1>d. PICK r : r = Assign(options, rows)[c]
  OBVIOUS
<1> DEFINE before(x) == \E l \in 1..(k - 1) : order[l] = x
           upTo(x) == \E l \in 1..k : order[l] = x
<1>1. DOMAIN options = 1..n /\ \A x \in 1..n : options[x] \in SUBSET rows
  OBVIOUS
<1>2. CandidatesIn(options, rows)
  BY <1>1 DEF CandidatesIn
<1>3. c.row = i /\ c.matched = m /\ c.seen = {} /\ rows \ c.seen = rows
  BY <1>c DEF Call
<1>4. /\ m \in [rows -> {0} \cup (1..n)]
      /\ Stands(options, m, rows)
      /\ \A x \in 1..n : (\E j \in rows : m[j] = x) <=> before(x)
  BY <1>1, <1>a DEF SoFar
<1>5. /\ i \in 1..n /\ ~before(i)
      /\ \A x \in 1..n : upTo(x) <=> x = i \/ before(x)
  <2>1. k \in Nat /\ \A l \in 1..(k - 1) : l \in 1..n /\ l # k
    OBVIOUS
  <2>2. i \in 1..n  BY <1>b
  <2>3. \A l \in 1..k : l = k \/ l \in 1..(k - 1)  BY <2>1
  <2>4. k \in 1..k /\ \A l \in 1..(k - 1) : l \in 1..k  BY <2>1
  <2>5. ~before(i)  BY <1>b, <2>1
  <2> QED  BY <1>b, <2>2, <2>3, <2>4, <2>5
<1> HIDE DEF before, upTo
<1>6. \A j \in rows : m[j] # i
  BY <1>4, <1>5
<1>7. Sound(options, rows, c)
  <2>1. c \in Calls(options, rows)
    BY <1>1, <1>4, <1>5, <1>c DEF Calls, Call
  <2> QED  BY <1>3, <1>4, <1>6, <2>1 DEF Sound
<1>8. Answered(options, rows, c, r)
  BY <1>2, <1>7, <1>d, AssignAnswers
<1>9. i \in DOMAIN options /\ m \in [rows -> {0} \cup DOMAIN options] /\ Stands(options, m, rows)
  BY <1>1, <1>4, <1>5
<1>10. Answered(options, rows, Call(i, m, {}), r)
  BY <1>8, <1>c
<1>11. \/ /\ r.ok
          /\ r.matched \in [rows -> {0} \cup DOMAIN options]
          /\ Stands(options, r.matched, rows)
          /\ \A x \in DOMAIN options :
               (\E j \in rows : r.matched[j] = x) <=> x = i \/ \E j \in rows : m[j] = x
       \/ ~r.ok /\ \A f : ~Pairs(options, rows, f)
  BY <1>2, <1>6, <1>9, <1>10, OneCall
<1>12. \A x \in DOMAIN options : upTo(x) <=> x = i \/ \E j \in rows : m[j] = x
  BY <1>1, <1>4, <1>5
<1>13. SoFar(options, rows, order, k, r)
  <2>1. CASE r.ok
    <3>1. \A x \in DOMAIN options : (\E j \in rows : r.matched[j] = x) <=> upTo(x)
      BY <1>11, <1>12, <2>1
    <3> QED  BY <1>11, <2>1, <3>1 DEF SoFar, upTo
  <2>2. CASE ~r.ok
    BY <1>11, <2>2 DEF SoFar
  <2> QED  BY <2>1, <2>2
<1> QED  BY <1>13, <1>a, <1>b, <1>c, <1>d

LEMMA AllAssigned ==
  ASSUME NEW n \in Nat, NEW rows \in SUBSET Nat, IsFiniteSet(rows), NEW options \in [1..n -> SUBSET rows],
         NEW g, AssignedUpTo(g, Order(options), Assign(options, rows), rows, n)
  PROVE  SoFar(options, rows, Order(options), n, g[n])
<1>a. PICK order : order = Order(options)
  OBVIOUS
<1>b. PICK assign : assign = Assign(options, rows)
  OBVIOUS
<1>1. /\ order \in [1..n -> 1..n]
      /\ \A k, l \in 1..n : order[k] = order[l] => k = l
  BY <1>a, OrderIsAll
<1>2. \A k \in 0..n : g[k] = Assigning(g, order, assign, rows, k)
  BY <1>a, <1>b DEF AssignedUpTo
<1> DEFINE T == {k \in Nat : k <= n => SoFar(options, rows, order, k, g[k])}
<1>3. 0 \in T
  <2>1. g[0] = Returns(TRUE, [j \in rows |-> 0], {})
    <3>1. 0 \in 0..n  OBVIOUS
    <3>2. g[0] = Assigning(g, order, assign, rows, 0)  BY <1>2, <3>1
    <3> QED  BY <3>2 DEF Assigning
  <2> PICK m : m = [j \in rows |-> 0]
    OBVIOUS
  <2>2. g[0].ok = TRUE /\ g[0].matched = m  BY <2>1 DEF Returns
  <2>3. \A j \in rows : m[j] = 0  OBVIOUS
  <2>4. m \in [rows -> {0} \cup DOMAIN options]  OBVIOUS
  <2>5. Stands(options, m, rows)  BY <2>3 DEF Stands
  <2>6. \A x \in DOMAIN options : ~(\E j \in rows : m[j] = x) /\ ~(\E l \in 1..0 : order[l] = x)
    <3>1. \A x \in DOMAIN options : x # 0  OBVIOUS
    <3>2. 1..0 = {}  OBVIOUS
    <3> QED  BY <2>3, <3>1, <3>2
  <2>7. SoFar(options, rows, order, 0, g[0])
    BY <2>2, <2>4, <2>5, <2>6 DEF SoFar
  <2> QED  BY <2>7
<1>4. ASSUME NEW k \in T PROVE k + 1 \in T
  <2>0. k \in Nat /\ k + 1 \in Nat /\ (k + 1) - 1 = k /\ k + 1 # 0  OBVIOUS
  <2> SUFFICES ASSUME k + 1 <= n PROVE SoFar(options, rows, order, k + 1, g[k + 1])
    BY <2>0
  <2>1. k <= n /\ k + 1 \in 0..n /\ k + 1 \in 1..n  BY <2>0
  <2>2. SoFar(options, rows, order, k, g[k])  BY <2>1
  <2> HIDE DEF T
  <2>3. g[k + 1] = IF ~g[k].ok THEN g[k] ELSE assign[Call(order[k + 1], g[k].matched, {})]
    BY <1>2, <2>0, <2>1 DEF Assigning
  <2>4. CASE g[k].ok
    <3>1. SoFar(options, rows, order, (k + 1) - 1, g[k])  BY <2>0, <2>2
    <3>2. SoFar(options, rows, order, k + 1, Assign(options, rows)[Call(order[k + 1], g[k].matched, {})])
      BY <1>1, <2>1, <2>4, <3>1, OneMore
    <3> QED  BY <1>b, <2>3, <2>4, <3>2
  <2>5. CASE ~g[k].ok
    <3>1. g[k + 1] = g[k]  BY <2>3, <2>5
    <3>2. ~g[k].ok /\ \A f : ~Pairs(options, rows, f)  BY <2>2, <2>5 DEF SoFar
    <3> QED  BY <3>1, <3>2 DEF SoFar
  <2> QED  BY <2>4, <2>5
<1> HIDE DEF T
<1>5. T = Nat
  <2>1. T \in SUBSET Nat  BY DEF T
  <2> QED  BY <1>3, <1>4, <2>1, CountingUp
<1>6. SoFar(options, rows, order, n, g[n])
  <2>1. n <= n  OBVIOUS
  <2> QED  BY <1>5, <2>1 DEF T
<1> QED  BY <1>a, <1>6

\* When all are assigned, the rows they have are a way to pair them.
LEMMA AllPlaced ==
  ASSUME NEW n \in Nat, NEW rows \in SUBSET Nat, IsFiniteSet(rows), NEW options \in [1..n -> SUBSET rows],
         NEW order, \A i \in 1..n : \E k \in 1..n : order[k] = i,
         NEW r, SoFar(options, rows, order, n, r)
  PROVE  r.ok <=> \E f : Pairs(options, rows, f)
<1>2. CASE ~r.ok
  BY <1>2 DEF SoFar
<1>3. CASE r.ok
  <2> PICK m : m = r.matched
    OBVIOUS
  <2>1. /\ m \in [rows -> {0} \cup DOMAIN options] /\ Stands(options, m, rows)
        /\ \A x \in DOMAIN options : (\E j \in rows : m[j] = x) <=> \E l \in 1..n : order[l] = x
    BY <1>3 DEF SoFar
  <2>2. \A x \in 1..n : \E j \in rows : m[j] = x
    BY <2>1
  <2> PICK f : f = [x \in 1..n |-> CHOOSE j \in rows : m[j] = x]
    OBVIOUS
  <2>3. \A x \in 1..n : f[x] \in rows /\ m[f[x]] = x
    BY <2>2
  <2>4. DOMAIN options = 1..n  OBVIOUS
  <2>5. f \in [DOMAIN options -> rows]  BY <2>3, <2>4
  <2>6. \A x, y \in 1..n : f[x] = f[y] => x = y
    BY <2>3
  <2>7. \A x \in 1..n : f[x] \in options[x]
    <3> SUFFICES ASSUME NEW x \in 1..n PROVE f[x] \in options[x]
      OBVIOUS
    <3>0. x # 0  OBVIOUS
    <3>1. f[x] \in rows /\ m[f[x]] = x  BY <2>3
    <3>2. \A j \in rows : m[j] # 0 => j \in options[m[j]]  BY <2>1 DEF Stands
    <3> QED  BY <3>0, <3>1, <3>2
  <2>8. Pairs(options, rows, f)
    BY <2>4, <2>5, <2>6, <2>7 DEF Pairs
  <2> QED  BY <1>3, <2>8
<1> QED  BY <1>2, <1>3

LEMMA MatchIsPairing ==
  ASSUME NEW es \in Seq(AnyRow), NEW as \in Seq(AnyRow)
  PROVE  ValueRowsMatch(es, as) <=> Len(es) = Len(as) /\ Pairing(es, as)
<1>0. /\ Len(es) \in Nat /\ DOMAIN es = 1..Len(es) /\ Len(as) \in Nat /\ DOMAIN as = 1..Len(as)
  BY LenProperties
<1> DEFINE n == Len(es)
           rows == DOMAIN as
           options == Candidates(es, as)
<1>1. rows \in SUBSET Nat /\ IsFiniteSet(rows)
  <2> PICK m \in Nat : m = Len(as)
    BY <1>0
  <2>1. IsFiniteSet(1..m)
    <3>1. 1 \in Int /\ m \in Int  OBVIOUS
    <3> QED  BY <3>1, FS_Interval, Zenon
  <2>2. 1..m \in SUBSET Nat
    <3>1. \A x \in 1..m : x \in Nat  OBVIOUS
    <3> QED  BY <3>1, Zenon
  <2>3. rows = 1..m  BY <1>0
  <2> QED  BY <2>1, <2>2, <2>3
<1>2. /\ options \in [1..n -> SUBSET rows]
      /\ \A i \in DOMAIN es, j \in rows : j \in options[i] <=> Covers(es[i], as[j])
  BY <1>0 DEF Candidates
<1> DEFINE g == CHOOSE h : AssignedUpTo(h, Order(options), Assign(options, rows), rows, n)
<1>3. ValueRowsMatch(es, as) <=> Len(es) = Len(as) /\ (\A i \in DOMAIN es : options[i] # {}) /\ g[n].ok
  BY DEF ValueRowsMatch, AssignedUpTo, Assigning
<1>4. AssignedUpTo(g, Order(options), Assign(options, rows), rows, n)
  BY <1>0, AssignedExists
<1> HIDE DEF g, options, rows
<1>5. g[n].ok <=> \E f : Pairs(options, rows, f)
  <2>1. SoFar(options, rows, Order(options), n, g[n])
    BY <1>0, <1>1, <1>2, <1>4, AllAssigned
  <2>2. \A i \in 1..n : \E k \in 1..n : Order(options)[k] = i
    BY <1>0, <1>1, <1>2, OrderIsAll
  <2> QED  BY <1>0, <1>1, <1>2, <2>1, <2>2, AllPlaced
<1>6. DOMAIN options = DOMAIN es  BY <1>0, <1>2
<1>7. Pairing(es, as) <=> \E f : Pairs(options, rows, f)
  <2>1. ASSUME NEW f PROVE Pairs(options, rows, f) <=>
          /\ f \in [DOMAIN es -> DOMAIN as]
          /\ \A i, j \in DOMAIN es : f[i] = f[j] => i = j
          /\ \A i \in DOMAIN es : Covers(es[i], as[f[i]])
    <3>1. CASE f \in [DOMAIN es -> DOMAIN as]
      <4>1. \A i \in DOMAIN es : f[i] \in options[i] <=> Covers(es[i], as[f[i]])
        BY <1>2, <3>1 DEF rows
      <4> QED  BY <1>6, <3>1, <4>1 DEF Pairs, rows
    <3>2. CASE f \notin [DOMAIN es -> DOMAIN as]
      BY <1>6, <3>2 DEF Pairs, rows
    <3> QED  BY <3>1, <3>2
  <2> QED  BY <2>1 DEF Pairing
<1>8. (\E f : Pairs(options, rows, f)) => \A i \in DOMAIN es : options[i] # {}
  BY <1>6 DEF Pairs
<1> QED  BY <1>3, <1>5, <1>7, <1>8

\* A row has its own values.
LEMMA CoversItself ==
  ASSUME NEW e \in AnyRow
  PROVE  Covers(e, e)
<1>1. RowTable \in Seq(Rows) /\ IsFiniteSet(Columns)  BY ComparisonAssumption
<1>2. DOMAIN RowTable = 1..Len(RowTable)  BY <1>1, LenProperties
<1>3. RowTable[e] \in Rows  BY <1>1, ElementOfSeq DEF AnyRow
<1>4. DOMAIN RowTable[e] \in SUBSET Columns  BY <1>3 DEF Rows
<1> SUFFICES ASSUME NEW v \in Values PROVE Signature[e][v] >= Signature[e][v]
  BY DEF Covers
<1> DEFINE cells == {c \in DOMAIN RowTable[e] : RowTable[e][c] = v}
<1>5. cells \in SUBSET Columns  BY <1>4
<1>6. Signature[e][v] = Cardinality(cells)  BY DEF Signature
<1> HIDE DEF cells
<1>7. Cardinality(cells) \in Nat
  <2>1. IsFiniteSet(cells)  BY <1>1, <1>5, FS_Subset
  <2> QED  BY <2>1, FS_CardinalityType
<1> QED  BY <1>6, <1>7

ComparisonInv ==
  /\ expected.rows \in Seq(AnyRow) /\ answer.rows \in Seq(AnyRow)
  /\ compared \in {<<>>, <<Comparison(expected, answer)>>}

LEMMA ListsAreRows ==
  ASSUME NEW n \in Nat, NEW S \in SUBSET AnyRow, NEW rows \in Lists(S, n)
  PROVE  rows \in Seq(AnyRow) /\ Len(rows) = n
<1>1. rows \in [1..n -> AnyRow]  BY DEF Lists
<1> QED  BY <1>1

LEMMA ComparisonStarts == ComparisonInit => ComparisonInv
<1> SUFFICES ASSUME ComparisonInit PROVE ComparisonInv
  OBVIOUS
<1>0. MaxRows \in Nat  BY ComparisonAssumption
<1>1. expected.rows \in Seq(AnyRow) /\ Len(expected.rows) \in Nat
  <2>1. PICK n \in 0..MaxRows : \E rows \in Snapshots(n) : expected = Result(StatusOf(rows), rows)
    BY DEF ComparisonInit
  <2>2. PICK rows \in Snapshots(n) : expected = Result(StatusOf(rows), rows)
    BY <2>1
  <2>3. rows \in Seq(AnyRow) /\ Len(rows) = n
    <3>1. (IF n = MaxRows THEN Narrow ELSE AnyRow) \in SUBSET AnyRow  BY DEF Narrow
    <3>2. n \in Nat  BY <1>0
    <3> QED  BY <3>1, <3>2, ListsAreRows DEF Snapshots
  <2>4. expected.rows = rows  BY <2>2 DEF Result
  <2> QED  BY <1>0, <2>3, <2>4
<1>2. answer.rows \in Seq(AnyRow)
  <2>1. PICK n \in {Len(expected.rows), MaxRows - 1} : \E rows \in Results(n) :
          answer \in {Result(StatusOf(rows), rows), Result("failed", <<>>)}
    BY DEF ComparisonInit
  <2>2. PICK rows \in Results(n) :
          answer \in {Result(StatusOf(rows), rows), Result("failed", <<>>)}
    BY <2>1
  <2>3. rows \in Seq(AnyRow)
    <3>1. rows \in [1..n -> AnyRow] /\ n \in Int  BY <1>0, <1>1 DEF Results, Lists
    <3>2. CASE n \in Nat  BY <3>1, <3>2
    <3>3. CASE n \notin Nat
      <4>1. 1..n = {}  BY <3>1, <3>3
      <4>2. rows = <<>>  BY <3>1, <4>1
      <4> QED  BY <4>2
    <3> QED  BY <3>2, <3>3
  <2>4. answer.rows \in {rows, <<>>}
    <3>1. CASE answer = Result(StatusOf(rows), rows)  BY <3>1 DEF Result
    <3>2. CASE answer = Result("failed", <<>>)  BY <3>2 DEF Result
    <3> QED  BY <2>2, <3>1, <3>2
  <2> QED  BY <2>3, <2>4, EmptySeq
<1> QED  BY <1>1, <1>2 DEF ComparisonInit, ComparisonInv

LEMMA ComparisonStep == ComparisonInv /\ [ComparisonNext]_comparisonVars => ComparisonInv'
BY DEF ComparisonInv, ComparisonNext, Compare, comparisonVars

\* An answer is accepted exactly when its status is the expected one and its
\* rows can be paired with those of the snapshot, for any rows and however
\* many: the augmenting paths of assign never miss a pairing that exists.
THEOREM AcceptedArePaired == ComparisonSpec => []AcceptedIsPaired
<1>1. ComparisonInv => AcceptedIsPaired
  <2> SUFFICES ASSUME ComparisonInv, compared # <<>> PROVE AcceptedIsPaired
    BY DEF AcceptedIsPaired
  <2> DEFINE es == expected.rows
             as == answer.rows
             seen == compared[1]
  <2>1. es \in Seq(AnyRow) /\ as \in Seq(AnyRow) /\ seen = Comparison(expected, answer)
    BY DEF ComparisonInv
  <2>2. ValueRowsMatch(es, as) <=> Len(es) = Len(as) /\ Pairing(es, as)
    BY <2>1, MatchIsPairing
  <2>c. PICK c : c = Comparison(expected, answer)
    OBVIOUS
  <2>a. /\ c.match = (Identity(expected, answer) /\ ValueRowsMatch(es, as))
        /\ c.strict = (Identity(expected, answer) /\ es = as)
    BY <2>c DEF Comparison
  <2>b. seen = c  BY <2>1, <2>c
  <2> HIDE DEF seen
  <2>3. seen.match <=> Identity(expected, answer) /\ ValueRowsMatch(es, as)
    BY <2>a, <2>b
  <2>4. seen.strict <=> Identity(expected, answer) /\ es = as
    BY <2>a, <2>b
  <2>5. seen.match <=> /\ answer.status = expected.status /\ Len(as) = Len(es)
                       /\ Pairing(es, as)
    BY <2>2, <2>3 DEF Identity
  <2>6. es = as => Pairing(es, as)
    <3> SUFFICES ASSUME es = as PROVE Pairing(es, es)
      OBVIOUS
    <3>1. DOMAIN es = 1..Len(es) /\ \A i \in DOMAIN es : es[i] \in AnyRow
      BY <2>1, LenProperties, ElementOfSeq
    <3> PICK s : s = es
      OBVIOUS
    <3> PICK f : f = [i \in DOMAIN s |-> i]
      OBVIOUS
    <3>2. f \in [DOMAIN s -> DOMAIN s] /\ \A i \in DOMAIN s : f[i] = i  OBVIOUS
    <3>3. \A i \in DOMAIN s : Covers(s[i], s[f[i]])  BY <3>1, <3>2, CoversItself
    <3> QED  BY <3>2, <3>3 DEF Pairing
  <2>7. seen.strict => seen.match  BY <2>4, <2>5, <2>6 DEF Identity
  <2> QED  BY <2>5, <2>7 DEF AcceptedIsPaired, seen
<1> QED  BY <1>1, ComparisonStarts, ComparisonStep, PTL DEF ComparisonSpec

(***************************************************************************)
(* The summary of the scores.                                              *)
(***************************************************************************)

\* Numbers that count the members of D by a property c of theirs add up to
\* the number of members.
LEMMA TotalOfParts ==
  ASSUME NEW D, IsFiniteSet(D), NEW S, NEW c, \A i \in D : c[i] \in S,
         NEW f, \A x \in S : f[x] = Cardinality({i \in D : c[i] = x})
  PROVE  Total(f, S) = Cardinality(D)
<1> DEFINE part(x) == {i \in D : c[i] = x}
           P == UNION {{x} \X (1..f[x]) : x \in S}
           e == [x \in S |-> CHOOSE b : b \in Bijection(1..f[x], part(x))]
           h == [p \in P |-> e[p[1]][p[2]]]
<1>1. \A x \in S : e[x] \in Bijection(1..f[x], part(x))
  <2> SUFFICES ASSUME NEW x \in S PROVE e[x] \in Bijection(1..f[x], part(x))
    OBVIOUS
  <2>1. part(x) \in SUBSET D  OBVIOUS
  <2>2. f[x] = Cardinality(part(x))  OBVIOUS
  <2> HIDE DEF part
  <2>3. IsFiniteSet(part(x))  BY <2>1, FS_Subset
  <2>4. ExistsBijection(1..f[x], part(x))  BY <2>2, <2>3, FS_CardinalityType
  <2>5. \E b : b \in Bijection(1..f[x], part(x))  BY <2>4 DEF ExistsBijection
  <2>6. e[x] = CHOOSE b : b \in Bijection(1..f[x], part(x))  OBVIOUS
  <2> QED  BY <2>5, <2>6
<1>2. \A x \in S : /\ \A k \in 1..f[x] : e[x][k] \in part(x)
                   /\ \A k, l \in 1..f[x] : e[x][k] = e[x][l] => k = l
                   /\ \A i \in part(x) : \E k \in 1..f[x] : e[x][k] = i
  <2> HIDE DEF e, part
  <2> QED  BY <1>1 DEF Bijection, Injection, Surjection, IsInjective
<1>3. \A p \in P : p = <<p[1], p[2]>> /\ p[1] \in S /\ p[2] \in 1..f[p[1]]
  OBVIOUS
<1>4. \A x \in S : \A k \in 1..f[x] : <<x, k>> \in P
  OBVIOUS
<1>5. \A i \in D : i \in part(c[i])
  OBVIOUS
<1>6. \A x \in S : \A i \in part(x) : i \in D /\ c[i] = x
  OBVIOUS
<1>7. h = [p \in P |-> e[p[1]][p[2]]]
  OBVIOUS
<1>8. Total(f, S) = Cardinality(P)
  BY DEF Total
<1> HIDE DEF part, P, e, h
<1>9. h \in [P -> D]
  BY <1>2, <1>3, <1>6, <1>7
<1>10. \A p, q \in P : h[p] = h[q] => p = q
  <2> SUFFICES ASSUME NEW p \in P, NEW q \in P, h[p] = h[q] PROVE p = q
    OBVIOUS
  <2>1. h[p] \in part(p[1]) /\ h[q] \in part(q[1])  BY <1>2, <1>3, <1>7
  <2>2. p[1] = q[1]  BY <1>3, <1>6, <2>1
  <2>3. e[p[1]][p[2]] = e[p[1]][q[2]]  BY <1>7, <2>2
  <2>4. p[1] \in S /\ p[2] \in 1..f[p[1]] /\ q[2] \in 1..f[p[1]]  BY <1>3, <2>2
  <2>5. p[2] = q[2]  BY <1>2, <2>3, <2>4
  <2> QED  BY <1>3, <2>2, <2>5
<1>11. \A i \in D : \E p \in P : h[p] = i
  <2> SUFFICES ASSUME NEW i \in D PROVE \E p \in P : h[p] = i
    OBVIOUS
  <2>1. c[i] \in S /\ i \in part(c[i])  BY <1>5
  <2>2. PICK k \in 1..f[c[i]] : e[c[i]][k] = i  BY <1>2, <2>1
  <2>3. PICK p \in P : p = <<c[i], k>>  BY <1>4, <2>1, <2>2
  <2>4. h[p] = e[p[1]][p[2]] /\ p[1] = c[i] /\ p[2] = k  BY <1>7, <2>3
  <2> QED  BY <2>2, <2>4
<1>12. h \in Injection(P, D)  BY <1>9, <1>10 DEF Injection, IsInjective
<1>13. h \in Surjection(P, D)  BY <1>9, <1>11 DEF Surjection
<1>14. Cardinality(P) = Cardinality(D)  BY <1>12, <1>13, FS_Injection
<1> QED  BY <1>8, <1>14

\* What holds of one score: the measures, the failure and the difference agree.
ScoreAgrees(s) ==
  /\ {"match", "strict", "read_only"} \subseteq s.applies
  /\ "match" \in s.holds => s.failure \notin FailureTypes /\ s.expected = s.actual
  /\ "match" \notin s.holds => s.failure \in FailureTypes
  /\ s.difference = "exact" <=> "strict" \in s.holds
  /\ s.difference = "column_alias_or_extra_field"
       <=> "match" \in s.holds /\ "strict" \notin s.holds
  /\ "strict" \in s.holds => "match" \in s.holds
  /\ "read_only" \in s.holds
  /\ "verified" \in s.applies => "verified" \in s.holds

LEMMA FinalsExecute ==
  ASSUME NEW final \in FinalStates
  PROVE  /\ final.executed => final.status # "blocked"
         /\ final.status \in Snapshotted => final.executed
  BY DEF FinalStates, Ended, Snapshotted

LEMMA FailuresAreTyped ==
  ASSUME NEW due, NEW final, NEW match \in BOOLEAN
  PROVE  /\ match => FailureType(due, final, match) \notin FailureTypes
         /\ ~match => FailureType(due, final, match) \in FailureTypes
<1>1. CASE match
  <2>1. FailureType(due, final, match) = "none"  BY <1>1 DEF FailureType
  <2> QED  BY <1>1, <2>1 DEF FailureTypes
<1>2. CASE ~match
  <2>1. FailureType(due, final, match) \in
          {"generation_error", "empty_query", "unsafe_query", "syntax_or_schema_error",
           "semantic_validation_error", "execution_error", "wrong_status", "missing_evidence",
           "wrong_value_or_rowset"}
    BY <1>2 DEF FailureType
  <2> QED  BY <1>2, <2>1 DEF FailureTypes
<1> QED  BY <1>1, <1>2

LEMMA ScoresAgree ==
  ASSUME NEW due \in Expected, NEW final \in FinalStates, NEW agreement \in Agreement,
         NEW corrected \in BOOLEAN
  PROVE  ScoreAgrees(Score(due, final, agreement, corrected))
<1> DEFINE s == Score(due, final, agreement, corrected)
           seen == Compares(due, final, agreement)
<1>1. seen.match \in BOOLEAN /\ seen.strict \in BOOLEAN /\ (seen.strict => seen.match)
  BY DEF Compares, Agreement
<1>2. seen.match => final.status = due
  BY DEF Compares
<1>3. s.expected = due /\ s.actual = final.status /\ s.failure = FailureType(due, final, seen.match)
  BY DEF Score
<1>4. s.difference = CASE seen.strict -> "exact"
                       [] seen.match /\ ~seen.strict -> "column_alias_or_extra_field"
                       [] OTHER -> "wrong_value_or_rowset"
  BY DEF Score
<1>5. /\ {"match", "strict", "read_only"} \subseteq s.applies
      /\ "verified" \in s.applies <=> final.status \in Snapshotted
      /\ "match" \in s.holds <=> seen.match
      /\ "strict" \in s.holds <=> seen.strict
      /\ "read_only" \in s.holds <=> ~(final.executed /\ final.status = "blocked")
      /\ "verified" \in s.holds <=> final.executed
  BY DEF Score
<1> HIDE DEF s, seen
<1>6. s.difference = "exact" <=> seen.strict
  BY <1>1, <1>4
<1>7. s.difference = "column_alias_or_extra_field" <=> seen.match /\ ~seen.strict
  BY <1>1, <1>4
<1>8. ScoreAgrees(s)
  BY <1>1, <1>2, <1>3, <1>5, <1>6, <1>7, FinalsExecute, FailuresAreTyped DEF ScoreAgrees
<1> QED  BY <1>8 DEF s

\* The scores a variant can have, and the invariant: a summary is that of the
\* scores there are.
Scorings ==
  {Score(due, final, agreement, corrected) :
     due \in Expected, final \in FinalStates, agreement \in Agreement, corrected \in BOOLEAN}
SummaryInv ==
  /\ scores \in Seq(Scorings)
  /\ summary # <<>> => summary = <<Summarized>>

LEMMA SummaryStarts == ScoresInit => SummaryInv
  BY DEF ScoresInit, SummaryInv

LEMMA SummaryStep == SummaryInv /\ [ScoresNext]_scoreVars => SummaryInv'
<1> SUFFICES ASSUME SummaryInv, [ScoresNext]_scoreVars PROVE SummaryInv'
  OBVIOUS
<1>1. ASSUME NEW due \in Expected, NEW final \in FinalStates, NEW agreement \in Agreement,
             NEW corrected \in BOOLEAN, EvaluateQuestion(due, final, agreement, corrected)
      PROVE  SummaryInv'
  <2> DEFINE s == Score(due, final, agreement, corrected)
  <2>1. s \in Scorings  BY DEF Scorings
  <2>2. scores' = Append(scores, s) /\ summary' = <<>>
    BY <1>1 DEF EvaluateQuestion
  <2> HIDE DEF s
  <2>3. scores' \in Seq(Scorings)  BY <2>1, <2>2 DEF SummaryInv
  <2> QED  BY <2>2, <2>3 DEF SummaryInv
<1>2. CASE SummarizeResults
  <2>1. scores' = scores /\ summary' = <<Summarized>>  BY <1>2 DEF SummarizeResults
  <2>2. Summarized' = Summarized
    BY <2>1 DEF Summarized, Rate, ConfusionMatrix, Observed, AllScores
  <2> QED  BY <2>1, <2>2 DEF SummaryInv
<1>3. CASE UNCHANGED scoreVars
  <2>1. scores' = scores /\ summary' = summary  BY <1>3 DEF scoreVars
  <2>2. Summarized' = Summarized
    BY <2>1 DEF Summarized, Rate, ConfusionMatrix, Observed, AllScores
  <2> QED  BY <2>1, <2>2 DEF SummaryInv
<1> QED  BY <1>1, <1>2, <1>3 DEF ScoresNext

LEMMA ScoresAreFinite ==
  ASSUME SummaryInv
  PROVE  /\ IsFiniteSet(AllScores) /\ Cardinality(AllScores) = Len(scores)
         /\ \A i \in AllScores : ScoreAgrees(scores[i])
<1>1. AllScores = 1..Len(scores) /\ Len(scores) \in Nat
  BY DEF SummaryInv, AllScores
<1>2. \A i \in AllScores : scores[i] \in Scorings
  BY <1>1 DEF SummaryInv
<1>3. \A i \in AllScores : ScoreAgrees(scores[i])
  BY <1>2, ScoresAgree DEF Scorings
<1>4. \A k \in Nat : IsFiniteSet(1..k) /\ Cardinality(1..k) = k
  <2> SUFFICES ASSUME NEW k \in Nat PROVE IsFiniteSet(1..k) /\ Cardinality(1..k) = k
    OBVIOUS
  <2>1. 1 \in Int /\ k \in Int  OBVIOUS
  <2>2. IsFiniteSet(1..k) /\ Cardinality(1..k) = IF 1 > k THEN 0 ELSE k - 1 + 1
    BY <2>1, FS_Interval
  <2> QED  BY <2>2
<1> QED  BY <1>1, <1>3, <1>4

\* The answers that measure holds of, where every score has it.
Having(measure) == {i \in AllScores : measure \in scores[i].holds}

LEMMA RatesCount ==
  ASSUME SummaryInv, NEW measure \in {"match", "strict", "read_only"}
  PROVE  Rate(measure).count = Cardinality(Having(measure))
<1>1. \A i \in AllScores : measure \in scores[i].applies
  BY ScoresAreFinite DEF ScoreAgrees
<1>2. {i \in {i \in AllScores : measure \in scores[i].applies} : measure \in scores[i].holds}
        = Having(measure)
  BY <1>1 DEF Having
<1> QED  BY <1>2 DEF Rate

LEMMA SummaryParts ==
  ASSUME SummaryInv
  PROVE  /\ Summarized.questions = Len(scores)
         /\ \A m \in Measures : Summarized.rates[m] = Rate(m)
         /\ \A f \in FailureTypes :
              Summarized.failures[f] = Cardinality({i \in AllScores : scores[i].failure = f})
         /\ \A d \in Differences :
              Summarized.differences[d] = Cardinality({i \in AllScores : scores[i].difference = d})
         /\ Summarized.matrix = ConfusionMatrix
         /\ DOMAIN Summarized.matrix = Observed
  BY DEF Summarized, ConfusionMatrix

\* Every question is an answer accepted or a failure of one type.
LEMMA AnswersAndFailures ==
  ASSUME SummaryInv
  PROVE  Summarized.rates["match"].count + Total(Summarized.failures, FailureTypes)
           = Summarized.questions
<1> DEFINE M == Having("match")
           D == AllScores \ M
           c == [i \in D |-> scores[i].failure]
           f == Summarized.failures
<1>1. M \subseteq AllScores /\ D \subseteq AllScores
  BY DEF Having
<1>2. IsFiniteSet(M) /\ IsFiniteSet(D)
  BY <1>1, FS_Subset, ScoresAreFinite
<1>3. \A i \in D : c[i] \in FailureTypes
  BY ScoresAreFinite DEF ScoreAgrees, Having
<1>4. \A i \in M : scores[i].failure \notin FailureTypes
  BY ScoresAreFinite DEF ScoreAgrees, Having
<1>5. \A x \in FailureTypes : {i \in AllScores : scores[i].failure = x} = {i \in D : c[i] = x}
  <2> SUFFICES ASSUME NEW x \in FailureTypes
               PROVE {i \in AllScores : scores[i].failure = x} = {i \in D : c[i] = x}
    OBVIOUS
  <2> HIDE DEF M
  <2> QED  BY <1>1, <1>4
<1>6. \A x \in FailureTypes : f[x] = Cardinality({i \in D : c[i] = x})
  BY <1>5, SummaryParts
<1> HIDE DEF f, c, D, M
<1>7. Total(f, FailureTypes) = Cardinality(D)
  BY <1>2, <1>3, <1>6, TotalOfParts
<1>8. Summarized.rates["match"].count = Cardinality(M)
  BY SummaryParts, RatesCount DEF Measures, M
<1>9. Cardinality(M) + Cardinality(D) = Cardinality(AllScores)
  <2>1. M \cup D = AllScores /\ M \cap D = {}  BY <1>1 DEF D
  <2>2. Cardinality(M \cup D) = Cardinality(M) + Cardinality(D) - Cardinality(M \cap D)
    BY <1>2, FS_Union
  <2>3. Cardinality(M) \in Nat /\ Cardinality(D) \in Nat  BY <1>2, FS_CardinalityType
  <2>4. Cardinality(M \cap D) = 0  BY <2>1, FS_EmptySet
  <2>5. Cardinality(M \cup D) = Cardinality(AllScores)  BY <2>1
  <2> QED  BY <2>2, <2>3, <2>4, <2>5
<1> QED  BY <1>7, <1>8, <1>9, ScoresAreFinite, SummaryParts DEF f

\* The accepted answers lie on the diagonal of the confusion matrix.
LEMMA AcceptedOnDiagonal ==
  ASSUME SummaryInv
  PROVE  Summarized.rates["match"].count
           <= Total([x \in Observed |-> ConfusionMatrix[x][x]], Observed)
<1> DEFINE M == Having("match")
           D == {i \in AllScores : scores[i].expected = scores[i].actual}
           c == [i \in D |-> scores[i].expected]
           f == [x \in Observed |-> ConfusionMatrix[x][x]]
<1>1. M \subseteq D /\ D \subseteq AllScores
  BY ScoresAreFinite DEF Having, ScoreAgrees
<1>2. IsFiniteSet(D)  BY <1>1, FS_Subset, ScoresAreFinite
<1>3. \A i \in D : c[i] \in Observed  BY DEF Observed
<1>4. \A x \in Observed : {i \in AllScores : scores[i].expected = x /\ scores[i].actual = x}
                            = {i \in D : c[i] = x}
  OBVIOUS
<1>5. \A x \in Observed :
        ConfusionMatrix[x][x]
          = Cardinality({i \in AllScores : scores[i].expected = x /\ scores[i].actual = x})
  BY DEF ConfusionMatrix
<1>6. \A x \in Observed : f[x] = Cardinality({i \in D : c[i] = x})
  BY <1>4, <1>5
<1>7. Summarized.rates["match"].count = Cardinality(M)
  BY SummaryParts, RatesCount DEF Measures
<1>8. Cardinality(M) <= Cardinality(D)  BY <1>1, <1>2, FS_Subset
<1>9. Total(f, Observed) = Cardinality(D)
  <2> HIDE DEF f, c, D
  <2> QED  BY <1>2, <1>3, <1>6, TotalOfParts
<1> QED  BY <1>7, <1>8, <1>9

\* The answers to the questions that expect e, and their row of the matrix.
Expecting(e) == {i \in AllScores : scores[i].expected = e}

LEMMA RowCounts ==
  ASSUME SummaryInv, NEW e \in Observed, NEW D, D = Expecting(e)
  PROVE  Total(ConfusionMatrix[e], Observed) = Cardinality(D)
<1> DEFINE c == [i \in D |-> scores[i].actual]
           f == [x \in Observed |-> ConfusionMatrix[e][x]]
<1>1. D \subseteq AllScores  BY DEF Expecting
<1>2. IsFiniteSet(D)  BY <1>1, FS_Subset, ScoresAreFinite
<1>3. \A i \in D : c[i] \in Observed  BY DEF Observed, Expecting
<1>4. \A x \in Observed : {i \in AllScores : scores[i].expected = e /\ scores[i].actual = x}
                            = {i \in D : c[i] = x}
  BY DEF Expecting
<1>5. \A x \in Observed : f[x]
        = Cardinality({i \in AllScores : scores[i].expected = e /\ scores[i].actual = x})
  BY DEF ConfusionMatrix
<1>6. \A x \in Observed : f[x] = Cardinality({i \in D : c[i] = x})  BY <1>4, <1>5
<1>7. f = ConfusionMatrix[e]  BY DEF ConfusionMatrix
<1>8. Total(f, Observed) = Cardinality(D)
  <2> HIDE DEF f, c
  <2> QED  BY ONLY <1>2, <1>3, <1>6, TotalOfParts
<1> QED  BY <1>7, <1>8

\* Every question is in one cell of the confusion matrix.
LEMMA MatrixCountsAll ==
  ASSUME SummaryInv
  PROVE  Total([x \in Observed |-> Total(ConfusionMatrix[x], Observed)], Observed) = Len(scores)
<1> DEFINE D == AllScores
           c == [i \in D |-> scores[i].expected]
           f == [x \in Observed |-> Total(ConfusionMatrix[x], Observed)]
<1>1. IsFiniteSet(D)  BY ScoresAreFinite
<1>2. \A i \in D : c[i] \in Observed  BY DEF Observed
<1>3. \A x \in Observed : Expecting(x) = {i \in D : c[i] = x}  BY DEF Expecting
<1>4. \A x \in Observed : f[x] = Cardinality(Expecting(x))  BY RowCounts
<1>5. \A x \in Observed : f[x] = Cardinality({i \in D : c[i] = x})  BY <1>3, <1>4
<1>6. Total(f, Observed) = Cardinality(D)
  <2> HIDE DEF f, c, D
  <2> QED  BY <1>1, <1>2, <1>5, TotalOfParts
<1> QED  BY <1>6, ScoresAreFinite

\* An answer that differs in its columns only is accepted and not exact.
LEMMA DifferencesCount ==
  ASSUME SummaryInv
  PROVE  /\ Summarized.differences["exact"] = Summarized.rates["strict"].count
         /\ Summarized.differences["exact"]
              + Summarized.differences["column_alias_or_extra_field"]
              = Summarized.rates["match"].count
<1> DEFINE M == Having("match")
           E == Having("strict")
           A == {i \in AllScores : scores[i].difference = "column_alias_or_extra_field"}
<1>1. {i \in AllScores : scores[i].difference = "exact"} = E
  BY ScoresAreFinite DEF ScoreAgrees, Having
<1>2. E \cup A = M /\ E \cap A = {}
  BY ScoresAreFinite DEF ScoreAgrees, Having
<1>3. E \subseteq AllScores /\ A \subseteq AllScores  BY DEF Having
<1>4. Summarized.differences["exact"] = Cardinality(E)
  BY <1>1, SummaryParts DEF Differences
<1>5. Summarized.differences["column_alias_or_extra_field"] = Cardinality(A)
  BY SummaryParts DEF Differences
<1>6. Summarized.rates["strict"].count = Cardinality(E)
  BY SummaryParts, RatesCount DEF Measures
<1>7. Summarized.rates["match"].count = Cardinality(M)
  BY SummaryParts, RatesCount DEF Measures
<1> HIDE DEF M, E, A
<1>8. IsFiniteSet(E) /\ IsFiniteSet(A)  BY <1>3, FS_Subset, ScoresAreFinite
<1>9. Cardinality(E) + Cardinality(A) = Cardinality(M)
  <2>1. Cardinality(E \cup A) = Cardinality(E) + Cardinality(A) - Cardinality(E \cap A)
    BY <1>8, FS_Union
  <2>2. Cardinality(E) \in Nat /\ Cardinality(A) \in Nat  BY <1>8, FS_CardinalityType
  <2>3. Cardinality(E \cap A) = 0  BY <1>2, FS_EmptySet
  <2>4. Cardinality(E \cup A) = Cardinality(M)  BY <1>2
  <2> QED  BY <2>1, <2>2, <2>3, <2>4
<1> QED  BY <1>4, <1>5, <1>6, <1>7, <1>9

\* Nothing was written, and what is shown as executed was verified.
LEMMA AlwaysHold ==
  ASSUME SummaryInv, NEW m \in {"read_only", "verified"}
  PROVE  Summarized.rates[m].count = Summarized.rates[m].of
<1>1. \A i \in AllScores : m \in scores[i].applies => m \in scores[i].holds
  BY ScoresAreFinite DEF ScoreAgrees
<1>2. {i \in {i \in AllScores : m \in scores[i].applies} : m \in scores[i].holds}
        = {i \in AllScores : m \in scores[i].applies}
  BY <1>1
<1>3. Rate(m).count = Rate(m).of  BY <1>2 DEF Rate
<1> QED  BY <1>3, SummaryParts DEF Measures

LEMMA SummaryInvAdds == SummaryInv => SummaryAdds
<1> SUFFICES ASSUME SummaryInv, summary # <<>> PROVE SummaryAdds
  BY DEF SummaryAdds
<1>1. summary[1] = Summarized  BY DEF SummaryInv
<1>2. [x \in DOMAIN Summarized.matrix |-> Summarized.matrix[x][x]]
        = [x \in Observed |-> ConfusionMatrix[x][x]]
  BY SummaryParts
<1>3. [x \in DOMAIN Summarized.matrix |-> Total(Summarized.matrix[x], DOMAIN Summarized.matrix)]
        = [x \in Observed |-> Total(ConfusionMatrix[x], Observed)]
  BY SummaryParts
<1> QED
  BY <1>1, <1>2, <1>3, SummaryParts, AnswersAndFailures, AcceptedOnDiagonal, MatrixCountsAll,
     DifferencesCount, AlwaysHold DEF SummaryAdds

\* evaluator.py:282 and :377: the numbers of a summary agree, whatever the
\* questions were and however many: each rate, each failure type and the
\* confusion matrix count the same answers.
THEOREM SummariesAdd == ScoresSpec => []SummaryAdds
  BY SummaryStarts, SummaryStep, SummaryInvAdds, PTL DEF ScoresSpec
=============================================================================
