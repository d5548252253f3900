----------------------- MODULE Text2CypherAgentProof -----------------------
(***************************************************************************)
(* Proofs about one agent run, for any number of runners, resumes,         *)
(* statements and attempts: what is executed was validated, the evidence   *)
(* shown is true, attempts are bounded, a refused question goes nowhere,   *)
(* and callers whose runners do not overlap get one answer.                *)
(***************************************************************************)
EXTENDS Text2CypherAgent, TLAPS

Executed(e) == {e[i] : i \in DOMAIN e}

Drafting == {"generate", "correct", "validate", "execute"}

\* What holds of every state of the run, wherever it is kept: E is what
\* EXPLAIN accepted, X what was executed, q what the guard finds.
Good(v, E, X, q) ==
  /\ v \in Values
  /\ v.verified # EmptyText => v.verified = v.statement /\ v.verified \in E
  /\ v.status \in Done => /\ v.verified # EmptyText /\ v.statement \in X
                          /\ v.next \in {"finalize", "end"}
  /\ v.evidence => v.status \in Done
  /\ v.attempts <= MaxAttempts
  /\ v.next \in {"guard", "generate", "correct", "validate"} => v.attempts < MaxAttempts
  /\ q # "answerable" => v.next \notin Drafting

AgentInv ==
  /\ question \in Questions
  /\ explained \subseteq Safe
  /\ executed \in Seq(Statements) /\ Executed(executed) \subseteq explained
  /\ question # "answerable" => explained = {}
  /\ live = [r \in Runners |-> live[r]]
  /\ Good(saved, explained, Executed(executed), question)
  /\ Good(answer, explained, Executed(executed), question)
  /\ \A r \in Runners : Good(live[r], explained, Executed(executed), question)

----------------------------------------------------------------------------
\* Executing one more statement adds it to what was executed.
LEMMA ExecutedGrows ==
  ASSUME NEW e \in Seq(Statements), NEW s \in Statements
  PROVE  /\ Append(e, s) \in Seq(Statements)
         /\ Executed(Append(e, s)) = Executed(e) \cup {s}
<1>1. Append(e, s) \in Seq(Statements)
  OBVIOUS
<1>2. /\ DOMAIN e = 1..Len(e) /\ Len(e) \in Nat
      /\ DOMAIN Append(e, s) = 1..(Len(e) + 1)
      /\ Append(e, s)[Len(e) + 1] = s
      /\ \A i \in 1..Len(e) : Append(e, s)[i] = e[i]
  OBVIOUS
<1>3. Executed(Append(e, s)) \subseteq Executed(e) \cup {s}
  <2> SUFFICES ASSUME NEW i \in 1..(Len(e) + 1)
               PROVE  Append(e, s)[i] \in Executed(e) \cup {s}
    BY <1>2 DEF Executed
  <2>1. CASE i \in 1..Len(e)
    BY <1>2, <2>1 DEF Executed
  <2>2. CASE i = Len(e) + 1
    BY <1>2, <2>2
  <2> QED
    BY <1>2, <2>1, <2>2
<1>4. Executed(e) \subseteq Executed(Append(e, s))
  <2> SUFFICES ASSUME NEW i \in 1..Len(e)
               PROVE  e[i] \in Executed(Append(e, s))
    BY <1>2 DEF Executed
  <2>1. i \in 1..(Len(e) + 1) /\ Append(e, s)[i] = e[i]
    BY <1>2
  <2> QED
    BY <1>2, <2>1 DEF Executed
<1>5. s \in Executed(Append(e, s))
  <2>1. Len(e) + 1 \in 1..(Len(e) + 1)
    BY <1>2
  <2> QED
    BY <1>2, <2>1 DEF Executed
<1> QED
  BY <1>1, <1>3, <1>4, <1>5

\* What is known of a state is not lost when more is validated and executed.
LEMMA GoodGrows ==
  ASSUME NEW v, NEW E, NEW X, NEW E2, NEW X2, NEW q,
         Good(v, E, X, q), E \subseteq E2, X \subseteq X2
  PROVE  Good(v, E2, X2, q)
BY DEF Good

\* The states a run starts from, and is absent or about to load in.
LEMMA BaseIsGood ==
  ASSUME NEW E, NEW X, NEW q
  PROVE  /\ Good(BaseState, E, X, q) /\ Good(NoRun, E, X, q)
         /\ Good([NoRun EXCEPT !.next = "load"], E, X, q)
<1>1. EmptyText \in Statements /\ MaxAttempts \in Nat /\ 0 < MaxAttempts
  BY AttemptsAssumption, StatementsAssumption DEF Statements
<1>2. Good(BaseState, E, X, q)
  BY <1>1 DEF Good, BaseState, Values, Nodes, Statuses, Done, Drafting
<1>3. /\ BaseState \in Values /\ BaseState.verified = EmptyText /\ BaseState.status = "running"
      /\ BaseState.attempts = 0 /\ BaseState.evidence = FALSE
  BY <1>1 DEF BaseState, Values, Nodes, Statuses
<1> HIDE DEF BaseState
<1>4. \A n \in {"none", "load"} :
        /\ [BaseState EXCEPT !.next = n] \in Values
        /\ [BaseState EXCEPT !.next = n].verified = EmptyText
        /\ [BaseState EXCEPT !.next = n].status = "running"
        /\ [BaseState EXCEPT !.next = n].attempts = 0
        /\ [BaseState EXCEPT !.next = n].evidence = FALSE
        /\ [BaseState EXCEPT !.next = n].next = n
  BY <1>3 DEF Values
<1>5. \A n \in {"none", "load"} : Good([BaseState EXCEPT !.next = n], E, X, q)
  BY <1>1, <1>4 DEF Good, Done, Drafting
<1>6. Good(NoRun, E, X, q)
  BY <1>5 DEF NoRun
<1>7. [NoRun EXCEPT !.next = "load"] = [BaseState EXCEPT !.next = "load"]
  BY <1>3 DEF NoRun, Values
<1> QED
  BY <1>2, <1>5, <1>6, <1>7

\* A fresh run has executed nothing and carries no hash.
LEMMA AgentInit == Init => AgentInv
<1> SUFFICES ASSUME Init PROVE AgentInv
  OBVIOUS
<1>1. PICK r \in Runners : live = [s \in Runners |-> IF s = r THEN BaseState ELSE NoRun]
  BY DEF Init
<1>2. executed = <<>> /\ explained = {} /\ saved = NoRun /\ answer = NoRun
  BY DEF Init
<1>3. executed \in Seq(Statements) /\ Executed(executed) = {}
  BY <1>2 DEF Executed
<1>4. \A s \in Runners : Good(live[s], explained, Executed(executed), question)
  BY <1>1, BaseIsGood
<1>5. live = [s \in Runners |-> live[s]]
  BY <1>1
<1>6. /\ Good(saved, explained, Executed(executed), question)
      /\ Good(answer, explained, Executed(executed), question)
  BY <1>2, BaseIsGood
<1>7. question \in Questions
  BY DEF Init
<1> QED
  BY <1>2, <1>3, <1>4, <1>5, <1>6, <1>7 DEF AgentInv

----------------------------------------------------------------------------
\* A node that leaves a good state, and only adds to the histories, keeps the
\* invariant.
LEMMA NodeKeepsInv ==
  ASSUME AgentInv, NEW r \in Runners, NEW v, Leaves(r, v), UNCHANGED Environment,
         explained \subseteq explained', explained' \subseteq Safe,
         executed' \in Seq(Statements), Executed(executed) \subseteq Executed(executed'),
         Executed(executed') \subseteq explained',
         question # "answerable" => explained' = {},
         Good(v, explained', Executed(executed'), question)
  PROVE  AgentInv'
<1>1. /\ question' = question /\ saved' = saved /\ answer' = answer
      /\ live' = [live EXCEPT ![r] = v]
  BY DEF Environment, Leaves
<1>2. \A s \in Runners : Good(live[s], explained', Executed(executed'), question)
  BY GoodGrows DEF AgentInv
<1>3. \A s \in Runners : Good(live'[s], explained', Executed(executed'), question')
  BY <1>1, <1>2 DEF AgentInv
<1>4. /\ Good(saved', explained', Executed(executed'), question')
      /\ Good(answer', explained', Executed(executed'), question')
  BY <1>1, GoodGrows DEF AgentInv
<1> QED
  BY <1>1, <1>3, <1>4 DEF AgentInv

\* A failed node leaves a good state behind.
LEMMA FailIsGood ==
  ASSUME NEW v \in Values, NEW E, NEW X, NEW q,
         v.verified # EmptyText => v.verified = v.statement /\ v.verified \in E,
         v.status \notin Done, ~v.evidence, v.attempts <= MaxAttempts
  PROVE  Good(Fail(v), E, X, q)
BY DEF Good, Fail, Values, Nodes, Statuses, Done, Drafting

\* The state of a runner at a node other than finalize: nothing executed is
\* shown yet.
LEMMA AtNode ==
  ASSUME AgentInv, NEW r \in Runners, live[r].next \in Nodes \ {"finalize"}
  PROVE  /\ Good(live[r], explained, Executed(executed), question)
         /\ live[r] \in Values
         /\ live[r].status \notin Done /\ live[r].evidence = FALSE
<1>1. Good(live[r], explained, Executed(executed), question)
  BY DEF AgentInv
<1>2. live[r] \in Values /\ live[r].evidence \in BOOLEAN
  BY <1>1 DEF Good, Values
<1> QED
  BY <1>1, <1>2 DEF Good, Nodes

\* guard_question keeps the invariant: it only decides where the run goes.
LEMMA GuardStep ==
  ASSUME AgentInv, NEW r \in Runners, GuardQuestion(r) PROVE AgentInv'
<1> DEFINE v == IF Refused THEN [live[r] EXCEPT !.status = question, !.next = "finalize"]
                           ELSE [live[r] EXCEPT !.status = "running", !.next = "generate"]
<1>1. Leaves(r, v) /\ UNCHANGED Environment /\ explained' = explained /\ executed' = executed
  BY DEF GuardQuestion
<1>2. live[r].next = "guard"
  BY DEF GuardQuestion
<1>3. /\ Good(live[r], explained, Executed(executed), question) /\ live[r] \in Values
      /\ live[r].evidence = FALSE
  BY <1>2, AtNode DEF Nodes
<1>4. Good(v, explained, Executed(executed), question)
  <2>1. CASE Refused
    <3>1. v = [live[r] EXCEPT !.status = question, !.next = "finalize"]
      BY <2>1
    <3>2. question \in {"needs_clarification", "blocked", "unsupported"}
      BY <2>1 DEF Refused, AgentInv, Questions
    <3>3. /\ v \in Values /\ v.verified = live[r].verified /\ v.statement = live[r].statement
          /\ v.status = question /\ v.next = "finalize" /\ v.evidence = FALSE
          /\ v.attempts = live[r].attempts
      BY <1>3, <3>1, <3>2 DEF Values, Nodes, Statuses
    <3> HIDE DEF v
    <3>4. question \notin Done
      BY <3>2 DEF Done
    <3> QED
      BY <1>3, <3>3, <3>4 DEF Good, Drafting
  <2>2. CASE ~Refused
    <3>1. v = [live[r] EXCEPT !.status = "running", !.next = "generate"]
      BY <2>2
    <3>2. question = "answerable"
      BY <2>2 DEF Refused
    <3>3. /\ v \in Values /\ v.verified = live[r].verified /\ v.statement = live[r].statement
          /\ v.status = "running" /\ v.next = "generate" /\ v.evidence = FALSE
          /\ v.attempts = live[r].attempts
      BY <1>3, <3>1 DEF Values, Nodes, Statuses
    <3> HIDE DEF v
    <3> QED
      BY <1>2, <1>3, <3>2, <3>3 DEF Good, Done
  <2> QED
    BY <2>1, <2>2
<1> HIDE DEF v
<1> QED
  BY <1>1, <1>4, NodeKeepsInv DEF AgentInv

\* generate_cypher and correct_cypher drop the hash with the old statement.
LEMMA DraftStep ==
  ASSUME AgentInv, NEW r \in Runners, NEW node \in {"generate", "correct"},
         NEW onError \in Statements, Draft(r, node, onError)
  PROVE  AgentInv'
<1> DEFINE v == Unverified(live[r])
<1>1. live[r].next = node
  <2>1. v.next = node
    BY DEF Draft
  <2> QED
    BY <2>1, AtNode DEF Unverified, AgentInv, Good, Values
<1>2. /\ Good(live[r], explained, Executed(executed), question) /\ live[r] \in Values
      /\ live[r].status \notin Done /\ live[r].evidence = FALSE
  BY <1>1, AtNode DEF Nodes
<1>3. question = "answerable"
  BY <1>1, <1>2 DEF Good, Drafting
<1>4. EmptyText \in Statements
  BY StatementsAssumption DEF Statements
<1>5. /\ v \in Values /\ v.verified = EmptyText /\ v.status \notin Done /\ v.evidence = FALSE
      /\ v.attempts <= MaxAttempts /\ v.attempts < MaxAttempts
  BY <1>1, <1>2, <1>4 DEF Unverified, Values, Good
<1> HIDE DEF v
<1>6. \A s \in Statements : /\ [v EXCEPT !.statement = s] \in Values
                            /\ [v EXCEPT !.statement = s].verified = EmptyText
                            /\ [v EXCEPT !.statement = s].status \notin Done
                            /\ ~[v EXCEPT !.statement = s].evidence
                            /\ [v EXCEPT !.statement = s].attempts <= MaxAttempts
  BY <1>5 DEF Values
<1>7. \A s \in Statements :
        Good(Fail([v EXCEPT !.statement = s]), explained, Executed(executed), question)
  BY <1>6, FailIsGood
<1>8. Good(Fail(v), explained, Executed(executed), question)
  BY <1>5, FailIsGood
<1>9. \A s \in Statements : Good([v EXCEPT !.statement = s, !.next = "validate"],
                                explained, Executed(executed), question)
  BY <1>3, <1>5 DEF Good, Values, Nodes, Drafting
<1>10. UNCHANGED Environment /\ explained' = explained /\ executed' = executed
  BY DEF Draft
<1>11. \E w : Leaves(r, w) /\ Good(w, explained, Executed(executed), question)
  BY <1>7, <1>8, <1>9 DEF Draft, v
<1> QED
  BY <1>10, <1>11, NodeKeepsInv DEF AgentInv

\* validate_cypher grants the hash to an accepted statement only, and counts.
LEMMA ValidateStep ==
  ASSUME AgentInv, NEW r \in Runners, ValidateCypher(r) PROVE AgentInv'
<1> DEFINE v == [Unverified(live[r]) EXCEPT !.attempts = NextAttempt(live[r])]
           s == v.statement
<1>1. live[r].next = "validate"
  <2>1. v.next = "validate"
    BY DEF ValidateCypher
  <2> QED
    BY <2>1 DEF Unverified, AgentInv, Good, Values
<1>2. /\ Good(live[r], explained, Executed(executed), question) /\ live[r] \in Values
      /\ live[r].status \notin Done /\ live[r].evidence = FALSE
  BY <1>1, AtNode DEF Nodes
<1>3. question = "answerable"
  BY <1>1, <1>2 DEF Good, Drafting
<1>4. EmptyText \in Statements /\ MaxAttempts \in Nat
  BY StatementsAssumption, AttemptsAssumption DEF Statements
<1>5. /\ v \in Values /\ v.verified = EmptyText /\ v.status \notin Done /\ v.evidence = FALSE
      /\ v.attempts <= MaxAttempts
  <2>1. live[r].attempts \in Nat /\ live[r].attempts < MaxAttempts
    BY <1>1, <1>2 DEF Good, Values
  <2>2. Unverified(live[r]) \in Values /\ Unverified(live[r]).verified = EmptyText
        /\ Unverified(live[r]).status = live[r].status
        /\ Unverified(live[r]).evidence = FALSE
    BY <1>2, <1>4 DEF Unverified, Values
  <2>3. NextAttempt(live[r]) \in Nat /\ NextAttempt(live[r]) <= MaxAttempts
    BY <1>4, <2>1 DEF NextAttempt
  <2> HIDE DEF Unverified, NextAttempt
  <2> QED
    BY <1>2, <2>2, <2>3 DEF Values
<1> HIDE DEF v
<1>6. UNCHANGED Environment /\ executed' = executed
  BY DEF ValidateCypher
<1>7. Good(Fail(v), explained, Executed(executed), question)
  BY <1>5, FailIsGood
<1>8. Good([v EXCEPT !.status = "blocked", !.next = "finalize"],
           explained, Executed(executed), question)
  BY <1>5 DEF Good, Values, Nodes, Statuses, Done, Drafting
<1>9. MayCorrect(v.attempts) =>
        Good([v EXCEPT !.next = "correct"], explained, Executed(executed), question)
  BY <1>3, <1>5 DEF Good, Values, Nodes, Drafting, MayCorrect
<1>10. Good([v EXCEPT !.verified = s, !.next = "execute"],
            explained \cup {s}, Executed(executed), question)
  BY <1>3, <1>5 DEF Good, Values, Nodes, Drafting
<1>11. CASE explained' = explained /\ \E w : Leaves(r, w) /\
              Good(w, explained, Executed(executed), question)
  BY <1>6, <1>11, NodeKeepsInv DEF AgentInv
<1>12. CASE /\ explained' = explained \cup {s} /\ Acceptable(s)
            /\ Leaves(r, [v EXCEPT !.verified = s, !.next = "execute"])
  <2>1. explained' \subseteq Safe
    BY <1>12 DEF Acceptable, AgentInv
  <2> QED
    BY <1>3, <1>6, <1>10, <1>12, <2>1, NodeKeepsInv DEF AgentInv
<1> QED
  BY <1>7, <1>8, <1>9, <1>11, <1>12 DEF ValidateCypher, v

\* execute_cypher runs the statement of the hash, which EXPLAIN accepted.
LEMMA ExecuteStep ==
  ASSUME AgentInv, NEW r \in Runners, ExecuteCypher(r) PROVE AgentInv'
<1> DEFINE v == live[r]
<1>1. v.next = "execute"
  BY DEF ExecuteCypher
<1>2. /\ Good(v, explained, Executed(executed), question) /\ v \in Values
      /\ v.status \notin Done /\ v.evidence = FALSE
  BY <1>1, AtNode DEF Nodes
<1>3. question = "answerable"
  BY <1>1, <1>2 DEF Good, Drafting
<1>4. UNCHANGED Environment /\ explained' = explained
  BY DEF ExecuteCypher
<1>5. /\ v.attempts <= MaxAttempts
      /\ v.verified # EmptyText => v.verified = v.statement /\ v.verified \in explained
      /\ v.statement \in Statements
  BY <1>2 DEF Good, Values
<1>6. \A X : Good(Fail(v), explained, X, question)
  BY <1>2, <1>5, FailIsGood
<1>7. CASE executed' = executed /\ Leaves(r, Fail(v))
  BY <1>4, <1>6, <1>7, NodeKeepsInv DEF AgentInv
<1>8. CASE /\ executed' = Append(executed, v.statement) /\ Executable(v)
           /\ \/ Leaves(r, Fail(v))
              \/ \E d \in Done : Leaves(r, [v EXCEPT !.status = d, !.next = "finalize"])
  <2>1. v.verified # EmptyText /\ v.statement \in explained
    BY <1>5, <1>8 DEF Executable
  <2>2. /\ executed' \in Seq(Statements)
        /\ Executed(executed') = Executed(executed) \cup {v.statement}
    BY <1>5, <1>8, ExecutedGrows DEF AgentInv
  <2>3. v.statement \in Executed(executed')
    BY <2>2
  <2>4. ASSUME NEW d \in Done
        PROVE  Good([v EXCEPT !.status = d, !.next = "finalize"], explained,
                    Executed(executed'), question)
    <3> DEFINE w == [v EXCEPT !.status = d, !.next = "finalize"]
    <3>1. /\ w \in Values /\ w.statement = v.statement /\ w.verified = v.verified
          /\ w.next = "finalize" /\ w.evidence = FALSE /\ w.attempts = v.attempts
      BY <1>2, <2>4 DEF Values, Statuses, Nodes
    <3> HIDE DEF w
    <3>2. Good(w, explained, Executed(executed'), question)
      BY <1>3, <1>5, <2>1, <2>3, <3>1 DEF Good
    <3> QED
      BY <3>2 DEF w
  <2>5. \E w : Leaves(r, w) /\ Good(w, explained, Executed(executed'), question)
    BY <1>6, <1>8, <2>4
  <2>6. Executed(executed') \subseteq explained'
    BY <1>4, <2>1, <2>2 DEF AgentInv
  <2> QED
    BY <1>3, <1>4, <2>2, <2>5, <2>6, NodeKeepsInv DEF AgentInv
<1> QED
  BY <1>7, <1>8 DEF ExecuteCypher

\* finalize_run gives evidence of a statement that was executed.
LEMMA FinalizeStep ==
  ASSUME AgentInv, NEW r \in Runners, FinalizeRun(r) PROVE AgentInv'
<1> DEFINE w == [live[r] EXCEPT !.evidence = ExecutionVerified(live[r]), !.next = "end"]
<1>1. /\ Leaves(r, w) /\ UNCHANGED Environment
      /\ explained' = explained /\ executed' = executed
  BY DEF FinalizeRun
<1>2. Good(live[r], explained, Executed(executed), question) /\ live[r] \in Values
  BY DEF AgentInv, Good
<1>3. /\ w \in Values /\ w.statement = live[r].statement /\ w.verified = live[r].verified
      /\ w.next = "end" /\ w.attempts = live[r].attempts /\ w.status = live[r].status
      /\ w.evidence = ExecutionVerified(live[r])
  <2> ExecutionVerified(live[r]) \in BOOLEAN
    BY DEF ExecutionVerified
  <2> HIDE DEF ExecutionVerified
  <2> QED
    BY <1>2 DEF Values
<1>4. w.evidence => w.status \in Done
  BY <1>3 DEF ExecutionVerified
<1> HIDE DEF w
<1>5. Good(w, explained, Executed(executed), question)
  BY <1>2, <1>3, <1>4 DEF Good, Drafting
<1> QED
  BY <1>1, <1>5, NodeKeepsInv DEF AgentInv

----------------------------------------------------------------------------
\* The other steps only move states between the runner, the checkpoint and
\* the caller.
LEMMA MoveKeepsInv ==
  ASSUME AgentInv, UNCHANGED <<question, explained, executed>>,
         live' = [r \in Runners |-> live'[r]],
         Good(saved', explained, Executed(executed), question),
         Good(answer', explained, Executed(executed), question),
         \A r \in Runners : Good(live'[r], explained, Executed(executed), question)
  PROVE  AgentInv'
BY DEF AgentInv

\* A runner that leaves has the empty state.
LEMMA LeaveIsGood ==
  ASSUME AgentInv, NEW r \in Runners, Leave(r)
  PROVE  /\ live' = [s \in Runners |-> live'[s]]
         /\ \A s \in Runners : Good(live'[s], explained, Executed(executed), question)
<1>1. live' = [live EXCEPT ![r] = NoRun]
  BY DEF Leave
<1> QED
  BY <1>1, BaseIsGood DEF AgentInv

\* Every action keeps the invariant.
LEMMA AgentStep == AgentInv /\ [Next]_vars => AgentInv'
<1> SUFFICES ASSUME AgentInv, [Next]_vars PROVE AgentInv'
  OBVIOUS
<1>1. CASE UNCHANGED vars
  BY <1>1 DEF vars, AgentInv
<1>2. CASE ProjectChanges
  BY <1>2 DEF ProjectChanges, AgentInv
<1>3. ASSUME NEW r \in Runners, RunnerStep(r) \/ Expire(r) \/ Stop(r) \/ Resume(r)
      PROVE  AgentInv'
  <2>1. CASE GuardQuestion(r)
    BY <2>1, GuardStep
  <2>2. CASE GenerateCypher(r)
    <3>1. EmptyText \in Statements
      BY StatementsAssumption DEF Statements
    <3> QED
      BY <2>2, <3>1, DraftStep DEF GenerateCypher
  <2>3. CASE CorrectCypher(r)
    <3>1. live[r].statement \in Statements
      BY DEF AgentInv, Good, Values
    <3> QED
      BY <2>3, <3>1, DraftStep DEF CorrectCypher
  <2>4. CASE ValidateCypher(r)
    BY <2>4, ValidateStep
  <2>5. CASE ExecuteCypher(r)
    BY <2>5, ExecuteStep
  <2>6. CASE FinalizeRun(r)
    BY <2>6, FinalizeStep
  <2>7. CASE Load(r)
    <3>1. /\ live' = [live EXCEPT ![r] = saved]
          /\ UNCHANGED <<question, explained, executed, saved, answer>>
      BY <2>7 DEF Load
    <3>2. \A s \in Runners : Good(live'[s], explained, Executed(executed), question)
      BY <3>1 DEF AgentInv
    <3> QED
      BY <3>1, <3>2, MoveKeepsInv DEF AgentInv
  <2>8. CASE Return(r)
    BY <2>8, LeaveIsGood, MoveKeepsInv DEF Return, AgentInv
  <2>9. CASE Checkpoint(r)
    BY <2>9, MoveKeepsInv DEF Checkpoint, AgentInv
  <2>10. CASE Expire(r)
    BY <2>10, MoveKeepsInv DEF Expire, AgentInv
  <2>11. CASE Stop(r)
    BY <2>11, LeaveIsGood, MoveKeepsInv DEF Stop, AgentInv
  <2>12. CASE Resume(r)
    <3>1. UNCHANGED <<question, explained, executed, saved>>
      BY <2>12 DEF Resume
    <3>2. CASE answer' = saved /\ live' = live
      BY <3>1, <3>2, MoveKeepsInv DEF AgentInv
    <3>3. CASE answer' = answer /\ live' = [live EXCEPT ![r] = [NoRun EXCEPT !.next = "load"]]
      <4>1. \A s \in Runners : Good(live'[s], explained, Executed(executed), question)
        BY <3>3, BaseIsGood DEF AgentInv
      <4> QED
        BY <3>1, <3>3, <4>1, MoveKeepsInv DEF AgentInv
    <3> QED
      BY <2>12, <3>2, <3>3 DEF Resume
  <2> QED
    BY <1>3, <2>1, <2>2, <2>3, <2>4, <2>5, <2>6, <2>7, <2>8, <2>9, <2>10, <2>11, <2>12
    DEF RunnerStep
<1> QED
  BY <1>1, <1>2, <1>3 DEF Next

\* The invariant holds in every reachable state.
LEMMA AgentInvariant == Spec => []AgentInv
BY AgentInit, AgentStep, PTL DEF Spec

\* workflow.py:186-369: whatever a resume starts from, only a statement that
\* passed every check and that EXPLAIN accepted is executed.
THEOREM ValidatedOnly == Spec => []OnlyValidatedRuns
<1>1. AgentInv => OnlyValidatedRuns
  BY DEF AgentInv, OnlyValidatedRuns, Executed
<1> QED
  BY <1>1, AgentInvariant, PTL

\* workflow.py:371-398: evidence marked as verified is of an executed
\* statement, in the checkpoint, with the caller and in memory.
THEOREM EvidenceTrue == Spec => []EvidenceIsTrue
<1>1. AgentInv => EvidenceIsTrue
  <2> SUFFICES ASSUME AgentInv, NEW v \in States, v.evidence
               PROVE  v.statement = v.verified /\ HasRun(v.statement)
    BY DEF EvidenceIsTrue
  <2>1. Good(v, explained, Executed(executed), question)
    BY DEF States, AgentInv
  <2> QED
    BY <2>1 DEF Good, HasRun, Executed
<1> QED
  BY <1>1, AgentInvariant, PTL

\* workflow.py:231-251: no sequence of stops and resumes validates more often
\* than max_attempts in the history of any one state.
THEOREM AttemptsAreBounded == Spec => []AttemptsBounded
<1>1. AgentInv => AttemptsBounded
  BY DEF AgentInv, AttemptsBounded, States, Good
<1> QED
  BY <1>1, AgentInvariant, PTL

\* workflow.py:84-123: a refused question is never validated or executed.
THEOREM RefusedStays == Spec => []RefusedNeverRuns
<1>1. AgentInv => RefusedNeverRuns
  <2> SUFFICES ASSUME AgentInv, question # "answerable"
               PROVE  explained = {} /\ executed = <<>>
    BY DEF RefusedNeverRuns
  <2>1. explained = {} /\ Executed(executed) = {} /\ executed \in Seq(Statements)
    BY DEF AgentInv
  <2>2. Len(executed) \in Nat /\ DOMAIN executed = 1..Len(executed)
    BY <2>1
  <2>3. Len(executed) = 0
    <3> SUFFICES ASSUME Len(executed) # 0 PROVE FALSE
      OBVIOUS
    <3>1. 1 \in DOMAIN executed
      BY <2>2
    <3> QED
      BY <2>1, <3>1 DEF Executed
  <2> QED
    BY <2>1, <2>3
<1> QED
  BY <1>1, AgentInvariant, PTL

----------------------------------------------------------------------------
\* As long as no two runners overlap, there is at most one, it has stored
\* nothing but its own state, and a caller has been answered only when the
\* run is over.
Alone ==
  /\ live = [r \in Runners |-> live[r]]
  /\ unsaved \subseteq {r \in Runners : live[r].next # "load" /\ Running(r)}
  /\ ~overlapped =>
       /\ \A r, s \in Runners : Running(r) /\ Running(s) => r = s
       /\ \A r \in Runners :
            /\ Running(r) /\ live[r].next # "load" /\ r \notin unsaved => saved = live[r]
            /\ Running(r) /\ saved.next = "end" => live[r].next = "end" /\ r \notin unsaved
       /\ answer # NoRun => answer = saved /\ saved.next = "end"

\* The first runner is alone.
LEMMA AloneInit == Init => Alone
<1> SUFFICES ASSUME Init PROVE Alone
  OBVIOUS
<1>1. PICK r \in Runners : /\ live = [s \in Runners |-> IF s = r THEN BaseState ELSE NoRun]
                           /\ unsaved = {r}
  BY DEF Init
<1>2. BaseState.next = "guard" /\ NoRun.next = "none"
  BY DEF BaseState, NoRun
<1>3. saved = NoRun /\ answer = NoRun
  BY DEF Init
<1> HIDE DEF BaseState, NoRun
<1>4. \A s \in Runners : Running(s) => s = r
  BY <1>1, <1>2 DEF Running
<1> QED
  BY <1>1, <1>2, <1>3, <1>4 DEF Alone, Running

\* A node of r runs: only the state of r changes.
LEMMA NodeIsAlone ==
  ASSUME Alone, NEW r \in Runners, NEW v, live[r].next \in Nodes,
         Leaves(r, v), v.next \in Nodes \cup {"end"},
         UNCHANGED <<saved, answer, overlapped>>
  PROVE  Alone'
<1>1. live' = [live EXCEPT ![r] = v] /\ unsaved' = unsaved \cup {r}
  BY DEF Leaves
<1>2. Running(r) /\ live[r].next # "end" /\ v.next # "none" /\ v.next # "load"
  BY DEF Running, Nodes
<1>3. \A s \in Runners : live'[s] = IF s = r THEN v ELSE live[s]
  BY <1>1 DEF Alone
<1>4. live' = [s \in Runners |-> live'[s]]
  BY <1>1 DEF Alone
<1>5. unsaved' \subseteq {s \in Runners : live'[s].next # "load" /\ Running(s)'}
  BY <1>1, <1>2, <1>3 DEF Alone, Running
<1>6. ASSUME ~overlapped
      PROVE  /\ saved.next # "end" /\ answer = NoRun
             /\ \A s \in Runners : Running(s)' => s = r
  BY <1>2, <1>3, <1>6 DEF Alone, Running
<1> QED
  BY <1>1, <1>3, <1>4, <1>5, <1>6 DEF Alone

\* Every node leaves the run at another node, or at its end.
LEMMA NodeLeaves ==
  ASSUME AgentInv, NEW r \in Runners,
         \/ GuardQuestion(r) \/ GenerateCypher(r) \/ ValidateCypher(r)
         \/ CorrectCypher(r) \/ ExecuteCypher(r) \/ FinalizeRun(r)
  PROVE  /\ live[r].next \in Nodes /\ UNCHANGED <<saved, answer, overlapped>>
         /\ \E v : Leaves(r, v) /\ v.next \in Nodes \cup {"end"}
<1>1. live[r] \in Values /\ Unverified(live[r]) \in Values
      /\ Unverified(live[r]).next = live[r].next
      /\ [Unverified(live[r]) EXCEPT !.attempts = NextAttempt(live[r])] \in Values
      /\ [Unverified(live[r]) EXCEPT !.attempts = NextAttempt(live[r])].next = live[r].next
  <2>1. live[r] \in Values /\ EmptyText \in Statements
    BY StatementsAssumption DEF AgentInv, Good, Statements
  <2>2. Unverified(live[r]) \in Values /\ Unverified(live[r]).next = live[r].next
    BY <2>1 DEF Unverified, Values
  <2>3. NextAttempt(live[r]) \in Nat
    BY <2>1 DEF NextAttempt, Values
  <2> HIDE DEF Unverified, NextAttempt
  <2> QED
    BY <2>1, <2>2, <2>3 DEF Values
<1>2. \A v \in Values : /\ Fail(v).next = "finalize"
                        /\ \A s \in Statements : /\ [v EXCEPT !.statement = s] \in Values
                                                 /\ Fail([v EXCEPT !.statement = s]).next = "finalize"
  BY DEF Fail, Values
<1>3. CASE GuardQuestion(r)
  <2>1. live[r].next \in Nodes /\ UNCHANGED <<saved, answer, overlapped>>
    BY <1>3 DEF GuardQuestion, Environment, Nodes
  <2>2. \/ Leaves(r, [live[r] EXCEPT !.status = question, !.next = "finalize"])
        \/ Leaves(r, [live[r] EXCEPT !.status = "running", !.next = "generate"])
    BY <1>3 DEF GuardQuestion
  <2>3. /\ [live[r] EXCEPT !.status = question, !.next = "finalize"].next = "finalize"
        /\ [live[r] EXCEPT !.status = "running", !.next = "generate"].next = "generate"
    BY <1>1 DEF Values
  <2> QED
    BY <2>1, <2>2, <2>3 DEF Nodes
<1>4. ASSUME NEW node \in {"generate", "correct"}, NEW s \in Statements, Draft(r, node, s)
      PROVE  /\ live[r].next \in Nodes /\ UNCHANGED <<saved, answer, overlapped>>
             /\ \E v : Leaves(r, v) /\ v.next \in Nodes \cup {"end"}
  <2> DEFINE v == Unverified(live[r])
  <2>1. live[r].next \in Nodes /\ UNCHANGED <<saved, answer, overlapped>>
    BY <1>1, <1>4 DEF Draft, Environment, Nodes
  <2>2. v \in Values
    BY <1>1
  <2>3. \/ Leaves(r, Fail(v))
        \/ \E u \in Statements : \/ Leaves(r, Fail([v EXCEPT !.statement = u]))
                                \/ Leaves(r, [v EXCEPT !.statement = u, !.next = "validate"])
    BY <1>4 DEF Draft
  <2> HIDE DEF v
  <2>4. \A u \in Statements : [v EXCEPT !.statement = u, !.next = "validate"].next = "validate"
    BY <2>2 DEF Values
  <2> QED
    BY <1>2, <2>1, <2>2, <2>3, <2>4 DEF Nodes
<1>5. CASE GenerateCypher(r) \/ CorrectCypher(r)
  <2>1. EmptyText \in Statements /\ live[r].statement \in Statements
    BY <1>1, StatementsAssumption DEF Statements, Values
  <2> QED
    BY <1>4, <1>5, <2>1 DEF GenerateCypher, CorrectCypher
<1>6. CASE ValidateCypher(r)
  <2> DEFINE v == [Unverified(live[r]) EXCEPT !.attempts = NextAttempt(live[r])]
  <2>1. live[r].next \in Nodes /\ UNCHANGED <<saved, answer, overlapped>>
    BY <1>1, <1>6 DEF ValidateCypher, Environment, Nodes
  <2>2. v \in Values
    BY <1>1
  <2>3. \/ Leaves(r, Fail(v))
        \/ Leaves(r, [v EXCEPT !.status = "blocked", !.next = "finalize"])
        \/ Leaves(r, [v EXCEPT !.verified = v.statement, !.next = "execute"])
        \/ Leaves(r, [v EXCEPT !.next = "correct"])
    BY <1>6 DEF ValidateCypher
  <2> HIDE DEF v
  <2>4. /\ [v EXCEPT !.status = "blocked", !.next = "finalize"].next = "finalize"
        /\ [v EXCEPT !.verified = v.statement, !.next = "execute"].next = "execute"
        /\ [v EXCEPT !.next = "correct"].next = "correct"
    BY <2>2 DEF Values
  <2> QED
    BY <1>2, <2>1, <2>2, <2>3, <2>4 DEF Nodes
<1>7. CASE ExecuteCypher(r)
  <2>1. live[r].next \in Nodes /\ UNCHANGED <<saved, answer, overlapped>>
    BY <1>7 DEF ExecuteCypher, Environment, Nodes
  <2>2. \/ Leaves(r, Fail(live[r]))
        \/ \E d \in Done : Leaves(r, [live[r] EXCEPT !.status = d, !.next = "finalize"])
    BY <1>7 DEF ExecuteCypher
  <2>3. \A d \in Done : [live[r] EXCEPT !.status = d, !.next = "finalize"].next = "finalize"
    BY <1>1 DEF Values
  <2> QED
    BY <1>1, <1>2, <2>1, <2>2, <2>3 DEF Nodes
<1>8. CASE FinalizeRun(r)
  <2>1. live[r].next \in Nodes /\ UNCHANGED <<saved, answer, overlapped>>
    BY <1>8 DEF FinalizeRun, Environment, Nodes
  <2>2. [live[r] EXCEPT !.evidence = ExecutionVerified(live[r]), !.next = "end"].next = "end"
    BY <1>1 DEF Values
  <2> QED
    BY <1>8, <2>1, <2>2 DEF FinalizeRun
<1> QED
  BY <1>3, <1>5, <1>6, <1>7, <1>8

\* Every action keeps the invariant of a run whose runners never overlapped.
LEMMA AloneStep ==
  ASSUME AgentInv, Alone, [Next]_vars
  PROVE  Alone' /\ (answer # NoRun /\ ~overlapped' => answer' = answer)
<1>1. CASE UNCHANGED vars
  BY <1>1 DEF vars, Alone, Running
<1>2. CASE ProjectChanges
  BY <1>2 DEF ProjectChanges, Alone, Running
<1>3. ASSUME NEW r \in Runners, RunnerStep(r) \/ Expire(r) \/ Stop(r) \/ Resume(r)
      PROVE  Alone' /\ (answer # NoRun /\ ~overlapped' => answer' = answer)
  <2>1. CASE \/ GuardQuestion(r) \/ GenerateCypher(r) \/ ValidateCypher(r)
             \/ CorrectCypher(r) \/ ExecuteCypher(r) \/ FinalizeRun(r)
    <3>1. /\ live[r].next \in Nodes /\ UNCHANGED <<saved, answer, overlapped>>
          /\ \E v : Leaves(r, v) /\ v.next \in Nodes \cup {"end"}
      BY <2>1, NodeLeaves
    <3> QED
      BY <3>1, NodeIsAlone
  <2>2. NoRun.next = "none"
    BY DEF NoRun, BaseState
  <2> HIDE DEF NoRun
  <2>3. ASSUME Leave(r), UNCHANGED <<saved, overlapped>>,
               answer' = answer \/ (~overlapped => answer' = saved /\ saved.next = "end")
        PROVE  Alone'
    <3>1. \A s \in Runners : live'[s] = IF s = r THEN NoRun ELSE live[s]
      BY <2>3 DEF Leave, Alone
    <3>2. live' = [s \in Runners |-> live'[s]]
      BY <2>3 DEF Leave, Alone
    <3> QED
      BY <2>2, <2>3, <3>1, <3>2 DEF Leave, Alone, Running
  <2>4. ASSUME Return(r)
        PROVE  Alone' /\ (answer # NoRun /\ ~overlapped' => answer' = answer)
    <3>1. r \notin unsaved /\ live[r].next = "end" /\ Leave(r) /\ answer' = live[r]
          /\ UNCHANGED <<saved, overlapped>>
      BY <2>4 DEF Return, Stored
    <3>2. ~overlapped => saved = live[r]
      BY <3>1 DEF Alone, Running
    <3> QED
      BY <2>3, <3>1, <3>2 DEF Alone
  <2>5. CASE Stop(r)
    BY <2>3, <2>5 DEF Stop
  <2>6. CASE Checkpoint(r)
    <3>1. /\ r \in unsaved /\ saved' = live[r] /\ unsaved' = unsaved \ {r}
          /\ UNCHANGED <<live, answer, overlapped>>
      BY <2>6 DEF Checkpoint
    <3>2. Running(r) /\ live[r].next # "load"
      BY <3>1 DEF Alone
    <3>3. ASSUME ~overlapped PROVE answer = NoRun /\ \A s \in Runners : Running(s) => s = r
      BY <3>1, <3>2, <3>3 DEF Alone
    <3> QED
      BY <3>1, <3>2, <3>3 DEF Alone, Running
  <2>7. CASE Expire(r)
    BY <2>7 DEF Expire, Alone, Running
  <2>8. CASE Load(r)
    <3>1. /\ live[r].next = "load" /\ live' = [live EXCEPT ![r] = saved]
          /\ UNCHANGED <<saved, answer, overlapped, unsaved>>
      BY <2>8 DEF Load
    <3>2. \A s \in Runners : live'[s] = IF s = r THEN saved ELSE live[s]
      BY <3>1 DEF Alone
    <3>3. live' = [s \in Runners |-> live'[s]]
      BY <3>1 DEF Alone
    <3>4. Running(r) /\ r \notin unsaved
      BY <3>1 DEF Alone, Running
    <3> QED
      BY <3>1, <3>2, <3>3, <3>4 DEF Alone, Running
  <2>9. CASE Resume(r)
    <3>1. ~Running(r) /\ UNCHANGED <<saved, unsaved>>
      BY <2>9 DEF Resume
    <3>2. CASE saved.next = "end" /\ answer' = saved /\ UNCHANGED <<live, overlapped>>
      BY <3>1, <3>2 DEF Alone, Running
    <3>3. CASE /\ saved.next # "end" /\ answer' = answer
               /\ live' = [live EXCEPT ![r] = [NoRun EXCEPT !.next = "load"]]
               /\ overlapped' = (overlapped \/ \E s \in Runners : Running(s))
      <4>1. [NoRun EXCEPT !.next = "load"].next = "load"
        BY DEF NoRun, BaseState
      <4>2. \A s \in Runners : live'[s] = IF s = r THEN [NoRun EXCEPT !.next = "load"] ELSE live[s]
        BY <3>3 DEF Alone
      <4>3. live' = [s \in Runners |-> live'[s]]
        BY <3>3 DEF Alone
      <4>4. r \notin unsaved
        BY <3>1 DEF Alone
      <4> QED
        BY <3>1, <3>3, <4>1, <4>2, <4>3, <4>4 DEF Alone, Running
    <3> QED
      BY <2>9, <3>2, <3>3 DEF Resume
  <2>10. Stop(r) \/ Checkpoint(r) \/ Expire(r) \/ Load(r) => answer' = answer
    BY DEF Stop, Checkpoint, Expire, Load
  <2>11. \/ \/ GuardQuestion(r) \/ GenerateCypher(r) \/ ValidateCypher(r)
            \/ CorrectCypher(r) \/ ExecuteCypher(r) \/ FinalizeRun(r)
         \/ Return(r) \/ Stop(r) \/ Checkpoint(r) \/ Expire(r) \/ Load(r) \/ Resume(r)
    BY <1>3 DEF RunnerStep
  <2> QED
    BY <2>1, <2>4, <2>5, <2>6, <2>7, <2>8, <2>9, <2>10, <2>11
<1> QED
  BY <1>1, <1>2, <1>3 DEF Next, vars, ProjectChanges

\* workflow.py:588-621: resumes that do not overlap another runner of the run
\* never change what a caller was told, wherever the run was stopped.
THEOREM AnswerIsKept == Spec => OneAnswer
<1>1. AgentInv /\ Alone /\ [Next]_vars => Alone' /\ [answer # NoRun /\ ~overlapped' => answer' = answer]_vars
  BY AloneStep
<1> QED
  BY <1>1, AloneInit, AgentInvariant, PTL DEF Spec, OneAnswer
============================================================================
