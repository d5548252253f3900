------------------------- MODULE QueryGatewayProof -------------------------
(***************************************************************************)
(* Safety of QueryGateway for any number of requests, retries and bundles: *)
(* no bundle with an open driver is forgotten, and a call of a tool that   *)
(* is answered is audited as a success and as nothing else.                *)
(***************************************************************************)
EXTENDS QueryGateway, TLAPS

\* Handlers that were left behind are attempts of the call.
AttemptsTyped ==
  \A r \in Requests :
    /\ req[r].at = "attempt" => req[r].attempts <= MaxRetries
    /\ req[r].at \in {"idle", "inspect", "lookup", "lock", "build", "fetch"} => req[r].attempts = 0
    /\ req[r].at # "idle" => late[r] <= req[r].attempts
    /\ req[r].at = "running" => late[r] < req[r].attempts
    /\ req[r].at = "build" => req[r].bundle \in 1..built

TypeInv == GateTypeOK /\ AttemptsTyped

\* One request builds at a time, while the cache is empty: what Build puts
\* into the cache replaces nothing.
BuildInv ==
  \A r \in Requests : req[r].at = "build" => building = r /\ cached = None

LeakInv == BuildInv /\ NoBundleLeaks

\* Nothing is audited before the call is answered or given up.
AuditInv ==
  \A r \in Requests :
    /\ req[r].at \notin {"idle", "answered"} => audit[r] = {}
    /\ req[r].at = "answered" => audit[r] = {"success"}

----------------------------------------------------------------------------
LEMMA IdleTyped ==
  /\ IdleReq \in Request
  /\ IdleReq.at = "idle" /\ IdleReq.attempts = 0 /\ IdleReq.bundle = None
BY GatewayAssumption DEF IdleReq, Request, Ops, ReqAt, Errors, None

\* No request has come.
LEMMA TypeInit == GateInit => TypeInv
<1> SUFFICES ASSUME GateInit PROVE TypeInv
  OBVIOUS
<1>1. GateTypeOK
  BY IdleTyped, GatewayAssumption DEF GateInit, GateTypeOK, None
<1>2. AttemptsTyped
  BY IdleTyped DEF GateInit, AttemptsTyped
<1> QED
  BY <1>1, <1>2 DEF TypeInv

----------------------------------------------------------------------------
\* The steps of a request keep its type and count its attempts.
LEMMA TypeStep == TypeInv /\ [GateNext]_gateVars => TypeInv'
<1> SUFFICES ASSUME TypeInv, [GateNext]_gateVars PROVE TypeInv'
  OBVIOUS
<1> USE DEF TypeInv, GateTypeOK, AttemptsTyped, Request, Ops, ReqAt, Errors, None
<1>1. CASE UNCHANGED gateVars
  BY <1>1 DEF gateVars
<1>2. CASE ProjectChanges
  BY <1>2 DEF ProjectChanges
<1>3. CASE \E r \in Requests : \E op \in Ops \ {"none"} : Receive(r, op)
  <2>1. PICK r \in Requests, op \in Ops \ {"none"} : Receive(r, op)
    BY <1>3
  <2>2. req' \in [Requests -> Request]
    BY <2>1, GatewayAssumption, IdleTyped DEF Receive
  <2>3. GateTypeOK'
    BY <2>1, <2>2, GatewayAssumption DEF Receive
  <2>4. AttemptsTyped'
    BY <2>1, GatewayAssumption, IdleTyped DEF Receive
  <2> QED
    BY <2>2, <2>3, <2>4
<1>4. CASE \E r \in Requests : Inspect(r)
  BY <1>4, GatewayAssumption, IdleTyped DEF Inspect, ReqAtStep, ReqGoes, ReqEnds
<1>5. CASE \E r \in Requests : Lookup(r)
  BY <1>5, GatewayAssumption DEF Lookup, ReqAtStep, ReqGoes
<1>6. CASE \E r \in Requests : Acquire(r)
  BY <1>6, GatewayAssumption DEF Acquire, ReqAtStep, ReqGoes, MustBuild
<1>7. CASE \E r \in Requests : Build(r)
  BY <1>7, GatewayAssumption, IdleTyped DEF Build, ReqAtStep, ReqGoes, ReqEnds
<1>8. CASE \E r \in Requests : Fetch(r)
  <2>1. PICK r \in Requests : Fetch(r)
    BY <1>8
  <2>2. req' \in [Requests -> Request]
    <3>1. req[r] \in Request /\ cached \in 0..MaxBundles
      BY GatewayAssumption
    <3>2. [req[r] EXCEPT !.at = "attempt", !.bundle = cached] \in Request
      BY <3>1
    <3>3. \/ req' = [req EXCEPT ![r] = IdleReq]
          \/ req' = [req EXCEPT ![r] = [req[r] EXCEPT !.at = "attempt", !.bundle = cached]]
      BY <2>1 DEF Fetch, ReqEnds
    <3> QED
      BY <3>2, <3>3, IdleTyped
  <2>3. GateTypeOK'
    BY <2>1, <2>2, GatewayAssumption DEF Fetch, ReqAtStep, ReqEnds
  <2>4. AttemptsTyped'
    BY <2>1, GatewayAssumption, IdleTyped DEF Fetch, ReqAtStep, ReqEnds
  <2> QED
    BY <2>2, <2>3, <2>4
<1>9. CASE \E r \in Requests : TakeOut(r)
  <2>1. PICK r \in Requests : TakeOut(r)
    BY <1>9
  <2>2. req' \in [Requests -> Request]
    BY <2>1, GatewayAssumption, IdleTyped DEF TakeOut, ReqAtStep, ReqEnds
  <2>3. GateTypeOK'
    BY <2>1, <2>2, GatewayAssumption DEF TakeOut, ReqAtStep, ReqEnds
  <2>4. AttemptsTyped'
    BY <2>1, GatewayAssumption, IdleTyped DEF TakeOut, ReqAtStep, ReqEnds
  <2> QED
    BY <2>2, <2>3, <2>4
<1>10. CASE \E r \in Requests : CloseBundle(r)
  <2>1. PICK r \in Requests : CloseBundle(r)
    BY <1>10
  <2>2. req' \in [Requests -> Request]
    BY <2>1, GatewayAssumption, IdleTyped DEF CloseBundle, ReqAtStep, ReqEnds
  <2>3. GateTypeOK'
    BY <2>1, <2>2, GatewayAssumption DEF CloseBundle, ReqAtStep, ReqEnds
  <2>4. AttemptsTyped'
    BY <2>1, GatewayAssumption, IdleTyped DEF CloseBundle, ReqAtStep, ReqEnds
  <2> QED
    BY <2>2, <2>3, <2>4
<1>11. CASE \E r \in Requests : RefuseCall(r)
  BY <1>11, GatewayAssumption DEF RefuseCall, ReqAtStep, ReqGoes
<1>12. CASE \E r \in Requests : Attempt(r)
  BY <1>12, GatewayAssumption DEF Attempt, ReqAtStep
<1>13. CASE \E r \in Requests : HandlerEnds(r)
  <2>1. PICK r \in Requests : HandlerEnds(r)
    BY <1>13
  <2>2. req' \in [Requests -> Request]
    BY <2>1, GatewayAssumption DEF HandlerEnds, ReqAtStep, ReqGoes, FailWith
  <2>3. GateTypeOK'
    BY <2>1, <2>2, GatewayAssumption DEF HandlerEnds, ReqAtStep, ReqGoes, FailWith
  <2>4. AttemptsTyped'
    BY <2>1, GatewayAssumption DEF HandlerEnds, ReqAtStep, ReqGoes, FailWith
  <2> QED
    BY <2>2, <2>3, <2>4
<1>14. CASE \E r \in Requests : Timeout(r)
  <2>1. PICK r \in Requests : Timeout(r)
    BY <1>14
  <2>2. req' \in [Requests -> Request]
    <3>1. req[r] \in Request
      OBVIOUS
    <3>2. [req[r] EXCEPT !.at = "retry", !.error = "timeout"] \in Request
      BY <3>1
    <3>3. req' = [req EXCEPT ![r] = [req[r] EXCEPT !.at = "retry", !.error = "timeout"]]
      BY <2>1 DEF Timeout, FailWith
    <3> QED
      BY <3>2, <3>3
  <2>3. GateTypeOK'
    BY <2>1, <2>2, GatewayAssumption DEF Timeout, ReqAtStep, FailWith
  <2>4. AttemptsTyped'
    BY <2>1, GatewayAssumption DEF Timeout, ReqAtStep, FailWith
  <2> QED
    BY <2>2, <2>3, <2>4
<1>15. CASE \E r \in Requests : LateHandlerEnds(r)
  BY <1>15, GatewayAssumption DEF LateHandlerEnds
<1>16. CASE \E r \in Requests : WriteAudit(r)
  <2>1. PICK r \in Requests : WriteAudit(r)
    BY <1>16
  <2>2. req' \in [Requests -> Request]
    BY <2>1, GatewayAssumption DEF WriteAudit, ReqAtStep, ReqGoes, AuditFailed, FailWith
  <2>3. GateTypeOK'
    BY <2>1, <2>2, GatewayAssumption DEF WriteAudit, ReqAtStep, ReqGoes, AuditFailed, FailWith
  <2>4. AttemptsTyped'
    BY <2>1, GatewayAssumption DEF WriteAudit, ReqAtStep, ReqGoes, AuditFailed, FailWith
  <2> QED
    BY <2>2, <2>3, <2>4
<1>17. CASE \E r \in Requests : Retry(r)
  BY <1>17, GatewayAssumption DEF Retry, ReqAtStep, ReqGoes, MayRetry
<1>18. CASE \E r \in Requests : GiveUp(r)
  BY <1>18, GatewayAssumption, IdleTyped DEF GiveUp, ReqAtStep, ReqEnds
<1>19. CASE \E r \in Requests : Respond(r)
  BY <1>19, GatewayAssumption, IdleTyped DEF Respond, ReqAtStep, ReqEnds
<1> QED
  BY <1>1, <1>2, <1>3, <1>4, <1>5, <1>6, <1>7, <1>8, <1>9, <1>10, <1>11, <1>12, <1>13, <1>14, <1>15, <1>16, <1>17, <1>18, <1>19 DEF GateNext

\* Only Build, TakeOut and CloseBundle move a bundle.
LEMMA LeakStep == TypeInv /\ LeakInv /\ [GateNext]_gateVars => LeakInv'
<1> SUFFICES ASSUME TypeInv /\ LeakInv, [GateNext]_gateVars PROVE LeakInv'
  OBVIOUS
<1> USE DEF TypeInv, GateTypeOK, AttemptsTyped, LeakInv, BuildInv, NoBundleLeaks, Request, None
<1>1. CASE UNCHANGED gateVars
  BY <1>1 DEF gateVars, ReqAtStep
<1>2. CASE ProjectChanges
  BY <1>2 DEF ProjectChanges, ReqAtStep
<1>3. CASE \E r \in Requests : \E op \in Ops \ {"none"} : Receive(r, op)
  BY <1>3, NobodyAssumption, IdleTyped DEF Receive, ReqAtStep
<1>4. CASE \E r \in Requests : Inspect(r)
  BY <1>4, NobodyAssumption, IdleTyped DEF Inspect, ReqAtStep, ReqGoes, ReqEnds
<1>5. CASE \E r \in Requests : Lookup(r)
  BY <1>5, NobodyAssumption DEF Lookup, ReqAtStep, ReqGoes
<1>6. CASE \E r \in Requests : Acquire(r)
  BY <1>6, NobodyAssumption DEF Acquire, ReqAtStep, ReqGoes, MustBuild
<1>7. CASE \E r \in Requests : Build(r)
  <2>1. PICK r \in Requests : Build(r)
    BY <1>7
  <2>2. BuildInv'
    BY <2>1, NobodyAssumption, IdleTyped DEF Build, ReqAtStep, ReqGoes, ReqEnds
  <2>3. cached = None /\ req[r].at = "build"
    BY <2>1 DEF Build, ReqAtStep
  <2>4. \A s \in Requests : req[s].at = "closing" => req'[s] = req[s]
    BY <2>1, <2>3 DEF Build, ReqGoes, ReqEnds
  <2>5. ASSUME NEW b \in open' \ strays'
        PROVE  b = cached' \/ \E s \in Requests : req'[s].at = "closing" /\ req'[s].bundle = b
    <3>1. CASE b \in open
      <4>1. b # cached /\ b \notin strays
        BY <2>1, <2>3, <2>5, <3>1 DEF Build
      <4>2. PICK s \in Requests : req[s].at = "closing" /\ req[s].bundle = b
        BY <3>1, <4>1 DEF ReqAtStep
      <4> QED
        BY <2>4, <4>2
    <3>2. CASE b \notin open
      BY <2>1, <2>5, <3>2 DEF Build
    <3> QED
      BY <3>1, <3>2
  <2>6. NoBundleLeaks'
    BY <2>5 DEF ReqAtStep
  <2> QED
    BY <2>2, <2>6
<1>8. CASE \E r \in Requests : Fetch(r)
  BY <1>8, NobodyAssumption, IdleTyped DEF Fetch, ReqAtStep, ReqEnds
<1>9. CASE \E r \in Requests : TakeOut(r)
  BY <1>9, NobodyAssumption, IdleTyped DEF TakeOut, ReqAtStep, ReqEnds
<1>10. CASE \E r \in Requests : CloseBundle(r)
  <2>1. PICK r \in Requests : CloseBundle(r)
    BY <1>10
  <2>2. BuildInv'
    BY <2>1, NobodyAssumption, IdleTyped DEF CloseBundle, ReqAtStep, ReqEnds
  <2>3. \A s \in Requests \ {r} : req'[s] = req[s]
    BY <2>1 DEF CloseBundle, ReqEnds
  <2>4. open' = open \ {req[r].bundle} /\ strays' = strays /\ cached' = cached
    BY <2>1 DEF CloseBundle
  <2>5. ASSUME NEW b \in open' \ strays', b # cached'
        PROVE  \E s \in Requests : req'[s].at = "closing" /\ req'[s].bundle = b
    <3>1. PICK s \in Requests : req[s].at = "closing" /\ req[s].bundle = b
      BY <2>4, <2>5 DEF ReqAtStep
    <3>2. s # r
      BY <2>4, <2>5, <3>1
    <3> QED
      BY <2>3, <3>1, <3>2
  <2>6. NoBundleLeaks'
    BY <2>5 DEF ReqAtStep
  <2> QED
    BY <2>2, <2>6
<1>11. CASE \E r \in Requests : RefuseCall(r)
  BY <1>11, NobodyAssumption DEF RefuseCall, ReqAtStep, ReqGoes
<1>12. CASE \E r \in Requests : Attempt(r)
  BY <1>12, NobodyAssumption DEF Attempt, ReqAtStep
<1>13. CASE \E r \in Requests : HandlerEnds(r)
  BY <1>13, NobodyAssumption DEF HandlerEnds, ReqAtStep, ReqGoes, FailWith
<1>14. CASE \E r \in Requests : Timeout(r)
  BY <1>14, NobodyAssumption DEF Timeout, ReqAtStep, FailWith
<1>15. CASE \E r \in Requests : LateHandlerEnds(r)
  BY <1>15, NobodyAssumption DEF LateHandlerEnds, ReqAtStep
<1>16. CASE \E r \in Requests : WriteAudit(r)
  BY <1>16, NobodyAssumption DEF WriteAudit, ReqAtStep, ReqGoes, AuditFailed, FailWith
<1>17. CASE \E r \in Requests : Retry(r)
  BY <1>17, NobodyAssumption DEF Retry, ReqAtStep, ReqGoes, MayRetry
<1>18. CASE \E r \in Requests : GiveUp(r)
  BY <1>18, NobodyAssumption, IdleTyped DEF GiveUp, ReqAtStep, ReqEnds
<1>19. CASE \E r \in Requests : Respond(r)
  BY <1>19, NobodyAssumption, IdleTyped DEF Respond, ReqAtStep, ReqEnds
<1> QED
  BY <1>1, <1>2, <1>3, <1>4, <1>5, <1>6, <1>7, <1>8, <1>9, <1>10, <1>11, <1>12, <1>13, <1>14, <1>15, <1>16, <1>17, <1>18, <1>19 DEF GateNext

\* Only WriteAudit and GiveUp write lines.
LEMMA AuditStep == TypeInv /\ AuditInv /\ [GateNext]_gateVars => AuditInv'
<1> SUFFICES ASSUME TypeInv /\ AuditInv, [GateNext]_gateVars PROVE AuditInv'
  OBVIOUS
<1> USE DEF TypeInv, GateTypeOK, AuditInv, Request, None
<1>1. CASE UNCHANGED gateVars
  BY <1>1 DEF gateVars
<1>2. CASE ProjectChanges
  BY <1>2 DEF ProjectChanges
<1>3. CASE \E r \in Requests : \E op \in Ops \ {"none"} : Receive(r, op)
  BY <1>3, IdleTyped DEF Receive
<1>4. CASE \E r \in Requests : Inspect(r)
  BY <1>4, IdleTyped DEF Inspect, ReqAtStep, ReqGoes, ReqEnds
<1>5. CASE \E r \in Requests : Lookup(r)
  BY <1>5 DEF Lookup, ReqAtStep, ReqGoes
<1>6. CASE \E r \in Requests : Acquire(r)
  BY <1>6 DEF Acquire, ReqAtStep, ReqGoes, MustBuild
<1>7. CASE \E r \in Requests : Build(r)
  BY <1>7, IdleTyped DEF Build, ReqAtStep, ReqGoes, ReqEnds
<1>8. CASE \E r \in Requests : Fetch(r)
  BY <1>8, IdleTyped DEF Fetch, ReqAtStep, ReqEnds
<1>9. CASE \E r \in Requests : TakeOut(r)
  BY <1>9, IdleTyped DEF TakeOut, ReqAtStep, ReqEnds
<1>10. CASE \E r \in Requests : CloseBundle(r)
  BY <1>10, IdleTyped DEF CloseBundle, ReqAtStep, ReqEnds
<1>11. CASE \E r \in Requests : RefuseCall(r)
  BY <1>11 DEF RefuseCall, ReqAtStep, ReqGoes
<1>12. CASE \E r \in Requests : Attempt(r)
  BY <1>12 DEF Attempt, ReqAtStep
<1>13. CASE \E r \in Requests : HandlerEnds(r)
  BY <1>13 DEF HandlerEnds, ReqAtStep, ReqGoes, FailWith
<1>14. CASE \E r \in Requests : Timeout(r)
  BY <1>14 DEF Timeout, ReqAtStep, FailWith
<1>15. CASE \E r \in Requests : LateHandlerEnds(r)
  BY <1>15 DEF LateHandlerEnds
<1>16. CASE \E r \in Requests : WriteAudit(r)
  <2>1. PICK r \in Requests : WriteAudit(r)
    BY <1>16
  <2>2. req[r].at = "audit" /\ audit[r] = {}
    BY <2>1 DEF WriteAudit, ReqAtStep
  <2>3. \A s \in Requests \ {r} : req'[s] = req[s] /\ audit'[s] = audit[s]
    BY <2>1 DEF WriteAudit, ReqGoes, AuditFailed, FailWith
  <2>4. CASE audit' = [audit EXCEPT ![r] = @ \cup {"success"}] /\ ReqGoes(r, "answered")
    <3>1. audit'[r] = {"success"} /\ req'[r].at = "answered"
      BY <2>2, <2>4 DEF ReqGoes
    <3> QED
      BY <2>3, <3>1
  <2>5. CASE AuditFailed(r) /\ UNCHANGED audit
    <3>1. audit'[r] = {} /\ req'[r].at = "retry"
      BY <2>2, <2>5 DEF AuditFailed, FailWith
    <3> QED
      BY <2>3, <3>1
  <2> QED
    BY <2>1, <2>4, <2>5 DEF WriteAudit
<1>17. CASE \E r \in Requests : Retry(r)
  BY <1>17 DEF Retry, ReqAtStep, ReqGoes, MayRetry
<1>18. CASE \E r \in Requests : GiveUp(r)
  BY <1>18, IdleTyped DEF GiveUp, ReqAtStep, ReqEnds
<1>19. CASE \E r \in Requests : Respond(r)
  BY <1>19, IdleTyped DEF Respond, ReqAtStep, ReqEnds
<1> QED
  BY <1>1, <1>2, <1>3, <1>4, <1>5, <1>6, <1>7, <1>8, <1>9, <1>10, <1>11, <1>12, <1>13, <1>14, <1>15, <1>16, <1>17, <1>18, <1>19 DEF GateNext

----------------------------------------------------------------------------
\* tools/registry.py and main.py:134-173: requests, the cache and the audit
\* keep their types, with it that the handlers left behind are bounded.
THEOREM TypeCorrect == GateSpec => []GateTypeOK
<1>1. TypeInv => GateTypeOK
  BY DEF TypeInv
<1> QED
  BY TypeInit, TypeStep, <1>1, PTL DEF GateSpec

\* main.py:148-173: however requests build, fetch and close at once, a bundle
\* with an open driver is in the cache or in the hands of a close.
THEOREM BundlesAreClosed == GateSpec => []NoBundleLeaks
<1>1. GateInit => LeakInv
  BY DEF GateInit, LeakInv, BuildInv, NoBundleLeaks, IdleReq
<1>2. LeakInv => NoBundleLeaks
  BY DEF LeakInv
<1> QED
  BY TypeInit, TypeStep, <1>1, LeakStep, <1>2, PTL DEF GateSpec

\* tools/registry.py:259-273: an answer has its success line, and no failure
\* of an earlier attempt beside it.
THEOREM AnswersAudited == GateSpec => []AnsweredIsAudited
<1>1. GateInit => AuditInv
  BY DEF GateInit, AuditInv, IdleReq
<1>2. AuditInv => AnsweredIsAudited
  BY DEF AuditInv, AnsweredIsAudited, ReqAtStep
<1> QED
  BY TypeInit, TypeStep, <1>1, AuditStep, <1>2, PTL DEF GateSpec
============================================================================
