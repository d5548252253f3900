----------------------------- MODULE QueryGateway -----------------------------
(***************************************************************************)
(* The way of a request through backend/app/api/main.py: the readiness     *)
(* gate, the cache of service bundles (ServiceRegistry), and the call of a *)
(* tool with timeout, retries and audit (backend/app/tools/registry.py).   *)
(*                                                                         *)
(* One project is kept.  Handlers are threads: one that times out is left  *)
(* behind and goes on.  The built-in tools allow no retry; the registry    *)
(* offers it, so the bound is a parameter.  The limiter that may refuse a  *)
(* query before all this is the module RateLimit.                          *)
(***************************************************************************)
EXTENDS Naturals, FiniteSets

CONSTANTS Requests,          \* request threads
          MaxRetries,        \* ToolSpec.max_retries
          MaxBundles         \* bound: bundles are numbered 1, 2, ...

ASSUME GatewayAssumption == {MaxRetries, MaxBundles} \subseteq Nat

VARIABLES ready,             \* readiness.inspect: can_query
          cached,            \* _bundles: the bundle of the project, or none
          building,          \* the request that holds the registry's lock to build
          built,             \* bundles numbered so far
          open,              \* bundles whose driver is open
          strays,            \* history: bundles whose construction failed half-way
          req,               \* what each request executes
          late,              \* handler threads left behind by each request
          audit              \* tool_audit.jsonl: lines of the call of each request

gateVars == <<ready, cached, building, built, open, strays, req, late, audit>>

None    == 0
Nobody  == "nobody"

ASSUME NobodyAssumption == Nobody \notin Requests

Ops     == {"none", "query", "tool", "close"}
ReqAt   == {"idle", "inspect", "lookup", "lock", "build", "fetch", "attempt", "running", "audit",
            "retry", "give_up", "closing", "answered"}
Errors  == {"none", "timeout", "execution", "output"}
Retryable == {"timeout", "execution"}
Request == [op : Ops, at : ReqAt, bundle : 0..MaxBundles, attempts : 0..(MaxRetries + 1),
            error : Errors]

IdleReq == [op |-> "none", at |-> "idle", bundle |-> None, attempts |-> 0, error |-> "none"]

GateInit ==
  /\ ready \in BOOLEAN
  /\ cached = None /\ building = Nobody /\ built = 0 /\ open = {} /\ strays = {}
  /\ req = [r \in Requests |-> IdleReq]
  /\ late = [r \in Requests |-> 0]
  /\ audit = [r \in Requests |-> {}]

----------------------------------------------------------------------------
ReqAtStep(r, step) == req[r].at = step
ReqGoes(r, step) == req' = [req EXCEPT ![r].at = step]
ReqEnds(r) == req' = [req EXCEPT ![r] = IdleReq]

\* Uploads, approvals, loads, evaluations and archives change readiness.
ProjectChanges ==
  /\ ready' = ~ready
  /\ UNCHANGED <<cached, building, built, open, strays, req, late, audit>>

(* query_graph after the limiters and the router; the tool endpoint enters *)
(* behind the readiness gate.  close follows a promotion, an approval, a   *)
(* load or a projection.                                                   *)
Receive(r, op) ==
  /\ req[r] = IdleReq /\ late[r] = 0
  /\ req' = [req EXCEPT ![r] = [IdleReq EXCEPT !.op = op,
       !.at = CASE op = "query" -> "inspect" [] op = "tool" -> "lookup" [] OTHER -> "lock"]]
  /\ audit' = [audit EXCEPT ![r] = {}]
  /\ UNCHANGED <<ready, cached, building, built, open, strays, late>>

Inspect(r) ==
  /\ ReqAtStep(r, "inspect")
  /\ IF ready THEN ReqGoes(r, "lookup") ELSE ReqEnds(r)
  /\ UNCHANGED <<ready, cached, building, built, open, strays, late, audit>>

(* get: the cache is looked at without the lock, ...                       *)
Lookup(r) ==
  /\ ReqAtStep(r, "lookup")
  /\ ReqGoes(r, IF cached # None THEN "fetch" ELSE "lock")
  /\ UNCHANGED <<ready, cached, building, built, open, strays, late, audit>>

\* Mutant of MustBuild: what was seen before the lock is not tested again.
SeenMissing == TRUE

MustBuild == cached = None

(* ... again under the lock, which is kept while the factory builds, ...   *)
Acquire(r) ==
  /\ ReqAtStep(r, "lock") /\ req[r].op # "close"
  /\ building = Nobody
  /\ IF MustBuild
     THEN built < MaxBundles /\ building' = r /\ built' = built + 1
          /\ req' = [req EXCEPT ![r].at = "build", ![r].bundle = built + 1]
     ELSE ReqGoes(r, "fetch") /\ UNCHANGED <<building, built>>
  /\ UNCHANGED <<ready, cached, open, strays, late, audit>>

\* build_service_bundle opens the driver; an error after that closes it for
\* some causes (the model, the checkpoint store) and forgets it for others.
Build(r) ==
  /\ ReqAtStep(r, "build")
  /\ building' = Nobody
  /\ \/ /\ cached' = req[r].bundle
        /\ open' = open \cup {req[r].bundle}
        /\ ReqGoes(r, "fetch")
        /\ UNCHANGED strays
     \/ /\ \/ UNCHANGED <<open, strays>>
           \/ open' = open \cup {req[r].bundle} /\ strays' = strays \cup {req[r].bundle}
        /\ ReqEnds(r)
        /\ UNCHANGED cached
  /\ UNCHANGED <<ready, built, late, audit>>

(* ... and the bundle is fetched after the lock: KeyError if it is gone.   *)
Fetch(r) ==
  /\ ReqAtStep(r, "fetch")
  /\ IF cached = None THEN ReqEnds(r)
     ELSE req' = [req EXCEPT ![r].at = "attempt", ![r].bundle = cached]
  /\ UNCHANGED <<ready, cached, building, built, open, strays, late, audit>>

(* close takes the bundle out under the lock and closes it outside.        *)
TakeOut(r) ==
  /\ ReqAtStep(r, "lock") /\ req[r].op = "close"
  /\ building = Nobody
  /\ cached' = None
  /\ IF cached = None THEN ReqEnds(r)
     ELSE req' = [req EXCEPT ![r].at = "closing", ![r].bundle = cached]
  /\ UNCHANGED <<ready, building, built, open, strays, late, audit>>

\* Requests that hold the bundle are not waited for.
CloseBundle(r) ==
  /\ ReqAtStep(r, "closing")
  /\ open' = open \ {req[r].bundle}
  /\ ReqEnds(r)
  /\ UNCHANGED <<ready, cached, building, built, strays, late, audit>>

(* A call without the role, or with an input of another form, is refused   *)
(* before any handler runs, and audited as failed.                         *)
RefuseCall(r) ==
  /\ ReqAtStep(r, "attempt") /\ req[r].attempts = 0
  /\ ReqGoes(r, "give_up")
  /\ UNCHANGED <<ready, cached, building, built, open, strays, late, audit>>

(* _execute_once: the handler runs in a thread of its own.                 *)
Attempt(r) ==
  /\ ReqAtStep(r, "attempt")
  /\ req' = [req EXCEPT ![r].at = "running", ![r].attempts = @ + 1]
  /\ UNCHANGED <<ready, cached, building, built, open, strays, late, audit>>

FailWith(r, e) == req' = [req EXCEPT ![r].at = "retry", ![r].error = e]

\* The answer of a handler needs an open driver; its form is checked.
HandlerEnds(r) ==
  /\ ReqAtStep(r, "running")
  /\ \/ req[r].bundle \in open /\ ReqGoes(r, "audit")
     \/ req[r].bundle \in open /\ FailWith(r, "output")
     \/ FailWith(r, "execution")
  /\ UNCHANGED <<ready, cached, building, built, open, strays, late, audit>>

Timeout(r) ==
  /\ ReqAtStep(r, "running")
  /\ late' = [late EXCEPT ![r] = @ + 1]
  /\ FailWith(r, "timeout")
  /\ UNCHANGED <<ready, cached, building, built, open, strays, audit>>

LateHandlerEnds(r) ==
  /\ late[r] > 0
  /\ late' = [late EXCEPT ![r] = @ - 1]
  /\ UNCHANGED <<ready, cached, building, built, open, strays, req, audit>>

\* Mutant of AuditFailed: the answer is given although its line is not written.
AnsweredAnyway(r) == ReqGoes(r, "answered")

\* The audit is written inside the try: its error counts as one of the tool.
AuditFailed(r) == FailWith(r, "execution")

WriteAudit(r) ==
  /\ ReqAtStep(r, "audit")
  /\ \/ audit' = [audit EXCEPT ![r] = @ \cup {"success"}] /\ ReqGoes(r, "answered")
     \/ AuditFailed(r) /\ UNCHANGED audit
  /\ UNCHANGED <<ready, cached, building, built, open, strays, late>>

MayRetry(r) == req[r].error \in Retryable /\ req[r].attempts <= MaxRetries

Retry(r) ==
  /\ ReqAtStep(r, "retry")
  /\ ReqGoes(r, IF MayRetry(r) THEN "attempt" ELSE "give_up")
  /\ UNCHANGED <<ready, cached, building, built, open, strays, late, audit>>

\* The failed call is audited as well, if the file can be written.
GiveUp(r) ==
  /\ ReqAtStep(r, "give_up")
  /\ \/ audit' = [audit EXCEPT ![r] = @ \cup {"failed"}]
     \/ UNCHANGED audit
  /\ ReqEnds(r)
  /\ UNCHANGED <<ready, cached, building, built, open, strays, late>>

Respond(r) ==
  /\ ReqAtStep(r, "answered")
  /\ ReqEnds(r)
  /\ UNCHANGED <<ready, cached, building, built, open, strays, late, audit>>

GateNext ==
  \/ ProjectChanges
  \/ \E r \in Requests :
       \/ \E op \in Ops \ {"none"} : Receive(r, op)
       \/ Inspect(r) \/ Lookup(r) \/ Acquire(r) \/ Build(r) \/ Fetch(r)
       \/ TakeOut(r) \/ CloseBundle(r)
       \/ RefuseCall(r) \/ Attempt(r) \/ HandlerEnds(r) \/ Timeout(r) \/ LateHandlerEnds(r)
       \/ WriteAudit(r) \/ Retry(r) \/ GiveUp(r) \/ Respond(r)

GateSpec == GateInit /\ [][GateNext]_gateVars

----------------------------------------------------------------------------
GateTypeOK ==
  /\ ready \in BOOLEAN
  /\ cached \in 0..built /\ built \in 0..MaxBundles
  /\ building \in Requests \cup {Nobody}
  /\ open \subseteq 1..built /\ strays \subseteq 1..built
  /\ req \in [Requests -> Request]
  /\ late \in [Requests -> 0..(MaxRetries + 1)]
  /\ audit \in [Requests -> SUBSET {"success", "failed"}]

(* main.py:148-173: a bundle with an open driver can still be closed: it   *)
(* is in the cache or in the hands of a close, whatever requests build,    *)
(* fetch and close at once; only a construction that failed leaves others. *)
NoBundleLeaks ==
  open \ strays \subseteq
    {cached} \cup {req[r].bundle : r \in {x \in Requests : ReqAtStep(x, "closing")}}

(* tools/registry.py:259-273: a call that is answered has its success line *)
(* and no failure, also when earlier attempts failed or the file could not *)
(* be written.                                                             *)
AnsweredIsAudited == \A r \in Requests : ReqAtStep(r, "answered") => audit[r] = {"success"}

============================================================================
