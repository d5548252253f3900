----------------------- MODULE ProjectLifecycleProof -----------------------
(***************************************************************************)
(* Safety of ProjectLifecycle for every number of clients, uploads and     *)
(* schema labels, overlapping requests and process stops included: what is *)
(* in the graph was approved, and a project that waits for its evaluation  *)
(* or is ready has a loaded graph and a recorded integrity check.          *)
(***************************************************************************)
EXTENDS MCProjectLifecycle, TLAPS

\* What a request names, and what a load has established on its way.
RequestFacts(c) ==
  /\ req[c].op \in {"approve", "load"} => req[c].upload # None
  /\ req[c].op = "load" =>
       /\ req[c].at = "load" => req[c].upload \in approvals
       /\ req[c].at \in {"validate", "record", "complete"} => graph # None
       /\ req[c].at = "complete" => integrity # None

RequestInv == \A c \in Clients : RequestFacts(c)
MappingInv == mapping # Unmapped => mapping.source \in approvals

IInv == TypeOK /\ RequestInv /\ MappingInv /\ GraphWasApproved /\ EvaluatedAfterIntegrity

----------------------------------------------------------------------------
\* The values the actions start from.
LEMMA IdleTyped == Idle \in Request /\ Nothing \in Lineage /\ Unmapped \in Mapping
                   /\ Idle.op = "none"
                   /\ Idle.upload = None /\ Idle.at = "idle"
  BY DEF Idle, Nothing, Unmapped, Mapping, Request, Ops, Steps, Lineage, Source, Schema

\* A request that goes on is still a request.
LEMMA RequestTyped ==
  /\ \A r \in Request, s \in Steps : [r EXCEPT !.at = s] \in Request
  /\ \A r \in Request, s \in Steps, w \in Lineage : [r EXCEPT !.at = s, !.row = w] \in Request
  /\ \A r \in Request, s \in Steps, u \in Source : [r EXCEPT !.at = s, !.upload = u] \in Request
  /\ \A s \in Steps, o \in Ops : [Idle EXCEPT !.op = o, !.at = s] \in Request
  /\ \A s \in Steps, o \in Ops, u \in Source :
       [Idle EXCEPT !.op = o, !.at = s, !.upload = u] \in Request
  /\ \A s \in Steps, o \in Ops, v \in Schema :
       [Idle EXCEPT !.op = o, !.at = s, !.schema = v] \in Request
  /\ \A s \in Steps, o \in Ops, u, w \in Source, v \in Schema :
       [Idle EXCEPT !.op = o, !.at = s, !.upload = u, !.schema = v, !.label = w] \in Request
<1>1. Idle \in Request
  BY IdleTyped
<1> QED
  BY <1>1 DEF Request

\* Only one request changes in a step of a client.
LEMMA ThenTyped ==
  ASSUME req \in [Clients -> Request], NEW c \in Clients, NEW r \in Request, Then(c, r)
  PROVE  /\ req' \in [Clients -> Request] /\ req'[c] = r
         /\ \A d \in Clients \ {c} : req'[d] = req[d]
  BY DEF Then

\* Only a project that waits for its evaluation becomes ready.
LEMMA ReadyFrom ==
  ASSUME NEW s \in Machine!Statuses, "ready" \in Machine!AllowedTransitions[s]
  PROVE  s = "evaluation_required"
  BY DEF Machine!Statuses, Machine!AllowedTransitions

\* The statuses a handler asks for are statuses.
LEMMA Targets == {"profiling", "mapping_review", "failed", "loading", "validating",
                  "evaluation_required", "ready", "archived"} \subseteq Machine!Statuses
  BY DEF Machine!Statuses

\* Mapping, approvals and graph only matter through a few facts: what a step of a
\* client that leaves them alone has to show.
LEMMA Quiet ==
  ASSUME IInv, NEW c \in Clients,
         status' \in Machine!Statuses, row' \in Lineage, linked' \in Source,
         uploads' \in 0..MaxUploads, manifest' \in Lineage, evaluated' \in Lineage,
         lock' \in BOOLEAN, req' \in [Clients -> Request],
         UNCHANGED <<integrity, mapping, graph, approvals>>,
         \A d \in Clients \ {c} : req'[d] = req[d],
         RequestFacts(c)',
         status' \in {"evaluation_required", "ready"} => integrity # None /\ graph # None
  PROVE  IInv'
<1>1. TypeOK'
  BY DEF IInv, TypeOK
<1>2. RequestInv'
  <2> SUFFICES ASSUME NEW d \in Clients PROVE RequestFacts(d)'
    BY DEF RequestInv
  <2>1. CASE d = c
    BY <2>1
  <2>2. CASE d # c
    BY <2>2 DEF IInv, RequestInv, RequestFacts
  <2> QED BY <2>1, <2>2
<1>3. MappingInv' /\ GraphWasApproved' /\ EvaluatedAfterIntegrity'
  BY DEF IInv, MappingInv, GraphWasApproved, EvaluatedAfterIntegrity
<1> QED
  BY <1>1, <1>2, <1>3 DEF IInv

\* Nothing has been uploaded, approved or loaded.
LEMMA InitInv == Init => IInv
<1> SUFFICES ASSUME Init PROVE IInv
  OBVIOUS
<1>1. TypeOK
  <2>1. "draft" \in Machine!Statuses
    BY DEF Machine!Statuses
  <2>2. None \in Source /\ 0 \in 0..MaxUploads
    BY UploadsAssumption DEF Source
  <2>3. req \in [Clients -> Request]
    BY IdleTyped DEF Init
  <2> QED BY <2>1, <2>2, <2>3, IdleTyped DEF Init, TypeOK
<1>2. RequestInv /\ MappingInv /\ GraphWasApproved /\ EvaluatedAfterIntegrity
  BY IdleTyped DEF Init, RequestInv, RequestFacts, MappingInv, GraphWasApproved,
                   EvaluatedAfterIntegrity
<1> QED
  BY <1>1, <1>2 DEF IInv

----------------------------------------------------------------------------
\* The state a client's action starts from.
Facts(c) ==
  /\ status \in Machine!Statuses /\ row \in Lineage /\ linked \in Source
  /\ integrity \in Source /\ uploads \in 0..MaxUploads /\ mapping \in Mapping
  /\ manifest \in Lineage /\ evaluated \in Lineage /\ graph \in Source
  /\ lock \in BOOLEAN /\ approvals \in SUBSET Uploads
  /\ req \in [Clients -> Request] /\ req[c] \in Request
  /\ req[c].upload \in Source /\ req[c].schema \in Schema /\ req[c].row \in Lineage
  /\ req[c].label \in Source
  /\ req[c].op \in Ops /\ RequestFacts(c)
  /\ status \in {"evaluation_required", "ready"} => integrity # None /\ graph # None

\* They follow from IInv.
LEMMA Before == ASSUME IInv, NEW c \in Clients PROVE Facts(c)
  BY DEF IInv, TypeOK, RequestInv, EvaluatedAfterIntegrity, Request, Facts

\* The reads and writes of the registry row.
LEMMA RowStep == ASSUME IInv, NEW c \in Clients, ReadRow(c) \/ WriteRow(c) PROVE IInv'
<1>0. Facts(c)
  BY Before
<1>. USE <1>0 DEF Facts
<1>1. CASE ReadRow(c)
  <2>1. [req[c] EXCEPT !.at = "write", !.row = row] \in Request
    BY RequestTyped DEF Steps, Ops
  <2>2. /\ req' \in [Clients -> Request]
        /\ req'[c] = [req[c] EXCEPT !.at = "write", !.row = row]
        /\ \A d \in Clients \ {c} : req'[d] = req[d]
    BY <1>1, <2>1, ThenTyped DEF ReadRow
  <2>3. RequestFacts(c)'
    BY <1>1, <2>2 DEF ReadRow, RequestFacts, Request
  <2> QED BY <1>1, <2>2, <2>3, Quiet DEF ReadRow
<1>2. CASE WriteRow(c)
  <2>1. AfterWrite(req[c]) \in Request
    BY IdleTyped, RequestTyped DEF AfterWrite, Steps, Ops
  <2>2. /\ req' \in [Clients -> Request] /\ req'[c] = AfterWrite(req[c])
        /\ \A d \in Clients \ {c} : req'[d] = req[d]
    BY <1>2, <2>1, ThenTyped DEF WriteRow
  <2>3. RequestFacts(c)'
    BY <1>2, <2>2, IdleTyped DEF WriteRow, AfterWrite, RequestFacts, Request
  <2>4. row' \in Lineage
    BY <1>2 DEF WriteRow, NewRow, Lineage, Request
  <2> QED BY <1>2, <2>2, <2>3, <2>4, Quiet DEF WriteRow
<1> QED BY <1>1, <1>2

\* A request that neither approves nor loads, or one that ends, has no facts to show.
LEMMA NoLoad ==
  ASSUME NEW c \in Clients, req'[c].op \notin {"approve", "load"}
  PROVE  RequestFacts(c)'
  BY DEF RequestFacts

\* The upload handler never touches the mapping, the graph or its integrity.
LEMMA ProfileStep ==
  ASSUME IInv, NEW c \in Clients,
         ProfileBegin(c) \/ ProfileStore(c) \/ ProfileLink(c) \/ ProfileError(c)
  PROVE  IInv'
<1>0. Facts(c)
  BY Before
<1>. USE <1>0, IdleTyped DEF Facts
<1>a. /\ [Idle EXCEPT !.op = "profile", !.at = "store"] \in Request
      /\ [Idle EXCEPT !.op = "profile", !.at = "profile_error"] \in Request
      /\ [[Idle EXCEPT !.op = "profile", !.at = "store"] EXCEPT !.at = "profile_error"] \in Request
      /\ [req[c] EXCEPT !.at = "profile_error"] \in Request
      /\ \A u \in Source : [req[c] EXCEPT !.at = "read", !.upload = u] \in Request
  BY RequestTyped DEF Steps, Ops
<1>1. CASE ProfileBegin(c)
  <2> DEFINE r == [Idle EXCEPT !.op = "profile", !.at = "store"]
             e == [r EXCEPT !.at = "profile_error"]
  <2>1. /\ status' \in Machine!Statuses /\ status' \in {status, "profiling"}
        /\ req' \in [Clients -> Request] /\ req'[c] \in {r, e, Idle}
        /\ \A d \in Clients \ {c} : req'[d] = req[d]
    <3>1. CASE UNCHANGED status /\ Then(c, e)
      BY <1>a, <3>1, ThenTyped
    <3>2. CASE Transition(c, "profiling", r, e, Idle)
      BY <1>a, <3>2, ThenTyped, Targets DEF Transition
    <3> QED BY <1>1, <3>1, <3>2 DEF ProfileBegin
  <2>2. r.op = "profile" /\ e.op = "profile"
    BY DEF Idle
  <2>3. RequestFacts(c)'
    BY <2>1, <2>2, NoLoad
  <2> QED BY <1>1, <2>1, <2>3, Quiet DEF ProfileBegin
<1>2. CASE ProfileStore(c)
  <2>1. uploads' \in 0..MaxUploads /\ uploads' \in {uploads, uploads + 1}
    BY <1>2, UploadsAssumption DEF ProfileStore
  <2>2. PICK r \in Request : Then(c, r) /\ r.op \in {"profile", "none"}
    <3>1. CASE /\ uploads < MaxUploads
               /\ Then(c, [req[c] EXCEPT !.at = "read", !.upload = uploads + 1])
      <4>1. uploads + 1 \in Source
        BY <3>1, UploadsAssumption DEF Source, Uploads
      <4>2. PICK r : r = [req[c] EXCEPT !.at = "read", !.upload = uploads + 1]
        OBVIOUS
      <4>3. r \in Request /\ Then(c, r)
        BY <1>a, <3>1, <4>1, <4>2
      <4>4. r.op = "profile"
        BY <1>2, <4>2 DEF ProfileStore, At, Request
      <4> QED BY <4>3, <4>4
    <3>2. CASE Goto(c, "profile_error")
      BY <1>a, <1>2, <3>2 DEF ProfileStore, At, Goto, Request
    <3>3. CASE Finish(c)
      BY <3>3 DEF Finish
    <3> QED BY <1>2, <3>1, <3>2, <3>3 DEF ProfileStore
  <2>3. /\ req' \in [Clients -> Request] /\ req'[c] = r
        /\ \A d \in Clients \ {c} : req'[d] = req[d]
    BY <2>2, ThenTyped
  <2>4. RequestFacts(c)'
    BY <2>2, <2>3, NoLoad
  <2> QED BY <1>2, <2>1, <2>3, <2>4, Quiet DEF ProfileStore
<1>3. CASE ProfileLink(c)
  <2>1. /\ status' \in Machine!Statuses /\ status' \in {status, "mapping_review"}
        /\ req' \in [Clients -> Request]
        /\ req'[c] \in {Idle, [req[c] EXCEPT !.at = "profile_error"]}
        /\ \A d \in Clients \ {c} : req'[d] = req[d]
    BY <1>a, <1>3, ThenTyped, Targets DEF ProfileLink, Transition
  <2>2. RequestFacts(c)'
    BY <1>3, <2>1, NoLoad DEF ProfileLink, At, Request
  <2> QED BY <1>3, <2>1, <2>2, Quiet DEF ProfileLink
<1>4. CASE ProfileError(c)
  <2>1. /\ status' \in Machine!Statuses /\ status' \in {status, "failed"}
        /\ req' \in [Clients -> Request] /\ req'[c] = Idle
        /\ \A d \in Clients \ {c} : req'[d] = req[d]
    <3>1. CASE Transition(c, "failed", Idle, Idle, Idle)
      BY <3>1, ThenTyped, Targets DEF Transition
    <3>2. CASE UNCHANGED status /\ Finish(c)
      BY <3>2, ThenTyped DEF Finish
    <3> QED BY <1>4, <3>1, <3>2 DEF ProfileError
  <2>2. RequestFacts(c)'
    BY <2>1, NoLoad
  <2> QED BY <1>4, <2>1, <2>2, Quiet DEF ProfileError
<1> QED BY <1>1, <1>2, <1>3, <1>4

\* An approval adds the upload of the mapping it saves to the approved ones.
LEMMA ApproveStep ==
  ASSUME IInv, NEW c \in Clients,
         \/ \E u, w \in Uploads, v \in Schemas : ApproveBegin(c, u, v, w)
         \/ SaveMapping(c) \/ SaveSchema(c)
  PROVE  IInv'
<1>0. Facts(c)
  BY Before
<1>. USE <1>0, IdleTyped DEF Facts
<1>1. ASSUME NEW u \in Uploads, NEW w \in Uploads, NEW v \in Schemas, ApproveBegin(c, u, v, w)
      PROVE  IInv'
  <2> DEFINE r == [Idle EXCEPT !.op = "approve", !.at = "save_mapping", !.upload = u, !.schema = v,
                               !.label = w]
  <2>a. u \in Source /\ w \in Source /\ v \in Schema /\ u # None
    BY UploadsAssumption DEF Source, Schema, Uploads, None
  <2>b. "approve" \in Ops /\ "save_mapping" \in Steps
    BY DEF Ops, Steps
  <2>1. r \in Request /\ r.op = "approve" /\ r.upload # None
    BY <2>a, <2>b, RequestTyped DEF Idle
  <2>2. /\ req' \in [Clients -> Request] /\ req'[c] = r
        /\ \A d \in Clients \ {c} : req'[d] = req[d]
    BY <1>1, <2>1, ThenTyped DEF ApproveBegin
  <2>3. RequestFacts(c)'
    BY <2>1, <2>2 DEF RequestFacts
  <2> QED BY <1>1, <2>2, <2>3, Quiet DEF ApproveBegin
<1>2. CASE SaveMapping(c)
  <2>1. [req[c] EXCEPT !.at = "save_schema"] \in Request
    BY RequestTyped DEF Steps
  <2>2. /\ req' \in [Clients -> Request] /\ req'[c].op = "approve"
        /\ req'[c].upload = req[c].upload /\ \A d \in Clients \ {c} : req'[d] = req[d]
    BY <1>2, <2>1, ThenTyped DEF SaveMapping, Goto, At, Request
  <2>3. mapping' \in Mapping /\ mapping'.source = req[c].upload
    BY <1>2 DEF SaveMapping, Mapping
  <2>4. /\ approvals' = approvals \cup {req[c].upload}
        /\ UNCHANGED <<status, row, linked, integrity, uploads, manifest, evaluated, graph, lock>>
    BY <1>2 DEF SaveMapping
  <2>5. req[c].upload \in Uploads
    BY <1>2 DEF RequestFacts, SaveMapping, At, Source
  <2>6. TypeOK'
    BY <2>2, <2>3, <2>4, <2>5 DEF TypeOK
  <2>7. RequestInv'
    <3> SUFFICES ASSUME NEW d \in Clients PROVE RequestFacts(d)'
      BY DEF RequestInv
    <3>1. CASE d = c
      BY <1>2, <2>2, <3>1 DEF RequestFacts, SaveMapping, At
    <3>2. CASE d # c
      BY <2>2, <2>4, <3>2 DEF IInv, RequestInv, RequestFacts
    <3> QED BY <3>1, <3>2
  <2>8. MappingInv' /\ GraphWasApproved' /\ EvaluatedAfterIntegrity'
    BY <2>3, <2>4 DEF IInv, MappingInv, GraphWasApproved, EvaluatedAfterIntegrity
  <2> QED BY <2>6, <2>7, <2>8 DEF IInv
<1>3. CASE SaveSchema(c)
  <2>1. [req[c] EXCEPT !.at = "read"] \in Request
    BY RequestTyped DEF Steps
  <2>2. /\ req' \in [Clients -> Request] /\ req'[c].op = "approve"
        /\ req'[c].upload = req[c].upload /\ \A d \in Clients \ {c} : req'[d] = req[d]
    BY <1>3, <2>1, ThenTyped DEF SaveSchema, Goto, At, Request
  <2>3. manifest' \in Lineage
    BY <1>3 DEF SaveSchema, Lineage
  <2>4. RequestFacts(c)'
    BY <1>3, <2>2 DEF RequestFacts, SaveSchema, At
  <2> QED BY <1>3, <2>2, <2>3, <2>4, Quiet DEF SaveSchema
<1> QED BY <1>1, <1>2, <1>3

\* A load opens the graph only for an approved upload, and completes only after
\* it has committed and recorded its integrity.
LEMMA LoadStep ==
  ASSUME IInv, NEW c \in Clients,
         \/ \E u \in Uploads : LoadBegin(c, u)
         \/ OpenGraph(c) \/ LoadGraph(c) \/ LoadValidate(c) \/ LoadRecord(c)
         \/ LoadComplete(c) \/ LoadError(c)
  PROVE  IInv'
<1>0. Facts(c)
  BY Before
<1>. USE <1>0, IdleTyped DEF Facts
<1>a. \A s \in Steps : [req[c] EXCEPT !.at = s] \in Request
  BY RequestTyped
<1>b. \A s \in Steps : /\ [req[c] EXCEPT !.at = s].op = req[c].op
                       /\ [req[c] EXCEPT !.at = s].upload = req[c].upload
                       /\ [req[c] EXCEPT !.at = s].at = s
  BY DEF Request
<1>s. {"open_graph", "load", "validate", "record", "complete", "load_error"} \subseteq Steps
  BY DEF Steps
<1>1. ASSUME NEW u \in Uploads, LoadBegin(c, u) PROVE IInv'
  <2> DEFINE r == [Idle EXCEPT !.op = "load", !.at = "open_graph", !.upload = u]
             e == [r EXCEPT !.at = "load_error"]
  <2>a. u \in Source /\ u # None /\ "load" \in Ops
    BY UploadsAssumption DEF Source, Uploads, None, Ops
  <2>1. r \in Request /\ e \in Request
    BY <2>a, <1>s, RequestTyped
  <2>2. /\ r.upload = u /\ e.upload = u
        /\ r.at \in {"open_graph"} /\ e.at \in {"load_error"}
    BY DEF Idle
  <2>3. /\ status' \in Machine!Statuses /\ status' \in {status, "loading"}
        /\ req' \in [Clients -> Request] /\ req'[c] \in {r, e}
        /\ \A d \in Clients \ {c} : req'[d] = req[d]
    BY <1>1, <2>1, ThenTyped, Targets DEF LoadBegin, Transition
  <2>4. RequestFacts(c)'
    BY <2>a, <2>2, <2>3 DEF RequestFacts
  <2> QED BY <1>1, <2>3, <2>4, Quiet DEF LoadBegin
<1>2. CASE OpenGraph(c)
  <2>1. /\ req' \in [Clients -> Request]
        /\ \A d \in Clients \ {c} : req'[d] = req[d]
        /\ \/ req'[c] = Idle
           \/ req'[c] = [req[c] EXCEPT !.at = "load_error"]
           \/ /\ req'[c] = [req[c] EXCEPT !.at = "load"]
              /\ mapping # Unmapped /\ mapping.source = req[c].upload
    BY <1>2, <1>a, <1>s, ThenTyped DEF OpenGraph, Goto, Finish, IsApproved
  <2>2. req[c].op = "load" /\ lock' \in BOOLEAN
    BY <1>2 DEF OpenGraph, At
  <2>3. RequestFacts(c)'
    <3>1. CASE req'[c] = Idle
      BY <3>1, NoLoad
    <3>2. CASE req'[c] = [req[c] EXCEPT !.at = "load_error"]
      BY <1>b, <1>s, <2>2, <3>2 DEF RequestFacts
    <3>3. CASE /\ req'[c] = [req[c] EXCEPT !.at = "load"]
               /\ mapping # Unmapped /\ mapping.source = req[c].upload
      <4>1. req[c].upload \in approvals /\ UNCHANGED approvals
        BY <1>2, <3>3 DEF IInv, MappingInv, OpenGraph
      <4> QED BY <1>b, <1>s, <2>2, <3>3, <4>1 DEF RequestFacts
    <3> QED BY <2>1, <3>1, <3>2, <3>3
  <2> QED BY <1>2, <2>1, <2>2, <2>3, Quiet DEF OpenGraph
<1>3. CASE LoadGraph(c)
  <2>1. PICK s \in {"validate", "load_error"} :
          Goto(c, s) /\ (s = "validate" => graph' = req[c].upload)
    BY <1>3 DEF LoadGraph
  <2>2. /\ req' \in [Clients -> Request] /\ req'[c] = [req[c] EXCEPT !.at = s]
        /\ \A d \in Clients \ {c} : req'[d] = req[d]
    BY <2>1, <1>a, <1>s, ThenTyped DEF Goto
  <2>3. /\ req[c].op = "load" /\ req[c].upload # None /\ req[c].upload \in approvals
        /\ graph' \in {graph, req[c].upload} /\ lock' = FALSE
        /\ UNCHANGED <<status, row, linked, integrity, uploads, mapping, manifest, evaluated,
                       approvals>>
    BY <1>3 DEF LoadGraph, At, RequestFacts
  <2>4. TypeOK'
    BY <2>2, <2>3 DEF IInv, TypeOK
  <2>5. RequestInv'
    <3> SUFFICES ASSUME NEW d \in Clients PROVE RequestFacts(d)'
      BY DEF RequestInv
    <3>1. CASE d = c
      <4>1. s \in Steps
        BY <1>s, <2>1
      <4>2. req'[c].op = "load" /\ req'[c].upload = req[c].upload /\ req'[c].at = s
        BY <1>b, <2>2, <2>3, <4>1
      <4>3. s = "validate" => graph' # None
        BY <2>1, <2>3
      <4> QED BY <2>1, <2>3, <3>1, <4>2, <4>3 DEF RequestFacts
    <3>2. CASE d # c
      BY <2>2, <2>3, <3>2 DEF IInv, RequestInv, RequestFacts
    <3> QED BY <3>1, <3>2
  <2>6. MappingInv' /\ GraphWasApproved' /\ EvaluatedAfterIntegrity'
    BY <2>3 DEF IInv, MappingInv, GraphWasApproved, EvaluatedAfterIntegrity
  <2> QED BY <2>4, <2>5, <2>6 DEF IInv
<1>4. CASE LoadValidate(c)
  <2>1. /\ status' \in Machine!Statuses /\ status' \in {status, "validating"}
        /\ req' \in [Clients -> Request]
        /\ \A d \in Clients \ {c} : req'[d] = req[d]
        /\ \/ req'[c] = [req[c] EXCEPT !.at = "record"]
           \/ req'[c] = [req[c] EXCEPT !.at = "load_error"]
    BY <1>4, <1>a, <1>s, ThenTyped, Targets DEF LoadValidate, Transition
  <2>2. RequestFacts(c)'
    <3>1. CASE req'[c] = [req[c] EXCEPT !.at = "record"]
      BY <1>4, <1>b, <1>s, <3>1 DEF RequestFacts, LoadValidate, At
    <3>2. CASE req'[c] = [req[c] EXCEPT !.at = "load_error"]
      BY <1>4, <1>b, <1>s, <3>2 DEF RequestFacts, LoadValidate, At
    <3> QED BY <2>1, <3>1, <3>2
  <2> QED BY <1>4, <2>1, <2>2, Quiet DEF LoadValidate
<1>5. CASE LoadRecord(c)
  <2>1. /\ req' \in [Clients -> Request] /\ req'[c] = [req[c] EXCEPT !.at = "complete"]
        /\ \A d \in Clients \ {c} : req'[d] = req[d]
    BY <1>5, <1>a, <1>s, ThenTyped DEF LoadRecord, Goto
  <2>2. /\ req[c].op = "load" /\ req[c].upload # None /\ graph # None
        /\ integrity' = req[c].upload
        /\ UNCHANGED <<status, row, linked, uploads, mapping, manifest, evaluated, graph, lock,
                       approvals>>
    BY <1>5 DEF LoadRecord, At, Recorded, RequestFacts
  <2>3. TypeOK'
    BY <2>1, <2>2 DEF IInv, TypeOK
  <2>4. RequestInv'
    <3> SUFFICES ASSUME NEW d \in Clients PROVE RequestFacts(d)'
      BY DEF RequestInv
    <3>1. CASE d = c
      BY <1>b, <1>s, <2>1, <2>2, <3>1 DEF RequestFacts
    <3>2. CASE d # c
      BY <2>1, <2>2, <3>2 DEF IInv, RequestInv, RequestFacts
    <3> QED BY <3>1, <3>2
  <2>5. MappingInv' /\ GraphWasApproved' /\ EvaluatedAfterIntegrity'
    BY <2>2 DEF IInv, MappingInv, GraphWasApproved, EvaluatedAfterIntegrity
  <2> QED BY <2>3, <2>4, <2>5 DEF IInv
<1>6. CASE LoadComplete(c)
  <2>1. /\ status' \in Machine!Statuses /\ status' \in {status, "evaluation_required"}
        /\ req' \in [Clients -> Request]
        /\ \A d \in Clients \ {c} : req'[d] = req[d]
        /\ req'[c] \in {Idle, [req[c] EXCEPT !.at = "load_error"]}
    BY <1>6, <1>a, <1>s, ThenTyped, Targets DEF LoadComplete, Transition
  <2>2. RequestFacts(c)'
    <3>1. CASE req'[c] = Idle
      BY <3>1, NoLoad
    <3>2. CASE req'[c] = [req[c] EXCEPT !.at = "load_error"]
      BY <1>6, <1>b, <1>s, <3>2 DEF RequestFacts, LoadComplete, At
    <3> QED BY <2>1, <3>1, <3>2
  <2>3. integrity # None /\ graph # None
    BY <1>6 DEF LoadComplete, At, RequestFacts
  <2> QED BY <1>6, <2>1, <2>2, <2>3, Quiet DEF LoadComplete
<1>7. CASE LoadError(c)
  <2>1. /\ status' \in Machine!Statuses /\ status' \in {status, "failed"}
        /\ req' \in [Clients -> Request] /\ req'[c] = Idle
        /\ \A d \in Clients \ {c} : req'[d] = req[d]
    BY <1>7, ThenTyped, Targets DEF LoadError, Transition, Finish
  <2>2. RequestFacts(c)'
    BY <2>1, NoLoad
  <2> QED BY <1>7, <2>1, <2>2, Quiet DEF LoadError
<1> QED BY <1>1, <1>2, <1>3, <1>4, <1>5, <1>6, <1>7

\* Promotion starts and ends over a project that waits for its evaluation; PATCH
\* changes the row or archives.
LEMMA PromotePatchStep ==
  ASSUME IInv, NEW c \in Clients,
         \/ PromoteBegin(c) \/ PromoteEnd(c)
         \/ \E v \in Schemas : PatchSchema(c, v)
         \/ Archive(c)
  PROVE  IInv'
<1>0. Facts(c)
  BY Before
<1>. USE <1>0, IdleTyped DEF Facts
<1>1. CASE PromoteBegin(c)
  <2> DEFINE r == [Idle EXCEPT !.op = "promote", !.at = "read"]
  <2>a. "promote" \in Ops /\ "read" \in Steps
    BY DEF Ops, Steps
  <2>1. r \in Request /\ r.op = "promote"
    BY <2>a, RequestTyped DEF Idle
  <2>2. /\ req' \in [Clients -> Request] /\ req'[c] = r
        /\ \A d \in Clients \ {c} : req'[d] = req[d]
    BY <1>1, <2>1, ThenTyped DEF PromoteBegin
  <2>3. RequestFacts(c)'
    BY <2>1, <2>2, NoLoad
  <2> QED BY <1>1, <2>2, <2>3, Quiet DEF PromoteBegin
<1>2. CASE PromoteEnd(c)
  <2>1. /\ status' \in Machine!Statuses /\ req' \in [Clients -> Request] /\ req'[c] = Idle
        /\ \A d \in Clients \ {c} : req'[d] = req[d]
    BY <1>2, ThenTyped, Targets DEF PromoteEnd, Transition
  <2>2. status' = status \/ (status' = "ready" /\ "ready" \in Machine!AllowedTransitions[status])
    BY <1>2 DEF PromoteEnd, Transition
  <2>3. status' \in {"evaluation_required", "ready"} => integrity # None /\ graph # None
    BY <2>2, ReadyFrom
  <2>4. RequestFacts(c)'
    BY <2>1, NoLoad
  <2> QED BY <1>2, <2>1, <2>3, <2>4, Quiet DEF PromoteEnd
<1>3. ASSUME NEW v \in Schemas, PatchSchema(c, v) PROVE IInv'
  <2> DEFINE r == [Idle EXCEPT !.op = "patch", !.at = "read", !.schema = v]
  <2>a. "patch" \in Ops /\ "read" \in Steps /\ v \in Schema
    BY DEF Ops, Steps, Schema
  <2>1. r \in Request /\ r.op = "patch"
    BY <2>a, RequestTyped DEF Idle
  <2>2. /\ req' \in [Clients -> Request] /\ req'[c] = r
        /\ \A d \in Clients \ {c} : req'[d] = req[d]
    BY <1>3, <2>1, ThenTyped DEF PatchSchema
  <2>3. RequestFacts(c)'
    BY <2>1, <2>2, NoLoad
  <2> QED BY <1>3, <2>2, <2>3, Quiet DEF PatchSchema
<1>4. CASE Archive(c)
  <2>1. /\ status' \in Machine!Statuses /\ status' \in {status, "archived"}
        /\ req' \in [Clients -> Request] /\ req'[c] = Idle
        /\ \A d \in Clients \ {c} : req'[d] = req[d]
    BY <1>4, ThenTyped, Targets DEF Archive, Transition
  <2>2. RequestFacts(c)'
    BY <2>1, NoLoad
  <2> QED BY <1>4, <2>1, <2>2, Quiet DEF Archive
<1> QED BY <1>1, <1>2, <1>3, <1>4

\* Every step keeps the invariant: those of a client, the scripts, a stop.
LEMMA StepInv == IInv /\ [Next]_vars => IInv'
<1> SUFFICES ASSUME IInv, [Next]_vars PROVE IInv'
  OBVIOUS
<1>1. ASSUME NEW c \in Clients, ClientStep(c) PROVE IInv'
  BY <1>1, RowStep, ProfileStep, ApproveStep, LoadStep, PromotePatchStep DEF ClientStep
<1>2. CASE Evaluate
  <2>1. TypeOK'
    BY <1>2 DEF IInv, TypeOK, Evaluate
  <2>2. RequestInv' /\ MappingInv' /\ GraphWasApproved' /\ EvaluatedAfterIntegrity'
    BY <1>2 DEF IInv, Evaluate, RequestInv, RequestFacts, MappingInv, GraphWasApproved,
                EvaluatedAfterIntegrity
  <2> QED BY <2>1, <2>2 DEF IInv
<1>3. CASE Crash
  <2>1. req' = [c \in Clients |-> Idle]
        /\ UNCHANGED <<status, row, linked, integrity, uploads, mapping, manifest, evaluated,
                       graph, lock, approvals>>
    BY <1>3 DEF Crash
  <2>2. TypeOK'
    BY <2>1, IdleTyped DEF IInv, TypeOK
  <2>3. RequestInv'
    BY <2>1, IdleTyped DEF RequestInv, RequestFacts
  <2>4. MappingInv' /\ GraphWasApproved' /\ EvaluatedAfterIntegrity'
    BY <2>1 DEF IInv, MappingInv, GraphWasApproved, EvaluatedAfterIntegrity
  <2> QED BY <2>2, <2>3, <2>4 DEF IInv
<1>4. CASE UNCHANGED vars
  BY <1>4 DEF vars, IInv, TypeOK, RequestInv, RequestFacts, MappingInv, GraphWasApproved,
              EvaluatedAfterIntegrity
<1> QED BY <1>1, <1>2, <1>3, <1>4 DEF Next

\* The inductive invariant holds in every reachable state.
LEMMA Invariance == Spec => []IInv
<1> QED BY InitInv, StepInv, PTL DEF Spec

----------------------------------------------------------------------------
\* Every variable keeps its type, however many requests overlap (TypeOK).
THEOREM TypeCorrect == Spec => []TypeOK
<1>1. IInv => TypeOK
  BY DEF IInv
<1> QED BY <1>1, Invariance, PTL

\* docs/platform-stage7-project-graph-isolation.md:3: only approved mappings
\* reach the graph, although mapping.json may be replaced, and the process may
\* stop, between the loader's read of it and its commit.
THEOREM OnlyApprovedInGraph == Spec => []GraphWasApproved
<1>1. IInv => GraphWasApproved
  BY DEF IInv
<1> QED BY <1>1, Invariance, PTL

\* main.py, load handler and promote handler: a project waits for its evaluation
\* or is ready only over a loaded graph whose integrity was recorded.
THEOREM IntegrityFirst == Spec => []EvaluatedAfterIntegrity
<1>1. IInv => EvaluatedAfterIntegrity
  BY DEF IInv
<1> QED BY <1>1, Invariance, PTL

-----------------------------------------------------------------------------
\* What a client that works alone can rely on between two steps of a request:
\* the status its handler left, whether schema.yml is the one of the mapping, and
\* whether graph and integrity check are of the upload the mapping was approved for.
LoneFacts(r) ==
  /\ r.op = "approve" => status = "mapping_review"
  /\ IF r.op = "approve" /\ r.at = "save_schema" THEN mapping.label = r.label
                                                  ELSE manifest.source = mapping.label
  /\ r.op = "promote" => status = "evaluation_required"
  /\ r.op = "load" /\ r.at \in {"open_graph", "load", "validate"} => status = "loading"
  /\ r.op = "load" /\ r.at \in {"record", "complete"} => status = "validating"
  /\ r.op = "load" /\ r.at = "load" => mapping.source = r.upload
  /\ r.op = "load" /\ r.at \in {"validate", "record", "complete"} =>
       graph = mapping.source /\ graph = r.upload
  /\ r.op = "load" /\ r.at = "complete" => integrity = graph
  /\ status \in {"evaluation_required", "ready"} => graph = mapping.source /\ integrity = graph

LoneInv == IInv /\ (alone => LoneFacts(req[LoneClient]))

\* A transition moves the status and goes on, or leaves it and does not.
LEMMA TransitionEnds ==
  ASSUME NEW c \in Clients, NEW target, NEW done, NEW refused, NEW conflicted,
         Transition(c, target, done, refused, conflicted), req \in [Clients -> Request]
  PROVE  \/ status' = target /\ req'[c] = done
         \/ status' = status /\ req'[c] \in {refused, conflicted}
BY DEF Transition, Then

LEMMA LoneRowStep ==
  ASSUME NEW c \in Clients, req \in [Clients -> Request], LoneFacts(req[c]), ReadRow(c) \/ WriteRow(c)
  PROVE  LoneFacts(req[c])'
<1> DEFINE r == req[c]
<1>1. r \in Request  OBVIOUS
<1>2. CASE ReadRow(c)
  <2>1. req'[c] = [r EXCEPT !.at = "write", !.row = row] /\ r.at = "read"
        /\ UNCHANGED <<status, mapping, manifest, graph, integrity>>
    BY <1>2 DEF ReadRow, Then
  <2>2. req'[c].op = r.op /\ req'[c].at = "write"  BY <1>1, <2>1 DEF Request
  <2> QED  BY <2>1, <2>2 DEF LoneFacts
<1>3. CASE WriteRow(c)
  <2>1. req'[c] = AfterWrite(r) /\ r.at = "write" /\ UNCHANGED <<status, mapping, manifest, graph, integrity>>
    BY <1>3 DEF WriteRow, Then
  <2>2. req'[c] = Idle \/ (req'[c].op = r.op /\ r.op \in {"profile", "promote"})
    BY <1>1, <2>1 DEF AfterWrite, Request
  <2> QED  BY <2>1, <2>2 DEF LoneFacts, Idle
<1> QED  BY <1>2, <1>3

LEMMA LoneProfileStep ==
  ASSUME NEW c \in Clients, req \in [Clients -> Request], LoneFacts(req[c]),
         ProfileBegin(c) \/ ProfileStore(c) \/ ProfileLink(c) \/ ProfileError(c)
  PROVE  LoneFacts(req[c])'
<1> DEFINE r == req[c]
<1>1. r \in Request /\ UNCHANGED <<mapping, manifest, graph, integrity>>
  BY DEF ProfileBegin, ProfileStore, ProfileLink, ProfileError
<1>2. r.op \in {"none", "profile"}
  BY DEF ProfileBegin, ProfileStore, ProfileLink, ProfileError, At, Idle
<1>3. req'[c].op \in {"none", "profile"}
  <2>1. CASE ProfileBegin(c)
    <3> DEFINE b == [Idle EXCEPT !.op = "profile", !.at = "store"]
    <3>1. b.op = "profile" /\ [b EXCEPT !.at = "profile_error"].op = "profile" /\ Idle.op = "none"
      BY DEF Idle
    <3>2. req'[c] \in {b, [b EXCEPT !.at = "profile_error"], Idle}
      BY <2>1, TransitionEnds DEF ProfileBegin, Then
    <3> QED  BY <3>1, <3>2
  <2>2. CASE ProfileStore(c)
    <3>1. \/ req'[c] = [r EXCEPT !.at = "read", !.upload = uploads + 1]
          \/ req'[c] = [r EXCEPT !.at = "profile_error"] \/ req'[c] = Idle
      BY <2>2 DEF ProfileStore, Goto, Finish, Then
    <3>2. /\ [r EXCEPT !.at = "read", !.upload = uploads + 1].op = r.op
          /\ [r EXCEPT !.at = "profile_error"].op = r.op /\ Idle.op = "none"
      BY <1>1 DEF Request, Idle
    <3> QED  BY <1>2, <3>1, <3>2
  <2>3. CASE ProfileLink(c)
    <3>1. req'[c] \in {Idle, [r EXCEPT !.at = "profile_error"]}
      BY <2>3, TransitionEnds DEF ProfileLink
    <3> QED  BY <1>1, <1>2, <3>1 DEF Idle, Request
  <2>4. CASE ProfileError(c)
    <3>1. req'[c] = Idle
      BY <2>4, TransitionEnds DEF ProfileError, Finish, Then
    <3> QED  BY <3>1 DEF Idle
  <2> QED  BY <2>1, <2>2, <2>3, <2>4
<1>4. status' \in {status, "profiling", "mapping_review", "failed"}
  BY TransitionEnds DEF ProfileBegin, ProfileStore, ProfileLink, ProfileError
<1> QED  BY <1>1, <1>2, <1>3, <1>4 DEF LoneFacts

LEMMA LoneApproveStep ==
  ASSUME NEW c \in Clients, req \in [Clients -> Request], LoneFacts(req[c]),
         \/ \E u, w \in Uploads, v \in Schemas : ApproveBegin(c, u, v, w)
         \/ SaveMapping(c) \/ SaveSchema(c)
  PROVE  LoneFacts(req[c])'
<1> DEFINE r == req[c]
<1>1. r \in Request /\ status' = status /\ status = "mapping_review" /\ UNCHANGED <<graph, integrity>>
  BY DEF ApproveBegin, SaveMapping, SaveSchema, At, LoneFacts
<1>2. ASSUME NEW u \in Uploads, NEW w \in Uploads, NEW v \in Schemas, ApproveBegin(c, u, v, w)
      PROVE  LoneFacts(req[c])'
  <2>1. req'[c].op = "approve" /\ req'[c].at = "save_mapping" /\ r = Idle
        /\ UNCHANGED <<mapping, manifest>>
    BY <1>2 DEF ApproveBegin, Then, Idle
  <2> QED  BY <1>1, <2>1 DEF LoneFacts, Idle
<1>3. CASE SaveMapping(c)
  <2>1. req'[c].op = "approve" /\ req'[c].at = "save_schema" /\ req'[c].label = r.label
        /\ mapping'.label = r.label
    BY <1>1, <1>3 DEF SaveMapping, Goto, Then, At, Request
  <2> QED  BY <1>1, <2>1 DEF LoneFacts
<1>4. CASE SaveSchema(c)
  <2>1. req'[c].op = "approve" /\ req'[c].at = "read" /\ r.op = "approve" /\ r.at = "save_schema"
        /\ manifest'.source = r.label /\ mapping' = mapping
    BY <1>1, <1>4 DEF SaveSchema, Goto, Then, At, Request
  <2> QED  BY <1>1, <2>1 DEF LoneFacts
<1> QED  BY <1>2, <1>3, <1>4

LEMMA LoneLoadStep ==
  ASSUME NEW c \in Clients, req \in [Clients -> Request], LoneFacts(req[c]),
         \/ \E u \in Uploads : LoadBegin(c, u)
         \/ OpenGraph(c) \/ LoadGraph(c) \/ LoadValidate(c) \/ LoadRecord(c)
         \/ LoadComplete(c) \/ LoadError(c)
  PROVE  LoneFacts(req[c])'
<1> DEFINE r == req[c]
           e == [r EXCEPT !.at = "load_error"]
<1>1. r \in Request /\ UNCHANGED <<mapping, manifest>>
  BY DEF LoadBegin, OpenGraph, LoadGraph, LoadValidate, LoadRecord, LoadComplete, LoadError
<1>2. /\ e.op = r.op /\ e.at = "load_error"
      /\ Idle.op = "none"
  BY <1>1 DEF Request, Idle
<1>3. ASSUME NEW u \in Uploads, LoadBegin(c, u) PROVE LoneFacts(req[c])'
  <2> DEFINE b == [Idle EXCEPT !.op = "load", !.at = "open_graph", !.upload = u]
             f == [b EXCEPT !.at = "load_error"]
  <2>1. /\ b.op = "load" /\ b.at = "open_graph" /\ f.op = "load" /\ f.at = "load_error"
    BY DEF Idle
  <2>2. \/ status' = "loading" /\ req'[c] = b
        \/ status' = status /\ req'[c] = f
    <3>1. CASE status = "mapping_review"
      <4>1. Transition(c, "loading", b, f, f)  BY <1>3, <3>1 DEF LoadBegin
      <4> HIDE DEF b, f
      <4> QED  BY <4>1, TransitionEnds
    <3>2. CASE status # "mapping_review"
      BY <1>3, <3>2 DEF LoadBegin, Then
    <3> QED  BY <3>1, <3>2
  <2>3. r = Idle /\ UNCHANGED <<graph, integrity>>  BY <1>3 DEF LoadBegin
  <2> HIDE DEF b, f
  <2> QED  BY <1>1, <1>2, <2>1, <2>2, <2>3 DEF LoneFacts
<1>4. CASE OpenGraph(c)
  <2>1. \/ mapping.source = r.upload /\ req'[c] = [r EXCEPT !.at = "load"]
        \/ req'[c] = Idle \/ req'[c] = e
    BY <1>4 DEF OpenGraph, IsApproved, Goto, Finish, Then
  <2>2. r.op = "load" /\ r.at = "open_graph" /\ UNCHANGED <<status, graph, integrity>>
    BY <1>4 DEF OpenGraph, At
  <2> DEFINE n == [r EXCEPT !.at = "load"]
  <2>3. n.op = r.op /\ n.at = "load" /\ n.upload = r.upload  BY <1>1 DEF Request
  <2> HIDE DEF n, e
  <2>4. CASE mapping.source = r.upload /\ req'[c] = n
    BY <1>1, <2>2, <2>3, <2>4 DEF LoneFacts
  <2>5. CASE req'[c] \in {Idle, e}
    BY <1>1, <1>2, <2>2, <2>5 DEF LoneFacts
  <2> QED  BY <2>1, <2>4, <2>5 DEF n
<1>5. CASE LoadGraph(c)
  <2>1. \/ graph' = r.upload /\ req'[c] = [r EXCEPT !.at = "validate"]
        \/ req'[c] = e
    BY <1>5 DEF LoadGraph, Goto, Then
  <2>2. r.op = "load" /\ r.at = "load" /\ UNCHANGED <<status, integrity>>
    BY <1>5 DEF LoadGraph, At
  <2> DEFINE n == [r EXCEPT !.at = "validate"]
  <2>3. n.op = r.op /\ n.at = "validate" /\ n.upload = r.upload  BY <1>1 DEF Request
  <2> HIDE DEF n, e
  <2>4. CASE graph' = r.upload /\ req'[c] = n
    BY <1>1, <2>2, <2>3, <2>4 DEF LoneFacts
  <2>5. CASE req'[c] = e
    BY <1>1, <1>2, <2>2, <2>5 DEF LoneFacts
  <2> QED  BY <2>1, <2>4, <2>5 DEF n
<1>6. CASE LoadValidate(c)
  <2>1. \/ status' = "validating" /\ req'[c] = [r EXCEPT !.at = "record"]
        \/ status' = status /\ req'[c] = e
    BY <1>6, TransitionEnds DEF LoadValidate
  <2>2. r.op = "load" /\ r.at = "validate" /\ UNCHANGED <<graph, integrity>>
    BY <1>6 DEF LoadValidate, At
  <2> DEFINE n == [r EXCEPT !.at = "record"]
  <2>3. n.op = r.op /\ n.at = "record" /\ n.upload = r.upload  BY <1>1 DEF Request
  <2> HIDE DEF n, e
  <2>4. CASE status' = "validating" /\ req'[c] = n
    BY <1>1, <2>2, <2>3, <2>4 DEF LoneFacts
  <2>5. CASE status' = status /\ req'[c] = e
    BY <1>1, <1>2, <2>2, <2>5 DEF LoneFacts
  <2> QED  BY <2>1, <2>4, <2>5 DEF n
<1>7. CASE LoadRecord(c)
  <2>1. req'[c] = [r EXCEPT !.at = "complete"] /\ UNCHANGED <<status, graph>>
        /\ r.op = "load" /\ r.at = "record" /\ integrity' = r.upload
    BY <1>7 DEF LoadRecord, Recorded, Goto, Then, At
  <2>2. req'[c].op = r.op /\ req'[c].at = "complete" /\ req'[c].upload = r.upload  BY <1>1, <2>1 DEF Request
  <2> QED  BY <1>1, <2>1, <2>2 DEF LoneFacts
<1>8. CASE LoadComplete(c)
  <2>1. \/ status' = "evaluation_required" /\ req'[c] = Idle
        \/ status' = status /\ req'[c] = e
    BY <1>8, TransitionEnds DEF LoadComplete
  <2>2. r.op = "load" /\ r.at = "complete" /\ UNCHANGED <<graph, integrity>>
    BY <1>8 DEF LoadComplete, At
  <2> HIDE DEF e
  <2> QED  BY <1>1, <1>2, <2>1, <2>2 DEF LoneFacts
<1>9. CASE LoadError(c)
  <2>1. status' \in {status, "failed"} /\ req'[c] = Idle
    BY <1>9, TransitionEnds DEF LoadError, Finish, Then
  <2>2. r.op = "load" /\ UNCHANGED <<graph, integrity>>
    BY <1>9 DEF LoadError, At
  <2> QED  BY <1>1, <1>2, <2>1, <2>2 DEF LoneFacts
<1> QED  BY <1>3, <1>4, <1>5, <1>6, <1>7, <1>8, <1>9

LEMMA LonePromotePatchStep ==
  ASSUME NEW c \in Clients, req \in [Clients -> Request], LoneFacts(req[c]),
         \/ PromoteBegin(c) \/ PromoteEnd(c)
         \/ \E v \in Schemas : PatchSchema(c, v)
         \/ Archive(c)
  PROVE  LoneFacts(req[c])'
<1>1. UNCHANGED <<mapping, manifest, graph, integrity>>
  BY DEF PromoteBegin, PromoteEnd, PatchSchema, Archive
<1>2. CASE PromoteBegin(c)
  <2>1. req'[c].op = "promote" /\ req[c] = Idle /\ status = "evaluation_required" /\ status' = status
    BY <1>2 DEF PromoteBegin, Then, Idle
  <2> QED  BY <1>1, <2>1 DEF LoneFacts, Idle
<1>3. CASE PromoteEnd(c)
  <2>1. req[c].op = "promote" /\ status' \in {status, "ready"} /\ req'[c] = Idle
    BY <1>3, TransitionEnds DEF PromoteEnd, At
  <2> QED  BY <1>1, <2>1 DEF LoneFacts, Idle
<1>4. ASSUME NEW v \in Schemas, PatchSchema(c, v) PROVE LoneFacts(req[c])'
  <2>1. req'[c].op = "patch" /\ req[c] = Idle /\ status' = status
    BY <1>4 DEF PatchSchema, Then, Idle
  <2> QED  BY <1>1, <2>1 DEF LoneFacts, Idle
<1>5. CASE Archive(c)
  <2>1. req[c] = Idle /\ req'[c] = Idle /\ status' \in {status, "archived"}
    BY <1>5, TransitionEnds DEF Archive
  <2> QED  BY <1>1, <2>1 DEF LoneFacts, Idle
<1> QED  BY <1>2, <1>3, <1>4, <1>5

LEMMA LoneClientStep ==
  ASSUME NEW c \in Clients, req \in [Clients -> Request], LoneFacts(req[c]), ClientStep(c)
  PROVE  LoneFacts(req[c])'
<1>1. CASE ReadRow(c) \/ WriteRow(c)  BY <1>1, LoneRowStep
<1>2. CASE ProfileBegin(c) \/ ProfileStore(c) \/ ProfileLink(c) \/ ProfileError(c)
  BY <1>2, LoneProfileStep
<1>3. CASE \/ \E u, w \in Uploads, v \in Schemas : ApproveBegin(c, u, v, w)
           \/ SaveMapping(c) \/ SaveSchema(c)
  BY <1>3, LoneApproveStep
<1>4. CASE \/ \E u \in Uploads : LoadBegin(c, u)
           \/ OpenGraph(c) \/ LoadGraph(c) \/ LoadValidate(c) \/ LoadRecord(c)
           \/ LoadComplete(c) \/ LoadError(c)
  BY <1>4, LoneLoadStep
<1>5. CASE \/ PromoteBegin(c) \/ PromoteEnd(c)
           \/ \E v \in Schemas : PatchSchema(c, v)
           \/ Archive(c)
  BY <1>5, LonePromotePatchStep
<1> QED  BY <1>1, <1>2, <1>3, <1>4, <1>5 DEF ClientStep

LEMMA LoneStep == LoneInv /\ [LifecycleNext]_<<vars, alone>> => LoneInv'
<1> SUFFICES ASSUME LoneInv, [LifecycleNext]_<<vars, alone>> PROVE LoneInv'
  OBVIOUS
<1>1. IInv'
  <2>1. [Next]_vars  BY LoneAssumption DEF LifecycleNext, Next
  <2> QED  BY <2>1, StepInv DEF LoneInv
<1>2. alone' = alone  BY DEF LifecycleNext
<1>3. ASSUME alone PROVE LoneFacts(req[LoneClient])'
  <2> DEFINE c == LoneClient
  <2>1. /\ c \in Clients /\ LoneFacts(req[c]) /\ req \in [Clients -> Request]
    BY <1>3, LoneAssumption DEF LoneInv, IInv, TypeOK
  <2>2. CASE Evaluate
    BY <2>1, <2>2 DEF Evaluate, LoneFacts
  <2>3. CASE ClientStep(c)
    BY <2>1, <2>3, LoneClientStep
  <2>4. CASE UNCHANGED <<vars, alone>>
    BY <2>1, <2>4 DEF vars, LoneFacts
  <2> QED  BY <1>3, <2>2, <2>3, <2>4 DEF LifecycleNext
<1> QED  BY <1>1, <1>2, <1>3 DEF LoneInv

\* With requests one at a time, whichever of them fail, a project answers from the
\* upload its approved mapping was made for, loaded and verified, and shows the
\* source version that mapping carries (ServedAlone): the status keeps the handlers
\* apart.
THEOREM ServedFromSource == LifecycleSpec => []ServedAlone
<1>1. LifecycleInit => LoneInv
  <2> SUFFICES ASSUME LifecycleInit PROVE LoneInv
    OBVIOUS
  <2>1. Init /\ IInv  BY InitInv DEF LifecycleInit
  <2>2. req[LoneClient] = Idle  BY <2>1, LoneAssumption DEF Init
  <2> QED  BY <2>1, <2>2 DEF Init, LoneInv, LoneFacts, Idle, Nothing, Unmapped
<1>2. LoneInv /\ [LifecycleNext]_<<vars, alone>> => LoneInv'  BY LoneStep
<1>3. LoneInv => ServedAlone
  <2> SUFFICES ASSUME LoneInv, alone, CanQuery
                  PROVE  /\ graph = mapping.source /\ integrity = graph
                         /\ mapping.label = SourceVersion
    BY DEF ServedAlone
  <2>1. status = "ready" /\ manifest = [source |-> SourceVersion, schema |-> row.schema]
    BY DEF CanQuery, Eligible, CurrentLineage
  <2>2. graph = mapping.source /\ integrity = graph /\ manifest.source = mapping.label
    <3>1. LoneFacts(req[LoneClient])
      BY DEF LoneInv
    <3>2. req[LoneClient].op # "approve"
      BY <2>1, <3>1 DEF LoneFacts
    <3> QED  BY <2>1, <3>1, <3>2 DEF LoneFacts
  <2> QED  BY <2>1, <2>2
<1> QED  BY <1>1, <1>2, <1>3, PTL DEF LifecycleSpec
============================================================================
