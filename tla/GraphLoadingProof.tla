------------------------- MODULE GraphLoadingProof -------------------------
(***************************************************************************)
(* Safety of GraphLoading for every number of clients and of tokens:       *)
(* a service loads once at a time, the server is left in loader mode only  *)
(* by a stopped process or a failed switch, and a recorded success means   *)
(* a complete graph.  And of the other loader, CipDmdEtl, for any files,   *)
(* batch size and number of scripts: no row of a load is dropped, and a    *)
(* graph with the counts of the rows has the rows.                         *)
(***************************************************************************)
EXTENDS GraphLoading, CipDmdEtl, SequenceTheorems, FiniteSetTheorems, TLAPS

\* Every token a call carries has been issued; a call past "issue" is a load.
CallsTyped ==
  \A c \in Clients :
    /\ call[c].record.token <= issued
    /\ call[c].at \notin {"idle", "issue"} => call[c].op \in Locks

TypeInv == TypeOK /\ CallsTyped

\* A call between TakeLock and Unlock has its lock file.
Section == Steps \ {"idle", "issue", "lock"}
LockInv ==
  /\ \A c \in Clients : call[c].at \in Section => call[c].op \in locks
  /\ \A c, d \in Clients : /\ call[c].at \in Section /\ call[d].at \in Section
                           /\ call[c].op = call[d].op
                           => c = d

\* Somebody is on the way from loader back to reader.
ModeInv == mode = "loader" /\ ~stranded =>
             \E c \in Clients : call[c].at \in {"to_loader", "write", "to_reader"}

\* An intake that has written without an error found the graph complete.
PassInv ==
  /\ \A c \in Clients : /\ call[c].op = "intake" /\ call[c].ok
                        /\ call[c].at \in {"to_reader", "finish"}
                        => cip = "full"
  /\ record.status = "load_pass" => cip = "full"

----------------------------------------------------------------------------
\* The staged bundle, with every client idle.
LEMMA TypeInit == Init => TypeInv
<1> SUFFICES ASSUME Init PROVE TypeInv
  OBVIOUS
<1>1. Staged \in Record
  BY TokensAssumption DEF Staged, Record, NoToken
<1>2. Idle \in Call
  BY <1>1 DEF Idle, Call, Steps
<1>3. /\ record = Staged /\ issued = 0 /\ locks = {} /\ mode = "reader" /\ cip = "empty"
      /\ stranded = FALSE
      /\ call = [c \in Clients |-> Idle] /\ loads = [t \in 1..MaxTokens |-> 0]
  BY DEF Init
<1>4. CallsTyped
  <2>1. Staged.token = 0 /\ Idle.record = Staged /\ Idle.at = "idle"
    BY DEF Idle, Staged, NoToken
  <2>2. \A c \in Clients : call[c] = Idle
    BY <1>3
  <2>3. issued = 0 /\ 0 <= 0
    BY <1>3
  <2>4. ASSUME NEW c \in Clients
        PROVE  /\ call[c].record.token <= issued
               /\ call[c].at \notin {"idle", "issue"} => call[c].op \in Locks
    <3>1. call[c].record.token = issued /\ call[c].at = "idle"
      BY <2>1, <2>2, <2>3
    <3> QED BY <2>3, <3>1
  <2> QED BY <2>4 DEF CallsTyped
<1>5. loads \in [1..MaxTokens -> Nat]
  BY <1>3
<1>6. record \in Record /\ record.token <= issued
  BY <1>1, <1>3 DEF Staged, NoToken
<1>7. call \in [Clients -> Call]
  BY <1>2, <1>3
<1>8. issued \in 0..MaxTokens
  BY <1>3, TokensAssumption
<1>9. /\ locks \subseteq Locks /\ mode \in Modes /\ stranded \in BOOLEAN
      /\ cip \in {"empty", "partial", "full"}
  BY <1>3 DEF Modes
<1> QED
  BY <1>4, <1>5, <1>6, <1>7, <1>8, <1>9 DEF TypeInv, TypeOK

\* A step of a call that has begun keeps what the call is about.
LEMMA GotoTyped ==
  ASSUME call \in [Clients -> Call], NEW c \in Clients, NEW s \in Steps, Goto(c, s) \/ FailTo(c, s)
  PROVE  /\ call' \in [Clients -> Call]
         /\ call'[c].op = call[c].op /\ call'[c].record = call[c].record /\ call'[c].at = s
         /\ \A d \in Clients \ {c} : call'[d] = call[d]
  BY DEF Goto, FailTo, Call

\* A call that ends leaves its client idle and the others alone.
LEMMA FinishTyped ==
  ASSUME call \in [Clients -> Call], NEW c \in Clients, Finish(c)
  PROVE  /\ call' \in [Clients -> Call] /\ call'[c] = Idle
         /\ \A d \in Clients \ {c} : call'[d] = call[d]
<1>1. Staged \in Record
  BY TokensAssumption DEF Staged, Record, NoToken
<1>2. Idle \in Call
  BY <1>1 DEF Idle, Call, Steps
<1> QED
  BY <1>2 DEF Finish

\* Every action keeps the types, with the token bounds and the operation of a load.
LEMMA TypeStep == TypeInv /\ [Next]_vars => TypeInv'
<1> SUFFICES ASSUME TypeInv, [Next]_vars PROVE TypeInv'
  OBVIOUS
<1>a. /\ call \in [Clients -> Call] /\ record \in Record /\ record.token <= issued
      /\ issued \in 0..MaxTokens /\ locks \subseteq Locks /\ mode \in Modes
      /\ cip \in {"empty", "partial", "full"} /\ stranded \in BOOLEAN
      /\ loads \in [1..MaxTokens -> Nat] /\ CallsTyped
  BY DEF TypeInv, TypeOK
<1>b. /\ Staged \in Record /\ Staged.token = 0
      /\ Idle \in Call /\ Idle.at = "idle" /\ Idle.record = Staged
  BY TokensAssumption DEF Staged, Record, NoToken, Idle, Call, Steps
<1>s. {"issue", "lock", "consume", "preflight", "to_loader", "write", "to_reader", "finish",
       "unlock"} \subseteq Steps
  BY DEF Steps
<1>t. \A d \in Clients : call[d] \in Call /\ call[d].record \in Record /\ call[d].record.token \in Nat
  BY <1>a, TokensAssumption DEF Call, Record, NoToken
<1>1. ASSUME NEW c \in Clients, BeginDryRun(c) PROVE TypeInv'
  <2>1. call' \in [Clients -> Call]
    BY <1>1, <1>a DEF BeginDryRun, Start, Call, Steps
  <2>2. CallsTyped'
    BY <1>1, <1>a DEF BeginDryRun, Start, CallsTyped
  <2> QED BY <1>1, <1>a, <2>1, <2>2 DEF BeginDryRun, TypeInv, TypeOK
<1>2. ASSUME NEW c \in Clients, BeginProject(c) PROVE TypeInv'
  <2>1. call' \in [Clients -> Call]
    BY <1>2, <1>a, <1>b DEF BeginProject, Start, Call, Steps, Locks
  <2>2. CallsTyped'
    BY <1>2, <1>a, <1>b DEF BeginProject, Start, CallsTyped, Locks
  <2> QED BY <1>2, <1>a, <2>1, <2>2 DEF BeginProject, TypeInv, TypeOK
<1>3. ASSUME NEW c \in Clients, NEW t \in 1..MaxTokens, BeginIntake(c, t) PROVE TypeInv'
  <2>1. call' \in [Clients -> Call]
    BY <1>3, <1>a DEF BeginIntake, Start, Call, Steps, Locks
  <2>2. CallsTyped'
    BY <1>3, <1>a DEF BeginIntake, Start, CallsTyped, Locks
  <2> QED BY <1>3, <1>a, <2>1, <2>2 DEF BeginIntake, TypeInv, TypeOK
<1>4. ASSUME NEW c \in Clients, EndDryRun(c) PROVE TypeInv'
  <2>1. /\ call' \in [Clients -> Call] /\ call'[c] = Idle
        /\ \A d \in Clients \ {c} : call'[d] = call[d]
    BY <1>4, <1>a, FinishTyped DEF EndDryRun
  <2>2. issued' \in 0..MaxTokens /\ issued' >= issued
    BY <1>4, <1>a, TokensAssumption DEF EndDryRun
  <2>3. record' \in Record /\ record'.token <= issued'
    <3>1. CASE issued < MaxTokens /\ issued' = issued + 1
                 /\ record' = [status |-> "dry_run_pass", token |-> NewToken]
      BY <1>a, <3>1, TokensAssumption DEF NewToken, Record, NoToken
    <3>2. CASE record' = [call[c].record EXCEPT !.status = "dry_run_failed"] /\ UNCHANGED issued
      <4>1. record' \in Record /\ record'.token = call[c].record.token
        BY <1>t, <3>2 DEF Record
      <4> QED BY <4>1, <3>2, <1>a DEF CallsTyped
    <3> QED BY <1>4, <3>1, <3>2 DEF EndDryRun
  <2>4. CallsTyped'
    BY <2>1, <2>2, <1>a, <1>b, <1>t DEF CallsTyped
  <2> QED BY <1>4, <1>a, <2>1, <2>2, <2>3, <2>4 DEF EndDryRun, TypeInv, TypeOK
<1>5. ASSUME NEW c \in Clients, TakeLock(c) PROVE TypeInv'
  <2>1. call[c].op \in Locks
    BY <1>5, <1>a DEF TakeLock, At, CallsTyped
  <2>2. CASE call[c].op \in locks
    <3>1. /\ call' \in [Clients -> Call] /\ call'[c] = Idle
          /\ \A d \in Clients \ {c} : call'[d] = call[d]
      BY <1>5, <1>a, <2>2, FinishTyped DEF TakeLock
    <3>2. CallsTyped'
      BY <1>5, <3>1, <1>a, <1>b, <1>t DEF TakeLock, CallsTyped
    <3> QED BY <1>5, <1>a, <2>2, <3>1, <3>2 DEF TakeLock, AfterRefusal, TypeInv, TypeOK
  <2>3. CASE call[c].op \notin locks
    <3> DEFINE s == IF call[c].op = "intake" THEN "consume" ELSE "to_loader"
    <3>1. s \in Steps /\ Goto(c, s)
      BY <1>5, <1>s, <2>3 DEF TakeLock
    <3>2. /\ call' \in [Clients -> Call]
          /\ call'[c].op = call[c].op /\ call'[c].record = call[c].record /\ call'[c].at = s
          /\ \A d \in Clients \ {c} : call'[d] = call[d]
      <4> HIDE DEF s
      <4> QED BY <1>a, <3>1, GotoTyped
    <3>3. CallsTyped'
      BY <1>5, <3>2, <2>1, <1>a DEF TakeLock, CallsTyped
    <3> QED BY <1>5, <1>a, <2>1, <2>3, <3>2, <3>3 DEF TakeLock, TypeInv, TypeOK
  <2> QED BY <2>2, <2>3
<1>6. ASSUME NEW c \in Clients, NEW s \in Steps, At(c, "idle") = FALSE, At(c, "issue") = FALSE,
             Goto(c, s) \/ FailTo(c, s), issued' = issued
      PROVE  call' \in [Clients -> Call] /\ CallsTyped'
  <2>1. /\ call' \in [Clients -> Call]
        /\ call'[c].op = call[c].op /\ call'[c].record = call[c].record /\ call'[c].at = s
        /\ \A d \in Clients \ {c} : call'[d] = call[d]
    BY <1>6, <1>a, GotoTyped
  <2> QED BY <1>6, <2>1, <1>a DEF CallsTyped, At
<1>7. ASSUME NEW c \in Clients, ConsumeToken(c) PROVE TypeInv'
  <2>1. call' \in [Clients -> Call] /\ CallsTyped'
    BY <1>7, <1>6, <1>s DEF ConsumeToken, At
  <2>2. record' \in Record /\ record'.token <= issued'
    BY <1>7, <1>a, TokensAssumption DEF ConsumeToken, Record, NoToken
  <2>3. loads' \in [1..MaxTokens -> Nat]
    <3> DEFINE t == call[c].record.token
    <3>1. loads' = [loads EXCEPT ![t] = loads[t] + 1]
      BY <1>7 DEF ConsumeToken
    <3>2. t \in 1..MaxTokens => loads[t] + 1 \in Nat
      BY <1>a
    <3> HIDE DEF t
    <3> QED BY <1>a, <3>1, <3>2
  <2> QED BY <1>7, <1>a, <2>1, <2>2, <2>3 DEF ConsumeToken, TypeInv, TypeOK
<1>8. ASSUME NEW c \in Clients, Preflight(c) PROVE TypeInv'
  <2>1. call' \in [Clients -> Call] /\ CallsTyped'
    BY <1>8, <1>6, <1>s DEF Preflight, At
  <2> QED BY <1>8, <1>a, <2>1 DEF Preflight, TypeInv, TypeOK
<1>9. ASSUME NEW c \in Clients, ToLoader(c) PROVE TypeInv'
  <2>1. call' \in [Clients -> Call] /\ CallsTyped'
    BY <1>9, <1>6, <1>s DEF ToLoader, At
  <2> QED BY <1>9, <1>a, <2>1 DEF ToLoader, TypeInv, TypeOK, Modes
<1>10. ASSUME NEW c \in Clients, Write(c) PROVE TypeInv'
  <2>1. call' \in [Clients -> Call] /\ CallsTyped'
    BY <1>10, <1>6, <1>s DEF Write, AfterError, At
  <2> QED BY <1>10, <1>a, <2>1 DEF Write, Written, TypeInv, TypeOK
<1>11. ASSUME NEW c \in Clients, ToReader(c) PROVE TypeInv'
  <2>1. call' \in [Clients -> Call] /\ CallsTyped'
    BY <1>11, <1>6, <1>s DEF ToReader, At
  <2> QED BY <1>11, <1>a, <2>1 DEF ToReader, TypeInv, TypeOK, Modes
<1>12. ASSUME NEW c \in Clients, WriteResult(c) PROVE TypeInv'
  <2>1. call' \in [Clients -> Call] /\ CallsTyped'
    BY <1>12, <1>6, <1>s DEF WriteResult, At
  <2>2. record' \in Record /\ record'.token <= issued'
    BY <1>12, <1>a, TokensAssumption DEF WriteResult, Record, NoToken
  <2> QED BY <1>12, <1>a, <2>1, <2>2 DEF WriteResult, TypeInv, TypeOK
<1>13. ASSUME NEW c \in Clients, Unlock(c) \/ Stop(c) PROVE TypeInv'
  <2>1. /\ call' \in [Clients -> Call] /\ call'[c] = Idle
        /\ \A d \in Clients \ {c} : call'[d] = call[d]
    BY <1>13, <1>a, FinishTyped DEF Unlock, Stop
  <2>2. CallsTyped'
    BY <1>13, <2>1, <1>a, <1>b, <1>t DEF Unlock, Stop, CallsTyped
  <2> QED BY <1>13, <1>a, <2>1, <2>2 DEF Unlock, Stop, TypeInv, TypeOK
<1>14. CASE UNCHANGED vars
  BY <1>14 DEF vars, TypeInv, TypeOK, CallsTyped
<1> QED
  BY <1>1, <1>2, <1>3, <1>4, <1>5, <1>7, <1>8, <1>9, <1>10, <1>11, <1>12, <1>13, <1>14
     DEF Next, Begin, Continue

(* The variables keep their types, and the record never accepts a token    *)
(* that was not issued (data_intake_service.py:314-373, 445-487).          *)
THEOREM TypeCorrect == Spec => []TypeOK
<1>1. Spec => []TypeInv
  BY TypeInit, TypeStep, PTL DEF Spec
<1>2. TypeInv => TypeOK
  BY DEF TypeInv
<1> QED
  BY <1>1, <1>2, PTL

----------------------------------------------------------------------------
\* Every action keeps the lock files of the calls in progress.
LEMMA LockStep == TypeInv /\ LockInv /\ [Next]_vars => LockInv'
<1> SUFFICES ASSUME TypeInv, LockInv, [Next]_vars PROVE LockInv'
  OBVIOUS
<1>a. /\ call \in [Clients -> Call] /\ locks \subseteq Locks
      /\ \A c \in Clients : call[c].at \notin {"idle", "issue"} => call[c].op \in Locks
  BY DEF TypeInv, TypeOK, CallsTyped
<1> USE <1>a DEF LockInv, Section, Steps, Call, Idle, Start, At, Goto, FailTo, Finish
<1>1. ASSUME NEW c \in Clients, BeginDryRun(c) PROVE LockInv'
  BY <1>1 DEF BeginDryRun
<1>2. ASSUME NEW c \in Clients, BeginProject(c) PROVE LockInv'
  BY <1>2 DEF BeginProject
<1>3. ASSUME NEW c \in Clients, NEW t \in 1..MaxTokens, BeginIntake(c, t) PROVE LockInv'
  BY <1>3 DEF BeginIntake
<1>4. ASSUME NEW c \in Clients, EndDryRun(c) PROVE LockInv'
  BY <1>4 DEF EndDryRun
<1>5. ASSUME NEW c \in Clients, TakeLock(c) PROVE LockInv'
  <2>1. CASE call[c].op \in locks
    BY <1>5, <2>1 DEF TakeLock, AfterRefusal
  <2>2. CASE call[c].op \notin locks
    BY <1>5, <2>2 DEF TakeLock
  <2> QED BY <2>1, <2>2
<1>6. ASSUME NEW c \in Clients, ConsumeToken(c) PROVE LockInv'
  BY <1>6 DEF ConsumeToken
<1>7. ASSUME NEW c \in Clients, Preflight(c) PROVE LockInv'
  BY <1>7 DEF Preflight
<1>8. ASSUME NEW c \in Clients, ToLoader(c) PROVE LockInv'
  BY <1>8 DEF ToLoader
<1>9. ASSUME NEW c \in Clients, Write(c) PROVE LockInv'
  BY <1>9 DEF Write, AfterError
<1>10. ASSUME NEW c \in Clients, ToReader(c) PROVE LockInv'
  BY <1>10 DEF ToReader
<1>11. ASSUME NEW c \in Clients, WriteResult(c) PROVE LockInv'
  BY <1>11 DEF WriteResult
<1>12. ASSUME NEW c \in Clients, Unlock(c) PROVE LockInv'
  BY <1>12 DEF Unlock
<1>13. ASSUME NEW c \in Clients, Stop(c) PROVE LockInv'
  BY <1>13 DEF Stop
<1>14. CASE UNCHANGED vars
  BY <1>14 DEF vars
<1> QED
  BY <1>1, <1>2, <1>3, <1>4, <1>5, <1>6, <1>7, <1>8, <1>9, <1>10, <1>11, <1>12, <1>13, <1>14
     DEF Next, Begin, Continue

(* A service never runs two loads at once: os.O_EXCL holds although a      *)
(* stopped call leaves its lock file behind (project_load_service.py       *)
(* 121-151, data_intake_service.py:415-443).                               *)
THEOREM LocksExclude == Spec => []OneLoadPerLock
<1>1. Init => LockInv
  BY DEF Init, LockInv, Section, Idle
<1>2. Spec => [](TypeInv /\ LockInv)
  BY <1>1, TypeInit, TypeStep, LockStep, PTL DEF Spec
<1>3. LockInv => OneLoadPerLock
  BY DEF LockInv, OneLoadPerLock, Holding, Section
<1> QED
  BY <1>2, <1>3, PTL

----------------------------------------------------------------------------
\* Every action keeps somebody on the way back to reader mode, or says why not.
LEMMA ModeStep == TypeInv /\ ModeInv /\ [Next]_vars => ModeInv'
<1> SUFFICES ASSUME TypeInv, ModeInv, [Next]_vars, (mode = "loader" /\ ~stranded)'
             PROVE  \E c \in Clients : call'[c].at \in {"to_loader", "write", "to_reader"}
  BY DEF ModeInv
<1>a. call \in [Clients -> Call]
  BY DEF TypeInv, TypeOK
<1> USE <1>a DEF ModeInv, Call, Idle, Start, At, Goto, FailTo, Finish
<1> DEFINE Goal == \E c \in Clients : call'[c].at \in {"to_loader", "write", "to_reader"}
<1>1. ASSUME NEW c \in Clients, Begin(c) PROVE Goal
  BY <1>1 DEF Begin, BeginDryRun, BeginProject, BeginIntake
<1>2. ASSUME NEW c \in Clients,
             EndDryRun(c) \/ TakeLock(c) \/ ConsumeToken(c) \/ Preflight(c) PROVE Goal
  BY <1>2 DEF EndDryRun, TakeLock, ConsumeToken, Preflight
<1>3. ASSUME NEW c \in Clients, ToLoader(c) PROVE Goal
  BY <1>3 DEF ToLoader
<1>4. ASSUME NEW c \in Clients, Write(c) PROVE Goal
  BY <1>4 DEF Write, AfterError
<1>5. ASSUME NEW c \in Clients, ToReader(c) PROVE Goal
  BY <1>5 DEF ToReader
<1>6. ASSUME NEW c \in Clients, WriteResult(c) \/ Unlock(c) PROVE Goal
  BY <1>6 DEF WriteResult, Unlock
<1>7. ASSUME NEW c \in Clients, Stop(c) PROVE Goal
  BY <1>7 DEF Stop
<1>8. CASE UNCHANGED vars
  BY <1>8 DEF vars
<1> QED
  BY <1>1, <1>2, <1>3, <1>4, <1>5, <1>6, <1>7, <1>8 DEF Next, Continue

(* Loader mode outlives a load only through a stop or a failed switch,     *)
(* although the two services share the server without a common lock        *)
(* (data_intake_service.py:509-546, project_load_service.py:160-189).      *)
THEOREM ReaderIsRestored == Spec => []ReaderRestored
<1>1. Init => ModeInv
  BY DEF Init, ModeInv
<1>2. Spec => [](TypeInv /\ ModeInv)
  BY <1>1, TypeInit, TypeStep, ModeStep, PTL DEF Spec
<1>3. ModeInv => ReaderRestored
  BY DEF ModeInv, ReaderRestored, Switching
<1> QED
  BY <1>2, <1>3, PTL

----------------------------------------------------------------------------
\* Every action keeps what a successful write and a recorded success stand for.
LEMMA PassStep == TypeInv /\ PassInv /\ [Next]_vars => PassInv'
<1> SUFFICES ASSUME TypeInv, PassInv, [Next]_vars PROVE PassInv'
  OBVIOUS
<1>a. call \in [Clients -> Call] /\ record \in Record
  BY DEF TypeInv, TypeOK
<1> USE <1>a DEF PassInv, Call, Record, Idle, Staged, Start, At, Goto, FailTo, Finish
<1>1. ASSUME NEW c \in Clients, Begin(c) PROVE PassInv'
  <2>1. CASE BeginDryRun(c)
    BY <2>1 DEF BeginDryRun
  <2>2. CASE BeginProject(c)
    BY <2>2 DEF BeginProject
  <2>3. ASSUME NEW t \in 1..MaxTokens, BeginIntake(c, t) PROVE PassInv'
    BY <2>3 DEF BeginIntake
  <2> QED BY <1>1, <2>1, <2>2, <2>3 DEF Begin
<1>2. ASSUME NEW c \in Clients, EndDryRun(c) PROVE PassInv'
  BY <1>2 DEF EndDryRun
<1>3. ASSUME NEW c \in Clients, TakeLock(c) PROVE PassInv'
  BY <1>3 DEF TakeLock
<1>4. ASSUME NEW c \in Clients, ConsumeToken(c) \/ Preflight(c) \/ ToLoader(c) PROVE PassInv'
  <2>1. CASE ConsumeToken(c)
    BY <2>1 DEF ConsumeToken
  <2>2. CASE Preflight(c)
    BY <2>2 DEF Preflight
  <2>3. CASE ToLoader(c)
    BY <2>3 DEF ToLoader
  <2> QED BY <1>4, <2>1, <2>2, <2>3
<1>5. ASSUME NEW c \in Clients, Write(c) PROVE PassInv'
  <2>1. cip = "full" => cip' = "full"
    BY <1>5 DEF Write, Written
  <2>2. CASE Goto(c, "to_reader") /\ cip' = IF call[c].op = "intake" THEN "full" ELSE cip
    BY <1>5, <2>1, <2>2 DEF Write
  <2>3. CASE FailTo(c, "to_reader")
    BY <1>5, <2>1, <2>3 DEF Write
  <2> QED BY <1>5, <2>2, <2>3 DEF Write, AfterError
<1>6. ASSUME NEW c \in Clients, ToReader(c) PROVE PassInv'
  BY <1>6 DEF ToReader
<1>7. ASSUME NEW c \in Clients, WriteResult(c) PROVE PassInv'
  BY <1>7 DEF WriteResult, Passed
<1>8. ASSUME NEW c \in Clients, Unlock(c) \/ Stop(c) PROVE PassInv'
  BY <1>8 DEF Unlock, Stop
<1>9. CASE UNCHANGED vars
  BY <1>9 DEF vars
<1> QED
  BY <1>1, <1>2, <1>3, <1>4, <1>5, <1>6, <1>7, <1>8, <1>9 DEF Next, Continue

(* A run recorded load_pass found all of the CiP-DMD graph, and no later   *)
(* load takes any of it away (data_intake_service.py:513-575).             *)
THEOREM PassIsTrue == Spec => []PassMeansLoaded
<1>1. Init => PassInv
  BY DEF Init, PassInv, Idle, Staged
<1>2. Spec => [](TypeInv /\ PassInv)
  BY <1>1, TypeInit, TypeStep, PassStep, PTL DEF Spec
<1>3. PassInv => PassMeansLoaded
  BY DEF PassInv, PassMeansLoaded
<1> QED
  BY <1>2, <1>3, PTL

(***************************************************************************)
(* The ETL.                                                                *)
(***************************************************************************)

\* Images and unions of finite sets.
LEMMA FiniteImage ==
  ASSUME NEW S, IsFiniteSet(S), NEW f
  PROVE  IsFiniteSet({f[e] : e \in S})
<1> DEFINE T == {f[e] : e \in S}
<1> PICK g : g = [e \in S |-> f[e]]
  OBVIOUS
<1>1. g \in [S -> T] /\ \A y \in T : \E e \in S : g[e] = y
  OBVIOUS
<1>2. g \in Surjection(S, T)
  BY <1>1 DEF Surjection
<1> HIDE DEF T
<1> QED  BY <1>2, FS_Surjection DEF T

LEMMA FiniteUnion ==
  ASSUME NEW S, IsFiniteSet(S), NEW f, \A e \in S : IsFiniteSet(f[e])
  PROVE  IsFiniteSet(UNION {f[e] : e \in S})
<1> DEFINE T == {f[e] : e \in S}
<1>1. IsFiniteSet(T)
  BY FiniteImage
<1>2. \A t \in T : IsFiniteSet(t)
  OBVIOUS
<1> HIDE DEF T
<1>3. IsFiniteSet(UNION T)
  BY <1>1, <1>2, FS_UNION
<1> QED  BY <1>3 DEF T

\* A finite set in a sequence, each element once.
LEMMA ListedOnce ==
  ASSUME NEW S, IsFiniteSet(S), NEW s, s = SetToSeq(S)
  PROVE  s \in Seq(S) /\ \A e \in S : \E i \in 1..Len(s) : s[i] = e
<1> PICK n : n = Cardinality(S)
  OBVIOUS
<1>1. n \in Nat /\ ExistsBijection(1..n, S)
  BY FS_CardinalityType
<1>2. PICK f : f \in Bijection(1..n, S)
  BY <1>1 DEF ExistsBijection
<1>3. f \in [1..n -> S] /\ IsInjective(f)
  BY <1>2 DEF Bijection, Injection, IsInjective
<1>4. s \in [1..n -> S] /\ IsInjective(s)
  BY <1>3 DEF SetToSeq
<1>5. s \in Injection(1..n, S)
  BY <1>4 DEF IsInjective, Injection
<1>6. IsFiniteSet(1..n) /\ Cardinality(1..n) = n
  BY <1>1, FS_Interval
<1>7. s \in Surjection(1..n, S)
  BY <1>5, <1>6, FS_Injection
<1>8. s \in Seq(S) /\ Len(s) = n
  <2>1. s \in Seq(S)  BY <1>1, <1>4, SeqDef
  <2>2. DOMAIN s = 1..n /\ DOMAIN s = 1..Len(s) /\ Len(s) \in Nat  BY <1>4, <2>1, LenProperties
  <2> QED  BY <1>1, <2>1, <2>2
<1> QED  BY <1>7, <1>8 DEF Surjection

LEMMA SliceElements ==
  ASSUME NEW S, NEW s, s \in Seq(S), NEW lo, NEW hi,
         lo \in 1..(Len(s) + 1), hi \in (lo - 1)..Len(s)
  PROVE  ToSet(SubSeq(s, lo, hi)) = {s[i] : i \in lo..hi}
<1>a. PICK c : c = SubSeq(s, lo, hi)
  OBVIOUS
<1>1. Len(s) \in Nat /\ lo \in Nat /\ hi \in Nat
  BY LenProperties
<1>2. /\ c \in Seq(S) /\ Len(c) = hi - lo + 1
      /\ \A i \in 1..(hi - lo + 1) : c[i] = s[lo + i - 1]
  BY <1>a, <1>1, SubSeqProperties
<1>3. DOMAIN c = 1..(hi - lo + 1)
  BY <1>2, LenProperties
<1>4. \A i \in lo..hi : i - lo + 1 \in 1..(hi - lo + 1) /\ s[lo + (i - lo + 1) - 1] = s[i]
  BY <1>1
<1>5. \A i \in 1..(hi - lo + 1) : lo + i - 1 \in lo..hi
  BY <1>1
<1>6. \A i \in lo..hi : s[i] = c[i - lo + 1]
  BY <1>2, <1>4
<1>7. \A i \in 1..(hi - lo + 1) : \E j \in lo..hi : c[i] = s[j]
  BY <1>2, <1>5
<1>8. \A j \in lo..hi : \E i \in 1..(hi - lo + 1) : c[i] = s[j]
  BY <1>4, <1>6
<1>9. ToSet(c) = {c[i] : i \in 1..(hi - lo + 1)}
  BY <1>3 DEF ToSet
<1> DEFINE P == 1..(hi - lo + 1)
           Q == lo..hi
<1> HIDE DEF P, Q
<1>10. {c[i] : i \in P} = {s[i] : i \in Q}
  <2>1. ASSUME NEW i \in P PROVE c[i] \in {s[j] : j \in Q}
    BY <1>7, Zenon DEF P, Q
  <2>2. ASSUME NEW j \in Q PROVE s[j] \in {c[i] : i \in P}
    BY <1>8, Zenon DEF P, Q
  <2> QED  BY <2>1, <2>2, Zenon
<1>11. ToSet(c) = {s[i] : i \in lo..hi}
  BY <1>9, <1>10, Zenon DEF P, Q
<1> QED  BY <1>a, <1>11, Zenon

\* Batches that hold the rows and no others, each row in one of them.
Carries(b, rows) ==
  /\ b \in Seq(SUBSET rows)
  /\ \A row \in rows : \E k \in 1..Len(b) : row \in b[k]

\* No row falls between two batches, or after the last.
LEMMA SlicesCarry ==
  ASSUME NEW S, IsFiniteSet(S), NEW b, b = Sliced(S)
  PROVE  Carries(b, S)
<1>s. PICK s : s = SetToSeq(S)
  OBVIOUS
<1>1. s \in Seq(S) /\ \A e \in S : \E i \in 1..Len(s) : s[i] = e
  BY <1>s, ListedOnce
<1>2. Len(s) \in Nat /\ BatchSize \in Nat \ {0}
  BY <1>1, LenProperties, BatchSizeAssumption
<1> PICK n \in Nat : n = Len(s)
  BY <1>2
<1> PICK z \in Nat \ {0} : z = BatchSize
  BY <1>2
<1> DEFINE count == (n + z - 1) \div z
           first(k) == (k - 1) * z + 1
           last(k)  == IF k * z <= n THEN k * z ELSE n
<1>3. count \in Nat /\ n + z - 1 \in Nat /\ count * z <= n + z - 1 /\ n + z - 1 < count * z + z
  OBVIOUS
<1>4. b = [k \in 1..count |-> ToSet(SubSeq(s, first(k), last(k)))]
  BY <1>s DEF Sliced, Slices
<1>5. ASSUME NEW k \in 1..count
      PROVE  /\ first(k) \in Nat /\ first(k) \in 1..(n + 1) /\ last(k) \in (first(k) - 1)..n
             /\ last(k) \in Nat
  <2>1. k \in Nat /\ k - 1 \in Nat /\ k * z \in Nat /\ (k - 1) * z \in Nat /\ (k - 1) * z + z = k * z
    BY <1>3
  <2>2. k * z <= count * z
    BY <1>3, <2>1
  <2>3. (k - 1) * z < n
    BY <1>3, <2>1, <2>2
  <2> QED  BY <2>1, <2>3
<1> HIDE DEF count, first, last
<1>6. ASSUME NEW k \in 1..count
      PROVE  b[k] = {s[i] : i \in first(k)..last(k)}
  <2> PICK lo \in Nat : lo = first(k)
    BY <1>5
  <2> PICK hi \in Nat : hi = last(k)
    BY <1>5
  <2>1. lo \in 1..(Len(s) + 1) /\ hi \in (lo - 1)..Len(s)
    BY <1>5
  <2>2. \A low \in 1..(Len(s) + 1) : \A high \in (low - 1)..Len(s) :
          ToSet(SubSeq(s, low, high)) = {s[i] : i \in low..high}
    <3> SUFFICES ASSUME NEW low \in 1..(Len(s) + 1), NEW high \in (low - 1)..Len(s)
                 PROVE  ToSet(SubSeq(s, low, high)) = {s[i] : i \in low..high}
      OBVIOUS
    <3>1. s \in Seq(S) /\ low \in 1..(Len(s) + 1) /\ high \in (low - 1)..Len(s)
      BY <1>1
    <3> QED  BY <3>1, SliceElements, Zenon
  <2> QED  BY <1>4, <2>1, <2>2
<1>7. ASSUME NEW k \in 1..count PROVE b[k] \in SUBSET S
  <2>1. \A i \in first(k)..last(k) : i \in 1..Len(s)
    BY <1>2, <1>5
  <2> QED  BY <1>1, <1>6, <2>1, ElementOfSeq
<1>8. b \in Seq(SUBSET S) /\ Len(b) = count
  <2>1. b \in [1..count -> SUBSET S]  BY <1>4, <1>7
  <2>2. b \in Seq(SUBSET S)  BY <1>3, <2>1, SeqDef DEF count
  <2>3. DOMAIN b = 1..count /\ DOMAIN b = 1..Len(b) /\ Len(b) \in Nat  BY <2>1, <2>2, LenProperties
  <2> QED  BY <1>3, <2>2, <2>3 DEF count
<1>9. ASSUME NEW row \in S PROVE \E k \in 1..Len(b) : row \in b[k]
  <2>1. PICK i \in 1..n : s[i] = row
    BY <1>1
  <2> DEFINE k == (i - 1) \div z + 1
  <2>2. /\ k \in Nat /\ k - 1 \in Nat /\ (k - 1) * z <= i - 1 /\ i - 1 < (k - 1) * z + z
        /\ (k - 1) * z + z = k * z
    OBVIOUS
  <2> HIDE DEF k
  <2>3. k <= count
    <3> SUFFICES ASSUME count <= k - 1 PROVE FALSE
      BY <1>3, <2>2 DEF count
    <3>1. count * z <= (k - 1) * z  BY <1>3, <2>2 DEF count
    <3> QED  BY <1>3, <2>2, <3>1 DEF count
  <2>4. k \in 1..count
    BY <1>3, <2>2, <2>3 DEF count
  <2>5. i \in first(k)..last(k)
    BY <2>2 DEF first, last
  <2> QED  BY <1>6, <1>8, <2>1, <2>4, <2>5
<1> QED  BY <1>8, <1>9 DEF Carries

\* The nodes a row is matched against; the equipment may be missing for a
\* run without one.
Uses(row) ==
  Needs(row) \cup (IF row.query = "runs" /\ row.equipment # NoEquipment
                   THEN {<<"Equipment", row.equipment>>} ELSE {})

\* What a row finds in the graph stays there whatever another script loads.
Kept(row) == {e \in Elements(row) : e[1] # "QualityFailure"}

\* Every node a batch is matched against is in the graph or made before it.
Ready(b, graph) ==
  \A k \in 1..Len(b) : \A row \in b[k] : \A use \in Uses(row) :
    use \in graph \/ \E j \in 1..Len(b) : j < k /\ \E r \in b[j] : use \in Kept(r)

MadeBy(use, rows) == \E r \in rows : use \in Kept(r)

LEMMA FirstReady ==
  ASSUME NEW b, NEW rows, Carries(b, rows), \A row \in rows : Uses(row) = {}
  PROVE  Ready(b, {})
BY ElementOfSeq DEF Carries, Ready

\* Rows that need only what the batches before them make can follow them.
LEMMA JoinReady ==
  ASSUME NEW a, NEW first, Carries(a, first), Ready(a, {}),
         NEW b, NEW next, Carries(b, next),
         \A row \in next : \A use \in Uses(row) : MadeBy(use, first)
  PROVE  Carries(a \o b, first \cup next) /\ Ready(a \o b, {})
<1>c. PICK c : c = a \o b
  OBVIOUS
<1>p. PICK both : both = first \cup next
  OBVIOUS
<1>1. a \in Seq(SUBSET both) /\ b \in Seq(SUBSET both)
  <2>1. \A k \in 1..Len(a) : a[k] \in SUBSET both  BY <1>p, ElementOfSeq DEF Carries
  <2>2. \A k \in 1..Len(b) : b[k] \in SUBSET both  BY <1>p, ElementOfSeq DEF Carries
  <2>3. a \in Seq(SUBSET first) /\ b \in Seq(SUBSET next)  BY DEF Carries
  <2> QED  BY <2>1, <2>2, <2>3, SeqDef, LenProperties
<1>2. Len(a) \in Nat /\ Len(b) \in Nat
  BY <1>1, LenProperties
<1>3. /\ c \in Seq(SUBSET both) /\ Len(c) = Len(a) + Len(b)
      /\ \A k \in 1..(Len(a) + Len(b)) : c[k] = IF k <= Len(a) THEN a[k] ELSE b[k - Len(a)]
  BY <1>c, <1>1, ConcatProperties
<1>4. \A k \in 1..Len(a) : k \in 1..Len(c) /\ c[k] = a[k]
  BY <1>2, <1>3
<1>5. \A k \in 1..Len(b) : Len(a) + k \in 1..Len(c) /\ c[Len(a) + k] = b[k]
  <2> SUFFICES ASSUME NEW k \in 1..Len(b)
               PROVE  Len(a) + k \in 1..Len(c) /\ c[Len(a) + k] = b[k]
    OBVIOUS
  <2>1. PICK n : n = Len(a) + k
    OBVIOUS
  <2>2. n \in 1..(Len(a) + Len(b)) /\ ~(n <= Len(a)) /\ n - Len(a) = k
    BY <1>2, <2>1
  <2>3. c[n] = b[k]
    BY <1>3, <2>2
  <2> QED  BY <1>3, <2>1, <2>2, <2>3
<1>6. Carries(c, both)
  <2>1. ASSUME NEW row \in first PROVE \E k \in 1..Len(c) : row \in c[k]
    BY <1>4 DEF Carries
  <2>2. ASSUME NEW row \in next PROVE \E k \in 1..Len(c) : row \in c[k]
    BY <1>5 DEF Carries
  <2> QED  BY <1>p, <1>3, <2>1, <2>2 DEF Carries
<1>7. ASSUME NEW k \in 1..Len(c), NEW row \in c[k], NEW use \in Uses(row)
      PROVE  \E j \in 1..Len(c) : j < k /\ \E r \in c[j] : use \in Kept(r)
  <2>1. CASE k <= Len(a)
    <3>1. k \in 1..Len(a) /\ row \in a[k]  BY <1>2, <1>4, <2>1
    <3>2. PICK j \in 1..Len(a) : j < k /\ \E r \in a[j] : use \in Kept(r)
      BY <3>1 DEF Ready
    <3> QED  BY <1>4, <3>2
  <2>2. CASE ~(k <= Len(a))
    <3>1. k - Len(a) \in 1..Len(b) /\ row \in b[k - Len(a)]  BY <1>2, <1>3, <2>2
    <3>2. row \in next  BY <3>1, ElementOfSeq DEF Carries
    <3>3. PICK r \in first : use \in Kept(r)  BY <3>2 DEF MadeBy
    <3>4. PICK j \in 1..Len(a) : r \in a[j]  BY <3>3 DEF Carries
    <3>5. j \in 1..Len(c) /\ j < k /\ r \in c[j]  BY <1>2, <1>4, <2>2, <3>4
    <3> QED  BY <3>3, <3>5
  <2> QED  BY <2>1, <2>2
<1>8. Ready(c, {})
  BY <1>7 DEF Ready
<1> QED  BY <1>c, <1>p, <1>6, <1>8

LEMMA FiniteFiles == IsFiniteSet(SourceFiles)
<1>1. IsFiniteSet({"cylinder"})  BY FS_Singleton
<1>2. IsFiniteSet({"cylinder", "bottom"})  BY <1>1, FS_AddElement
<1>3. IsFiniteSet({"cylinder", "bottom", "rod"})  BY <1>2, FS_AddElement
<1>4. IsFiniteSet({"cylinder", "bottom", "rod", "reworked"})  BY <1>3, FS_AddElement
<1> QED  BY <1>4 DEF SourceFiles

\* Every version of the dataset gives finitely many rows.
LEMMA FiniteRecords ==
  ASSUME NEW x \in Extracts
  PROVE  /\ \A file \in SourceFiles : IsFiniteSet(Records(x, file))
         /\ IsFiniteSet(AllRecords(x))
         /\ \A r \in AllRecords(x) : IsFiniteSet(DOMAIN r.runs) /\ IsFiniteSet(DOMAIN r.quality)
<1>1. ASSUME NEW file \in SourceFiles
      PROVE  /\ IsFiniteSet(Records(x, file))
             /\ \A r \in Records(x, file) : IsFiniteSet(DOMAIN r.runs) /\ IsFiniteSet(DOMAIN r.quality)
  <2>1. Records(x, file) \subseteq ToSet(x[file])
    BY DEF Records
  <2>2. IsFiniteSet(ToSet(x[file]))
    BY ExtractsAssumption DEF ExtractsAssumption
  <2>3. IsFiniteSet(Records(x, file))
    BY <2>1, <2>2, FS_Subset
  <2> QED  BY <2>1, <2>3, ExtractsAssumption DEF ExtractsAssumption
<1>2. PICK f : f = [file \in SourceFiles |-> Records(x, file)]
  OBVIOUS
<1>3. IsFiniteSet(SourceFiles)
  BY FiniteFiles
<1>4. IsFiniteSet(UNION {f[file] : file \in SourceFiles})
  BY <1>1, <1>2, <1>3, FiniteUnion
<1>5. AllRecords(x) = UNION {f[file] : file \in SourceFiles}
  BY <1>2 DEF AllRecords
<1>6. \A r \in AllRecords(x) : \E file \in SourceFiles : r \in Records(x, file)
  BY DEF AllRecords
<1> QED  BY <1>1, <1>4, <1>5, <1>6

RunRow(r, i) ==
  [query |-> "runs", id |-> <<r.part, Normal(r.runs[i].process),
     Occurrence([j \in DOMAIN r.runs |-> Normal(r.runs[j].process)], i)>>, part |-> r.part,
   process |-> Normal(r.runs[i].process), anomaly |-> r.runs[i].anomaly,
   equipment |-> EquipmentOf(Normal(r.runs[i].process))]
LEMMA RunRowsAre ==
  ASSUME NEW x
  PROVE  RunRows(x) = UNION {{RunRow(r, i) : i \in DOMAIN r.runs} : r \in AllRecords(x)}
BY DEF RunRows, RunRow

LEMMA FiniteRuns ==
  ASSUME NEW x \in Extracts
  PROVE  IsFiniteSet(RunRows(x))
<1>f. PICK f : f = [r \in AllRecords(x) |-> {RunRow(r, i) : i \in DOMAIN r.runs}]
  OBVIOUS
<1>1. ASSUME NEW r \in AllRecords(x) PROVE IsFiniteSet(f[r])
  <2>g. PICK g : g = [i \in DOMAIN r.runs |-> RunRow(r, i)]
    OBVIOUS
  <2>d. PICK d : d = DOMAIN r.runs
    OBVIOUS
  <2>1. IsFiniteSet(d)
    BY <2>d, FiniteRecords
  <2>2. IsFiniteSet({g[i] : i \in d})
    BY <2>1, FiniteImage
  <2>3. f[r] = {RunRow(r, i) : i \in d}
    BY <1>f, <2>d, Zenon
  <2>4. {RunRow(r, i) : i \in d} = {g[i] : i \in d}
    BY <2>g, <2>d, Zenon
  <2> QED  BY <2>2, <2>3, <2>4, Zenon
<1>2. IsFiniteSet(UNION {f[r] : r \in AllRecords(x)})
  BY <1>1, FiniteRecords, FiniteUnion
<1>3. {f[r] : r \in AllRecords(x)} = {{RunRow(r, i) : i \in DOMAIN r.runs} : r \in AllRecords(x)}
  BY <1>f, Zenon
<1> QED  BY <1>2, <1>3, RunRowsAre

MeasurementRow(r, i) ==
  LET key == [j \in DOMAIN r.quality |-> <<Normal(r.quality[j].process), r.quality[j].feature>>]
  IN [query |-> "measurements", id |-> <<r.part, key[i], Occurrence(key, i)>>,
      part |-> r.part, process |-> key[i][1], pass |-> r.quality[i].pass]

LEMMA MeasurementRowsAre ==
  ASSUME NEW x
  PROVE  MeasurementRows(x) =
           UNION {{MeasurementRow(r, i) : i \in DOMAIN r.quality} : r \in AllRecords(x)}
BY DEF MeasurementRows, MeasurementRow

LEMMA FiniteMeasurements ==
  ASSUME NEW x \in Extracts
  PROVE  IsFiniteSet(MeasurementRows(x))
<1>f. PICK f : f = [r \in AllRecords(x) |-> {MeasurementRow(r, i) : i \in DOMAIN r.quality}]
  OBVIOUS
<1>1. ASSUME NEW r \in AllRecords(x) PROVE IsFiniteSet(f[r])
  <2>g. PICK g : g = [i \in DOMAIN r.quality |-> MeasurementRow(r, i)]
    OBVIOUS
  <2>d. PICK d : d = DOMAIN r.quality
    OBVIOUS
  <2>1. IsFiniteSet(d)
    BY <2>d, FiniteRecords
  <2>2. IsFiniteSet({g[i] : i \in d})
    BY <2>1, FiniteImage
  <2>3. f[r] = {MeasurementRow(r, i) : i \in d}
    BY <1>f, <2>d, Zenon
  <2>4. {MeasurementRow(r, i) : i \in d} = {g[i] : i \in d}
    BY <2>g, <2>d, Zenon
  <2> QED  BY <2>2, <2>3, <2>4, Zenon
<1>2. IsFiniteSet(UNION {f[r] : r \in AllRecords(x)})
  BY <1>1, FiniteRecords, FiniteUnion
<1>3. {f[r] : r \in AllRecords(x)} =
        {{MeasurementRow(r, i) : i \in DOMAIN r.quality} : r \in AllRecords(x)}
  BY <1>f, Zenon
<1> QED  BY <1>2, <1>3, MeasurementRowsAre

LEMMA FiniteParts ==
  ASSUME NEW x \in Extracts
  PROVE  IsFiniteSet(PartRows(x))
<1> DEFINE Row(f, r) == [query |-> "parts", id |-> r.part, subtype |-> Subtype(f)]
<1>f. PICK f : f = [file \in SourceFiles |-> {Row(file, r) : r \in Records(x, file)}]
  OBVIOUS
<1>1. ASSUME NEW file \in SourceFiles PROVE IsFiniteSet(f[file])
  <2>g. PICK g : g = [r \in Records(x, file) |-> Row(file, r)]
    OBVIOUS
  <2>d. PICK d : d = Records(x, file)
    OBVIOUS
  <2>1. IsFiniteSet(d)
    BY <2>d, FiniteRecords
  <2>2. IsFiniteSet({g[i] : i \in d})
    BY <2>1, FiniteImage
  <2> HIDE DEF Row
  <2>3. f[file] = {Row(file, r) : r \in d}
    BY <1>f, <2>d, Zenon
  <2>4. {Row(file, r) : r \in d} = {g[r] : r \in d}
    BY <2>g, <2>d, Zenon
  <2> QED  BY <2>2, <2>3, <2>4, Zenon
<1>2. IsFiniteSet(SourceFiles)
  BY FiniteFiles
<1>3. IsFiniteSet(UNION {f[file] : file \in SourceFiles})
  BY <1>1, <1>2, FiniteUnion
<1>4. {f[file] : file \in SourceFiles} =
        {{Row(file, r) : r \in Records(x, file)} : file \in SourceFiles}
  BY <1>f, Zenon
<1> QED  BY <1>3, <1>4, Zenon DEF PartRows

LEMMA FiniteReferences ==
  ASSUME NEW x \in Extracts
  PROVE  IsFiniteSet(References(x))
<1> DEFINE Row(r, role) ==
      [query |-> "assemblies", cylinder |-> r.part, role |-> role,
       component |-> IF role <= Len(r.components) THEN r.components[role] ELSE ""]
<1>f. PICK f : f = [r \in Records(x, "cylinder") |-> {Row(r, role) : role \in 1..2}]
  OBVIOUS
<1>1. ASSUME NEW r \in Records(x, "cylinder") PROVE IsFiniteSet(f[r])
  <2>g. PICK g : g = [role \in 1..2 |-> Row(r, role)]
    OBVIOUS
  <2>d. PICK d : d = 1..2
    OBVIOUS
  <2>1. IsFiniteSet(d)
    <3>1. IsFiniteSet({1})  BY FS_Singleton
    <3>2. IsFiniteSet({1, 2})  BY <3>1, FS_AddElement
    <3>3. d = {1, 2}  BY <2>d
    <3> QED  BY <3>2, <3>3
  <2>2. IsFiniteSet({g[i] : i \in d})
    BY <2>1, FiniteImage
  <2> HIDE DEF Row
  <2>3. f[r] = {Row(r, role) : role \in d}
    BY <1>f, <2>d, Zenon
  <2>4. {Row(r, role) : role \in d} = {g[role] : role \in d}
    BY <2>g, <2>d, Zenon
  <2> QED  BY <2>2, <2>3, <2>4, Zenon
<1>2. IsFiniteSet(Records(x, "cylinder"))
  BY FiniteRecords DEF SourceFiles
<1>3. IsFiniteSet(UNION {f[r] : r \in Records(x, "cylinder")})
  BY <1>1, <1>2, FiniteUnion
<1>4. {f[r] : r \in Records(x, "cylinder")} =
        {{Row(r, role) : role \in 1..2} : r \in Records(x, "cylinder")}
  BY <1>f, Zenon
<1> QED  BY <1>3, <1>4, Zenon DEF References

\* What the transformation and validate_payload leave to be relied on: a row
\* of a later query needs nothing that no earlier query makes.
LEMMA RunsFit ==
  ASSUME NEW x \in Extracts, Transforms(x), NEW p, p = Payload(x), Validates(p),
         NEW row \in p.runs, NEW use \in Uses(row)
  PROVE  MadeBy(use, p.parts \cup p.processes \cup p.equipment \cup p.anomalies)
<1>1. /\ p.runs = RunRows(x) /\ p.parts = PartRows(x)
      /\ p.equipment = {[query |-> "equipment", id |-> e] : e \in EquipmentRows}
      /\ p.anomalies = {[query |-> "anomalies", id |-> code] : code \in AnomalyCodes}
      /\ p.processes = {[query |-> "processes", id |-> r.process]
                          : r \in RunRows(x) \cup MeasurementRows(x)}
  BY DEF Payload
<1>r. PICK r \in AllRecords(x) : \E i \in DOMAIN r.runs : row = RunRow(r, i)
  BY <1>1, RunRowsAre
<1>2. PICK i \in DOMAIN r.runs : row = RunRow(r, i)
  BY <1>r
<1>3. /\ row.query = "runs" /\ row.process = Normal(r.runs[i].process)
      /\ row.anomaly = r.runs[i].anomaly
  BY <1>2 DEF RunRow
<1>4. row.anomaly \in AnomalyCodes
  BY <1>2, <1>3 DEF Transforms
<1>5. PICK part \in p.parts : part.id = row.part
  BY DEF Validates
<1>6. part.query = "parts"
  BY <1>1, <1>5 DEF PartRows
<1>7. <<"Part", row.part>> \in Kept(part)
  BY <1>5, <1>6 DEF Kept, Elements
<1>8. \E process \in p.processes : <<"Process", row.process>> \in Kept(process)
  <2>1. PICK process : process = [query |-> "processes", id |-> row.process]
    OBVIOUS
  <2>2. process \in p.processes
    BY <1>1, <2>1
  <2> QED  BY <2>1, <2>2 DEF Kept, Elements
<1>9. \E code \in p.anomalies : <<"AnomalyClass", row.anomaly>> \in Kept(code)
  <2>1. PICK code : code = [query |-> "anomalies", id |-> row.anomaly]
    OBVIOUS
  <2>2. code \in p.anomalies
    BY <1>1, <1>4, <2>1
  <2> QED  BY <2>1, <2>2 DEF Kept, Elements
<1>10. ASSUME row.equipment # NoEquipment
       PROVE  \E e \in p.equipment : <<"Equipment", row.equipment>> \in Kept(e)
  <2>1. PICK e \in p.equipment : e.id = row.equipment
    BY <1>10 DEF Validates
  <2>2. e.query = "equipment"
    BY <1>1, <2>1
  <2> QED  BY <2>1, <2>2 DEF Kept, Elements
<1>11. use \in {<<"Part", row.part>>, <<"Process", row.process>>, <<"AnomalyClass", row.anomaly>>}
       \/ (use = <<"Equipment", row.equipment>> /\ row.equipment # NoEquipment)
  BY <1>3 DEF Uses, Needs
<1> QED  BY <1>5, <1>7, <1>8, <1>9, <1>10, <1>11 DEF MadeBy

LEMMA MeasurementsFit ==
  ASSUME NEW x \in Extracts, Transforms(x), NEW p, p = Payload(x), Validates(p),
         NEW row \in p.measurements, NEW use \in Uses(row)
  PROVE  MadeBy(use, p.parts \cup p.processes)
<1>1. /\ p.measurements = MeasurementRows(x) /\ p.parts = PartRows(x)
      /\ p.processes = {[query |-> "processes", id |-> r.process]
                          : r \in RunRows(x) \cup MeasurementRows(x)}
  BY DEF Payload
<1>r. PICK r \in AllRecords(x) : \E i \in DOMAIN r.quality : row = MeasurementRow(r, i)
  BY <1>1, MeasurementRowsAre
<1>2. PICK i \in DOMAIN r.quality : row = MeasurementRow(r, i)
  BY <1>r
<1>3. row.query = "measurements"
  BY <1>2 DEF MeasurementRow
<1>5. PICK part \in p.parts : part.id = row.part
  BY DEF Validates
<1>6. part.query = "parts"
  BY <1>1, <1>5 DEF PartRows
<1>7. <<"Part", row.part>> \in Kept(part)
  BY <1>5, <1>6 DEF Kept, Elements
<1>8. \E process \in p.processes : <<"Process", row.process>> \in Kept(process)
  <2>1. PICK process : process = [query |-> "processes", id |-> row.process]
    OBVIOUS
  <2>2. process \in p.processes
    BY <1>1, <2>1
  <2> QED  BY <2>1, <2>2 DEF Kept, Elements
<1>11. use \in {<<"Part", row.part>>, <<"Process", row.process>>}
  BY <1>3 DEF Uses, Needs
<1> QED  BY <1>5, <1>7, <1>8, <1>11 DEF MadeBy

LEMMA ReferencesAre ==
  ASSUME NEW x, NEW row \in References(x)
  PROVE  /\ \E r \in Records(x, "cylinder") : row.query = "assemblies" /\ row.cylinder = r.part
         /\ row.role \in 1..2
         /\ row = [query |-> "assemblies", cylinder |-> row.cylinder, role |-> row.role,
                   component |-> row.component]
<1> DEFINE Row(q, role) ==
        [query |-> "assemblies", cylinder |-> q.part, role |-> role,
         component |-> IF role <= Len(q.components) THEN q.components[role] ELSE ""]
<1>1. \A q, role :
        /\ Row(q, role).query = "assemblies" /\ Row(q, role).cylinder = q.part
        /\ Row(q, role).role = role
        /\ Row(q, role) = [query |-> "assemblies", cylinder |-> Row(q, role).cylinder,
                           role |-> Row(q, role).role, component |-> Row(q, role).component]
  OBVIOUS
<1>2. row \in UNION {{Row(q, role) : role \in 1..2} : q \in Records(x, "cylinder")}
  BY DEF References
<1> HIDE DEF Row
<1>3. PICK q \in Records(x, "cylinder") : row \in {Row(q, role) : role \in 1..2}
  BY <1>2, Zenon
<1>4. PICK role \in 1..2 : row = Row(q, role)
  BY <1>3, Zenon
<1>5. row.query = "assemblies" /\ row.cylinder = q.part /\ row.role = role
  BY <1>1, <1>4, Zenon
<1>6. row = [query |-> "assemblies", cylinder |-> row.cylinder, role |-> row.role,
             component |-> row.component]
  BY <1>1, <1>4, Zenon
<1> QED  BY <1>4, <1>5, <1>6, Zenon

LEMMA AssembliesFit ==
  ASSUME NEW x \in Extracts, NEW p, p = Payload(x),
         NEW row \in p.assemblies, NEW use \in Uses(row)
  PROVE  MadeBy(use, p.parts)
<1>1. p.assemblies = AssemblyRows(x) /\ p.parts = PartRows(x)
  BY DEF Payload
<1>2. /\ row \in References(x)
      /\ \E part \in p.parts : part.id = row.component
  BY <1>1 DEF AssemblyRows
<1>3. PICK r \in Records(x, "cylinder") : row.query = "assemblies" /\ row.cylinder = r.part
  BY <1>2, ReferencesAre
<1>4. \A part \in p.parts : part.query = "parts"
  BY <1>1 DEF PartRows
<1>5. \E part \in p.parts : <<"Part", row.component>> \in Kept(part)
  BY <1>2, <1>4 DEF Kept, Elements
<1>6. PICK part : part = [query |-> "parts", id |-> row.cylinder, subtype |-> "Cylinder"]
  OBVIOUS
<1>7. part \in p.parts
  <2>1. part \in {[query |-> "parts", id |-> q.part, subtype |-> Subtype("cylinder")]
                    : q \in Records(x, "cylinder")}
    BY <1>3, <1>6 DEF Subtype
  <2>2. "cylinder" \in SourceFiles
    BY DEF SourceFiles
  <2> QED  BY <1>1, <2>1, <2>2 DEF PartRows
<1>8. <<"Part", row.cylinder>> \in Kept(part) /\ <<"Cylinder", row.cylinder>> \in Kept(part)
  BY <1>6 DEF Kept, Elements
<1>9. use \in {<<"Part", row.cylinder>>, <<"Cylinder", row.cylinder>>, <<"Part", row.component>>}
  BY <1>3 DEF Uses, Needs
<1> QED  BY <1>5, <1>7, <1>8, <1>9 DEF MadeBy

RowsOf(payload) ==
  payload.parts \cup payload.processes \cup payload.equipment \cup payload.anomalies
    \cup payload.runs \cup payload.measurements \cup payload.assemblies

Subtypes == {"Cylinder", "CylinderBottom", "PistonRod"}

\* What rows of a valid payload look like, and that none is there twice.
Shaped(payload) ==
  /\ \A row \in payload.parts : row.query = "parts" /\ row.subtype \in Subtypes
  /\ \A row \in payload.processes : row = [query |-> "processes", id |-> row.id]
  /\ \A row \in payload.equipment : row = [query |-> "equipment", id |-> row.id]
  /\ \A row \in payload.anomalies : row = [query |-> "anomalies", id |-> row.id]
  /\ \A row \in payload.runs : row.query = "runs" /\ row.equipment = EquipmentOf(row.id[2])
  /\ \A row \in payload.measurements : row.query = "measurements"
  /\ \A row \in payload.assemblies : row.query = "assemblies"
  /\ \A a, b \in payload.assemblies : a.cylinder = b.cylinder /\ a.component = b.component => a = b
  /\ Unique(payload.parts) /\ Unique(payload.runs) /\ Unique(payload.measurements)

Finite(payload) ==
  /\ IsFiniteSet(payload.parts) /\ IsFiniteSet(payload.processes)
  /\ IsFiniteSet(payload.equipment) /\ IsFiniteSet(payload.anomalies)
  /\ IsFiniteSet(payload.runs) /\ IsFiniteSet(payload.measurements)
  /\ IsFiniteSet(payload.assemblies)

\* Its batches hold all its rows, in an order in which none lacks a node.
Loadable(payload) ==
  /\ payload \in {Payload(x) : x \in Extracts}
  /\ Carries(Batches(payload), RowsOf(payload))
  /\ Ready(Batches(payload), {})
  /\ Shaped(payload) /\ Finite(payload)

LEMMA PayloadShaped ==
  ASSUME NEW x \in Extracts, NEW p, p = Payload(x), Validates(p)
  PROVE  Shaped(p)
<1>1. /\ p.parts = PartRows(x) /\ p.runs = RunRows(x) /\ p.measurements = MeasurementRows(x)
      /\ p.equipment = {[query |-> "equipment", id |-> e] : e \in EquipmentRows}
      /\ p.anomalies = {[query |-> "anomalies", id |-> code] : code \in AnomalyCodes}
      /\ p.processes = {[query |-> "processes", id |-> r.process]
                          : r \in RunRows(x) \cup MeasurementRows(x)}
      /\ p.assemblies = AssemblyRows(x)
  BY DEF Payload
<1>2. \A row \in p.parts : row.query = "parts" /\ row.subtype \in Subtypes
  BY <1>1 DEF PartRows, Subtype, Subtypes
<1>3. \A row \in p.processes : row = [query |-> "processes", id |-> row.id]
  BY <1>1
<1>4. \A row \in p.equipment : row = [query |-> "equipment", id |-> row.id]
  BY <1>1
<1>5. \A row \in p.anomalies : row = [query |-> "anomalies", id |-> row.id]
  BY <1>1
<1>6. \A row \in p.runs : row.query = "runs" /\ row.equipment = EquipmentOf(row.id[2])
  <2>1. \A r, i : RunRow(r, i).query = "runs" /\ RunRow(r, i).equipment = EquipmentOf(RunRow(r, i).id[2])
    BY DEF RunRow
  <2> QED  BY <1>1, <2>1, RunRowsAre
<1>7. \A row \in p.measurements : row.query = "measurements"
  <2>1. \A r, i : MeasurementRow(r, i).query = "measurements"  BY DEF MeasurementRow
  <2> QED  BY <1>1, <2>1, MeasurementRowsAre
<1>8. \A row \in p.assemblies : row.query = "assemblies"
  BY <1>1, ReferencesAre DEF AssemblyRows
<1>9. ASSUME NEW a \in p.assemblies, NEW b \in p.assemblies,
             a.cylinder = b.cylinder, a.component = b.component
      PROVE  a = b
  <2>1. PICK part \in p.parts : part.id = a.component /\ part.subtype = ComponentTypes[a.role]
    BY <1>1 DEF AssemblyRows
  <2>2. PICK other \in p.parts : other.id = b.component /\ other.subtype = ComponentTypes[b.role]
    BY <1>1 DEF AssemblyRows
  <2>3. part = other
    BY <1>9, <2>1, <2>2 DEF Validates, Unique
  <2>4. a.role \in 1..2 /\ b.role \in 1..2
    BY <1>1, ReferencesAre DEF AssemblyRows
  <2>5. ComponentTypes[a.role] = ComponentTypes[b.role]
    BY <2>1, <2>2, <2>3
  <2>6. ComponentTypes[1] = "CylinderBottom" /\ ComponentTypes[2] = "PistonRod"
    BY DEF ComponentTypes
  <2>7. a.role = b.role
    BY <2>4, <2>5, <2>6
  <2>8. /\ a = [query |-> "assemblies", cylinder |-> a.cylinder, role |-> a.role,
                  component |-> a.component]
        /\ b = [query |-> "assemblies", cylinder |-> b.cylinder, role |-> b.role,
                  component |-> b.component]
    BY <1>1, ReferencesAre DEF AssemblyRows
  <2> QED  BY <1>9, <2>7, <2>8
<1>10. Unique(p.parts) /\ Unique(p.runs) /\ Unique(p.measurements)
  BY DEF Validates
<1> QED  BY <1>2, <1>3, <1>4, <1>5, <1>6, <1>7, <1>8, <1>9, <1>10 DEF Shaped

LEMMA PayloadLoadable ==
  ASSUME NEW x \in Extracts, Transforms(x), NEW p, p = Payload(x), Validates(p)
  PROVE  Loadable(p)
<1>1. /\ p.parts = PartRows(x) /\ p.runs = RunRows(x) /\ p.measurements = MeasurementRows(x)
      /\ p.equipment = {[query |-> "equipment", id |-> e] : e \in EquipmentRows}
      /\ p.anomalies = {[query |-> "anomalies", id |-> code] : code \in AnomalyCodes}
      /\ p.processes = {[query |-> "processes", id |-> r.process]
                          : r \in RunRows(x) \cup MeasurementRows(x)}
      /\ p.assemblies = AssemblyRows(x)
  BY DEF Payload
<1>2. IsFiniteSet(p.parts) /\ IsFiniteSet(p.runs) /\ IsFiniteSet(p.measurements)
  BY <1>1, FiniteParts, FiniteRuns, FiniteMeasurements
<1>3. IsFiniteSet(p.assemblies)
  BY <1>1, FiniteReferences, FS_Subset DEF AssemblyRows
<1>4. IsFiniteSet(p.processes)
  <2>s. PICK made : made = p.runs \cup p.measurements
    OBVIOUS
  <2>1. IsFiniteSet(made)
    BY <1>2, <2>s, FS_Union
  <2>f. PICK f : f = [r \in made |-> [query |-> "processes", id |-> r.process]]
    OBVIOUS
  <2>2. IsFiniteSet({f[r] : r \in made})
    BY <2>1, FiniteImage
  <2> QED  BY <1>1, <2>s, <2>f, <2>2
<1>5. IsFiniteSet(p.equipment)
  <2>1. IsFiniteSet(ProcessNames)
    <3>1. IsFiniteSet({"saw"})  BY FS_Singleton
    <3>2. IsFiniteSet({"saw", "cnc_milling_machine"})  BY <3>1, FS_AddElement
    <3>3. IsFiniteSet({"saw", "cnc_milling_machine", "cnc_lathe"})  BY <3>2, FS_AddElement
    <3>4. IsFiniteSet({"saw", "cnc_milling_machine", "cnc_lathe", "assembly"})
      BY <3>3, FS_AddElement
    <3> QED  BY <3>4 DEF ProcessNames
  <2>f. PICK f : f = [name \in ProcessNames |-> [query |-> "equipment", id |-> EquipmentOf(name)]]
    OBVIOUS
  <2>2. IsFiniteSet({f[name] : name \in ProcessNames})
    BY <2>1, FiniteImage
  <2>3. p.equipment \subseteq {f[name] : name \in ProcessNames}
    BY <1>1, <2>f DEF EquipmentRows
  <2> QED  BY <2>2, <2>3, FS_Subset
<1>6. IsFiniteSet(p.anomalies)
  <2>1. IsFiniteSet(AnomalyCodes)
    <3>1. IsFiniteSet({"0"})  BY FS_Singleton
    <3>2. IsFiniteSet({"0", "1"})  BY <3>1, FS_AddElement
    <3>3. IsFiniteSet({"0", "1", "2"})  BY <3>2, FS_AddElement
    <3>4. IsFiniteSet({"0", "1", "2", "3"})  BY <3>3, FS_AddElement
    <3> QED  BY <3>4 DEF AnomalyCodes
  <2>f. PICK f : f = [code \in AnomalyCodes |-> [query |-> "anomalies", id |-> code]]
    OBVIOUS
  <2>2. IsFiniteSet({f[code] : code \in AnomalyCodes})
    BY <2>1, FiniteImage
  <2> QED  BY <1>1, <2>f, <2>2
<1>7. \A rows : IsFiniteSet(rows) => Carries(Sliced(rows), rows)
  BY SlicesCarry
<1>8. \A row \in p.parts \cup p.processes \cup p.equipment \cup p.anomalies : Uses(row) = {}
  <2>1. \A row \in p.parts : row.query = "parts"  BY <1>1 DEF PartRows
  <2>2. \A row \in p.processes : row.query = "processes"  BY <1>1
  <2>3. \A row \in p.equipment : row.query = "equipment"  BY <1>1
  <2>4. \A row \in p.anomalies : row.query = "anomalies"  BY <1>1
  <2> QED  BY <2>1, <2>2, <2>3, <2>4 DEF Uses, Needs
<1>9. Shaped(p) /\ Finite(p)
  BY <1>2, <1>3, <1>4, <1>5, <1>6, PayloadShaped DEF Finite
<1> PICK b1 : b1 = Sliced(p.parts)
  OBVIOUS
<1> PICK b2 : b2 = b1 \o Sliced(p.processes)
  OBVIOUS
<1> PICK b3 : b3 = b2 \o Sliced(p.equipment)
  OBVIOUS
<1> PICK b4 : b4 = b3 \o Sliced(p.anomalies)
  OBVIOUS
<1> PICK b5 : b5 = b4 \o Sliced(p.runs)
  OBVIOUS
<1> PICK b6 : b6 = b5 \o Sliced(p.measurements)
  OBVIOUS
<1> PICK b7 : b7 = b6 \o Sliced(p.assemblies)
  OBVIOUS
<1> PICK r2 : r2 = p.parts \cup p.processes
  OBVIOUS
<1> PICK r3 : r3 = r2 \cup p.equipment
  OBVIOUS
<1> PICK r4 : r4 = r3 \cup p.anomalies
  OBVIOUS
<1> PICK r5 : r5 = r4 \cup p.runs
  OBVIOUS
<1> PICK r6 : r6 = r5 \cup p.measurements
  OBVIOUS
<1> PICK r7 : r7 = r6 \cup p.assemblies
  OBVIOUS
<1>11. Carries(b1, p.parts) /\ Ready(b1, {})
  BY <1>2, <1>7, <1>8, FirstReady
<1>12. Carries(b2, r2) /\ Ready(b2, {})
  BY <1>4, <1>7, <1>8, <1>11, JoinReady
<1>13. Carries(b3, r3) /\ Ready(b3, {})
  BY <1>5, <1>7, <1>8, <1>12, JoinReady
<1>14. Carries(b4, r4) /\ Ready(b4, {})
  BY <1>6, <1>7, <1>8, <1>13, JoinReady
<1>15. Carries(b5, r5) /\ Ready(b5, {})
  <2>1. \A row \in p.runs : \A use \in Uses(row) : MadeBy(use, r4)
    BY RunsFit
  <2> QED  BY <1>2, <1>7, <1>14, <2>1, JoinReady
<1>16. Carries(b6, r6) /\ Ready(b6, {})
  <2>1. \A row \in p.measurements : \A use \in Uses(row) : MadeBy(use, r5)
    BY MeasurementsFit DEF MadeBy
  <2> QED  BY <1>2, <1>7, <1>15, <2>1, JoinReady
<1>17. Carries(b7, r7) /\ Ready(b7, {})
  <2>1. \A row \in p.assemblies : \A use \in Uses(row) : MadeBy(use, r6)
    BY AssembliesFit DEF MadeBy
  <2> QED  BY <1>3, <1>7, <1>16, <2>1, JoinReady
<1>18. b7 = Batches(p) /\ r7 = RowsOf(p)
  BY DEF Batches, RowsOf
<1> QED  BY <1>9, <1>17, <1>18 DEF Loadable

\* A load that has begun, with what is left of its batches.
Covers(my, graph) ==
  \A row \in RowsOf(my.payload) :
    Kept(row) \subseteq graph \/ \E k \in 1..Len(my.batches) : row \in my.batches[k]

InProgress(my, graph) ==
  /\ Loadable(my.payload)
  /\ my.batches \in Seq(SUBSET RowsOf(my.payload))
  /\ Covers(my, graph)
  /\ Ready(my.batches, graph)

LoaderStates ==
  [at : {"idle", "first", "second"}, verify : BOOLEAN,
   batches : Seq(SUBSET UNION {RowsOf(Payload(x)) : x \in Extracts}),
   payload : {Unprepared} \cup {Payload(x) : x \in Extracts}]

EtlTypeInv == files \in Extracts /\ loader \in [Scripts -> LoaderStates]

LoadInv ==
  \A s \in Scripts : IF loader[s].at = "idle" THEN loader[s].batches = <<>>
                     ELSE InProgress(loader[s], inGraph)

LEMMA UsesAreKept ==
  ASSUME NEW row, NEW use \in Uses(row)
  PROVE  use[1] # "QualityFailure"
BY DEF Uses, Needs

\* A graph that lost nothing but failure labels serves a load as well.
LEMMA GraphGrows ==
  ASSUME NEW my, NEW graph, NEW later, InProgress(my, graph),
         \A e \in graph : e[1] # "QualityFailure" => e \in later
  PROVE  InProgress(my, later)
<1>1. Covers(my, later)
  BY DEF Covers, InProgress, Kept
<1>2. Ready(my.batches, later)
  BY UsesAreKept DEF Ready, InProgress
<1> QED  BY <1>1, <1>2 DEF InProgress

LEMMA BatchKeeps ==
  ASSUME NEW graph, NEW rows, NEW e \in graph, e[1] # "QualityFailure"
  PROVE  e \in AfterBatch(graph, rows)
BY DEF AfterBatch

\* A row that finds its nodes leaves all it merges.
LEMMA BatchMerges ==
  ASSUME NEW graph, NEW rows, NEW row \in rows, Uses(row) \subseteq graph,
         row.query = "parts" => row.subtype \in Subtypes
  PROVE  Kept(row) \subseteq AfterBatch(graph, rows)
<1> DEFINE merged == {e \in Elements(row) :
                        e[1] = "RUN_ON" => <<"Equipment", row.equipment>> \in graph}
<1>1. Needs(row) \subseteq graph
  BY DEF Uses
<1>2. merged \subseteq AfterBatch(graph, rows)
  BY <1>1 DEF AfterBatch
<1>3. ASSUME NEW e \in Kept(row) PROVE e \in merged
  <2>1. e \in Elements(row)
    BY DEF Kept
  <2>2. ASSUME e[1] = "RUN_ON" PROVE <<"Equipment", row.equipment>> \in graph
    <3>1. row.query = "runs" /\ row.equipment # NoEquipment
      BY <2>1, <2>2 DEF Elements, Subtypes
    <3> QED  BY <3>1 DEF Uses
  <2> QED  BY <2>1, <2>2
<1> QED  BY <1>2, <1>3

LEMMA BatchSent ==
  ASSUME NEW my, NEW graph, InProgress(my, graph), my.batches # <<>>,
         NEW left, left.payload = my.payload, left.batches = Tail(my.batches)
  PROVE  InProgress(left, AfterBatch(graph, Head(my.batches)))
<1>b. PICK b : b = my.batches
  OBVIOUS
<1>t. PICK t : t = Tail(b)
  OBVIOUS
<1>g. PICK later : later = AfterBatch(graph, Head(b))
  OBVIOUS
<1>1. b \in Seq(SUBSET RowsOf(my.payload)) /\ b # <<>>
  BY <1>b DEF InProgress
<1>2. /\ Len(b) \in Nat \ {0} /\ Head(b) = b[1] /\ Len(t) = Len(b) - 1
      /\ t \in Seq(SUBSET RowsOf(my.payload))
  BY <1>1, <1>t, HeadTailProperties, LenProperties, EmptySeq
<1>3. ASSUME NEW k \in 1..Len(b), k # 1 PROVE k - 1 \in 1..Len(t) /\ t[k - 1] = b[k]
  <2>1. k - 1 \in 1..(Len(b) - 1)  BY <1>2, <1>3
  <2>2. \A i \in 1..(Len(b) - 1) : t[i] = b[i + 1]  BY <1>1, <1>t, HeadTailProperties
  <2>3. (k - 1) + 1 = k  BY <1>2
  <2> QED  BY <1>2, <2>1, <2>2, <2>3
<1>4. \A e \in graph : e[1] # "QualityFailure" => e \in later
  BY <1>g, BatchKeeps
<1>5. ASSUME NEW row \in b[1] PROVE Kept(row) \subseteq later
  <2>1. 1 \in 1..Len(b) /\ ~\E j \in 1..Len(b) : j < 1
    BY <1>2
  <2>2. \A use \in Uses(row) : use \in graph
    BY <1>b, <2>1 DEF InProgress, Ready
  <2>3. row \in RowsOf(my.payload)
    BY <1>1, <2>1, ElementOfSeq
  <2>4. row.query = "parts" => row.subtype \in Subtypes
    BY <2>3 DEF InProgress, Loadable, RowsOf, Shaped
  <2> QED  BY <1>2, <1>g, <2>2, <2>4, BatchMerges
<1>6. ASSUME NEW row \in RowsOf(my.payload)
      PROVE  Kept(row) \subseteq later \/ \E k \in 1..Len(t) : row \in t[k]
  <2>1. CASE Kept(row) \subseteq graph
    BY <1>4, <2>1 DEF Kept
  <2>2. CASE \E k \in 1..Len(b) : row \in b[k]
    BY <1>3, <1>5, <2>2
  <2> QED  BY <1>b, <2>1, <2>2 DEF InProgress, Covers
<1>7. ASSUME NEW k \in 1..Len(t), NEW row \in t[k], NEW use \in Uses(row)
      PROVE  use \in later \/ \E j \in 1..Len(t) : j < k /\ \E r \in t[j] : use \in Kept(r)
  <2>1. k + 1 \in 1..Len(b) /\ k + 1 # 1 /\ (k + 1) - 1 = k
    BY <1>2
  <2>2. row \in b[k + 1]
    BY <1>3, <2>1
  <2>3. use \in graph \/ \E j \in 1..Len(b) : j < k + 1 /\ \E r \in b[j] : use \in Kept(r)
    BY <1>b, <2>1, <2>2 DEF InProgress, Ready
  <2>4. CASE use \in graph
    BY <1>4, <2>4, UsesAreKept
  <2>5. ASSUME NEW j \in 1..Len(b), j < k + 1, NEW r \in b[j], use \in Kept(r)
        PROVE  use \in later \/ \E i \in 1..Len(t) : i < k /\ \E q \in t[i] : use \in Kept(q)
    <3>1. CASE j = 1
      BY <1>5, <2>5, <3>1
    <3>2. CASE j # 1
      <4>1. j - 1 \in 1..Len(t) /\ j - 1 < k /\ r \in t[j - 1]
        BY <1>2, <1>3, <2>5, <3>2
      <4> QED  BY <2>5, <4>1
    <3> QED  BY <3>1, <3>2
  <2> QED  BY <2>3, <2>4, <2>5
<1>8. Ready(t, later)
  BY <1>7 DEF Ready
<1>9. left.batches = t
  BY <1>b, <1>t
<1>10. Covers(left, later)
  BY <1>6, <1>9 DEF Covers
<1>11. InProgress(left, later)
  BY <1>2, <1>8, <1>9, <1>10 DEF InProgress
<1> QED  BY <1>b, <1>g, <1>11

LEMMA LoadBegins ==
  ASSUME NEW my, NEW graph, Loadable(my.payload), my.batches = Batches(my.payload)
  PROVE  InProgress(my, graph)
BY DEF Loadable, Carries, Covers, Ready, InProgress

LEMMA EtlStarts == EtlInit => EtlTypeInv /\ LoadInv
<1> SUFFICES ASSUME EtlInit PROVE EtlTypeInv /\ LoadInv
  OBVIOUS
<1>1. IdleScript \in LoaderStates
  BY EmptySeq DEF IdleScript, LoaderStates
<1>2. \A s \in Scripts : loader[s] = IdleScript
  BY DEF EtlInit
<1>3. loader \in [Scripts -> LoaderStates]
  BY <1>1 DEF EtlInit
<1> QED  BY <1>2, <1>3 DEF EtlInit, EtlTypeInv, LoadInv, IdleScript

\* The batches of a payload, among those of all versions.
LEMMA BatchesTyped ==
  ASSUME NEW x \in Extracts, NEW b \in Seq(SUBSET RowsOf(Payload(x)))
  PROVE  b \in Seq(SUBSET UNION {RowsOf(Payload(y)) : y \in Extracts})
<1> DEFINE all == UNION {RowsOf(Payload(y)) : y \in Extracts}
<1>1. RowsOf(Payload(x)) \subseteq all
  OBVIOUS
<1> HIDE DEF all
<1>2. \A i \in 1..Len(b) : b[i] \in SUBSET all
  BY <1>1, ElementOfSeq
<1>3. Len(b) \in Nat /\ b \in [1..Len(b) -> SUBSET all]
  BY <1>2, LenProperties
<1>4. b \in Seq(SUBSET all)
  BY <1>3, SeqDef
<1> QED  BY <1>4 DEF all

LEMMA EtlSteps ==
  ASSUME EtlTypeInv, LoadInv, [EtlNext]_etlVars
  PROVE  EtlTypeInv' /\ LoadInv'
<1>f. /\ loader \in [Scripts -> LoaderStates] /\ files \in Extracts
      /\ \A s \in Scripts : loader[s] \in LoaderStates
  BY DEF EtlTypeInv
<1>l. \A s \in Scripts : IF loader[s].at = "idle" THEN loader[s].batches = <<>>
                         ELSE InProgress(loader[s], inGraph)
  BY DEF LoadInv
<1>i. IdleScript \in LoaderStates /\ IdleScript.at = "idle" /\ IdleScript.batches = <<>>
  BY EmptySeq DEF IdleScript, LoaderStates
\* A step of one script that leaves the graph alone.
<1>o. ASSUME NEW s \in Scripts, NEW my \in LoaderStates, files' = files, inGraph' = inGraph,
             loader' = [loader EXCEPT ![s] = my],
             IF my.at = "idle" THEN my.batches = <<>> ELSE InProgress(my, inGraph)
      PROVE  EtlTypeInv' /\ LoadInv'
  <2>1. loader' \in [Scripts -> LoaderStates]
    BY <1>f, <1>o
  <2>2. \A t \in Scripts : loader'[t] = IF t = s THEN my ELSE loader[t]
    BY <1>f, <1>o
  <2>3. LoadInv'
    BY <1>l, <1>o, <2>2 DEF LoadInv
  <2> QED  BY <1>f, <1>o, <2>1, <2>3 DEF EtlTypeInv
<1>1. ASSUME NEW x \in Extracts, ReplaceFiles(x)
      PROVE  EtlTypeInv' /\ LoadInv'
  BY <1>1, <1>f, <1>l DEF ReplaceFiles, EtlTypeInv, LoadInv
<1>2. ASSUME NEW s \in Scripts, NEW dry \in BOOLEAN, NEW verify \in BOOLEAN,
             StartEtl(s, dry, verify)
      PROVE  EtlTypeInv' /\ LoadInv'
  <2>1. files' = files /\ inGraph' = inGraph
    BY <1>2 DEF StartEtl
  <2>2. CASE loader' = loader
    BY <1>f, <1>l, <2>1, <2>2 DEF EtlTypeInv, LoadInv
  <2>3. CASE loader' # loader
    <3>p. PICK p : p = Payload(files)
      OBVIOUS
    <3>m. PICK my : my = [at |-> "first", verify |-> verify, batches |-> Batches(p), payload |-> p]
      OBVIOUS
    <3>1. /\ Transforms(files) /\ Validates(p)
          /\ loader' = [loader EXCEPT ![s] = my]
      BY <1>2, <2>3, <3>p, <3>m DEF StartEtl
    <3>2. Loadable(p)
      BY <1>f, <3>p, <3>1, PayloadLoadable
    <3>3. InProgress(my, inGraph)
      BY <3>m, <3>2, LoadBegins
    <3>4. my.batches \in Seq(SUBSET RowsOf(p))
      BY <3>m, <3>3 DEF InProgress
    <3>5. my.batches \in Seq(SUBSET UNION {RowsOf(Payload(y)) : y \in Extracts})
      BY <1>f, <3>p, <3>4, BatchesTyped
    <3>6. p \in {Payload(y) : y \in Extracts}
      BY <1>f, <3>p
    <3>7. my \in LoaderStates
      BY <3>m, <3>5, <3>6 DEF LoaderStates
    <3> QED  BY <1>o, <2>1, <3>m, <3>1, <3>3, <3>7
  <2> QED  BY <2>2, <2>3
<1>3. ASSUME NEW s \in Scripts, SendBatch(s)
      PROVE  EtlTypeInv' /\ LoadInv'
  <2>a. loader[s].batches # <<>> /\ loader[s].at # "idle" /\ InProgress(loader[s], inGraph)
    BY <1>3, <1>l DEF SendBatch
  <2>m. PICK my : my = loader[s]
    OBVIOUS
  <2>n. PICK left : left = [my EXCEPT !.batches = Tail(@)]
    OBVIOUS
  <2>1. my \in LoaderStates
    BY <1>f, <2>m
  <2>2. /\ left.at = my.at /\ left.payload = my.payload /\ left.verify = my.verify
        /\ left.batches = Tail(my.batches)
    BY <2>1, <2>n DEF LoaderStates
  <2>3. loader' = [loader EXCEPT ![s] = left] /\ files' = files
    BY <1>3, <1>f, <2>m, <2>n DEF SendBatch
  <2>g. inGraph' = AfterBatch(inGraph, Head(my.batches))
    BY <1>3, <2>m DEF SendBatch
  <2>4. my.batches \in Seq(SUBSET UNION {RowsOf(Payload(x)) : x \in Extracts})
    BY <2>1 DEF LoaderStates
  <2>5. Tail(my.batches) \in Seq(SUBSET UNION {RowsOf(Payload(x)) : x \in Extracts})
    BY <2>a, <2>m, <2>4, HeadTailProperties
  <2>6. left \in LoaderStates
    BY <2>1, <2>5, <2>n DEF LoaderStates
  <2>7. InProgress(left, inGraph')
    BY <2>a, <2>m, <2>2, <2>g, BatchSent
  <2>8. \A e \in inGraph : e[1] # "QualityFailure" => e \in inGraph'
    BY <2>g, BatchKeeps
  <2>9. \A t \in Scripts : InProgress(loader[t], inGraph) => InProgress(loader[t], inGraph')
    BY <2>8, GraphGrows
  <2>10. \A t \in Scripts : loader'[t] = IF t = s THEN left ELSE loader[t]
    BY <1>f, <2>3
  <2>11. LoadInv'
    <3> SUFFICES ASSUME NEW t \in Scripts
                 PROVE  IF loader'[t].at = "idle" THEN loader'[t].batches = <<>>
                        ELSE InProgress(loader'[t], inGraph')
      BY DEF LoadInv
    <3>1. CASE t = s
      BY <2>a, <2>m, <2>2, <2>7, <2>10, <3>1
    <3>2. CASE t # s
      BY <1>l, <2>9, <2>10, <3>2
    <3> QED  BY <3>1, <3>2
  <2>12. loader' \in [Scripts -> LoaderStates]
    BY <1>f, <2>3, <2>6
  <2> QED  BY <1>f, <2>3, <2>11, <2>12 DEF EtlTypeInv
<1>4. ASSUME NEW s \in Scripts, CompareCounts(s)
      PROVE  EtlTypeInv' /\ LoadInv'
  <2>1. files' = files /\ inGraph' = inGraph /\ loader[s].at # "idle"
    BY <1>4 DEF CompareCounts, AllSent
  <2>m. PICK my : my = loader[s]
    OBVIOUS
  <2>n. PICK again : again = [my EXCEPT !.at = "second", !.batches = Batches(my.payload)]
    OBVIOUS
  <2>2. my \in LoaderStates /\ InProgress(my, inGraph)
    BY <1>f, <1>l, <2>1, <2>m
  <2>3. CASE loader' = [loader EXCEPT ![s] = IdleScript]
    BY <1>i, <1>o, <2>1, <2>3
  <2>4. CASE loader' = [loader EXCEPT ![s] = again]
    <3>1. /\ again.at = "second" /\ again.payload = my.payload /\ again.verify = my.verify
          /\ again.batches = Batches(my.payload)
      BY <2>2, <2>n DEF LoaderStates
    <3>2. Loadable(my.payload)
      BY <2>2 DEF InProgress
    <3>3. InProgress(again, inGraph)
      BY <3>1, <3>2, LoadBegins
    <3>4. again.batches \in Seq(SUBSET RowsOf(my.payload))
      BY <3>1, <3>3 DEF InProgress
    <3>5. again.batches \in Seq(SUBSET UNION {RowsOf(Payload(y)) : y \in Extracts})
      <4>1. PICK x \in Extracts : my.payload = Payload(x)
        BY <3>2 DEF Loadable
      <4> QED  BY <3>4, <4>1, BatchesTyped
    <3>6. again \in LoaderStates
      BY <2>2, <2>n, <3>1, <3>5 DEF LoaderStates
    <3> QED  BY <1>o, <2>1, <2>4, <3>1, <3>3, <3>6
  <2>5. \/ loader' = [loader EXCEPT ![s] = IdleScript]
        \/ loader' = [loader EXCEPT ![s].at = "second", ![s].batches = Batches(my.payload)]
    BY <1>4, <2>m DEF CompareCounts
  <2>6. [loader EXCEPT ![s].at = "second", ![s].batches = Batches(my.payload)]
          = [loader EXCEPT ![s] = again]
    BY <1>f, <2>m, <2>n
  <2> QED  BY <2>3, <2>4, <2>5, <2>6
<1>5. ASSUME NEW s \in Scripts, StopLoad(s)
      PROVE  EtlTypeInv' /\ LoadInv'
  BY <1>i, <1>o, <1>5 DEF StopLoad
<1>6. CASE UNCHANGED etlVars
  BY <1>f, <1>l, <1>6 DEF etlVars, EtlTypeInv, LoadInv
<1> QED  BY <1>1, <1>2, <1>3, <1>4, <1>5, <1>6 DEF EtlNext

\* The graph holds what a load has sent, for any rows of its payload.
LEMMA AllKept ==
  ASSUME LoadInv, NEW s \in Scripts, AllSent(s)
  PROVE  /\ InProgress(loader[s], inGraph)
         /\ \A row \in RowsOf(loader[s].payload) : Kept(row) \subseteq inGraph
<1>1. InProgress(loader[s], inGraph) /\ loader[s].batches = <<>>
  BY DEF AllSent, LoadInv
<1>2. ASSUME NEW row PROVE ~\E k \in 1..Len(loader[s].batches) : row \in loader[s].batches[k]
  <2>1. Len(loader[s].batches) = 0
    BY <1>1, EmptySeq
  <2> QED  BY <2>1
<1> QED  BY <1>1, <1>2 DEF InProgress, Covers

LEMMA NothingMissing ==
  ASSUME LoadInv
  PROVE  NothingSkipped
<1> SUFFICES ASSUME NEW s \in Scripts, AllSent(s),
                    NEW e \in OfKinds(Content(loader[s].payload),
                                      (NodeKinds \cup LinkKinds) \ {"QualityFailure"})
             PROVE  e \in inGraph
  BY DEF NothingSkipped
<1>1. PICK row \in RowsOf(loader[s].payload) : e \in Elements(row)
  BY DEF OfKinds, Content, RowsOf
<1>2. e \in Kept(row)
  BY <1>1 DEF OfKinds, Kept
<1> QED  BY <1>1, <1>2, AllKept

\* The statements MATCH the nodes they link and say nothing when one is not
\* there (load.py:154), so the order of the queries is all that keeps a row:
\* for any files, batch size and scripts loading beside each other, a load that
\* has sent its batches finds every node and relationship of its rows.
THEOREM NothingIsSkipped == EtlSpec => []NothingSkipped
<1>1. EtlTypeInv /\ LoadInv /\ [EtlNext]_etlVars => (EtlTypeInv /\ LoadInv)'
  BY EtlSteps
<1> QED  BY <1>1, EtlStarts, NothingMissing, PTL DEF EtlSpec

(***************************************************************************)
(* Counts that agree.                                                      *)
(***************************************************************************)

\* A kind of which the graph has as many elements as there are rows, and one
\* for each row, has no others.
LEMMA KindFull ==
  ASSUME NEW graph, IsFiniteSet(graph), NEW kind, NEW rows,
         Cardinality(OfKinds(graph, {kind})) = Cardinality(rows),
         NEW f, \A row \in rows : <<kind, f[row]>> \in graph,
         \A a, b \in rows : f[a] = f[b] => a = b
  PROVE  \A e \in graph : e[1] = kind => \E row \in rows : e = <<kind, f[row]>>
<1>o. PICK T : T = OfKinds(graph, {kind})
  OBVIOUS
<1>1. T \subseteq graph /\ \A e \in graph : e \in T <=> e[1] = kind
  BY <1>o DEF OfKinds
<1>2. IsFiniteSet(T)
  BY <1>1, FS_Subset
<1>g. PICK g : g = [row \in rows |-> <<kind, f[row]>>]
  OBVIOUS
<1>3. \A row \in rows : g[row] \in T /\ g[row] = <<kind, f[row]>>
  <2>1. ASSUME NEW row \in rows PROVE <<kind, f[row]>>[1] = kind /\ g[row] = <<kind, f[row]>>
    BY <1>g
  <2> QED  BY <1>1, <2>1
<1>4. \A a, b \in rows : g[a] = g[b] => a = b
  BY <1>3
<1>5. g \in Injection(rows, T)
  <2>1. g \in [rows -> T]  BY <1>3, <1>g
  <2> QED  BY <1>4, <2>1 DEF Injection, IsInjective
<1>6. g \in Surjection(rows, T)
  BY <1>2, <1>5, <1>o, FS_Injection
<1>7. \A e \in T : \E row \in rows : g[row] = e
  BY <1>6 DEF Surjection
<1> QED  BY <1>1, <1>3, <1>7

\* A relationship to an equipment belongs to a run, which knows it; and a
\* label of a failure to a measurement.
LinkedGraph(graph) ==
  /\ \A e \in graph : e[1] = "RUN_ON" =>
       \E id : /\ <<"ProcessRun", id>> \in graph /\ e = <<"RUN_ON", <<id, EquipmentOf(id[2])>>>>
               /\ EquipmentOf(id[2]) # NoEquipment
  /\ \A e \in graph : e[1] = "QualityFailure" =>
       \E id : <<"QualityMeasurement", id>> \in graph /\ e = <<"QualityFailure", id>>

\* What a row of a payload can be, by the query it is for.
LEMMA RowShape ==
  ASSUME NEW p, Shaped(p), NEW row \in RowsOf(p)
  PROVE  /\ row.query = "parts" => row.subtype \in Subtypes
         /\ row.query = "runs" => row \in p.runs /\ row.equipment = EquipmentOf(row.id[2])
         /\ row.query = "measurements" => row \in p.measurements
BY DEF Shaped, RowsOf

LEMMA RunOnShape ==
  ASSUME NEW row, row.query = "parts" => row.subtype \in Subtypes,
         NEW e \in Elements(row), e[1] = "RUN_ON"
  PROVE  /\ row.query = "runs" /\ row.equipment # NoEquipment
         /\ e = <<"RUN_ON", <<row.id, row.equipment>>>>
BY DEF Elements, Subtypes

LEMMA FailureShape ==
  ASSUME NEW row, row.query = "parts" => row.subtype \in Subtypes,
         NEW e \in Elements(row), e[1] = "QualityFailure"
  PROVE  row.query = "measurements" /\ ~row.pass /\ e = <<"QualityFailure", row.id>>
BY DEF Elements, Subtypes

LEMMA LinksKept ==
  ASSUME NEW graph, LinkedGraph(graph), NEW p, Shaped(p), NEW rows \in SUBSET RowsOf(p)
  PROVE  LinkedGraph(AfterBatch(graph, rows))
<1>g. PICK later : later = AfterBatch(graph, rows)
  OBVIOUS
<1>1. \A e \in graph : e[1] # "QualityFailure" => e \in later
  BY <1>g, BatchKeeps
<1>2. ASSUME NEW e \in later, e \notin graph
      PROVE  \E row \in rows : e \in Elements(row) /\ Needs(row) \subseteq graph
  BY <1>g, <1>2 DEF AfterBatch
<1>3. ASSUME NEW row \in rows, Needs(row) \subseteq graph, NEW e \in Elements(row), e[1] # "RUN_ON"
      PROVE  e \in later
  BY <1>g, <1>3 DEF AfterBatch
<1>4. ASSUME NEW id 
      PROVE  /\ <<"ProcessRun", id>>[1] = "ProcessRun"
             /\ <<"QualityMeasurement", id>>[1] = "QualityMeasurement"
  OBVIOUS
<1>5. ASSUME NEW e \in later, e[1] = "RUN_ON"
      PROVE  \E id : /\ <<"ProcessRun", id>> \in later /\ e = <<"RUN_ON", <<id, EquipmentOf(id[2])>>>>
                     /\ EquipmentOf(id[2]) # NoEquipment
  <2>1. CASE e \in graph
    <3>1. PICK id : /\ <<"ProcessRun", id>> \in graph /\ e = <<"RUN_ON", <<id, EquipmentOf(id[2])>>>>
                    /\ EquipmentOf(id[2]) # NoEquipment
      BY <1>5, <2>1 DEF LinkedGraph
    <3>2. <<"ProcessRun", id>> \in later
      BY <1>1, <1>4, <3>1
    <3> QED  BY <3>1, <3>2
  <2>2. CASE e \notin graph
    <3>1. PICK row \in rows : e \in Elements(row) /\ Needs(row) \subseteq graph
      BY <1>2, <2>2
    <3>2. /\ row.query = "runs" /\ row.equipment # NoEquipment
          /\ e = <<"RUN_ON", <<row.id, row.equipment>>>>
      BY <1>5, <3>1, RowShape, RunOnShape
    <3>3. row.equipment = EquipmentOf(row.id[2])
      BY <3>2, RowShape
    <3>4. <<"ProcessRun", row.id>> \in Elements(row)
      BY <3>2 DEF Elements
    <3>5. <<"ProcessRun", row.id>> \in later
      BY <1>3, <1>4, <3>1, <3>4
    <3> QED  BY <3>2, <3>3, <3>5
  <2> QED  BY <2>1, <2>2
<1>6. ASSUME NEW e \in later, e[1] = "QualityFailure"
      PROVE  \E id : <<"QualityMeasurement", id>> \in later /\ e = <<"QualityFailure", id>>
  <2>1. CASE e \in graph
    <3>1. PICK id : <<"QualityMeasurement", id>> \in graph /\ e = <<"QualityFailure", id>>
      BY <1>6, <2>1 DEF LinkedGraph
    <3>2. <<"QualityMeasurement", id>> \in later
      BY <1>1, <1>4, <3>1
    <3> QED  BY <3>1, <3>2
  <2>2. CASE e \notin graph
    <3>1. PICK row \in rows : e \in Elements(row) /\ Needs(row) \subseteq graph
      BY <1>2, <2>2
    <3>2. row.query = "measurements" /\ e = <<"QualityFailure", row.id>>
      BY <1>6, <3>1, RowShape, FailureShape
    <3>4. <<"QualityMeasurement", row.id>> \in Elements(row)
      BY <3>2 DEF Elements
    <3>5. <<"QualityMeasurement", row.id>> \in later
      BY <1>3, <1>4, <3>1, <3>4
    <3> QED  BY <3>2, <3>5
  <2> QED  BY <2>1, <2>2
<1>7. LinkedGraph(later)
  BY <1>5, <1>6 DEF LinkedGraph
<1> QED  BY <1>g, <1>7

Failure(row) == <<"QualityFailure", row.id>>

\* A measurement that is loaded is labelled as it passed or failed; one that is
\* not keeps its label.
LEMMA BatchLabels ==
  ASSUME NEW graph, NEW p, Shaped(p), NEW rows \in SUBSET RowsOf(p), NEW m \in p.measurements
  PROVE  /\ m \in rows /\ Needs(m) \subseteq graph =>
              (Failure(m) \in AfterBatch(graph, rows) <=> ~m.pass)
         /\ m \notin rows => (Failure(m) \in AfterBatch(graph, rows) <=> Failure(m) \in graph)
<1>g. PICK later : later = AfterBatch(graph, rows)
  OBVIOUS
<1>f. PICK e : e = Failure(m)
  OBVIOUS
<1>1. e[1] = "QualityFailure" /\ e[2] = m.id /\ m.query = "measurements"
  BY <1>f DEF Failure, Shaped
<1>2. ASSUME NEW row \in rows, e \in Elements(row) PROVE row = m /\ ~m.pass
  <2>1. row.query = "measurements" /\ ~row.pass /\ e = <<"QualityFailure", row.id>>
    BY <1>1, <1>2, RowShape, FailureShape
  <2>2. row.id = m.id /\ row \in p.measurements
    BY <1>1, <2>1, RowShape
  <2>3. row = m
    BY <2>2 DEF Shaped, Unique
  <2> QED  BY <2>1, <2>3
<1>3. ASSUME NEW row \in rows, row.query = "measurements", <<"QualityFailure", row.id>> = e PROVE row = m
  BY <1>1, <1>3, RowShape DEF Shaped, Unique
<1>4. ASSUME m \in rows, Needs(m) \subseteq graph PROVE e \in later <=> ~m.pass
  <2>1. CASE m.pass
    <3>1. \A row \in rows : e \notin Elements(row)
      BY <1>2, <2>1
    <3>2. e \in {<<"QualityFailure", row.id>> : row \in {row \in {r \in rows : Needs(r) \subseteq graph} : row.query = "measurements" /\ row.pass}}
      BY <1>1, <1>4, <1>f, <2>1 DEF Failure
    <3> QED  BY <1>g, <2>1, <3>1, <3>2 DEF AfterBatch
  <2>2. CASE ~m.pass
    <3>1. e \in Elements(m)
      BY <1>1, <1>f, <2>2 DEF Elements, Failure
    <3>2. e \in {x \in Elements(m) : x[1] = "RUN_ON" => <<"Equipment", m.equipment>> \in graph}
      BY <1>1, <3>1
    <3>3. m \in {row \in rows : Needs(row) \subseteq graph}
      BY <1>4
    <3>4. e \in later
      BY <1>g, <3>2, <3>3 DEF AfterBatch
    <3> QED  BY <2>2, <3>4
  <2> QED  BY <2>1, <2>2
<1>5. ASSUME m \notin rows PROVE e \in later <=> e \in graph
  <2>1. \A row \in rows : e \notin Elements(row)
    BY <1>2, <1>5
  <2>2. \A row \in rows : row.query = "measurements" => <<"QualityFailure", row.id>> # e
    BY <1>3, <1>5
  <2> QED  BY <1>g, <2>1, <2>2 DEF AfterBatch
<1> QED  BY <1>f, <1>g, <1>4, <1>5

LEMMA FiniteElements ==
  ASSUME NEW row
  PROVE  IsFiniteSet(Elements(row))
<1>1. \A a : IsFiniteSet({a})
  BY FS_Singleton
<1>2. \A a, b : IsFiniteSet({a, b})
  <2> TAKE a, b
  <2>1. IsFiniteSet({a} \cup {b})
    BY <1>1, FS_Union
  <2>2. {a} \cup {b} = {a, b}
    OBVIOUS
  <2> QED  BY <2>1, <2>2
<1>3. IsFiniteSet({})
  BY FS_EmptySet
<1>4. \A a, b, c : IsFiniteSet({a, b, c})
  <2> TAKE a, b, c
  <2>1. IsFiniteSet({a, b} \cup {c})
    BY <1>1, <1>2, FS_Union
  <2>2. {a, b} \cup {c} = {a, b, c}
    OBVIOUS
  <2> QED  BY <2>1, <2>2
<1>5. \A a, b, c, d : IsFiniteSet({a, b, c, d})
  <2> TAKE a, b, c, d
  <2>1. IsFiniteSet({a, b, c} \cup {d})
    BY <1>1, <1>4, FS_Union
  <2>2. {a, b, c} \cup {d} = {a, b, c, d}
    OBVIOUS
  <2> QED  BY <2>1, <2>2
<1>6. IsFiniteSet({<<"RUN_ON", <<row.id, e>>>> : e \in {row.equipment} \ {NoEquipment}})
  <2>1. {<<"RUN_ON", <<row.id, e>>>> : e \in {row.equipment} \ {NoEquipment}}
          \subseteq {<<"RUN_ON", <<row.id, row.equipment>>>>}
    OBVIOUS
  <2> QED  BY <1>1, <2>1, FS_Subset
<1>7. IsFiniteSet({<<"QualityFailure", id>> : id \in IF row.pass THEN {} ELSE {row.id}})
  <2>t. PICK T : T = {<<"QualityFailure", id>> : id \in IF row.pass THEN {} ELSE {row.id}}
    OBVIOUS
  <2>1. T \subseteq {<<"QualityFailure", row.id>>}
    BY <2>t
  <2>2. IsFiniteSet({<<"QualityFailure", row.id>>})
    BY <1>1
  <2>3. T \in SUBSET {<<"QualityFailure", row.id>>}
    BY <2>1
  <2>4. IsFiniteSet(T)
    BY <2>2, <2>3, FS_Subset, Zenon
  <2> QED  BY <2>t, <2>4, Zenon
<1>8. \A S, T : IsFiniteSet(S) /\ IsFiniteSet(T) => IsFiniteSet(S \cup T)
  BY FS_Union
<1> QED  BY <1>1, <1>2, <1>4, <1>5, <1>6, <1>7, <1>8 DEF Elements

LEMMA FiniteAfter ==
  ASSUME NEW graph, IsFiniteSet(graph), NEW rows, IsFiniteSet(rows)
  PROVE  IsFiniteSet(AfterBatch(graph, rows))
<1>f. PICK f : f = [row \in rows |-> Elements(row)]
  OBVIOUS
<1>1. IsFiniteSet(UNION {f[row] : row \in rows})
  BY <1>f, FiniteElements, FiniteUnion
<1>2. IsFiniteSet(graph \cup UNION {f[row] : row \in rows})
  BY <1>1, FS_Union
<1>3. AfterBatch(graph, rows) \subseteq graph \cup UNION {f[row] : row \in rows}
  BY <1>f DEF AfterBatch
<1> QED  BY <1>2, <1>3, FS_Subset

\* A load whose rows are all in a graph with its counts: there is nothing else.
LEMMA CountsMean ==
  ASSUME NEW p, Loadable(p), NEW graph, IsFiniteSet(graph), LinkedGraph(graph),
         \A row \in RowsOf(p) : Kept(row) \subseteq graph,
         \A m \in p.measurements : Failure(m) \in graph <=> ~m.pass,
         GraphCounts(graph) = Counts(p)
  PROVE  OfKinds(graph, NodeKinds \cup LinkKinds) = OfKinds(Content(p), NodeKinds \cup LinkKinds)
<1>s. Shaped(p) /\ p \in {Payload(x) : x \in Extracts}
  BY DEF Loadable
<1> DEFINE all == NodeKinds \cup LinkKinds
\* The elements a kind has one of for each row of a query.
<1>a. ASSUME NEW kind \in all, kind # "QualityFailure", NEW rows, rows \subseteq RowsOf(p),
             Counts(p)[kind] = Cardinality(rows), NEW f,
             \A row \in rows : <<kind, f[row]>> \in Elements(row),
             \A a, b \in rows : f[a] = f[b] => a = b
      PROVE  \A e \in graph : e[1] = kind => \E row \in rows : e = <<kind, f[row]>>
  <2>1. Cardinality(OfKinds(graph, {kind})) = Cardinality(rows)
    <3>1. GraphCounts(graph)[kind] = Cardinality(OfKinds(graph, {kind}))
      BY DEF GraphCounts
    <3> QED  BY <1>a, <3>1
  <2>2. ASSUME NEW row \in rows PROVE <<kind, f[row]>> \in graph
    <3>1. <<kind, f[row]>>[1] = kind
      OBVIOUS
    <3>2. <<kind, f[row]>> \in Kept(row)
      BY <1>a, <3>1 DEF Kept
    <3> QED  BY <1>a, <3>2
  <2> QED  BY <1>a, <2>1, <2>2, KindFull
<1>u. /\ \A a, b \in p.parts : a.id = b.id => a = b
      /\ \A a, b \in p.processes : a.id = b.id => a = b
      /\ \A a, b \in p.equipment : a.id = b.id => a = b
      /\ \A a, b \in p.anomalies : a.id = b.id => a = b
      /\ \A a, b \in p.runs : a.id = b.id => a = b
      /\ \A a, b \in p.measurements : a.id = b.id => a = b
  <2>1. \A a, b \in p.processes : a.id = b.id => a = b  BY <1>s DEF Shaped
  <2>2. \A a, b \in p.equipment : a.id = b.id => a = b  BY <1>s DEF Shaped
  <2>3. \A a, b \in p.anomalies : a.id = b.id => a = b  BY <1>s DEF Shaped
  <2> QED  BY <1>s, <2>1, <2>2, <2>3 DEF Shaped, Unique
<1>w. \A a, b \in p.assemblies : a.cylinder = b.cylinder /\ a.component = b.component => a = b
  BY <1>s DEF Shaped
<1>1. \A e \in graph : e[1] = "Part" => \E row \in p.parts : e = <<"Part", row.id>>
  <2>r. PICK rows : rows = p.parts
    OBVIOUS
  <2>f. PICK f : f = [row \in rows |-> row.id]
    OBVIOUS
  <2>1. "Part" \in all /\ Counts(p)["Part"] = Cardinality(rows) /\ rows \subseteq RowsOf(p)
    BY <2>r DEF NodeKinds, LinkKinds, Counts, RowsOf
  <2>2. \A row \in rows : f[row] = row.id /\ <<"Part", f[row]>> \in Elements(row)
    <3>1. \A row \in rows : f[row] = row.id
      BY <2>f
    <3>2. \A row \in rows : row.query = "parts"
      BY <1>s, <2>r DEF Shaped
    <3> QED  BY <3>1, <3>2 DEF Elements
  <2>3. \A a, b \in rows : f[a] = f[b] => a = b
    <3> SUFFICES ASSUME NEW a \in rows, NEW b \in rows, f[a] = f[b] PROVE a = b
      OBVIOUS
    <3>1. a.id = b.id
      BY <2>2
    <3>2. a.id = b.id
      BY <3>1
    <3> QED  BY <1>u, <2>r, <3>2
  <2>4. \A e \in graph : e[1] = "Part" => \E row \in rows : e = <<"Part", f[row]>>
    BY <1>a, <2>1, <2>2, <2>3
  <2> QED  BY <2>2, <2>4, <2>r
<1>2. \A e \in graph : e[1] = "Process" => \E row \in p.processes : e = <<"Process", row.id>>
  <2>r. PICK rows : rows = p.processes
    OBVIOUS
  <2>f. PICK f : f = [row \in rows |-> row.id]
    OBVIOUS
  <2>1. "Process" \in all /\ Counts(p)["Process"] = Cardinality(rows) /\ rows \subseteq RowsOf(p)
    BY <2>r DEF NodeKinds, LinkKinds, Counts, RowsOf
  <2>2. \A row \in rows : f[row] = row.id /\ <<"Process", f[row]>> \in Elements(row)
    <3>1. \A row \in rows : f[row] = row.id
      BY <2>f
    <3>2. \A row \in rows : row.query = "processes"
      BY <1>s, <2>r DEF Shaped
    <3> QED  BY <3>1, <3>2 DEF Elements
  <2>3. \A a, b \in rows : f[a] = f[b] => a = b
    <3> SUFFICES ASSUME NEW a \in rows, NEW b \in rows, f[a] = f[b] PROVE a = b
      OBVIOUS
    <3>1. a.id = b.id
      BY <2>2
    <3>2. a.id = b.id
      BY <3>1
    <3> QED  BY <1>u, <2>r, <3>2
  <2>4. \A e \in graph : e[1] = "Process" => \E row \in rows : e = <<"Process", f[row]>>
    BY <1>a, <2>1, <2>2, <2>3
  <2> QED  BY <2>2, <2>4, <2>r
<1>3. \A e \in graph : e[1] = "Equipment" => \E row \in p.equipment : e = <<"Equipment", row.id>>
  <2>r. PICK rows : rows = p.equipment
    OBVIOUS
  <2>f. PICK f : f = [row \in rows |-> row.id]
    OBVIOUS
  <2>1. "Equipment" \in all /\ Counts(p)["Equipment"] = Cardinality(rows) /\ rows \subseteq RowsOf(p)
    BY <2>r DEF NodeKinds, LinkKinds, Counts, RowsOf
  <2>2. \A row \in rows : f[row] = row.id /\ <<"Equipment", f[row]>> \in Elements(row)
    <3>1. \A row \in rows : f[row] = row.id
      BY <2>f
    <3>2. \A row \in rows : row.query = "equipment"
      BY <1>s, <2>r DEF Shaped
    <3> QED  BY <3>1, <3>2 DEF Elements
  <2>3. \A a, b \in rows : f[a] = f[b] => a = b
    <3> SUFFICES ASSUME NEW a \in rows, NEW b \in rows, f[a] = f[b] PROVE a = b
      OBVIOUS
    <3>1. a.id = b.id
      BY <2>2
    <3>2. a.id = b.id
      BY <3>1
    <3> QED  BY <1>u, <2>r, <3>2
  <2>4. \A e \in graph : e[1] = "Equipment" => \E row \in rows : e = <<"Equipment", f[row]>>
    BY <1>a, <2>1, <2>2, <2>3
  <2> QED  BY <2>2, <2>4, <2>r
<1>4. \A e \in graph : e[1] = "AnomalyClass" => \E row \in p.anomalies : e = <<"AnomalyClass", row.id>>
  <2>r. PICK rows : rows = p.anomalies
    OBVIOUS
  <2>f. PICK f : f = [row \in rows |-> row.id]
    OBVIOUS
  <2>1. "AnomalyClass" \in all /\ Counts(p)["AnomalyClass"] = Cardinality(rows) /\ rows \subseteq RowsOf(p)
    BY <2>r DEF NodeKinds, LinkKinds, Counts, RowsOf
  <2>2. \A row \in rows : f[row] = row.id /\ <<"AnomalyClass", f[row]>> \in Elements(row)
    <3>1. \A row \in rows : f[row] = row.id
      BY <2>f
    <3>2. \A row \in rows : row.query = "anomalies"
      BY <1>s, <2>r DEF Shaped
    <3> QED  BY <3>1, <3>2 DEF Elements
  <2>3. \A a, b \in rows : f[a] = f[b] => a = b
    <3> SUFFICES ASSUME NEW a \in rows, NEW b \in rows, f[a] = f[b] PROVE a = b
      OBVIOUS
    <3>1. a.id = b.id
      BY <2>2
    <3>2. a.id = b.id
      BY <3>1
    <3> QED  BY <1>u, <2>r, <3>2
  <2>4. \A e \in graph : e[1] = "AnomalyClass" => \E row \in rows : e = <<"AnomalyClass", f[row]>>
    BY <1>a, <2>1, <2>2, <2>3
  <2> QED  BY <2>2, <2>4, <2>r
<1>5. \A e \in graph : e[1] = "ProcessRun" => \E row \in p.runs : e = <<"ProcessRun", row.id>>
  <2>r. PICK rows : rows = p.runs
    OBVIOUS
  <2>f. PICK f : f = [row \in rows |-> row.id]
    OBVIOUS
  <2>1. "ProcessRun" \in all /\ Counts(p)["ProcessRun"] = Cardinality(rows) /\ rows \subseteq RowsOf(p)
    BY <2>r DEF NodeKinds, LinkKinds, Counts, RowsOf
  <2>2. \A row \in rows : f[row] = row.id /\ <<"ProcessRun", f[row]>> \in Elements(row)
    <3>1. \A row \in rows : f[row] = row.id
      BY <2>f
    <3>2. \A row \in rows : row.query = "runs"
      BY <1>s, <2>r DEF Shaped
    <3> QED  BY <3>1, <3>2 DEF Elements
  <2>3. \A a, b \in rows : f[a] = f[b] => a = b
    <3> SUFFICES ASSUME NEW a \in rows, NEW b \in rows, f[a] = f[b] PROVE a = b
      OBVIOUS
    <3>1. a.id = b.id
      BY <2>2
    <3>2. a.id = b.id
      BY <3>1
    <3> QED  BY <1>u, <2>r, <3>2
  <2>4. \A e \in graph : e[1] = "ProcessRun" => \E row \in rows : e = <<"ProcessRun", f[row]>>
    BY <1>a, <2>1, <2>2, <2>3
  <2> QED  BY <2>2, <2>4, <2>r
<1>6. \A e \in graph : e[1] = "UNDERWENT" => \E row \in p.runs : e = <<"UNDERWENT", <<row.part, row.id>>>>
  <2>r. PICK rows : rows = p.runs
    OBVIOUS
  <2>f. PICK f : f = [row \in rows |-> <<row.part, row.id>>]
    OBVIOUS
  <2>1. "UNDERWENT" \in all /\ Counts(p)["UNDERWENT"] = Cardinality(rows) /\ rows \subseteq RowsOf(p)
    BY <2>r DEF NodeKinds, LinkKinds, Counts, RowsOf
  <2>2. \A row \in rows : f[row] = <<row.part, row.id>> /\ <<"UNDERWENT", f[row]>> \in Elements(row)
    <3>1. \A row \in rows : f[row] = <<row.part, row.id>>
      BY <2>f
    <3>2. \A row \in rows : row.query = "runs"
      BY <1>s, <2>r DEF Shaped
    <3> QED  BY <3>1, <3>2 DEF Elements
  <2>3. \A a, b \in rows : f[a] = f[b] => a = b
    <3> SUFFICES ASSUME NEW a \in rows, NEW b \in rows, f[a] = f[b] PROVE a = b
      OBVIOUS
    <3>1. <<a.part, a.id>> = <<b.part, b.id>>
      BY <2>2
    <3>2. a.id = b.id
      BY <3>1
    <3> QED  BY <1>u, <2>r, <3>2
  <2>4. \A e \in graph : e[1] = "UNDERWENT" => \E row \in rows : e = <<"UNDERWENT", f[row]>>
    BY <1>a, <2>1, <2>2, <2>3
  <2> QED  BY <2>2, <2>4, <2>r
<1>7. \A e \in graph : e[1] = "INSTANCE_OF" => \E row \in p.runs : e = <<"INSTANCE_OF", <<row.id, row.process>>>>
  <2>r. PICK rows : rows = p.runs
    OBVIOUS
  <2>f. PICK f : f = [row \in rows |-> <<row.id, row.process>>]
    OBVIOUS
  <2>1. "INSTANCE_OF" \in all /\ Counts(p)["INSTANCE_OF"] = Cardinality(rows) /\ rows \subseteq RowsOf(p)
    BY <2>r DEF NodeKinds, LinkKinds, Counts, RowsOf
  <2>2. \A row \in rows : f[row] = <<row.id, row.process>> /\ <<"INSTANCE_OF", f[row]>> \in Elements(row)
    <3>1. \A row \in rows : f[row] = <<row.id, row.process>>
      BY <2>f
    <3>2. \A row \in rows : row.query = "runs"
      BY <1>s, <2>r DEF Shaped
    <3> QED  BY <3>1, <3>2 DEF Elements
  <2>3. \A a, b \in rows : f[a] = f[b] => a = b
    <3> SUFFICES ASSUME NEW a \in rows, NEW b \in rows, f[a] = f[b] PROVE a = b
      OBVIOUS
    <3>1. <<a.id, a.process>> = <<b.id, b.process>>
      BY <2>2
    <3>2. a.id = b.id
      BY <3>1
    <3> QED  BY <1>u, <2>r, <3>2
  <2>4. \A e \in graph : e[1] = "INSTANCE_OF" => \E row \in rows : e = <<"INSTANCE_OF", f[row]>>
    BY <1>a, <2>1, <2>2, <2>3
  <2> QED  BY <2>2, <2>4, <2>r
<1>8. \A e \in graph : e[1] = "CLASSIFIED_AS" => \E row \in p.runs : e = <<"CLASSIFIED_AS", <<row.id, row.anomaly>>>>
  <2>r. PICK rows : rows = p.runs
    OBVIOUS
  <2>f. PICK f : f = [row \in rows |-> <<row.id, row.anomaly>>]
    OBVIOUS
  <2>1. "CLASSIFIED_AS" \in all /\ Counts(p)["CLASSIFIED_AS"] = Cardinality(rows) /\ rows \subseteq RowsOf(p)
    BY <2>r DEF NodeKinds, LinkKinds, Counts, RowsOf
  <2>2. \A row \in rows : f[row] = <<row.id, row.anomaly>> /\ <<"CLASSIFIED_AS", f[row]>> \in Elements(row)
    <3>1. \A row \in rows : f[row] = <<row.id, row.anomaly>>
      BY <2>f
    <3>2. \A row \in rows : row.query = "runs"
      BY <1>s, <2>r DEF Shaped
    <3> QED  BY <3>1, <3>2 DEF Elements
  <2>3. \A a, b \in rows : f[a] = f[b] => a = b
    <3> SUFFICES ASSUME NEW a \in rows, NEW b \in rows, f[a] = f[b] PROVE a = b
      OBVIOUS
    <3>1. <<a.id, a.anomaly>> = <<b.id, b.anomaly>>
      BY <2>2
    <3>2. a.id = b.id
      BY <3>1
    <3> QED  BY <1>u, <2>r, <3>2
  <2>4. \A e \in graph : e[1] = "CLASSIFIED_AS" => \E row \in rows : e = <<"CLASSIFIED_AS", f[row]>>
    BY <1>a, <2>1, <2>2, <2>3
  <2> QED  BY <2>2, <2>4, <2>r
<1>9. \A e \in graph : e[1] = "QualityMeasurement" => \E row \in p.measurements : e = <<"QualityMeasurement", row.id>>
  <2>r. PICK rows : rows = p.measurements
    OBVIOUS
  <2>f. PICK f : f = [row \in rows |-> row.id]
    OBVIOUS
  <2>1. "QualityMeasurement" \in all /\ Counts(p)["QualityMeasurement"] = Cardinality(rows) /\ rows \subseteq RowsOf(p)
    BY <2>r DEF NodeKinds, LinkKinds, Counts, RowsOf
  <2>2. \A row \in rows : f[row] = row.id /\ <<"QualityMeasurement", f[row]>> \in Elements(row)
    <3>1. \A row \in rows : f[row] = row.id
      BY <2>f
    <3>2. \A row \in rows : row.query = "measurements"
      BY <1>s, <2>r DEF Shaped
    <3> QED  BY <3>1, <3>2 DEF Elements
  <2>3. \A a, b \in rows : f[a] = f[b] => a = b
    <3> SUFFICES ASSUME NEW a \in rows, NEW b \in rows, f[a] = f[b] PROVE a = b
      OBVIOUS
    <3>1. a.id = b.id
      BY <2>2
    <3>2. a.id = b.id
      BY <3>1
    <3> QED  BY <1>u, <2>r, <3>2
  <2>4. \A e \in graph : e[1] = "QualityMeasurement" => \E row \in rows : e = <<"QualityMeasurement", f[row]>>
    BY <1>a, <2>1, <2>2, <2>3
  <2> QED  BY <2>2, <2>4, <2>r
<1>10. \A e \in graph : e[1] = "HAS_MEASUREMENT" => \E row \in p.measurements : e = <<"HAS_MEASUREMENT", <<row.part, row.id>>>>
  <2>r. PICK rows : rows = p.measurements
    OBVIOUS
  <2>f. PICK f : f = [row \in rows |-> <<row.part, row.id>>]
    OBVIOUS
  <2>1. "HAS_MEASUREMENT" \in all /\ Counts(p)["HAS_MEASUREMENT"] = Cardinality(rows) /\ rows \subseteq RowsOf(p)
    BY <2>r DEF NodeKinds, LinkKinds, Counts, RowsOf
  <2>2. \A row \in rows : f[row] = <<row.part, row.id>> /\ <<"HAS_MEASUREMENT", f[row]>> \in Elements(row)
    <3>1. \A row \in rows : f[row] = <<row.part, row.id>>
      BY <2>f
    <3>2. \A row \in rows : row.query = "measurements"
      BY <1>s, <2>r DEF Shaped
    <3> QED  BY <3>1, <3>2 DEF Elements
  <2>3. \A a, b \in rows : f[a] = f[b] => a = b
    <3> SUFFICES ASSUME NEW a \in rows, NEW b \in rows, f[a] = f[b] PROVE a = b
      OBVIOUS
    <3>1. <<a.part, a.id>> = <<b.part, b.id>>
      BY <2>2
    <3>2. a.id = b.id
      BY <3>1
    <3> QED  BY <1>u, <2>r, <3>2
  <2>4. \A e \in graph : e[1] = "HAS_MEASUREMENT" => \E row \in rows : e = <<"HAS_MEASUREMENT", f[row]>>
    BY <1>a, <2>1, <2>2, <2>3
  <2> QED  BY <2>2, <2>4, <2>r
<1>11. \A e \in graph : e[1] = "FOR_PROCESS" => \E row \in p.measurements : e = <<"FOR_PROCESS", <<row.id, row.process>>>>
  <2>r. PICK rows : rows = p.measurements
    OBVIOUS
  <2>f. PICK f : f = [row \in rows |-> <<row.id, row.process>>]
    OBVIOUS
  <2>1. "FOR_PROCESS" \in all /\ Counts(p)["FOR_PROCESS"] = Cardinality(rows) /\ rows \subseteq RowsOf(p)
    BY <2>r DEF NodeKinds, LinkKinds, Counts, RowsOf
  <2>2. \A row \in rows : f[row] = <<row.id, row.process>> /\ <<"FOR_PROCESS", f[row]>> \in Elements(row)
    <3>1. \A row \in rows : f[row] = <<row.id, row.process>>
      BY <2>f
    <3>2. \A row \in rows : row.query = "measurements"
      BY <1>s, <2>r DEF Shaped
    <3> QED  BY <3>1, <3>2 DEF Elements
  <2>3. \A a, b \in rows : f[a] = f[b] => a = b
    <3> SUFFICES ASSUME NEW a \in rows, NEW b \in rows, f[a] = f[b] PROVE a = b
      OBVIOUS
    <3>1. <<a.id, a.process>> = <<b.id, b.process>>
      BY <2>2
    <3>2. a.id = b.id
      BY <3>1
    <3> QED  BY <1>u, <2>r, <3>2
  <2>4. \A e \in graph : e[1] = "FOR_PROCESS" => \E row \in rows : e = <<"FOR_PROCESS", f[row]>>
    BY <1>a, <2>1, <2>2, <2>3
  <2> QED  BY <2>2, <2>4, <2>r
<1>12. \A e \in graph : e[1] = "ASSEMBLED_FROM" => \E row \in p.assemblies : e = <<"ASSEMBLED_FROM", <<row.cylinder, row.component>>>>
  <2>r. PICK rows : rows = p.assemblies
    OBVIOUS
  <2>f. PICK f : f = [row \in rows |-> <<row.cylinder, row.component>>]
    OBVIOUS
  <2>1. "ASSEMBLED_FROM" \in all /\ Counts(p)["ASSEMBLED_FROM"] = Cardinality(rows) /\ rows \subseteq RowsOf(p)
    BY <2>r DEF NodeKinds, LinkKinds, Counts, RowsOf
  <2>2. \A row \in rows : f[row] = <<row.cylinder, row.component>> /\ <<"ASSEMBLED_FROM", f[row]>> \in Elements(row)
    <3>1. \A row \in rows : f[row] = <<row.cylinder, row.component>>
      BY <2>f
    <3>2. \A row \in rows : row.query = "assemblies"
      BY <1>s, <2>r DEF Shaped
    <3> QED  BY <3>1, <3>2 DEF Elements
  <2>3. \A a, b \in rows : f[a] = f[b] => a = b
    <3> SUFFICES ASSUME NEW a \in rows, NEW b \in rows, f[a] = f[b] PROVE a = b
      OBVIOUS
    <3>1. <<a.cylinder, a.component>> = <<b.cylinder, b.component>>
      BY <2>2
    <3>2. a.cylinder = b.cylinder /\ a.component = b.component
      BY <3>1
    <3> QED  BY <1>w, <2>r, <3>2
  <2>4. \A e \in graph : e[1] = "ASSEMBLED_FROM" => \E row \in rows : e = <<"ASSEMBLED_FROM", f[row]>>
    BY <1>a, <2>1, <2>2, <2>3
  <2> QED  BY <2>2, <2>4, <2>r
<1>13. \A row \in RowsOf(p) : Elements(row) \subseteq Content(p)
  BY DEF Content, RowsOf
<1>14. /\ p.parts \subseteq RowsOf(p) /\ p.processes \subseteq RowsOf(p)
       /\ p.equipment \subseteq RowsOf(p) /\ p.anomalies \subseteq RowsOf(p)
       /\ p.runs \subseteq RowsOf(p) /\ p.measurements \subseteq RowsOf(p)
       /\ p.assemblies \subseteq RowsOf(p)
  BY DEF RowsOf
<1>15. /\ \A row \in p.parts : row.query = "parts"
       /\ \A row \in p.processes : row.query = "processes"
       /\ \A row \in p.equipment : row.query = "equipment"
       /\ \A row \in p.anomalies : row.query = "anomalies"
       /\ \A row \in p.runs : row.query = "runs"
       /\ \A row \in p.measurements : row.query = "measurements"
       /\ \A row \in p.assemblies : row.query = "assemblies"
  BY <1>s DEF Shaped
<1>16. ASSUME NEW e \in graph, e[1] \in all PROVE e \in Content(p)
  <2>1. CASE e[1] = "Part"
    <3>1. \E row \in p.parts : e \in Elements(row)
      BY <1>1, <1>15, <2>1 DEF Elements
    <3> QED  BY <1>13, <1>14, <3>1
  <2>2. CASE e[1] = "Process"
    <3>1. \E row \in p.processes : e \in Elements(row)
      BY <1>2, <1>15, <2>2 DEF Elements
    <3> QED  BY <1>13, <1>14, <3>1
  <2>3. CASE e[1] = "Equipment"
    <3>1. \E row \in p.equipment : e \in Elements(row)
      BY <1>3, <1>15, <2>3 DEF Elements
    <3> QED  BY <1>13, <1>14, <3>1
  <2>4. CASE e[1] = "AnomalyClass"
    <3>1. \E row \in p.anomalies : e \in Elements(row)
      BY <1>4, <1>15, <2>4 DEF Elements
    <3> QED  BY <1>13, <1>14, <3>1
  <2>5. CASE e[1] = "ProcessRun"
    <3>1. \E row \in p.runs : e \in Elements(row)
      BY <1>5, <1>15, <2>5 DEF Elements
    <3> QED  BY <1>13, <1>14, <3>1
  <2>6. CASE e[1] = "UNDERWENT"
    <3>1. \E row \in p.runs : e \in Elements(row)
      BY <1>6, <1>15, <2>6 DEF Elements
    <3> QED  BY <1>13, <1>14, <3>1
  <2>7. CASE e[1] = "INSTANCE_OF"
    <3>1. \E row \in p.runs : e \in Elements(row)
      BY <1>7, <1>15, <2>7 DEF Elements
    <3> QED  BY <1>13, <1>14, <3>1
  <2>8. CASE e[1] = "CLASSIFIED_AS"
    <3>1. \E row \in p.runs : e \in Elements(row)
      BY <1>8, <1>15, <2>8 DEF Elements
    <3> QED  BY <1>13, <1>14, <3>1
  <2>9. CASE e[1] = "QualityMeasurement"
    <3>1. \E row \in p.measurements : e \in Elements(row)
      BY <1>9, <1>15, <2>9 DEF Elements
    <3> QED  BY <1>13, <1>14, <3>1
  <2>10. CASE e[1] = "HAS_MEASUREMENT"
    <3>1. \E row \in p.measurements : e \in Elements(row)
      BY <1>10, <1>15, <2>10 DEF Elements
    <3> QED  BY <1>13, <1>14, <3>1
  <2>11. CASE e[1] = "FOR_PROCESS"
    <3>1. \E row \in p.measurements : e \in Elements(row)
      BY <1>11, <1>15, <2>11 DEF Elements
    <3> QED  BY <1>13, <1>14, <3>1
  <2>12. CASE e[1] = "ASSEMBLED_FROM"
    <3>1. \E row \in p.assemblies : e \in Elements(row)
      BY <1>12, <1>15, <2>12 DEF Elements
    <3> QED  BY <1>13, <1>14, <3>1
  <2>13. CASE e[1] = "RUN_ON"
    <3>1. PICK id : /\ <<"ProcessRun", id>> \in graph /\ e = <<"RUN_ON", <<id, EquipmentOf(id[2])>>>>
                    /\ EquipmentOf(id[2]) # NoEquipment
      BY <2>13 DEF LinkedGraph
    <3>2. PICK row \in p.runs : <<"ProcessRun", id>> = <<"ProcessRun", row.id>>
      BY <1>5, <3>1
    <3>3. row.id = id /\ row.query = "runs" /\ row.equipment = EquipmentOf(row.id[2])
      BY <1>s, <3>2 DEF Shaped
    <3>4. e \in Elements(row)
      BY <3>1, <3>3 DEF Elements
    <3> QED  BY <1>13, <1>14, <3>4
  <2>14. CASE e[1] = "QualityFailure"
    <3>1. PICK id : <<"QualityMeasurement", id>> \in graph /\ e = <<"QualityFailure", id>>
      BY <2>14 DEF LinkedGraph
    <3>2. PICK row \in p.measurements : <<"QualityMeasurement", id>> = <<"QualityMeasurement", row.id>>
      BY <1>9, <3>1
    <3>3. row.id = id /\ e = Failure(row)
      BY <3>1, <3>2 DEF Failure
    <3>4. ~row.pass /\ row.query = "measurements"
      BY <1>15, <3>3
    <3>5. e \in Elements(row)
      BY <3>1, <3>3, <3>4 DEF Elements
    <3> QED  BY <1>13, <1>14, <3>5
  <2> QED  BY <1>16, <2>1, <2>2, <2>3, <2>4, <2>5, <2>6, <2>7, <2>8, <2>9, <2>10, <2>11, <2>12,
              <2>13, <2>14 DEF NodeKinds, LinkKinds
<1>17. ASSUME NEW e \in Content(p) PROVE e \in graph
  <2>1. PICK row \in RowsOf(p) : e \in Elements(row)
    BY DEF Content, RowsOf
  <2>2. CASE e[1] # "QualityFailure"
    BY <2>1, <2>2 DEF Kept
  <2>3. CASE e[1] = "QualityFailure"
    <3>1. row.query = "measurements" /\ ~row.pass /\ e = Failure(row)
      BY <1>s, <2>1, <2>3, RowShape, FailureShape DEF Failure
    <3>2. row \in p.measurements
      BY <1>s, <2>1, <3>1, RowShape
    <3> QED  BY <3>1, <3>2
  <2> QED  BY <2>2, <2>3
<1> QED  BY <1>16, <1>17 DEF OfKinds

Labels(my, graph) ==
  \A m \in my.payload.measurements :
    (\E k \in 1..Len(my.batches) : m \in my.batches[k]) \/ (Failure(m) \in graph <=> ~m.pass)

EtlGraphInv == IsFiniteSet(inGraph) /\ LinkedGraph(inGraph)

\* Beside a load that met no other version there is only its own, so the last
\* batch that held a measurement left the label this version gives it.
LabelInv ==
  \A s \in Scripts \ crossed : loader[s].at # "idle" =>
    /\ Labels(loader[s], inGraph)
    /\ \A t \in Scripts : loader[t].at # "idle" => loader[t].payload = loader[s].payload

LEMMA HeadReady ==
  ASSUME NEW my, NEW graph, InProgress(my, graph), my.batches # <<>>
  PROVE  /\ Head(my.batches) \in SUBSET RowsOf(my.payload)
         /\ \A row \in Head(my.batches) : Needs(row) \subseteq graph
         /\ \A k \in 1..Len(my.batches) : my.batches[k] = Head(my.batches)
              \/ \E j \in 1..Len(Tail(my.batches)) : Tail(my.batches)[j] = my.batches[k]
<1>b. PICK b : b = my.batches
  OBVIOUS
<1>1. b \in Seq(SUBSET RowsOf(my.payload)) /\ b # <<>>
  BY <1>b DEF InProgress
<1>2. /\ Len(b) \in Nat \ {0} /\ Head(b) = b[1] /\ Len(Tail(b)) = Len(b) - 1
      /\ Head(b) \in SUBSET RowsOf(my.payload)
      /\ \A i \in 1..Len(Tail(b)) : Tail(b)[i] = b[i + 1]
  BY <1>1, HeadTailProperties, LenProperties, EmptySeq
<1>3. ASSUME NEW row \in b[1] PROVE Needs(row) \subseteq graph
  <2>1. 1 \in 1..Len(b) /\ ~\E j \in 1..Len(b) : j < 1
    BY <1>2
  <2>2. \A use \in Uses(row) : use \in graph
    BY <1>b, <2>1 DEF InProgress, Ready
  <2> QED  BY <2>2 DEF Uses
<1>4. ASSUME NEW k \in 1..Len(b), k # 1
      PROVE  \E j \in 1..Len(Tail(b)) : Tail(b)[j] = b[k]
  <2>1. k - 1 \in 1..Len(Tail(b)) /\ (k - 1) + 1 = k
    BY <1>2, <1>4
  <2> QED  BY <1>2, <2>1
<1> QED  BY <1>b, <1>2, <1>3, <1>4

LEMMA FiniteRows ==
  ASSUME NEW p, Loadable(p)
  PROVE  IsFiniteSet(RowsOf(p))
<1>1. \A S, T : IsFiniteSet(S) /\ IsFiniteSet(T) => IsFiniteSet(S \cup T)
  BY FS_Union
<1> QED  BY <1>1 DEF Loadable, Finite, RowsOf

LEMMA GraphSteps ==
  ASSUME LoadInv, EtlGraphInv, [EtlNext]_etlVars
  PROVE  EtlGraphInv'
<1>1. ASSUME NEW s \in Scripts, SendBatch(s) PROVE EtlGraphInv'
  <2>1. loader[s].batches # <<>> /\ InProgress(loader[s], inGraph)
    BY <1>1 DEF SendBatch, LoadInv
  <2>2. PICK p : p = loader[s].payload
    OBVIOUS
  <2>3. PICK rows : rows = Head(loader[s].batches)
    OBVIOUS
  <2>4. Loadable(p) /\ Shaped(p) /\ rows \in SUBSET RowsOf(p)
    BY <2>1, <2>2, <2>3, HeadReady DEF InProgress, Loadable
  <2>5. IsFiniteSet(rows)
    BY <2>4, FiniteRows, FS_Subset
  <2>6. inGraph' = AfterBatch(inGraph, rows)
    BY <1>1, <2>3 DEF SendBatch
  <2>7. IsFiniteSet(AfterBatch(inGraph, rows)) /\ LinkedGraph(AfterBatch(inGraph, rows))
    BY <2>4, <2>5, FiniteAfter, LinksKept DEF EtlGraphInv
  <2> QED  BY <2>6, <2>7 DEF EtlGraphInv
<1>2. ASSUME inGraph' = inGraph PROVE EtlGraphInv'
  BY <1>2 DEF EtlGraphInv
<1>3. inGraph' = inGraph \/ \E s \in Scripts : SendBatch(s)
  BY DEF EtlNext, ReplaceFiles, StartEtl, CompareCounts, StopLoad, etlVars
<1> QED  BY <1>1, <1>2, <1>3

LEMMA PayloadPrepared == \A x : Payload(x) # Unprepared
BY DEF Payload, Unprepared

LEMMA LabelSteps ==
  ASSUME EtlTypeInv, LoadInv, LabelInv, [EtlNext]_etlVars
  PROVE  LabelInv'
<1>f. /\ loader \in [Scripts -> LoaderStates] /\ files \in Extracts
      /\ \A s \in Scripts : loader[s] \in LoaderStates
  BY DEF EtlTypeInv
<1>l. \A s \in Scripts : loader[s].at # "idle" => InProgress(loader[s], inGraph) /\ Loadable(loader[s].payload)
  BY DEF LoadInv, InProgress
<1>i. IdleScript.at = "idle"
  BY DEF IdleScript
\* A step of one script that leaves the graph alone.
<1>o. ASSUME NEW s \in Scripts, NEW my, inGraph' = inGraph, crossed' = crossed,
             loader' = [loader EXCEPT ![s] = my],
             my.at # "idle" => /\ loader[s].at # "idle" /\ Labels(my, inGraph)
                               /\ my.payload = loader[s].payload
      PROVE  LabelInv'
  <2>1. \A t \in Scripts : loader'[t] = IF t = s THEN my ELSE loader[t]
    BY <1>f, <1>o
  <2>2. \A t \in Scripts : loader'[t].at # "idle" =>
          loader[t].at # "idle" /\ loader'[t].payload = loader[t].payload
    BY <1>o, <2>1
  <2>3. ASSUME NEW u \in Scripts \ crossed, loader'[u].at # "idle"
        PROVE  /\ Labels(loader'[u], inGraph)
               /\ \A t \in Scripts : loader'[t].at # "idle" => loader'[t].payload = loader'[u].payload
    <3>1. /\ Labels(loader[u], inGraph)
          /\ \A t \in Scripts : loader[t].at # "idle" => loader[t].payload = loader[u].payload
      BY <2>2, <2>3 DEF LabelInv
    <3>2. Labels(loader'[u], inGraph)
      BY <1>o, <2>1, <2>3, <3>1
    <3> QED  BY <2>2, <2>3, <3>1, <3>2
  <2> QED  BY <1>o, <2>3 DEF LabelInv
<1>b. ASSUME NEW my, NEW graph, Loadable(my.payload), my.batches = Batches(my.payload)
      PROVE  Labels(my, graph)
  <2>1. my.payload.measurements \subseteq RowsOf(my.payload)
    BY DEF RowsOf
  <2> QED  BY <1>b, <2>1 DEF Labels, Loadable, Carries
<1>1. ASSUME loader' = loader, inGraph' = inGraph, crossed' = crossed PROVE LabelInv'
  BY <1>1 DEF LabelInv
<1>2. ASSUME NEW s \in Scripts, NEW dry \in BOOLEAN, NEW verify \in BOOLEAN,
             StartEtl(s, dry, verify)
      PROVE  LabelInv'
  <2>p. PICK p : p = Payload(files)
    OBVIOUS
  <2>m. PICK my : my = [at |-> "first", verify |-> verify, batches |-> Batches(p), payload |-> p]
    OBVIOUS
  <2>1. \/ loader' = loader /\ inGraph' = inGraph /\ crossed' = crossed
        \/ /\ Transforms(files) /\ Validates(p) /\ inGraph' = inGraph
           /\ loader' = [loader EXCEPT ![s] = my]
           /\ crossed' = IF Others(p) = {} THEN crossed \ {s} ELSE crossed \cup {s} \cup Others(p)
    BY <1>2, <2>p, <2>m DEF StartEtl
  <2>2. ASSUME Transforms(files), Validates(p), inGraph' = inGraph,
               loader' = [loader EXCEPT ![s] = my],
               crossed' = IF Others(p) = {} THEN crossed \ {s} ELSE crossed \cup {s} \cup Others(p)
        PROVE  LabelInv'
    <3>1. \A t \in Scripts : loader'[t] = IF t = s THEN my ELSE loader[t]
      BY <1>f, <2>2
    <3>2. Loadable(p)
      BY <1>f, <2>p, <2>2, PayloadLoadable
    <3>3. my.payload = p /\ my.batches = Batches(p)
      BY <2>m
    <3>4. Labels(my, inGraph)
      BY <1>b, <3>2, <3>3
    <3>5. ASSUME NEW t \in Scripts, loader[t].at # "idle", t \notin Others(p)
          PROVE  loader[t].payload = p
      <4>1. loader[t].payload # Unprepared
        BY <1>l, <3>5, PayloadPrepared DEF Loadable
      <4> QED  BY <3>5, <4>1 DEF Others
    <3>6. ASSUME NEW u \in Scripts \ crossed', loader'[u].at # "idle"
          PROVE  /\ Labels(loader'[u], inGraph)
                 /\ \A t \in Scripts : loader'[t].at # "idle" => loader'[t].payload = loader'[u].payload
      <4>1. CASE u = s
        <5>1. Others(p) = {}
          BY <2>2, <3>6, <4>1
        <5>2. \A t \in Scripts : loader'[t].at # "idle" => loader'[t].payload = p
          BY <3>1, <3>3, <3>5, <5>1
        <5>3. loader'[u] = my
          BY <3>1, <3>6, <4>1
        <5>4. loader'[u].payload = p
          BY <3>3, <5>3
        <5>5. Labels(loader'[u], inGraph)
          BY <3>4, <5>3
        <5> QED  BY <5>2, <5>4, <5>5
      <4>2. CASE u # s
        <5>1. u \notin crossed /\ u \notin Others(p) /\ loader'[u] = loader[u]
          BY <2>2, <3>1, <3>6, <4>2
        <5>2. loader[u].payload = p
          BY <3>5, <3>6, <5>1
        <5>3. /\ Labels(loader[u], inGraph)
              /\ \A t \in Scripts : loader[t].at # "idle" => loader[t].payload = loader[u].payload
          BY <3>6, <5>1 DEF LabelInv
        <5> QED  BY <3>1, <3>3, <5>1, <5>2, <5>3
      <4> QED  BY <4>1, <4>2
    <3> QED  BY <2>2, <3>6 DEF LabelInv
  <2> QED  BY <1>1, <2>1, <2>2
<1>3. ASSUME NEW s \in Scripts, SendBatch(s)
      PROVE  LabelInv'
  <2>m. PICK my : my = loader[s]
    OBVIOUS
  <2>n. PICK left : left = [my EXCEPT !.batches = Tail(@)]
    OBVIOUS
  <2>r. PICK rows : rows = Head(my.batches)
    OBVIOUS
  <2>1. my.batches # <<>> /\ my.at # "idle" /\ InProgress(my, inGraph) /\ my \in LoaderStates
    BY <1>3, <1>f, <2>m DEF SendBatch, LoadInv
  <2>2. /\ left.at = my.at /\ left.payload = my.payload /\ left.batches = Tail(my.batches)
    BY <2>1, <2>n DEF LoaderStates
  <2>3. /\ loader' = [loader EXCEPT ![s] = left] /\ crossed' = crossed
        /\ inGraph' = AfterBatch(inGraph, rows)
    BY <1>3, <1>f, <2>m, <2>n, <2>r DEF SendBatch
  <2>4. \A t \in Scripts : loader'[t] = IF t = s THEN left ELSE loader[t]
    BY <1>f, <2>3
  <2>5. /\ rows \in SUBSET RowsOf(my.payload)
        /\ \A row \in rows : Needs(row) \subseteq inGraph
        /\ \A k \in 1..Len(my.batches) : my.batches[k] = rows
              \/ \E j \in 1..Len(Tail(my.batches)) : Tail(my.batches)[j] = my.batches[k]
    BY <2>1, <2>r, HeadReady
  <2>6. \A t \in Scripts : loader'[t].at = loader[t].at /\ loader'[t].payload = loader[t].payload
    BY <2>2, <2>4, <2>m
  <2>7. ASSUME NEW u \in Scripts \ crossed, loader'[u].at # "idle"
        PROVE  /\ Labels(loader'[u], inGraph')
               /\ \A t \in Scripts : loader'[t].at # "idle" => loader'[t].payload = loader'[u].payload
    <3>1. /\ Labels(loader[u], inGraph)
          /\ \A t \in Scripts : loader[t].at # "idle" => loader[t].payload = loader[u].payload
      BY <2>6, <2>7 DEF LabelInv
    <3>2. my.payload = loader[u].payload /\ loader'[u].payload = my.payload /\ Shaped(my.payload)
      BY <1>l, <2>1, <2>6, <2>m, <3>1 DEF Loadable
    <3>3. ASSUME NEW m \in my.payload.measurements
          PROVE  (\E k \in 1..Len(loader'[u].batches) : m \in loader'[u].batches[k])
                   \/ (Failure(m) \in inGraph' <=> ~m.pass)
      <4>1. m \in rows => (Failure(m) \in inGraph' <=> ~m.pass)
        BY <2>3, <2>5, <3>2, BatchLabels
      <4>2. m \notin rows => (Failure(m) \in inGraph' <=> Failure(m) \in inGraph)
        BY <2>3, <2>5, <3>2, BatchLabels
      <4>3. CASE Failure(m) \in inGraph <=> ~m.pass
        BY <4>1, <4>2, <4>3
      <4>4. ASSUME NEW k \in 1..Len(loader[u].batches), m \in loader[u].batches[k], m \notin rows
            PROVE  \E j \in 1..Len(loader'[u].batches) : m \in loader'[u].batches[j]
        <5>1. CASE u # s
          BY <2>4, <4>4, <5>1
        <5>2. CASE u = s
          <6>1. loader'[u].batches = Tail(my.batches) /\ loader[u].batches = my.batches
            BY <2>2, <2>4, <2>m, <5>2
          <6>2. my.batches[k] # rows
            BY <4>4, <6>1
          <6>3. PICK j \in 1..Len(Tail(my.batches)) : Tail(my.batches)[j] = my.batches[k]
            BY <2>5, <4>4, <6>1, <6>2
          <6> QED  BY <4>4, <6>1, <6>3
        <5> QED  BY <5>1, <5>2
      <4>5. (\E k \in 1..Len(loader[u].batches) : m \in loader[u].batches[k])
              \/ (Failure(m) \in inGraph <=> ~m.pass)
        BY <3>1, <3>2 DEF Labels
      <4> QED  BY <4>1, <4>3, <4>4, <4>5
    <3>4. Labels(loader'[u], inGraph')
      BY <3>2, <3>3 DEF Labels
    <3> QED  BY <2>6, <3>1, <3>4
  <2> QED  BY <2>3, <2>7 DEF LabelInv
<1>4. ASSUME NEW s \in Scripts, CompareCounts(s)
      PROVE  LabelInv'
  <2>1. inGraph' = inGraph /\ crossed' = crossed /\ loader[s].at # "idle"
    BY <1>4 DEF CompareCounts, AllSent
  <2>m. PICK my : my = loader[s]
    OBVIOUS
  <2>n. PICK again : again = [my EXCEPT !.at = "second", !.batches = Batches(my.payload)]
    OBVIOUS
  <2>2. my \in LoaderStates /\ Loadable(my.payload)
    BY <1>f, <1>l, <2>1, <2>m
  <2>3. CASE loader' = [loader EXCEPT ![s] = IdleScript]
    BY <1>i, <1>o, <2>1, <2>3
  <2>4. CASE loader' = [loader EXCEPT ![s] = again]
    <3>1. again.payload = my.payload /\ again.batches = Batches(my.payload)
      BY <2>2, <2>n DEF LoaderStates
    <3>2. Labels(again, inGraph)
      BY <1>b, <2>2, <3>1
    <3> QED  BY <1>o, <2>1, <2>4, <2>m, <3>1, <3>2
  <2>5. \/ loader' = [loader EXCEPT ![s] = IdleScript]
        \/ loader' = [loader EXCEPT ![s].at = "second", ![s].batches = Batches(my.payload)]
    BY <1>4, <2>m DEF CompareCounts
  <2>6. [loader EXCEPT ![s].at = "second", ![s].batches = Batches(my.payload)]
          = [loader EXCEPT ![s] = again]
    BY <1>f, <2>m, <2>n
  <2> QED  BY <2>3, <2>4, <2>5, <2>6
<1>5. ASSUME NEW s \in Scripts, StopLoad(s)
      PROVE  LabelInv'
  BY <1>i, <1>o, <1>5 DEF StopLoad
<1>6. ASSUME NEW x \in Extracts, ReplaceFiles(x) PROVE LabelInv'
  BY <1>1, <1>6 DEF ReplaceFiles
<1>7. CASE UNCHANGED etlVars
  BY <1>1, <1>7 DEF etlVars
<1> QED  BY <1>2, <1>3, <1>4, <1>5, <1>6, <1>7 DEF EtlNext

LEMMA ReportedIsLoaded ==
  ASSUME EtlTypeInv, LoadInv, EtlGraphInv, LabelInv, [EtlNext]_etlVars,
         NEW s \in Scripts \ crossed, loader'[s] # loader[s], report' # report,
         report'.mode = "load"
  PROVE  OfKinds(inGraph, NodeKinds \cup LinkKinds)
           = OfKinds(Content(report'.payload), NodeKinds \cup LinkKinds)
<1>f. loader \in [Scripts -> LoaderStates]
  BY DEF EtlTypeInv
<1>1. PICK t \in Scripts : CompareCounts(t)
  <2>1. ~UNCHANGED etlVars
    BY DEF etlVars
  <2>2. ASSUME NEW t \in Scripts, NEW dry \in BOOLEAN, NEW verify \in BOOLEAN, StartEtl(t, dry, verify)
        PROVE  FALSE
    <3>1. report' = [mode |-> "dry-run", payload |-> Payload(files)]
      BY <2>2 DEF StartEtl
    <3> QED  BY <3>1
  <2> QED  BY <2>1, <2>2 DEF EtlNext, ReplaceFiles, SendBatch, StopLoad
<1>2. /\ AllSent(t) /\ CountsAgree(loader[t].payload)
      /\ loader' = [loader EXCEPT ![t] = IdleScript]
      /\ report' = [mode |-> "load", payload |-> loader[t].payload]
  BY <1>1 DEF CompareCounts
<1>3. t = s
  BY <1>f, <1>2
<1>p. PICK p : p = loader[s].payload
  OBVIOUS
<1>4. /\ Loadable(p) /\ \A row \in RowsOf(p) : Kept(row) \subseteq inGraph
      /\ loader[s].batches = <<>> /\ loader[s].at # "idle"
  BY <1>p, <1>2, <1>3, AllKept DEF InProgress, AllSent
<1>5. \A m \in p.measurements : Failure(m) \in inGraph <=> ~m.pass
  <2>1. Len(loader[s].batches) = 0
    BY <1>4, EmptySeq
  <2>2. Labels(loader[s], inGraph)
    BY <1>4 DEF LabelInv
  <2> QED  BY <1>p, <2>1, <2>2 DEF Labels
<1>6. GraphCounts(inGraph) = Counts(p)
  BY <1>p, <1>2, <1>3 DEF CountsAgree
<1>7. OfKinds(inGraph, NodeKinds \cup LinkKinds) = OfKinds(Content(p), NodeKinds \cup LinkKinds)
  BY <1>4, <1>5, <1>6, CountsMean DEF EtlGraphInv
<1> QED  BY <1>p, <1>2, <1>3, <1>7

LEMMA AgreementStarts == EtlInit => EtlGraphInv /\ LabelInv
<1> SUFFICES ASSUME EtlInit PROVE EtlGraphInv /\ LabelInv
  OBVIOUS
<1>1. EtlGraphInv
  BY FS_EmptySet DEF EtlInit, EtlGraphInv, LinkedGraph
<1>2. \A s \in Scripts : loader[s].at = "idle"
  BY DEF EtlInit, IdleScript
<1> QED  BY <1>1, <1>2 DEF LabelInv

\* Counting is taken for comparing (cli.py:135): for a load that no load of
\* another version overlapped, the graph that has the counts of its rows has
\* its rows and nothing else of the kinds counted, though batches of earlier
\* and of stopped loads are in it.
THEOREM CountsSuffice == EtlSpec => PassIsPayload
<1> DEFINE Inv == EtlTypeInv /\ LoadInv /\ EtlGraphInv /\ LabelInv
           Pass == \A s \in Scripts \ crossed :
                     loader'[s] # loader[s] /\ report' # report /\ report'.mode = "load" =>
                       OfKinds(inGraph, NodeKinds \cup LinkKinds)
                         = OfKinds(Content(report'.payload), NodeKinds \cup LinkKinds)
<1>1. EtlInit => Inv
  BY EtlStarts, AgreementStarts
<1>2. Inv /\ [EtlNext]_etlVars => Inv'
  BY EtlSteps, GraphSteps, LabelSteps
<1>3. Inv /\ [EtlNext]_etlVars => [Pass]_etlVars
  <2> SUFFICES ASSUME Inv, [EtlNext]_etlVars PROVE Pass
    OBVIOUS
  <2> QED  BY ReportedIsLoaded
<1>4. PassIsPayload <=> [][Pass]_etlVars
  BY DEF PassIsPayload
<1> HIDE DEF Inv, Pass
<1> QED  BY <1>1, <1>2, <1>3, <1>4, PTL DEF EtlSpec

=============================================================================
