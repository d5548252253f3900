---------------------------- MODULE GraphLoading ----------------------------
(***************************************************************************)
(* The two services that write Neo4j, backend/app/services/                *)
(* project_load_service.py (API) and data_intake_service.py (Streamlit):   *)
(* each has a lock file of its own, both restart the one local server in   *)
(* loader mode and back in reader mode, and an intake load first consumes  *)
(* the approval token of its run record.                                   *)
(*                                                                         *)
(* One intake run is kept, with the CiP-DMD part of the graph, which its   *)
(* batches fill without a transaction around them.  A mode switch is one   *)
(* step: infra/set_homebrew_mode.sh writes the configuration and restarts. *)
(***************************************************************************)
EXTENDS Naturals

CONSTANTS Clients,           \* threads that call the services
          MaxTokens,         \* bound: approval tokens are numbered 1, 2, ...
          MayStop            \* whether a process may stop in the middle of a call

ASSUME TokensAssumption == MaxTokens \in Nat
ASSUME StopAssumption   == MayStop \in BOOLEAN

VARIABLES record,            \* run.json: status and the token it accepts
          issued,            \* approval tokens issued so far
          locks,             \* lock files that exist
          mode,              \* access mode of the Neo4j server
          cip,               \* the CiP-DMD nodes: none, some or all of them
          call,              \* what each client executes
          stranded,          \* history: a load stopped, or failed, on the way back to reader
          loads              \* history: loads started with each token

vars == <<record, issued, locks, mode, cip, call, stranded, loads>>

NoToken == 0
Record  == [status : {"staged", "dry_run_pass", "dry_run_failed", "loading", "load_pass",
                      "load_failed"},
            token : NoToken..MaxTokens]
Locks   == {"project", "intake"}          \* project_graph_load.lock, intake_load.lock
Modes   == {"reader", "loader"}
Steps   == {"idle", "issue", "lock", "consume", "preflight", "to_loader", "write", "to_reader",
            "finish", "unlock"}
Call    == [op : Locks \cup {"none", "dry_run"}, at : Steps, record : Record, ok : BOOLEAN]

Staged == [status |-> "staged", token |-> NoToken]
Idle   == [op |-> "none", at |-> "idle", record |-> Staged, ok |-> TRUE]

\* stage_archive has stored the bundle.
Init ==
  /\ record = Staged /\ issued = 0
  /\ locks = {} /\ mode = "reader"
  /\ cip = "empty"
  /\ call = [c \in Clients |-> Idle]
  /\ stranded = FALSE
  /\ loads = [t \in 1..MaxTokens |-> 0]

----------------------------------------------------------------------------
At(c, step) == call[c].at = step
Goto(c, step) == call' = [call EXCEPT ![c].at = step]
FailTo(c, step) == call' = [call EXCEPT ![c].at = step, ![c].ok = FALSE]
Start(c, op, step, r) ==
  call' = [call EXCEPT ![c] = [op |-> op, at |-> step, record |-> r, ok |-> TRUE]]
Finish(c) == call' = [call EXCEPT ![c] = Idle]

(* dry_run reads the record, validates the staged files (which may fail),  *)
(* and writes the record it has read back with a new token.                *)
BeginDryRun(c) ==
  /\ call[c] = Idle
  /\ record.status \in {"staged", "dry_run_pass"}
  /\ Start(c, "dry_run", "issue", record)
  /\ UNCHANGED <<record, issued, locks, mode, cip, stranded, loads>>

NewToken == issued + 1

EndDryRun(c) ==
  /\ At(c, "issue")
  /\ \/ /\ issued < MaxTokens
        /\ issued' = issued + 1
        /\ record' = [status |-> "dry_run_pass", token |-> NewToken]
     \/ /\ record' = [call[c].record EXCEPT !.status = "dry_run_failed"]
        /\ UNCHANGED issued
  /\ Finish(c)
  /\ UNCHANGED <<locks, mode, cip, stranded, loads>>

(* load of the intake service: the record is read and the token compared   *)
(* before the lock file is taken.                                          *)
BeginIntake(c, t) ==
  /\ call[c] = Idle
  /\ t \in 1..issued
  /\ record.status = "dry_run_pass" /\ record.token = t
  /\ Start(c, "intake", "lock", record)
  /\ UNCHANGED <<record, issued, locks, mode, cip, stranded, loads>>

(* load of the project service.                                            *)
BeginProject(c) ==
  /\ call[c] = Idle
  /\ Start(c, "project", "lock", Staged)
  /\ UNCHANGED <<record, issued, locks, mode, cip, stranded, loads>>

\* Mutant of AfterRefusal: a refused caller removes the lock file.
Unlinked(lock) == locks \ {lock}

AfterRefusal(lock) == locks

(* os.open with O_CREAT | O_EXCL: a lock file that exists refuses the      *)
(* call, whoever left it.                                                  *)
TakeLock(c) ==
  /\ At(c, "lock")
  /\ IF call[c].op \in locks
     THEN locks' = AfterRefusal(call[c].op) /\ Finish(c)
     ELSE /\ locks' = locks \cup {call[c].op}
          /\ Goto(c, IF call[c].op = "intake" THEN "consume" ELSE "to_loader")
  /\ UNCHANGED <<record, issued, mode, cip, stranded, loads>>

\* The record, as it was read, without its token.
ConsumeToken(c) ==
  /\ At(c, "consume")
  /\ record' = [status |-> "loading", token |-> NoToken]
  /\ loads' = [loads EXCEPT ![call[c].record.token] = @ + 1]
  /\ Goto(c, "preflight")
  /\ UNCHANGED <<issued, locks, mode, cip, stranded>>

\* The intake loads only an empty or a complete CiP-DMD graph.
Preflight(c) ==
  /\ At(c, "preflight")
  /\ \/ cip \in {"empty", "full"} /\ Goto(c, "to_loader")
     \/ FailTo(c, "finish")
  /\ UNCHANGED <<record, issued, locks, mode, cip, stranded, loads>>

\* A switch that fails may have changed the mode or not.
ToLoader(c) ==
  /\ At(c, "to_loader")
  /\ \/ mode' = "loader" /\ Goto(c, "write")
     \/ mode' \in {mode, "loader"} /\ FailTo(c, "to_reader")
  /\ UNCHANGED <<record, issued, locks, cip, stranded, loads>>

\* Mutant of AfterError: reader mode is restored on success only.
NoRestore == "finish"

AfterError == "to_reader"

(* The writes of both services succeed in loader mode only, and may fail.  *)
(* An intake that fails may have merged some of its batches, or all.       *)
Written == IF mode = "loader" THEN {cip, "full"} \cup (IF cip = "empty" THEN {"partial"} ELSE {})
                              ELSE {cip}

Write(c) ==
  /\ At(c, "write")
  /\ \/ /\ mode = "loader"
        /\ cip' = IF call[c].op = "intake" THEN "full" ELSE cip
        /\ Goto(c, "to_reader")
     \/ /\ IF call[c].op = "intake" THEN cip' \in Written ELSE UNCHANGED cip
        /\ FailTo(c, AfterError)
  /\ UNCHANGED <<record, issued, locks, mode, stranded, loads>>

\* finally: back to reader; a switch that fails, or a server that does not
\* come back, fails the load.
ToReader(c) ==
  /\ At(c, "to_reader")
  /\ \/ mode' = "reader" /\ stranded' = FALSE /\ Goto(c, "finish")
     \/ /\ mode' \in {mode, "reader"}
        /\ stranded' = (mode' = "loader")
        /\ FailTo(c, "finish")
  /\ UNCHANGED <<record, issued, locks, cip, loads>>

\* Mutant of Passed: the error is not looked at.
AlwaysPassed(c) == TRUE

Passed(c) == call[c].ok

(* load_pass or load_failed; then the lock file is removed.                *)
WriteResult(c) ==
  /\ At(c, "finish")
  /\ record' = IF call[c].op # "intake" THEN record
               ELSE [status |-> IF Passed(c) THEN "load_pass" ELSE "load_failed", token |-> NoToken]
  /\ Goto(c, "unlock")
  /\ UNCHANGED <<issued, locks, mode, cip, stranded, loads>>

Unlock(c) ==
  /\ At(c, "unlock")
  /\ locks' = locks \ {call[c].op}
  /\ Finish(c)
  /\ UNCHANGED <<record, issued, mode, cip, stranded, loads>>

(* The process stops: the lock file and the mode stay as they are.         *)
Stop(c) ==
  /\ MayStop /\ ~At(c, "idle")
  /\ stranded' = (stranded \/ (mode = "loader" /\ call[c].at \in {"to_loader", "write", "to_reader"}))
  /\ Finish(c)
  /\ UNCHANGED <<record, issued, locks, mode, cip, loads>>

Begin(c) == BeginDryRun(c) \/ BeginProject(c) \/ \E t \in 1..MaxTokens : BeginIntake(c, t)

\* What a call does once it has begun.
Continue(c) ==
  \/ EndDryRun(c) \/ TakeLock(c) \/ ConsumeToken(c) \/ Preflight(c) \/ ToLoader(c)
  \/ Write(c) \/ ToReader(c) \/ WriteResult(c) \/ Unlock(c)

Next == \E c \in Clients : Begin(c) \/ Continue(c) \/ Stop(c)

\* A call that has begun runs on; nothing makes a client begin one.
Fairness == \A c \in Clients : WF_vars(Continue(c))

Spec == Init /\ [][Next]_vars /\ Fairness

----------------------------------------------------------------------------
Holding(lock) == {c \in Clients : call[c].op = lock /\
                    call[c].at \in Steps \ {"idle", "issue", "lock"}}
Switching == {c \in Clients : call[c].at \in {"to_loader", "write", "to_reader"}}

TypeOK ==
  /\ record \in Record /\ record.token <= issued
  /\ issued \in 0..MaxTokens
  /\ locks \subseteq Locks /\ mode \in Modes
  /\ cip \in {"empty", "partial", "full"}
  /\ call \in [Clients -> Call]
  /\ stranded \in BOOLEAN
  /\ loads \in [1..MaxTokens -> Nat]

(* docs/refactor-stage5-data-intake.md:33 (exclusive lock file): a service *)
(* loads once at a time, also after a stopped or a refused call.           *)
OneLoadPerLock == \A lock \in Locks : \A c, d \in Holding(lock) : c = d

(* docs/refactor-stage5-data-intake.md:34: the server is left in loader    *)
(* mode by nobody, although the two services do not exclude each other.    *)
ReaderRestored == mode = "loader" /\ ~stranded => Switching # {}

(* data_intake_service.py:511-574: a run recorded as loaded means that all *)
(* of the CiP-DMD graph is there, whatever the project loads do meanwhile. *)
PassMeansLoaded == record.status = "load_pass" => cip = "full"

(* data_intake_service.py:534-543, project_load_service.py:177-189: unless *)
(* a process stops or a switch fails, the server returns to reader mode.   *)
EventuallyReader == mode = "loader" ~> mode = "reader" \/ stranded

(* docs/refactor-stage5-data-intake.md:35: a token is not used again, its  *)
(* hash is discarded when the load begins.                                 *)
TokenUsedOnce == \A t \in 1..MaxTokens : loads[t] <= 1
============================================================================
