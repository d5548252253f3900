------------------------------ MODULE WebQuery ------------------------------
(***************************************************************************)
(* The query page of the web client: the project context of                *)
(* web/components/project-context.tsx and the session of                   *)
(* web/components/query/use-query-session.ts, one browser page whose calls *)
(* of the API are answered in any order, or fail.                          *)
(*                                                                         *)
(* An answer is the project it was asked for.  Questions, progress, tabs   *)
(* of the evidence panel and the clipboard are left out; every project can *)
(* be queried, so a readiness report is the project it is about.           *)
(***************************************************************************)
EXTENDS Naturals, FiniteSets

CONSTANTS Selectable,           \* projects in the switcher
          MaxAsked           \* bound: questions sent

ASSUME MaxAskedAssumption == MaxAsked \in Nat

VARIABLES selected,          \* selectedProjectId
          readiness,         \* the project of the readiness report shown, or none
          switches,          \* switchProject calls that wait for their report
          refreshes,         \* refreshReadiness calls that wait for theirs
          switching,         \* whether the switcher is disabled
          resetDue,          \* whether the effect of useQuerySession is still to run
          inFlight,          \* the project the open question was sent to, or none
          shown,             \* response: the project that answered, or none
          historyOf,         \* the project whose history the sidebar lists
          kept,              \* localStorage: projects of the answers in each history
          reviews,           \* feedback sent: project named, project that answered
          asks,              \* questions sent so far
          overtaken          \* history: a project was switched under an open question

webVars == <<selected, readiness, switches, refreshes, switching, resetDue, inFlight, shown,
             historyOf, kept, reviews, asks, overtaken>>

NoProject == "none"
MaybeProject == Selectable \cup {NoProject}

WebInit ==
  /\ selected \in Selectable /\ readiness = NoProject
  /\ switches = {} /\ refreshes = {selected} /\ switching = FALSE
  /\ resetDue = TRUE /\ inFlight = NoProject /\ shown = NoProject /\ historyOf = NoProject
  /\ kept = [p \in Selectable |-> {}] /\ reviews = {} /\ asks = 0 /\ overtaken = FALSE

----------------------------------------------------------------------------
(* switchProject: from the header while it is not disabled, or from the    *)
(* address of the page at any time.                                        *)
StartSwitch(p) ==
  /\ p # selected /\ p \notin switches
  /\ switches' = switches \cup {p} /\ switching' = TRUE
  /\ UNCHANGED <<selected, readiness, refreshes, resetDue, inFlight, shown, historyOf, kept, reviews,
                 asks, overtaken>>

\* With its report the project is selected; both effects are due again.
Switched(p) ==
  /\ p \in switches
  /\ switches' = switches \ {p} /\ switching' = FALSE
  /\ selected' = p /\ readiness' = p
  /\ IF p = selected THEN UNCHANGED <<refreshes, resetDue>>
     ELSE refreshes' = refreshes \cup {p} /\ resetDue' = TRUE
  /\ overtaken' = (overtaken \/ (p # selected /\ inFlight # NoProject))
  /\ UNCHANGED <<inFlight, shown, historyOf, kept, reviews, asks>>

SwitchFails(p) ==
  /\ p \in switches
  /\ switches' = switches \ {p} /\ switching' = FALSE
  /\ UNCHANGED <<selected, readiness, refreshes, resetDue, inFlight, shown, historyOf, kept, reviews,
                 asks, overtaken>>

\* A report is shown whichever project is selected by now.
Refreshed(p) ==
  /\ p \in refreshes
  /\ refreshes' = refreshes \ {p}
  /\ readiness' \in {p, NoProject}
  /\ UNCHANGED <<selected, switches, switching, resetDue, inFlight, shown, historyOf, kept, reviews,
                 asks, overtaken>>

(* The effect of a changed project: its history, and an empty page.        *)
ResetPage ==
  /\ resetDue /\ resetDue' = FALSE
  /\ historyOf' = selected /\ shown' = NoProject
  /\ UNCHANGED <<selected, readiness, switches, refreshes, switching, inFlight, kept, reviews, asks,
                 overtaken>>

\* A pending address (projectContextPending) disables more, and is left out.
QueryEnabled == readiness # NoProject /\ ~switching

(* runQuestion, up to the call: one question at a time.                    *)
SendQuestion ==
  /\ QueryEnabled /\ inFlight = NoProject /\ asks < MaxAsked
  /\ asks' = asks + 1
  /\ inFlight' = selected /\ shown' = NoProject
  /\ UNCHANGED <<selected, readiness, switches, refreshes, switching, resetDue, historyOf, kept,
                 reviews, overtaken>>

\* Mutant of SavedUnder: the project that is selected when the answer comes.
UnderSelected == selected

\* The project the question was sent to, as the closure of runQuestion has it.
SavedUnder == inFlight

ReceiveAnswer ==
  /\ inFlight # NoProject
  /\ shown' = inFlight /\ historyOf' = SavedUnder
  /\ kept' = [kept EXCEPT ![SavedUnder] = @ \cup {inFlight}]
  /\ inFlight' = NoProject
  /\ UNCHANGED <<selected, readiness, switches, refreshes, switching, resetDue, reviews, asks,
                 overtaken>>

QuestionFails ==
  /\ inFlight # NoProject /\ inFlight' = NoProject
  /\ UNCHANGED <<selected, readiness, switches, refreshes, switching, resetDue, shown, historyOf,
                 kept, reviews, asks, overtaken>>

(* loadConversation: an entry of the history in the sidebar.               *)
OpenEntry ==
  /\ historyOf # NoProject
  /\ \E p \in kept[historyOf] : shown' = p
  /\ UNCHANGED <<selected, readiness, switches, refreshes, switching, resetDue, inFlight, historyOf,
                 kept, reviews, asks, overtaken>>

\* submitReview names the selected project and what is shown.
SendReview ==
  /\ shown # NoProject
  /\ reviews' = reviews \cup {<<selected, shown>>}
  /\ UNCHANGED <<selected, readiness, switches, refreshes, switching, resetDue, inFlight, shown,
                 historyOf, kept, asks, overtaken>>

WebNext ==
  \/ \E p \in Selectable : StartSwitch(p) \/ Switched(p) \/ SwitchFails(p) \/ Refreshed(p)
  \/ ResetPage \/ SendQuestion \/ ReceiveAnswer \/ QuestionFails \/ OpenEntry \/ SendReview

WebSpec == WebInit /\ [][WebNext]_webVars

----------------------------------------------------------------------------
WebTypeOK ==
  /\ selected \in Selectable /\ {readiness, inFlight, shown, historyOf} \subseteq MaybeProject
  /\ switches \subseteq Selectable /\ refreshes \subseteq Selectable
  /\ {switching, resetDue, overtaken} \subseteq BOOLEAN
  /\ kept \in [Selectable -> SUBSET Selectable] /\ reviews \subseteq Selectable \X Selectable
  /\ asks \in 0..MaxAsked

(* use-query-session.ts:117: the history of a project holds its own        *)
(* answers, whatever was switched under a question; and while no project   *)
(* was, the page shows, and lists, only the selected one's once it has been *)
(* reset.  What is shown after a switch under a question is the subject of *)
(* ShownIsSelected.                                                        *)
AnswersApart ==
  /\ \A p \in Selectable : kept[p] \subseteq {p}
  /\ ~overtaken /\ ~resetDue => shown \in {selected, NoProject} /\ historyOf \in {selected, NoProject}

(* docs/p3-enterprise-platform-implementation-plan.md:792 (after a switch  *)
(* of project, earlier results and conversations do not mix): once the page *)
(* has been reset for a project, it shows only that project's answers.     *)
ShownIsSelected == ~resetDue => shown \in {selected, NoProject}

=============================================================================
