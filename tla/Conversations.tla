---------------------------- MODULE Conversations ----------------------------
(***************************************************************************)
(* The conversations of the internal console: browser tabs, each with the  *)
(* session state of frontend/session_state.py and project_context.py, over *)
(* the store of backend/app/conversations.py they share, and the project   *)
(* they answer from (frontend/sidebar.py).                                 *)
(*                                                                         *)
(* A turn is the project whose services answer it and a number.  The rows  *)
(* of a project are kept newest first, as list returns them.  The repair   *)
(* of histories of 40 messages and more, titles, filters and the explorer  *)
(* state, which is kept and restored with the messages, are left out.      *)
(*                                                                         *)
(* A page is a script that another click stops at any access of the        *)
(* session or of the table.  Its accesses of the table are steps of their  *)
(* own; of the writes to the session that follow one, which no other tab   *)
(* sees, any first part may be done when it is stopped.                    *)
(***************************************************************************)
EXTENDS Naturals, Sequences, FiniteSets

CONSTANTS Tabs,              \* browser sessions
          Workspaces,        \* project identifiers
          HomeProject,       \* the project a session starts with (cip-dmd)
          ListLimit,         \* conversations a session lists (12)
          MaxTurns,          \* bound: questions are numbered 1, 2, ...
          MaxThreads         \* bound: conversation identifiers are 1, 2, ...

ASSUME HomeAssumption  == HomeProject \in Workspaces
ASSUME LimitsAssumption == ListLimit \in Nat \ {0} /\ {MaxTurns, MaxThreads} \subseteq Nat

VARIABLES stored,            \* the conversations table, by project
          tab,               \* st.session_state of each tab
          listed,            \* projects that are not archived
          turns,             \* questions asked so far
          threads,           \* identifiers handed out so far
          acked,             \* history: turns answered, and not deleted since
          sharedIds,         \* history: conversations two tabs held at once
          orphaned,          \* history: a tab stayed on an archived project
          split              \* history: a stop left the half of another conversation

talkVars == <<stored, tab, listed, turns, threads, acked, sharedIds, orphaned, split>>

Turn   == [from : Workspaces, n : 1..MaxTurns, answered : BOOLEAN]
Thread == [id : 1..MaxThreads, messages : Seq(Turn)]
FreshContext(id) == [id |-> id, messages |-> <<>>, list |-> <<>>]
NoContext   == FreshContext(0)
Closed      == [open |-> FALSE, project |-> HomeProject, now |-> NoContext,
                saved |-> [p \in Workspaces |-> NoContext], loaded |-> {},
                at |-> "rest", to |-> HomeProject]

TalkInit ==
  /\ stored = [p \in Workspaces |-> <<>>]
  /\ tab = [t \in Tabs |-> Closed]
  /\ listed = Workspaces
  /\ turns = 0 /\ threads = 0
  /\ acked = {} /\ sharedIds = {} /\ orphaned = FALSE /\ split = FALSE

----------------------------------------------------------------------------
\* Where the script of a tab is: it ran through; it waits for an answer; it
\* has listed the conversation it answered in, ends or leaves, and is to save
\* it; it has saved the one it ends or leaves.
Positions == {"rest", "asking", "answered", "ending", "leaving", "ended", "left"}
Saving == {"answered", "ending", "leaving"}
AfterSave == [answered |-> "rest", ending |-> "ended", leaving |-> "left"]

Free(t) == tab[t].open /\ tab[t].at = "rest"
AtRest(x) == [x EXCEPT !.at = "rest", !.to = HomeProject]
NewId == threads < MaxThreads /\ threads' = threads + 1

\* An identifier that is made and not used is not counted.
NewIdIf(used) == IF used THEN NewId ELSE UNCHANGED threads

FirstN(rows) == SubSeq(rows, 1, IF Len(rows) < ListLimit THEN Len(rows) ELSE ListLimit)

\* The rows of the other conversations, in their order.
OtherRows(rows, id) ==
  LET kept[n \in 0..Len(rows)] ==
        IF n = 0 THEN <<>>
        ELSE IF rows[n].id = id THEN kept[n - 1] ELSE Append(kept[n - 1], rows[n])
  IN kept[Len(rows)]

\* Upserted to the front, in the table and (with the limit) in a session.
ToFront(rows, item) == <<item>> \o OtherRows(rows, item.id)

\* The context of a project read from the store; with nothing stored, a new one.
FromStore(rows, fresh) ==
  IF rows = <<>> THEN FreshContext(fresh)
  ELSE [id |-> rows[1].id, messages |-> rows[1].messages, list |-> FirstN(rows)]

\* sync_active_conversation_state: of an empty conversation nothing is stored.
Item(c) == [id |-> c.id, messages |-> c.messages]
SyncedContext(c) == IF c.messages = <<>> THEN c ELSE [c EXCEPT !.list = FirstN(ToFront(@, Item(c)))]

\* Mutant of SyncedRows: a conversation that is in the table is not saved again.
SavedOnce(p, c) ==
  IF c.messages = <<>> \/ \E i \in 1..Len(stored[p]) : stored[p][i].id = c.id THEN stored
  ELSE [stored EXCEPT ![p] = ToFront(@, Item(c))]

SyncedRows(p, c) ==
  IF c.messages = <<>> THEN stored ELSE [stored EXCEPT ![p] = ToFront(@, Item(c))]

\* The conversations a tab has open or could open without reading the table.
Ids(c) == {c.id} \cup {c.list[i].id : i \in 1..Len(c.list)}
Holds(x) == IF x.open THEN Ids(x.now) \cup UNION {Ids(x.saved[p]) : p \in Workspaces} ELSE {}

\* Histories kept beside every change of what the tabs have open.
Noted ==
  /\ sharedIds' = sharedIds \cup
       UNION {Holds(tab'[w[1]]) \cap Holds(tab'[w[2]]) : w \in {v \in Tabs \X Tabs : v[1] # v[2]}}
  /\ orphaned' = (orphaned \/ \E t \in Tabs : tab'[t].open /\ tab'[t].project \notin listed')

(* initialize_session_state of a new session.                              *)
OpenTab(t) ==
  /\ ~tab[t].open /\ HomeProject \in listed
  /\ NewIdIf(stored[HomeProject] = <<>>)
  /\ tab' = [tab EXCEPT ![t] = [Closed EXCEPT !.open = TRUE, !.loaded = {HomeProject},
                                  !.now = FromStore(FirstN(stored[HomeProject]), threads + 1)]]
  /\ UNCHANGED <<stored, listed, turns, acked, split>>
  /\ Noted

CloseTab(t) ==
  /\ tab[t].open
  /\ tab' = [tab EXCEPT ![t] = Closed]
  /\ UNCHANGED <<stored, listed, turns, threads, acked, split>>
  /\ Noted

\* Mutant of AnswersFrom: the services of the project the session started with.
StartProject(t) == HomeProject

\* The services of the page: those of another project when the tab's own is
\* no longer listed.
AnswersFrom(t) ==
  IF tab[t].project \in listed THEN tab[t].project ELSE CHOOSE p \in listed : TRUE

(* submit_question: the question is in the session before the answer.      *)
Ask(t) ==
  /\ Free(t) /\ turns < MaxTurns
  /\ turns' = turns + 1
  /\ tab' = [tab EXCEPT ![t].at = "asking", ![t].now.messages =
       Append(@, [from |-> AnswersFrom(t), n |-> turns + 1, answered |-> FALSE])]
  /\ UNCHANGED <<stored, listed, threads, acked, split>>
  /\ Noted

WithAnswer(c) == [c EXCEPT !.messages[Len(c.messages)].answered = TRUE]

(* The answer, also a failure's, is added to the messages, and the         *)
(* conversation to the list of the session; a stop may come between.       *)
Answer(t) ==
  /\ tab[t].at = "asking"
  /\ \/ tab' = [tab EXCEPT ![t].now = SyncedContext(WithAnswer(@)), ![t].at = "answered"]
     \/ tab' = [tab EXCEPT ![t] = [AtRest(@) EXCEPT !.now = WithAnswer(tab[t].now)]]
  /\ UNCHANGED <<stored, listed, turns, threads, acked, split>>
  /\ Noted

(* store.save.  With it, a turn that was answered is one to keep.          *)
Save(t) ==
  /\ tab[t].at \in Saving
  /\ LET x == tab[t]
         c == x.now
     IN  /\ stored' = SyncedRows(x.project, c)
         /\ acked' = IF x.at # "answered" THEN acked
                     ELSE acked \cup {<<x.project, c.id, c.messages[Len(c.messages)].n>>}
  /\ tab' = [tab EXCEPT ![t].at = AfterSave[@]]
  /\ UNCHANGED <<listed, turns, threads, split>>
  /\ Noted

\* Another interaction stops the script.
StopScript(t) ==
  /\ tab[t].at # "rest"
  /\ tab' = [tab EXCEPT ![t] = AtRest(@)]
  /\ UNCHANGED <<stored, listed, turns, threads, acked, split>>
  /\ Noted

\* A script that first syncs the conversation it is in.
StartSync(t, to, saving, saved) ==
  /\ Free(t)
  /\ tab' = [tab EXCEPT ![t].now = SyncedContext(@), ![t].to = to,
                        ![t].at = IF tab[t].now.messages = <<>> THEN saved ELSE saving]
  /\ UNCHANGED <<stored, listed, turns, threads, acked, split>>
  /\ Noted

(* start_new_conversation_state.  The identifier is new before the         *)
(* messages are gone.                                                      *)
NewThread(t) == StartSync(t, HomeProject, "ending", "ended")

EndThread(t) ==
  /\ tab[t].at = "ended" /\ NewId
  /\ \E messages \in {<<>>, tab[t].now.messages} :
       tab' = [tab EXCEPT ![t] = [AtRest(@) EXCEPT
                 !.now = [tab[t].now EXCEPT !.id = threads + 1, !.messages = messages]]]
  /\ UNCHANGED <<stored, listed, turns, acked, split>>
  /\ Noted

\* The list of the session, which may be older than the table.
OpenThread(t, i) ==
  /\ Free(t) /\ i \in 1..Len(tab[t].now.list)
  /\ LET item == tab[t].now.list[i]
     IN  tab' = [tab EXCEPT ![t].now = [@ EXCEPT !.id = item.id, !.messages = item.messages]]
  /\ UNCHANGED <<stored, listed, turns, threads, acked, split>>
  /\ Noted

\* Stopped between the identifier and the messages.
CutOpenThread(t, i) ==
  /\ Free(t) /\ i \in 1..Len(tab[t].now.list)
  /\ tab' = [tab EXCEPT ![t].now.id = tab[t].now.list[i].id]
  /\ split' = TRUE
  /\ UNCHANGED <<stored, listed, turns, threads, acked>>
  /\ Noted

(* switch_project_state, in the sidebar, of a project that is listed.      *)
SwitchTo(t, p) ==
  /\ p \in listed /\ p # tab[t].project
  /\ StartSync(t, p, "leaving", "left")

\* Mutant of Restored: a project that was loaded keeps what is on the page.
KeepsPage(t) ==
  IF tab[t].to \in tab[t].loaded THEN tab[t].now ELSE FromStore(FirstN(stored[tab[t].to]), 0)

\* A loaded project gets its snapshot back, another one what the store has.
Restored(t) ==
  IF tab[t].to \in tab[t].loaded THEN tab[t].saved[tab[t].to]
  ELSE FromStore(FirstN(stored[tab[t].to]), 0)

\* restore_project_context: the context, or an empty one, key by key.
Resolved(t) == IF Restored(t) = NoContext THEN FreshContext(threads + 1) ELSE Restored(t)
PartOf(c, new) ==
  {c, [c EXCEPT !.list = new.list], [c EXCEPT !.list = new.list, !.messages = new.messages], new}

\* The context of the project that is left is kept before the other is read.
Switching(t) ==
  LET kept == [tab[t].saved EXCEPT ![tab[t].project] = tab[t].now]
  IN [AtRest(tab[t]) EXCEPT !.saved = [kept EXCEPT ![tab[t].to] = Restored(t)],
                            !.loaded = tab[t].loaded \cup {tab[t].to}]

FinishSwitch(t) ==
  /\ tab[t].at = "left" /\ NewIdIf(Restored(t) = NoContext)
  /\ tab' = [tab EXCEPT ![t] = [Switching(t) EXCEPT !.now = Resolved(t), !.project = tab[t].to]]
  /\ UNCHANGED <<stored, listed, turns, acked, split>>
  /\ Noted

\* Stopped before active_project_id, the last write.
CutSwitch(t) ==
  /\ tab[t].at = "left" /\ NewIdIf(Restored(t) = NoContext)
  /\ \E c \in PartOf(tab[t].now, Resolved(t)) :
       /\ tab' = [tab EXCEPT ![t] = [Switching(t) EXCEPT !.now = c]]
       /\ split' = (split \/ c # tab[t].now)
  /\ UNCHANGED <<stored, listed, turns, acked>>
  /\ Noted

\* "Delete all conversations of the project", in the page's project; then the
\* list, the identifier and the messages of the session.
ClearAll(t) ==
  /\ Free(t) /\ NewId
  /\ LET p == AnswersFrom(t)
     IN  /\ stored' = [stored EXCEPT ![p] = <<>>]
         /\ acked' = {a \in acked : a[1] # p}
  /\ \E c \in {tab[t].now, [tab[t].now EXCEPT !.list = <<>>],
               [tab[t].now EXCEPT !.list = <<>>, !.id = threads + 1], FreshContext(threads + 1)} :
       tab' = [tab EXCEPT ![t].now = c]
  /\ UNCHANGED <<listed, turns, split>>
  /\ Noted

\* Another client archives a project that is not the active one.
ArchiveProject(p) ==
  /\ p \in listed /\ Cardinality(listed) > 1
  /\ listed' = listed \ {p}
  /\ UNCHANGED <<stored, tab, turns, threads, acked, split>>
  /\ Noted

TalkNext ==
  \/ \E t \in Tabs :
       \/ OpenTab(t) \/ CloseTab(t) \/ StopScript(t) \/ ClearAll(t)
       \/ Ask(t) \/ Answer(t) \/ Save(t) \/ NewThread(t) \/ EndThread(t)
       \/ FinishSwitch(t) \/ CutSwitch(t)
       \/ \E i \in 1..ListLimit : OpenThread(t, i) \/ CutOpenThread(t, i)
       \/ \E p \in Workspaces : SwitchTo(t, p)
  \/ \E p \in Workspaces : ArchiveProject(p)

TalkSpec == TalkInit /\ [][TalkNext]_talkVars

----------------------------------------------------------------------------
TalkTypeOK ==
  /\ stored \in [Workspaces -> Seq(Thread)]
  /\ \A t \in Tabs : tab[t].project \in Workspaces /\ tab[t].loaded \subseteq Workspaces
                     /\ tab[t].now.messages \in Seq(Turn)
                     /\ tab[t].now.list \in Seq(Thread) /\ Len(tab[t].now.list) <= ListLimit
                     /\ tab[t].at \in Positions /\ tab[t].to \in Workspaces
  /\ listed \in SUBSET Workspaces \ {{}}
  /\ turns \in 0..MaxTurns /\ threads \in 0..MaxThreads
  /\ sharedIds \subseteq 0..MaxThreads /\ {orphaned, split} \subseteq BOOLEAN

Asked(messages, p) == \A i \in 1..Len(messages) : messages[i].from = p
AskedAll(rows, p) == \A i \in 1..Len(rows) : Asked(rows[i].messages, p)

\* What a tab shows and lists, and what is stored under a project, was
\* answered from it.
OwnTurns ==
  /\ \A p \in Workspaces : AskedAll(stored[p], p)
  /\ \A t \in Tabs : /\ Asked(tab[t].now.messages, tab[t].project)
                     /\ AskedAll(tab[t].now.list, tab[t].project)

(* The rest of session_state.py keeps the conversations of projects apart, *)
(* through switches that are completed or stopped before they wrote the    *)
(* first key, reopening, deleting and stopping of two tabs: that is, until *)
(* a stop leaves half of another context or conversation on a page         *)
(* (session_state.py:188 and :158) or a tab stays on an archived project   *)
(* (sidebar.py:225), both of which mix them: the first is the run          *)
(* console_cut_switch, the second breaks the promise of                    *)
(* docs/p3-enterprise-platform-functional-spec.md:227 as well.             *)
TurnsApart == ~split /\ ~orphaned => OwnTurns

(* session_state.py:169, "Atomically preserve the old project and restore  *)
(* the selected project", and docs/enterprise-stage2-4-query-studio.md:30  *)
(* (after a switch the messages do not mix), the projects of all tabs being *)
(* listed.                                                                 *)
SwitchIsAtomic == ~orphaned => OwnTurns

(* docs/enterprise-stage2-4-query-studio.md:19 (conversations are stored   *)
(* and reopened): a turn whose answer was saved is found in the table from *)
(* then on, until it is deleted.  Excepted are conversations that two tabs *)
(* held at once, and what follows the stops and the archived projects that *)
(* TurnsApart names: a page that shows one conversation under the          *)
(* identifier of another saves it over the other.                          *)
TurnsKept ==
  ~split /\ ~orphaned => \A a \in acked : a[2] \notin sharedIds =>
    \E i \in 1..Len(stored[a[1]]) :
      /\ stored[a[1]][i].id = a[2]
      /\ \E k \in 1..Len(stored[a[1]][i].messages) : stored[a[1]][i].messages[k].n = a[3]
============================================================================
