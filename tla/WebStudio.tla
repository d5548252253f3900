------------------------------ MODULE WebStudio ------------------------------
(***************************************************************************)
(* Data onboarding and the Schema Studio of the web client:                *)
(* web/components/data-onboarding.tsx and schema-studio.tsx in one browser *)
(* page, the calls of web/lib/api.ts they make, and what the upload and    *)
(* mapping endpoints keep.  Other browsers work on the same projects.      *)
(*                                                                         *)
(* A mapping is the upload it was written for, edited or not.  Results,    *)
(* errors and the checks of a mapping's contents are left out.             *)
(***************************************************************************)
EXTENDS Naturals, Sequences, FiniteSets, SequencesExt

CONSTANTS Studios,           \* projects that can be opened
          MaxUploads,        \* bound: uploads are numbered 1, 2, ...
          MaxOpens           \* bound: times a project is opened

ASSUME MaxUploadsAssumption == MaxUploads \in Nat

VARIABLES uploaded,          \* uploads of each project, oldest first
          approval,          \* mapping.json of each project, or NoMapping
          onPage,            \* projectId of the page
          uploadList,        \* uploads: those the page shows, newest first
          chosen,            \* uploadId
          text,              \* mappingText: the upload it is for
          known,             \* approvedMapping
          loads,             \* runs of the effect that wait for their answers
          call,              \* the open call of a button, or NoCall (busy)
          uploading,         \* the project that files are being uploaded to, or NoStudio
          visits             \* projects opened so far

studioVars == <<uploaded, approval, onPage, uploadList, chosen, text, known, loads, call, uploading,
                visits>>

NoUpload  == 0
UploadIds == 1..MaxUploads
NoMapping == [upload |-> NoUpload, text |-> NoUpload]
NoCall    == [kind |-> "none"]
NoStudio  == "none"

Effect(n, p) == [run |-> n, project |-> p, uploads |-> <<>>, approved |-> NoMapping, asked |-> {}]

StudioInit ==
  /\ uploaded = [p \in Studios |-> <<>>]
  /\ approval = [p \in Studios |-> NoMapping]
  /\ onPage = NoStudio
  /\ uploadList = <<>> /\ chosen = NoUpload /\ text = NoUpload /\ known = NoMapping
  /\ loads = {} /\ call = NoCall /\ uploading = NoStudio /\ visits = 0

----------------------------------------------------------------------------
\* The server.
NewUpload(p) ==
  LET next == 1 + Cardinality(UNION {ToSet(uploaded[q]) : q \in Studios})
  IN /\ next \in UploadIds
     /\ uploaded' = [uploaded EXCEPT ![p] = Append(@, next)]

Accepts(p, u) == u \in ToSet(uploaded[p])

(* Another browser uploads, or approves a mapping of one of the uploads.   *)
OthersUpload(p) ==
  /\ NewUpload(p)
  /\ UNCHANGED <<approval, onPage, uploadList, chosen, text, known, loads, call, uploading, visits>>

OthersApprove(p, u) ==
  /\ Accepts(p, u)
  /\ approval' = [approval EXCEPT ![p] = [upload |-> u, text |-> u]]
  /\ UNCHANGED <<uploaded, onPage, uploadList, chosen, text, known, loads, call, uploading, visits>>

----------------------------------------------------------------------------
(* The project of the page changes: the effect asks for its uploads and    *)
(* its mapping, and what the page shows stays until they have come.        *)
OpenStudio(p) ==
  /\ p # onPage /\ visits < MaxOpens
  /\ visits' = visits + 1
  /\ onPage' = p
  /\ loads' = loads \cup {Effect(visits, p)}
  /\ UNCHANGED <<uploaded, approval, uploadList, chosen, text, known, call, uploading>>

\* The server answers the two requests of an effect, in any order; a mapping
\* that could not be read counts as none.
AnswerEffect(e, what) ==
  /\ e \in loads /\ what \notin e.asked
  /\ \E told \in {approval[e.project], NoMapping} :
       loads' = (loads \ {e}) \cup
                {[e EXCEPT !.asked = @ \cup {what},
                    !.uploads  = IF what = "uploads" THEN Reverse(uploaded[e.project]) ELSE @,
                    !.approved = IF what = "mapping" THEN told ELSE @]}
  /\ UNCHANGED <<uploaded, approval, onPage, uploadList, chosen, text, known, call, uploading, visits>>

First(e) ==
  IF e.uploads = <<>> THEN NoUpload
  ELSE IF e.approved.upload \in ToSet(e.uploads) THEN e.approved.upload ELSE e.uploads[1]

\* Mutant of TextFor: the approved mapping is shown whatever it is for.
ApprovedText(approved, u) == IF approved # NoMapping THEN approved.text ELSE u
TextFor(approved, u) == IF approved # NoMapping /\ approved.upload = u THEN approved.text ELSE u

(* Both answers have come: the page shows them, whichever project is open  *)
(* by now.                                                                 *)
EffectDone(e) ==
  /\ e \in loads /\ e.asked = {"uploads", "mapping"}
  /\ loads' = loads \ {e}
  /\ uploadList' = e.uploads
  /\ known' = e.approved
  /\ chosen' = First(e)
  /\ text' = IF First(e) = NoUpload THEN NoUpload ELSE TextFor(e.approved, First(e))
  /\ UNCHANGED <<uploaded, approval, onPage, call, uploading, visits>>

EffectFails(e) ==
  /\ e \in loads
  /\ loads' = loads \ {e}
  /\ UNCHANGED <<uploaded, approval, onPage, uploadList, chosen, text, known, call, uploading, visits>>

(* The select box.                                                         *)
Choose(u) ==
  /\ u \in ToSet(uploadList) /\ u # chosen
  /\ chosen' = u
  /\ text' = TextFor(known, u)
  /\ UNCHANGED <<uploaded, approval, onPage, uploadList, known, loads, call, uploading, visits>>

(* The buttons: preview and approve need an upload of the list, load is    *)
(* enabled by a readiness report and the typed project id.                 *)
PressButton(kind) ==
  /\ call = NoCall /\ uploadList # <<>> /\ onPage # NoStudio
  /\ kind \in {"preview", "approve"} => chosen \in ToSet(uploadList)
  /\ call' = [kind |-> kind, project |-> onPage, upload |-> chosen, text |-> text, ok |-> FALSE]
  /\ UNCHANGED <<uploaded, approval, onPage, uploadList, chosen, text, known, loads, uploading, visits>>

\* The server takes the call; preview and load store no mapping.
ServeButton ==
  /\ call # NoCall /\ ~call.ok
  /\ Accepts(call.project, call.upload)
  /\ call' = [call EXCEPT !.ok = TRUE]
  /\ IF call.kind = "approve"
     THEN approval' = [approval EXCEPT ![call.project] = [upload |-> call.upload, text |-> call.text]]
     ELSE UNCHANGED approval
  /\ UNCHANGED <<uploaded, onPage, uploadList, chosen, text, known, loads, uploading, visits>>

\* Its answer, or an error, ends it; an error may hide that it was served.
ButtonDone ==
  /\ call # NoCall
  /\ call' = NoCall
  /\ known' \in {known} \cup (IF call.kind = "approve" /\ call.ok
                              THEN {[upload |-> call.upload, text |-> call.text]} ELSE {})
  /\ UNCHANGED <<uploaded, approval, onPage, uploadList, chosen, text, loads, uploading, visits>>

(* Files are encoded and sent to the project of the click.                 *)
PressUpload ==
  /\ uploading = NoStudio /\ onPage # NoStudio
  /\ uploading' = onPage
  /\ UNCHANGED <<uploaded, approval, onPage, uploadList, chosen, text, known, loads, call, visits>>

UploadDone ==
  /\ uploading # NoStudio
  /\ uploading' = NoStudio
  /\ NewUpload(uploading) \/ UNCHANGED uploaded
  /\ UNCHANGED <<approval, onPage, uploadList, chosen, text, known, loads, call, visits>>

StudioNext ==
  \/ \E p \in Studios : OthersUpload(p) \/ OpenStudio(p)
  \/ \E p \in Studios, u \in UploadIds : OthersApprove(p, u)
  \/ \E e \in loads : AnswerEffect(e, "uploads") \/ AnswerEffect(e, "mapping")
                      \/ EffectDone(e) \/ EffectFails(e)
  \/ \E u \in UploadIds : Choose(u)
  \/ \E kind \in {"preview", "approve", "load"} : PressButton(kind)
  \/ ServeButton \/ ButtonDone \/ PressUpload \/ UploadDone

StudioSpec == StudioInit /\ [][StudioNext]_studioVars

----------------------------------------------------------------------------
\* schema-studio.tsx:66 and main.py:870: whatever uploads and mappings arrive
\* late, for a project that was left or out of step with each other, the
\* mapping a project has approved is of one of its own uploads and was
\* written for that upload.
ApprovalFitsUpload ==
  \A p \in Studios : approval[p] # NoMapping =>
    /\ approval[p].upload \in ToSet(uploaded[p])
    /\ approval[p].text = approval[p].upload
============================================================================
