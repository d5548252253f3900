------------------------------ MODULE DocumentRag ------------------------------
(***************************************************************************)
(* backend/app/rag/service.py: the documents of one project, as a          *)
(* manifest, one source file per document and version, and an index that   *)
(* is rebuilt from both.  Each service bundle has a service with a lock    *)
(* and an index in memory of its own: a bundle taken out of the cache goes *)
(* on serving the requests that hold it beside its successor.              *)
(*                                                                         *)
(* All documents keep their file name, so the stored name is the pair of   *)
(* document and version.  What search ranks and what roles may see is left *)
(* out: an index is the set of the documents in it.                        *)
(***************************************************************************)
EXTENDS Naturals, Sequences, FiniteSets, SequencesExt

CONSTANTS Services,          \* services of this project in the API process
          Documents, Versions,
          Texts,             \* contents with text in them
          MaxCalls           \* bound: calls of ingest and rebuild

ASSUME MaxCallsAssumption == MaxCalls \in Nat

VARIABLES manifest,          \* documents.json
          files,             \* sources/: the content of each stored name
          disk,              \* index/: the rows of the persisted index
          memory,            \* the _index of each service
          docCall,           \* what each service executes under its lock
          calls,             \* calls begun so far
          shared,            \* history: two services were busy at once
          unfinished,        \* history: the last call that began to replace the index
                             \* has not completed (it failed, was stopped, or is at it)
          reused             \* history: a registered source file was overwritten

docVars == <<manifest, files, disk, memory, docCall, calls, shared, unfinished, reused>>

Blank    == "no text"        \* a scanned PDF or a file of white space
Contents == Texts \cup {Blank}
Missing  == "no file"
ASSUME TextsAssumption == {Blank, Missing} \cap Texts = {}
NoIndex  == {}               \* an index without documents is not persisted
Names    == Documents \X Versions
Entry    == [doc : Documents, version : Versions, sha : Contents, current : BOOLEAN]
IndexRow == [doc : Documents, version : Versions, current : BOOLEAN, text : Texts]
Index    == SUBSET IndexRow
NameOf(e) == <<e.doc, e.version>>

IdleCall == [op |-> "none", at |-> "idle", docs |-> <<>>, rows |-> NoIndex]

DocsInit ==
  /\ manifest = <<>>
  /\ files = [n \in Names |-> Missing]
  /\ disk = NoIndex /\ memory = [s \in Services |-> NoIndex]
  /\ docCall = [s \in Services |-> IdleCall]
  /\ calls = 0 /\ shared = FALSE /\ unfinished = FALSE /\ reused = FALSE

----------------------------------------------------------------------------
ServiceAt(s, at) == docCall[s].at = at
ServiceGoes(s, at) == docCall' = [docCall EXCEPT ![s].at = at]
ServiceEnds(s) == docCall' = [docCall EXCEPT ![s] = IdleCall]
Busy == {s \in Services : docCall[s] # IdleCall}
CountCall == calls < MaxCalls /\ calls' = calls + 1
Registered == Range(manifest)

\* Mutant of Supersede: the earlier versions stay current.
AllCurrent(docs, e) == Append(docs, e)

\* A new current version takes the place of the earlier ones.
Supersede(docs, e) ==
  Append([i \in 1..Len(docs) |->
            IF e.current /\ docs[i].doc = e.doc THEN [docs[i] EXCEPT !.current = FALSE] ELSE docs[i]],
         e)

IsDuplicate(e) ==
  \E x \in Registered : x.doc = e.doc /\ x.version = e.version /\ x.sha = e.sha

(* ingest: the manifest is read; the same content again changes nothing.   *)
BeginIngest(s, e) ==
  /\ docCall[s] = IdleCall /\ CountCall
  /\ ~IsDuplicate(e)
  /\ docCall' = [docCall EXCEPT ![s] = [op |-> "ingest", at |-> "write",
                                        docs |-> Supersede(manifest, e), rows |-> NoIndex]]
  /\ shared' = (shared \/ Busy # {})
  /\ UNCHANGED <<manifest, files, disk, memory, unfinished, reused>>

\* The new content takes the place of a file of the same name; if the write fails,
\* the call ends and may leave the file without its text.
WriteSource(s) ==
  /\ ServiceAt(s, "write")
  /\ LET e == Last(docCall[s].docs)
     IN  /\ reused' = (reused \/ \E x \in Registered : NameOf(x) = NameOf(e))
         /\ \/ files' = [files EXCEPT ![NameOf(e)] = e.sha] /\ ServiceGoes(s, "collect")
            \/ files' \in {files, [files EXCEPT ![NameOf(e)] = Blank]} /\ ServiceEnds(s)
  /\ UNCHANGED <<calls, manifest, disk, memory, shared, unfinished>>

(* rebuild: the index of the manifest as it is.                            *)
BeginRebuild(s) ==
  /\ docCall[s] = IdleCall /\ CountCall
  /\ docCall' = [docCall EXCEPT ![s] = [op |-> "rebuild", at |-> "collect",
                                        docs |-> manifest, rows |-> NoIndex]]
  /\ shared' = (shared \/ Busy # {})
  /\ UNCHANGED <<manifest, files, disk, memory, unfinished, reused>>

\* An error leaves a rebuild; an ingest first removes the file it wrote.
Raise(s) == IF docCall[s].op = "ingest" THEN ServiceGoes(s, "unlink") ELSE ServiceEnds(s)

\* Entries whose file is missing are passed over in silence.
Readable(docs) == {e \in Range(docs) : files[NameOf(e)] # Missing}

RowsOf(docs) ==
  {[doc |-> e.doc, version |-> e.version, current |-> e.current, text |-> files[NameOf(e)]] :
     e \in Readable(docs)}

(* _read_documents and the new index, in memory and in a directory aside:  *)
(* either may fail.                                                        *)
Collect(s) ==
  /\ ServiceAt(s, "collect")
  /\ \/ Raise(s)
     \/ /\ \A e \in Readable(docCall[s].docs) : files[NameOf(e)] # Blank
        /\ docCall' = [docCall EXCEPT ![s].at = "remove", ![s].rows = RowsOf(docCall[s].docs)]
  /\ UNCHANGED <<calls, manifest, files, disk, memory, shared, unfinished, reused>>

\* The index is in place: a rebuild is complete, an ingest goes on to the manifest.
Indexed(s) == IF docCall[s].op = "ingest" THEN ServiceGoes(s, "save") /\ unfinished' = TRUE
                                          ELSE ServiceEnds(s) /\ unfinished' = FALSE

RemoveIndex(s) ==
  /\ ServiceAt(s, "remove")
  /\ disk' = NoIndex
  /\ IF docCall[s].rows = NoIndex
     THEN memory' = [memory EXCEPT ![s] = NoIndex] /\ Indexed(s)
     ELSE UNCHANGED memory /\ ServiceGoes(s, "replace") /\ unfinished' = TRUE
  /\ UNCHANGED <<calls, manifest, files, shared, reused>>

\* os.replace may fail, and does on a directory another service has put there
\* meanwhile: the old index is gone by then.
ReplaceIndex(s) ==
  /\ ServiceAt(s, "replace")
  /\ \/ Raise(s) /\ UNCHANGED <<disk, memory, unfinished>>
     \/ /\ disk = NoIndex
        /\ disk' = docCall[s].rows
        /\ memory' = [memory EXCEPT ![s] = docCall[s].rows]
        /\ Indexed(s)
  /\ UNCHANGED <<calls, manifest, files, shared, reused>>

\* Mutant of NewManifest: the entry is appended to the manifest of now, the
\* superseded versions are forgotten.
OnlyAppended(s) == Append(manifest, Last(docCall[s].docs))

NewManifest(s) == docCall[s].docs

\* If the manifest cannot be written, the index that lists the document is already
\* in place, and stays.
SaveManifest(s) ==
  /\ ServiceAt(s, "save")
  /\ \/ manifest' = NewManifest(s) /\ ServiceEnds(s) /\ unfinished' = FALSE
     \/ Raise(s) /\ UNCHANGED <<manifest, unfinished>>
  /\ UNCHANGED <<calls, files, disk, memory, shared, reused>>

\* The file of the refused document, and of its namesake.
UnlinkSource(s) ==
  /\ ServiceAt(s, "unlink")
  /\ files' = [files EXCEPT ![NameOf(Last(docCall[s].docs))] = Missing]
  /\ ServiceEnds(s)
  /\ UNCHANGED <<calls, manifest, disk, memory, shared, unfinished, reused>>

(* search: the index of the service, loaded once.                          *)
Search(s) ==
  /\ docCall[s] = IdleCall /\ memory[s] = NoIndex /\ disk # NoIndex
  /\ memory' = [memory EXCEPT ![s] = disk]
  /\ UNCHANGED <<calls, manifest, files, disk, docCall, shared, unfinished, reused>>

(* The process stops, and starts again with nothing in memory.             *)
StopProcess ==
  /\ memory' = [s \in Services |-> NoIndex]
  /\ docCall' = [s \in Services |-> IdleCall]
  /\ UNCHANGED <<calls, manifest, files, disk, shared, unfinished, reused>>

RunCall(s) ==
  \/ WriteSource(s) \/ Collect(s) \/ RemoveIndex(s) \/ ReplaceIndex(s) \/ SaveManifest(s)
  \/ UnlinkSource(s)

DocsNext ==
  \/ \E s \in Services : \/ \E e \in Entry : BeginIngest(s, e)
                         \/ BeginRebuild(s) \/ RunCall(s) \/ Search(s)
  \/ StopProcess

DocsSpec == DocsInit /\ [][DocsNext]_docVars

----------------------------------------------------------------------------
DocsTypeOK ==
  /\ manifest \in Seq(Entry)
  /\ files \in [Names -> Contents \cup {Missing}]
  /\ disk \in Index /\ memory \in [Services -> Index]
  /\ docCall \in [Services ->
       [op : {"none", "ingest", "rebuild"},
        at : {"idle", "write", "collect", "remove", "replace", "save", "unlink"},
        docs : Seq(Entry), rows : SUBSET IndexRow]]
  /\ calls \in 0..MaxCalls /\ {shared, unfinished, reused} \subseteq BOOLEAN

(* docs/enterprise-stage3-4-llamaindex-document-rag.md:228 (no superseded  *)
(* version among current ones): of a document at most one version is       *)
(* current, however two services of the project overwrite each other.      *)
OneCurrent(entries) ==
  \A x, y \in entries : x.current /\ y.current /\ x.doc = y.doc => x = y

OneCurrentVersion ==
  /\ OneCurrent(Registered)
  /\ \A i \in {disk} \cup Range(memory) : OneCurrent(i)

(* service.py:186-191, 279-318: whatever fails and wherever the process     *)
(* stops, the index holds what the manifest lists, unless the last call    *)
(* that began to replace it did not complete; the next one that does       *)
(* repairs it.  (Only if no two services were busy at once and no source   *)
(* file was used twice.)                                                   *)
IndexIsManifest ==
  ~shared /\ ~reused /\ ~unfinished =>
     disk = {[doc |-> e.doc, version |-> e.version, current |-> e.current, text |-> e.sha] :
               e \in Registered}

(* docs/enterprise-stage3-4-llamaindex-document-rag.md:77 (an earlier      *)
(* version is marked, not deleted) and :55 (a PDF without text fails to    *)
(* register): a document that was registered keeps its source.             *)
DocumentsKept == \A e \in Registered : files[NameOf(e)] # Missing
============================================================================
