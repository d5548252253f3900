------------------------- MODULE MCProjectLifecycle -------------------------
\* Instances of ProjectLifecycle.  A run of LifecycleSpec is of one of two
\* kinds: a single client with all uploads and schema labels and with mappings that
\* carry any of them as their source_version, or all clients, overlapping, with
\* stops of the process, smaller bounds and mappings without one of their own.
EXTENDS ProjectLifecycle

CONSTANTS LoneClient,        \* the client that works alone
          SharedUploads,     \* bound on the uploads of overlapping clients
          SharedSchemas      \* bound on the schema labels they use

ASSUME LoneAssumption == LoneClient \in Clients

VARIABLE alone               \* whether LoneClient is the only one

LifecycleInit == Init /\ alone \in BOOLEAN

LifecycleNext ==
  /\ UNCHANGED alone
  /\ \/ alone /\ (Evaluate \/ ClientStep(LoneClient))
     \/ /\ ~alone /\ Next
        /\ uploads' <= SharedUploads
        /\ \A c \in Clients : /\ req'[c].upload <= SharedUploads
                              /\ req'[c].schema \in SharedSchemas \cup {NoSchema}
                              /\ req'[c].label \in {None, req'[c].upload}

LifecycleSpec == LifecycleInit /\ [][LifecycleNext]_<<vars, alone>>

\* main.py:795-1045: with requests one at a time, a project answers from the
\* upload its approved mapping was made for, loaded and verified, and the source
\* version it shows is the one that mapping carries: that of the upload, unless
\* the client gave the mapping another (mapping/workspace.py:516).  (Two requests
\* that overlap: run lifecycle_stale_graph.)
ServedAlone ==
  alone /\ CanQuery => /\ graph = mapping.source /\ integrity = graph
                       /\ mapping.label = SourceVersion
============================================================================
