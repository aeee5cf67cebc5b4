------------------------- MODULE SessionDiagnostics -------------------------
(***************************************************************************)
(* The server session in push mode (a client without pull diagnostics)     *)
(* composed with its background diagnostics worker: the document           *)
(* notifications, the syntax-first fast path of large workspaces, the      *)
(* worker's should-publish and publish callbacks, and what the client      *)
(* shows.  Source: src/server/ServerSession.cpp.                           *)
(*                                                                         *)
(* The dispatcher thread runs the handlers and is the worker's owner.  A   *)
(* handler is split where it releases a mutex, so the worker's callbacks,  *)
(* which take semantic_mutex_ and then state_mutex_, fall in between.      *)
(* The client shows the last publishDiagnostics it was sent per document;  *)
(* notifications are written under one lock, so `shown' is updated when    *)
(* the notification is written.                                            *)
(***************************************************************************)
EXTENDS BackgroundDiagnosticsWorker

CONSTANTS SyntaxFirst,  \* may the workspace be above (TRUE), below (FALSE)
                        \* the document threshold of the fast path?
          MaxEdits      \* bound on the texts the client sends

ASSUME SessionAssumption == SyntaxFirst \in (SUBSET BOOLEAN) \ {{}} /\ MaxEdits \in Nat

VARIABLES
  documents,           \* document_store_: <<version, text>> of every document
  engine_generation,   \* semantic_workspace_.engineGeneration()
  edits,               \* number of texts sent so far; each is a new text
  handler,             \* where the dispatcher is inside a handler
  target,              \* the document that handler is about
  generation_checked,  \* the worker is between the two locks of should_publish_
  shown                \* what the client shows for each document

session == <<documents, engine_generation, edits, handler, target>>
allVars == <<vars, session, generation_checked, shown>>

Nothing == [kind |-> "none", text |-> 0, generation |-> 0]
Syntax(text) == [kind |-> "syntax", text |-> text, generation |-> 0]
Semantic(text, generation) ==
  [kind |-> "semantic", text |-> text, generation |-> generation]

Open == OpenIn(documents)
Version(d) == documents[d][1]
Text(d) == documents[d][2]

SessionInit ==
  /\ Init
  /\ documents = [d \in Document |-> Closed]
  /\ engine_generation = 0
  /\ edits = 0
  /\ handler = "idle"
  /\ target \in Document
  /\ generation_checked = FALSE
  /\ shown = [d \in Document |-> Nothing]

---------------------------------------------------------------------------
(* The handlers *)

\* The client sends a notification when the last one is handled (the queue is
\* FIFO) and none after shutdown.  Every handler raises the generation once:
\* the bound of the generation bounds the handlers, and so the jobs.
Receives ==
  /\ handler = "idle"
  /\ owner = "ready"
  /\ ~stop_requested
  /\ engine_generation < MaxSchedules

Store(d, document) == documents' = [documents EXCEPT ![d] = document]

\* document_store_.open or applyChanges: a new text under a new version.
StoreText(d, version) ==
  /\ edits < MaxEdits
  /\ edits' = edits + 1
  /\ Store(d, <<version, edits + 1>>)
  /\ target' = d
  /\ handler' = "update"
  /\ UNCHANGED <<vars, engine_generation, generation_checked, shown>>

DidOpen(d) == Receives /\ d \notin Open /\ StoreText(d, 1)

DidChange(d) == Receives /\ d \in Open /\ StoreText(d, Version(d) + 1)

DidSave(d) ==
  /\ Receives
  /\ d \in Open
  /\ target' = d
  /\ handler' = "update"
  /\ UNCHANGED <<vars, documents, engine_generation, edits, generation_checked,
                 shown>>

UpdateSemanticDocument ==
  /\ handler = "update"
  /\ engine_generation' = engine_generation + 1
  /\ handler' = "publish"
  /\ UNCHANGED <<vars, documents, edits, target, generation_checked, shown>>

\* publishDiagnostics(uri): a large workspace, whose snapshot the update has
\* just made stale, gets the parser's diagnostics now and a background job;
\* a small one gets the engine's diagnostics at once.  An exception of the
\* parser or the engine ends the handler; the JSON-RPC dispatcher swallows it.
PublishDiagnostics ==
  /\ handler = "publish"
  /\ \/ /\ TRUE \in SyntaxFirst
        /\ shown' = [shown EXCEPT ![target] = Syntax(Text(target))]
        /\ handler' = "schedule"
     \/ /\ FALSE \in SyntaxFirst
        /\ shown' = [shown EXCEPT ![target] =
                       Semantic(Text(target), engine_generation)]
        /\ handler' = "idle"
     \/ /\ handler' = "idle"
        /\ UNCHANGED shown
  /\ UNCHANGED <<vars, documents, engine_generation, edits, target,
                 generation_checked>>

RequestOver(open_documents) ==
  [semantic_generation |-> engine_generation,
   allow_cold_snapshot_build |-> TRUE,
   workspace_had_fresh_snapshot |-> FALSE,
   indexed_source_paths |-> Path,
   open_documents |-> open_documents]

\* Bug: the job covers the changed document only.
RequestForTarget ==
  RequestOver([d \in Document |-> IF d = target THEN documents[d] ELSE Closed])

\* Only the dispatcher changes the store and the generation, so the snapshots
\* that are taken of each belong together.
RequestForAll == RequestOver(documents)

\* scheduleSemanticDiagnosticsPublish(true).
ScheduleDiagnostics ==
  /\ handler = "schedule"
  /\ Schedule(RequestForAll)
  /\ handler' = "idle"
  /\ UNCHANGED <<documents, engine_generation, edits, target,
                 generation_checked, shown>>

\* didClose clears what the client shows, then closes the document, then
\* restores or removes it in the semantic workspace.  It schedules nothing.
DidClose(d) ==
  /\ Receives
  /\ d \in Open
  /\ shown' = [shown EXCEPT ![d] = Nothing]
  /\ target' = d
  /\ handler' = "close"
  /\ UNCHANGED <<vars, documents, engine_generation, edits, generation_checked>>

CloseDocument ==
  /\ handler = "close"
  /\ Store(target, Closed)
  /\ handler' = "restore"
  /\ UNCHANGED <<vars, engine_generation, edits, target, generation_checked,
                 shown>>

RestoreClosedDocument ==
  /\ handler = "restore"
  /\ engine_generation' = engine_generation + 1
  /\ handler' = "idle"
  /\ UNCHANGED <<vars, documents, edits, target, generation_checked, shown>>

\* didChangeWatchedFiles for a source file, whether it was created, changed or
\* deleted: the semantic workspace changes, nothing is published in push mode.
DidChangeWatchedFiles ==
  /\ Receives
  /\ engine_generation' = engine_generation + 1
  /\ UNCHANGED <<vars, documents, edits, handler, target, generation_checked,
                 shown>>

\* The shutdown request, the exit notification and the destructor.
Shutdown ==
  /\ handler = "idle"
  /\ Stop
  /\ UNCHANGED <<session, generation_checked, shown>>

---------------------------------------------------------------------------
(* The worker's callbacks *)

\* should_publish_ first compares the generations under semantic_mutex_ ...
CheckGeneration ==
  /\ pc = "should_publish"
  /\ ~generation_checked
  /\ IF engine_generation = job.request.semantic_generation
       THEN generation_checked' = TRUE /\ UNCHANGED vars
       ELSE ShouldPublish("StaleSkipped") /\ UNCHANGED generation_checked
  /\ UNCHANGED <<session, shown>>

\* Bug: the versions are compared the wrong way round.
IsOpenBefore == uri \in Open /\ Version(uri) < job.request.open_documents[uri][1]
IsOpenUnchanged == uri \in Open /\ Version(uri) = job.request.open_documents[uri][1]

\* ... and then the versions under state_mutex_.
CheckVersion ==
  /\ pc = "should_publish"
  /\ generation_checked
  /\ ShouldPublish(IF IsOpenUnchanged THEN "publish" ELSE "ClosedSkipped")
  /\ generation_checked' = FALSE
  /\ UNCHANGED <<session, shown>>

\* publish_ sends what the job computed, without looking at the store again.
PublishBackground ==
  /\ Publish
  /\ shown' = [shown EXCEPT ![uri] =
                 Semantic(job.request.open_documents[uri][2],
                          job.request.semantic_generation)]
  /\ UNCHANGED <<session, generation_checked>>

---------------------------------------------------------------------------
Handler ==
  \/ UpdateSemanticDocument
  \/ PublishDiagnostics
  \/ ScheduleDiagnostics
  \/ CloseDocument
  \/ RestoreClosedDocument
  \/ OwnerReturns /\ UNCHANGED <<session, generation_checked, shown>>

BackgroundWorker ==
  \/ Advance /\ generation_checked' = FALSE /\ UNCHANGED <<session, shown>>
  \/ CheckGeneration
  \/ CheckVersion
  \/ PublishBackground

Client ==
  \/ \E d \in Document : DidOpen(d) \/ DidChange(d) \/ DidSave(d) \/ DidClose(d)
  \/ DidChangeWatchedFiles
  \/ Shutdown

SessionNext ==
  \/ Client
  \/ Handler
  \/ BackgroundWorker
  \/ Stopped /\ UNCHANGED <<session, generation_checked, shown>>

\* A started handler and the worker go on; the client need not do anything.
SessionSpec ==
  /\ SessionInit
  /\ [][SessionNext]_allVars
  /\ WF_allVars(Handler)
  /\ WF_allVars(BackgroundWorker)

\* The jobs the session can schedule: JobRequest is this set.
SessionJobRequest ==
  [semantic_generation : 0..MaxSchedules,
   allow_cold_snapshot_build : {TRUE},
   workspace_had_fresh_snapshot : {FALSE},
   indexed_source_paths : {Path},
   open_documents :
     [Document -> {Closed} \cup ((1..MaxEdits) \X (1..MaxEdits))]]

ASSUME JobsAssumption == JobRequest = SessionJobRequest

---------------------------------------------------------------------------
(* Properties *)

\* Nothing is under way: neither thread will move unless the client does.
Quiescent ==
  /\ handler = "idle"
  /\ owner = "ready"
  /\ pc = "take"
  /\ waiting

ShowsCurrent(d) == shown[d] = Semantic(Text(d), engine_generation)

\* When everything is at rest and the job last served was taken from the
\* present state of the workspace, every open document shows the engine's
\* diagnostics of its present text, whatever was superseded, skipped or
\* overwritten on the way.
LastJobLeavesCurrentDiagnostics ==
  Quiescent /\ ~stop_requested /\ state # "Failed" /\ job # NoJob
    /\ job.request.semantic_generation = engine_generation
    => \A d \in Open : ShowsCurrent(d)

\* The fast path is completed: a job scheduled for the present workspace leads
\* to the engine's diagnostics of every open document, unless the workspace
\* changes again, the session is shut down or the build throws.
SemanticFollowsSyntax ==
  \A g \in 1..MaxSchedules :
    (/\ pending_job # NoJob
     /\ pending_job.request.semantic_generation = g
     /\ engine_generation = g)
      ~> \/ \A d \in Open : ShowsCurrent(d)
         \/ engine_generation # g
         \/ stop_requested
         \/ state = "Failed" /\ job.request.semantic_generation = g

\* "ServerSession drops background diagnostics after document closes"
\* (tests/unit/ServerLifecycleTests.cpp): at rest, a closed document shows none.
ClosedShowsNothing ==
  Quiescent => \A d \in Document \ Open : shown[d] = Nothing

============================================================================
