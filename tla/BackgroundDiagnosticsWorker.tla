-------------------- MODULE BackgroundDiagnosticsWorker --------------------
(***************************************************************************)
(* The background diagnostics worker of the language server: one thread    *)
(* that takes the latest scheduled job, waits out a debounce, rebuilds a   *)
(* private semantic workspace from the job's snapshot of the sources and   *)
(* publishes the diagnostics of every open document, unless a newer job or *)
(* stop() supersedes it.  Source: src/server/BackgroundDiagnosticsWorker.  *)
(*                                                                         *)
(* Two threads take part: the owner (the dispatcher thread, which calls    *)
(* schedule() and stop()) and the worker (loop()).  One action is one      *)
(* critical section of mutex_, or one step between two of them.  The       *)
(* condition variable is modelled by `waiting': a worker blocked in        *)
(* cv_.wait runs again only after a notification.                          *)
(***************************************************************************)
EXTENDS Naturals

CONSTANTS Document,      \* URIs of the documents an editor may open
          Path,          \* indexed source files that are not open
          JobRequest,    \* the jobs a caller may schedule
          NoJob,         \* an empty pending_job_ or no job taken yet
          MaxSchedules,  \* bound on the calls of schedule()
          EarlyStart     \* may the thread run before the members after
                         \* thread_ are initialised?

Request == [semantic_generation : Nat,
            allow_cold_snapshot_build : BOOLEAN,
            workspace_had_fresh_snapshot : BOOLEAN,
            indexed_source_paths : SUBSET Path,
            open_documents : [Document -> Nat \X Nat]]

\* A document is a pair <<version, text>>, and Closed when the editor has none.
Closed == <<0, 0>>
OpenIn(documents) == {d \in Document : documents[d] # Closed}

\* A scheduled job is its request plus the generation schedule() gives it.
Job == [request_generation : Nat, request : JobRequest]

ASSUME RequestAssumption == JobRequest \subseteq Request
ASSUME NoJobAssumption == NoJob \notin Job
ASSUME BoundAssumption == MaxSchedules \in Nat /\ EarlyStart \in BOOLEAN

VARIABLES
  constructed,         \* has the constructor initialised every member?
  owner,               \* where the owner is inside schedule() or stop()
  stop_requested,      \* stop_requested_
  request_generation,  \* request_generation_
  active,              \* generation of the job active_cancellation_ belongs to
  cancelled,           \* generations whose cancellation token is set
  pending_job,         \* pending_job_
  state,               \* state_.state
  pc,                  \* where the worker is inside loop()
  waiting,             \* worker blocked in cv_.wait
  job,                 \* loop()'s local job
  todo,                \* what the current for-loop has still to visit
  uri,                 \* the document the diagnostics loop is at
  published            \* history of the calls of publish_

requests == <<stop_requested, request_generation, active, cancelled>>
vars == <<constructed, owner, requests, pending_job, state, pc, waiting, job,
          todo, uri, published>>

StateKind == {"Idle", "Pending", "Running", "Cancelled", "StaleSkipped",
              "ClosedSkipped", "Published", "Failed"}

\* The states in which the worker holds no job: before taking one, and gone.
Unoccupied == {"take", "exited"}

Control == Unoccupied \cup
  {"debounce", "cancel_before_build", "current_before_build", "cold_gate",
   "index", "update_path", "current_during_index", "current_after_index",
   "begin_open", "open_documents", "update_document", "current_during_open",
   "diagnostics", "announce", "current_before_publish", "compute",
   "cancel_after_compute", "current_after_diagnostics", "should_publish",
   "publish", "delivered", "cancelled", "failed"}

\* The steps that run engine code or callbacks, where an exception may start.
MayThrow == {"cold_gate", "update_path", "update_document", "compute",
             "should_publish", "publish"}

PublicationType ==
  [request_generation : Nat, uri : Document, superseded : BOOLEAN]

TypeOK ==
  /\ constructed \in BOOLEAN
  /\ owner \in {"ready", "notify_schedule", "notify_stop", "join"}
  /\ stop_requested \in BOOLEAN
  /\ request_generation \in Nat
  /\ active \in Nat
  /\ cancelled \subseteq Nat
  /\ pending_job \in Job \cup {NoJob}
  /\ state \in StateKind
  /\ pc \in Control
  /\ waiting \in BOOLEAN
  /\ job \in Job \cup {NoJob}
  /\ todo \subseteq Document \cup Path
  /\ uri \in Document
  /\ published \subseteq PublicationType

Init ==
  /\ constructed \in {TRUE, ~EarlyStart}
  /\ owner = "ready"
  /\ stop_requested = FALSE
  /\ request_generation = 0
  /\ active = 0
  /\ cancelled = {}
  /\ pending_job = NoJob
  /\ state = "Idle"
  /\ pc = "take"
  /\ waiting = FALSE
  /\ job = NoJob
  /\ todo = {}
  /\ uri \in Document
  /\ published = {}

---------------------------------------------------------------------------
(* The owner *)

\* thread_ is declared before the members the loop reads, so they are
\* initialised after the thread has been started.
Construct ==
  /\ ~constructed
  /\ constructed' = TRUE
  /\ UNCHANGED <<owner, requests, pending_job, state, pc, waiting, job, todo,
                 uri, published>>

NextGeneration == request_generation + 1

Supersede == cancelled' = cancelled \cup {active}

\* Bug: a job that still waits is kept.
EnqueueIfEmpty(request) ==
  pending_job' = IF pending_job # NoJob THEN pending_job ELSE
    [request_generation |-> NextGeneration, request |-> request]
Enqueue(request) ==
  pending_job' = [request_generation |-> NextGeneration, request |-> request]

\* schedule(): after stop() it returns at once, a stuttering step.
Schedule(request) ==
  /\ constructed
  /\ owner = "ready"
  /\ ~stop_requested
  /\ request_generation < MaxSchedules
  /\ Supersede
  /\ active' = NextGeneration
  /\ request_generation' = NextGeneration
  /\ state' = "Pending"
  /\ Enqueue(request)
  /\ owner' = "notify_schedule"
  /\ UNCHANGED <<constructed, stop_requested, pc, waiting, job, todo, uri,
                 published>>

\* Bug: what stop() drops is still reported.  Bug: the slot keeps its job.
DropJobOnly == pending_job' = NoJob /\ UNCHANGED state
DropStateOnly == state' = "Idle" /\ UNCHANGED pending_job
DropJob == pending_job' = NoJob /\ state' = "Idle"

\* stop(): called by shutdown, by exit and by the destructors, so it can be
\* called again; the bound on the generation bounds the repetitions.
Stop ==
  /\ constructed
  /\ owner = "ready"
  /\ stop_requested => request_generation < MaxSchedules + 2
  /\ stop_requested' = TRUE
  /\ Supersede
  /\ DropJob
  /\ request_generation' = NextGeneration
  /\ owner' = "notify_stop"
  /\ UNCHANGED <<constructed, active, pc, waiting, job, todo, uri, published>>

\* Bugs: one of the two calls does not notify.
WakeForStopOnly == waiting' = (waiting /\ owner # "notify_stop")
WakeForScheduleOnly == waiting' = (waiting /\ owner # "notify_schedule")
Wake == waiting' = FALSE

\* cv_.notify_one() after the unlock: the worker is the only waiter.
Notify ==
  /\ owner \in {"notify_schedule", "notify_stop"}
  /\ Wake
  /\ owner' = IF owner = "notify_stop" THEN "join" ELSE "ready"
  /\ UNCHANGED <<constructed, requests, pending_job, state, pc, job, todo, uri,
                 published>>

\* thread_.join() returns once the loop has.
Join ==
  /\ owner = "join"
  /\ pc = "exited"
  /\ owner' = "ready"
  /\ UNCHANGED <<constructed, requests, pending_job, state, pc, waiting, job,
                 todo, uri, published>>

---------------------------------------------------------------------------
(* The worker *)

IsCurrentJob(generation) ==
  ~stop_requested /\ generation = request_generation

\* token.throwIfCancellationRequested(), read without mutex_.
ThrowIfCancelled(here, next) ==
  /\ pc = here
  /\ pc' = IF job.request_generation \in cancelled THEN "cancelled" ELSE next

\* isCurrentJob(), and what the loop does when it returns false.
ContinueIfCurrent(here, next) ==
  /\ pc = here
  /\ IF IsCurrentJob(job.request_generation)
       THEN pc' = next /\ UNCHANGED state
       ELSE pc' = "take" /\ state' = "StaleSkipped"

\* The members this step reads hold whatever the allocation left there: the
\* loop may find stop_requested_ set and return, or wait.  (A garbage
\* pending_job_ would crash the process; nothing follows that.)
TakeBeforeConstruction ==
  /\ ~constructed
  /\ pc = "take"
  /\ ~waiting
  /\ \/ pc' = "exited" /\ UNCHANGED waiting
     \/ waiting' = TRUE /\ UNCHANGED pc
  /\ UNCHANGED <<constructed, owner, requests, pending_job, state, job, todo,
                 uri, published>>

\* Waiting for a job evaluates the predicate and, when it is false, blocks.
Take ==
  /\ constructed
  /\ pc = "take"
  /\ ~waiting
  /\ \/ /\ stop_requested
        /\ pc' = "exited"
        /\ UNCHANGED <<pending_job, state, waiting, job>>
     \/ /\ ~stop_requested
        /\ pending_job # NoJob
        /\ job' = pending_job
        /\ pending_job' = NoJob
        /\ state' = "Running"
        /\ pc' = "debounce"
        /\ UNCHANGED waiting
     \/ /\ ~stop_requested
        /\ pending_job = NoJob
        /\ waiting' = TRUE
        /\ UNCHANGED <<pending_job, state, pc, job>>
  /\ UNCHANGED <<constructed, owner, requests, todo, uri, published>>

\* Bug: a newer job starts the debounce again instead of ending it.
DebounceAgain ==
  /\ pc = "debounce"
  /\ pc' = IF stop_requested THEN "exited"
           ELSE IF pending_job # NoJob THEN "debounce" ELSE "cancel_before_build"
  /\ UNCHANGED <<constructed, owner, requests, pending_job, state, waiting,
                 job, todo, uri, published>>

\* The debounce ends on its timeout, on a newer job or on stop().
Debounce ==
  /\ pc = "debounce"
  /\ pc' = IF stop_requested THEN "exited" ELSE "cancel_before_build"
  /\ UNCHANGED <<constructed, owner, requests, pending_job, state, waiting,
                 job, todo, uri, published>>

\* Every place where loop() polls the cancellation token.
PollCancellation ==
  /\ \/ ThrowIfCancelled("cancel_before_build", "current_before_build")
     \/ todo # {} /\ ThrowIfCancelled("index", "update_path")
     \/ todo # {} /\ ThrowIfCancelled("open_documents", "update_document")
     \/ todo # {} /\ ThrowIfCancelled("diagnostics", "announce")
     \/ ThrowIfCancelled("cancel_after_compute", "current_after_diagnostics")
  /\ UNCHANGED <<constructed, owner, requests, pending_job, state, waiting,
                 job, todo, uri, published>>

\* Every place where loop() asks isCurrentJob().
CheckCurrent ==
  /\ \/ ContinueIfCurrent("current_before_build", "cold_gate")
     \/ ContinueIfCurrent("current_during_index", "index")
     \/ ContinueIfCurrent("current_after_index", "begin_open")
     \/ ContinueIfCurrent("current_during_open", "open_documents")
     \/ ContinueIfCurrent("current_before_publish", "compute")
     \/ ContinueIfCurrent("current_after_diagnostics", "should_publish")
  /\ UNCHANGED <<constructed, owner, requests, pending_job, waiting, job, todo,
                 uri, published>>

\* A cold large workspace is skipped when the job says so; otherwise the
\* private workspace is configured and the indexed sources come next.
BeginBuild ==
  /\ pc = "cold_gate"
  /\ IF ~job.request.allow_cold_snapshot_build
        /\ ~job.request.workspace_had_fresh_snapshot
       THEN /\ state' = "StaleSkipped"
            /\ pc' = "take"
            /\ UNCHANGED todo
       ELSE /\ state' = "Running"
            /\ pc' = "index"
            /\ todo' = job.request.indexed_source_paths
  /\ UNCHANGED <<constructed, owner, requests, pending_job, waiting, job, uri,
                 published>>

\* Loads one source file, or one open document, into the private workspace.
LoadDocument ==
  /\ \/ pc = "update_path" /\ pc' = "current_during_index"
     \/ pc = "update_document" /\ pc' = "current_during_open"
  /\ \E item \in todo : todo' = todo \ {item}
  /\ UNCHANGED <<constructed, owner, requests, pending_job, state, waiting,
                 job, uri, published>>

EndIndex ==
  /\ pc = "index"
  /\ todo = {}
  /\ pc' = "current_after_index"
  /\ UNCHANGED <<constructed, owner, requests, pending_job, state, waiting,
                 job, todo, uri, published>>

BeginOpenDocuments ==
  /\ pc = "begin_open"
  /\ state' = "Running"
  /\ pc' = "open_documents"
  /\ todo' = OpenIn(job.request.open_documents)
  /\ UNCHANGED <<constructed, owner, requests, pending_job, waiting, job, uri,
                 published>>

BeginDiagnostics ==
  /\ pc = "open_documents"
  /\ todo = {}
  /\ pc' = "diagnostics"
  /\ todo' = OpenIn(job.request.open_documents)
  /\ UNCHANGED <<constructed, owner, requests, pending_job, state, waiting,
                 job, uri, published>>

\* setState(Running, "diagnostics", uri) for the next document.
Announce ==
  /\ pc = "announce"
  /\ uri' \in todo \cap Document
  /\ todo' = todo \ {uri'}
  /\ state' = "Running"
  /\ pc' = "current_before_publish"
  /\ UNCHANGED <<constructed, owner, requests, pending_job, waiting, job,
                 published>>

\* engineDiagnosticsFor(), which polls the token while it builds a snapshot.
Compute ==
  /\ pc = "compute"
  /\ \/ pc' = "cancel_after_compute"
     \/ job.request_generation \in cancelled /\ pc' = "cancelled"
  /\ UNCHANGED <<constructed, owner, requests, pending_job, state, waiting,
                 job, todo, uri, published>>

\* should_publish_ answered: a refusal ends this document only.
ShouldPublish(decision) ==
  /\ pc = "should_publish"
  /\ \/ /\ decision = "publish"
        /\ pc' = "publish"
        /\ UNCHANGED state
     \/ /\ decision \in {"ClosedSkipped", "StaleSkipped"}
        /\ pc' = "diagnostics"
        /\ state' = decision
  /\ UNCHANGED <<constructed, owner, requests, pending_job, waiting, job, todo,
                 uri, published>>

Publication(d) ==
  [request_generation |-> job.request_generation, uri |-> d,
   superseded |-> ~IsCurrentJob(job.request_generation)]

\* Bug: the documents still to do are published without being checked.
RecordAll == published' = published \cup {Publication(d) : d \in {uri} \cup todo}
Record == published' = published \cup {Publication(uri)}

\* publish_ runs without mutex_: a newer job may have been scheduled by now.
Publish ==
  /\ pc = "publish"
  /\ pc' = "delivered"
  /\ Record
  /\ UNCHANGED <<constructed, owner, requests, pending_job, state, waiting,
                 job, todo, uri>>

SetPublished ==
  /\ pc = "delivered"
  /\ state' = "Published"
  /\ pc' = "diagnostics"
  /\ UNCHANGED <<constructed, owner, requests, pending_job, waiting, job, todo,
                 uri, published>>

EndDiagnostics ==
  /\ pc = "diagnostics"
  /\ todo = {}
  /\ state' = IF OpenIn(job.request.open_documents) = {} THEN "Idle" ELSE state
  /\ pc' = "take"
  /\ UNCHANGED <<constructed, owner, requests, pending_job, waiting, job, todo,
                 uri, published>>

Throw ==
  /\ pc \in MayThrow
  /\ pc' = "failed"
  /\ UNCHANGED <<constructed, owner, requests, pending_job, state, waiting,
                 job, todo, uri, published>>

\* The catch clauses around one iteration of the loop.
Catch ==
  /\ pc \in {"cancelled", "failed"}
  /\ state' = IF pc = "cancelled" THEN "Cancelled" ELSE "Failed"
  /\ pc' = "take"
  /\ UNCHANGED <<constructed, owner, requests, pending_job, waiting, job, todo,
                 uri, published>>

---------------------------------------------------------------------------
OwnerReturns == Construct \/ Notify \/ Join

\* What the worker does by itself, up to the answer of should_publish_.
Advance ==
  \/ TakeBeforeConstruction
  \/ Take
  \/ Debounce
  \/ PollCancellation
  \/ CheckCurrent
  \/ BeginBuild
  \/ LoadDocument
  \/ EndIndex
  \/ BeginOpenDocuments
  \/ BeginDiagnostics
  \/ Announce
  \/ Compute
  \/ SetPublished
  \/ EndDiagnostics
  \/ Throw
  \/ Catch

Decide == \E d \in {"publish", "ClosedSkipped", "StaleSkipped"} : ShouldPublish(d)

Worker == Advance \/ Decide \/ Publish

\* stop() has returned: nothing more happens unless it is called again.
Stopped ==
  /\ stop_requested
  /\ owner = "ready"
  /\ pc = "exited"
  /\ UNCHANGED vars

Next ==
  \/ \E request \in JobRequest : Schedule(request)
  \/ Stop
  \/ OwnerReturns
  \/ Worker
  \/ Stopped

\* The threads are scheduled by the operating system, the debounce is timed and
\* engine calls return; nobody promises that a job is scheduled or stop called.
Fairness == WF_vars(OwnerReturns) /\ WF_vars(Worker)

Spec == Init /\ [][Next]_vars /\ Fairness

---------------------------------------------------------------------------
(* Properties *)

Active == pc \notin Unoccupied

\* isIdleLocked(), the predicate of waitUntilIdle().
Idle == pending_job = NoJob /\ state \notin {"Pending", "Running"}

\* A job's token is set exactly when the job is no longer the current one: the
\* lock-free poll and isCurrentJob() never disagree for good, and schedule()
\* never hands out a token that is already cancelled.
TokenMeansSuperseded ==
  /\ pending_job # NoJob =>
       /\ pending_job.request_generation \notin cancelled
       /\ IsCurrentJob(pending_job.request_generation)
  /\ Active =>
       (job.request_generation \in cancelled
          <=> ~IsCurrentJob(job.request_generation))

\* What the state callers see is backed by work: Pending has a pending job, and
\* a loop at rest does not report Running, so waitUntilIdle() cannot hang.
ReportedWorkExists ==
  /\ state = "Pending" => pending_job # NoJob
  /\ state = "Running" => Active
  /\ waiting /\ owner # "notify_schedule" /\ owner # "notify_stop"
       => pending_job = NoJob /\ ~stop_requested

\* Between the last isCurrentJob() and publish_ a newer job can slip in, but
\* once: a superseded job publishes at most one document more.
AtMostOneLatePublication ==
  \A p, q \in published :
    p.superseded /\ q.superseded
      /\ p.request_generation = q.request_generation => p = q

\* A publication never follows one of a later job: jobs are served in order,
\* and one that was superseded before it was taken is never served.
PublicationsInOrder ==
  [][\A p \in published' \ published :
       \A q \in published : q.request_generation <= p.request_generation]_vars

\* A job starts only if it is the newest when it starts.
OnlyNewestStarts ==
  [][job' # job => /\ job'.request_generation = request_generation
                   /\ job # NoJob => job'.request_generation
                                       > job.request_generation]_vars

\* stop() returns: the notification and the flags get the loop out of the
\* condition variable, of the debounce and of a job in progress.
StopReturns == (owner = "notify_stop") ~> (owner = "ready" /\ pc = "exited")

---------------------------------------------------------------------------
(* The worker implements a one-slot request box. *)

Box == INSTANCE LatestRequestWins WITH
  latest  <- request_generation,
  slot    <- IF pending_job = NoJob THEN {}
             ELSE {pending_job.request_generation},
  serving <- IF Active THEN {job.request_generation} ELSE {},
  closed  <- stop_requested

\* The safety of the box: requests replace one another, are served one at a
\* time and in order, and stop() empties the slot.
ImplementsBox == Box!SafeSpec

\* The fairness of the box, for a worker that was constructed in order: what is
\* in the slot is served or replaced, and what is served ends.
ImplementsFairness == constructed => Box!Fairness
============================================================================
