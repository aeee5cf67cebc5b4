---------------------- MODULE SessionDiagnosticsProofs ----------------------
(***************************************************************************)
(* Proofs about the background diagnostics worker, for every set of        *)
(* documents, source files and jobs, every number of schedule() calls and  *)
(* both orders of construction; and about the server session composed with *)
(* it: the last job leaves what the client shows current, for every set of *)
(* documents and any number of edits and jobs.                             *)
(***************************************************************************)
EXTENDS SessionDiagnostics, TLAPS

-----------------------------------------------------------------------------
(* The worker                                                              *)

\* The parts of the actions that have a name are expanded everywhere.
USE DEF NextGeneration, Supersede, Enqueue, DropJob, Wake, Publication, Record

(* The inductive invariant, in named parts.                                 *)

\* Tokens: those of every generation before the active one are set, and the
\* active one as well once stop() was called.
Tokens ==
  /\ active <= request_generation
  /\ stop_requested => active < request_generation
  /\ ~stop_requested => active = request_generation
  /\ \A g \in Nat :
       g \in cancelled <=> (g < active \/ (stop_requested /\ g = active))

\* Jobs: the pending one is the active one, the worker's is no newer.
Jobs ==
  /\ pending_job # NoJob =>
       pending_job.request_generation = active /\ ~stop_requested
  /\ job # NoJob => job.request_generation <= active
  /\ job # NoJob /\ pending_job # NoJob =>
       job.request_generation < pending_job.request_generation
  /\ Active => job # NoJob

\* Construction: nothing can be asked of the worker before it is over.
Built == ~constructed => owner = "ready" /\ pending_job = NoJob /\ ~stop_requested

\* Blocked: a blocked worker has nothing to do, or is about to be notified.
Blocked ==
  /\ waiting => pc = "take"
  /\ waiting /\ owner \in {"ready", "join"}
       => pending_job = NoJob /\ ~stop_requested
  /\ owner \in {"notify_stop", "join"} => stop_requested

\* Reported: which states the loop can leave behind.
Reported ==
  /\ state = "Pending" => pending_job # NoJob
  /\ state = "Running" => Active
  /\ pc = "debounce" /\ stop_requested => state # "Running"
  /\ pc = "diagnostics" /\ todo = {} /\ state = "Running"
       => OpenIn(job.request.open_documents) = {}

\* Late: a job that has published while superseded can only poll its token.
Late(g) == \E p \in published : p.superseded /\ p.request_generation = g

History ==
  /\ \A p \in published : /\ job # NoJob
                          /\ p.request_generation <= job.request_generation
  /\ Active /\ Late(job.request_generation) =>
       /\ job.request_generation \in cancelled
       /\ pc \in {"delivered", "diagnostics", "cancelled"}

IInv ==
  /\ TypeOK
  /\ Tokens
  /\ Jobs
  /\ Built
  /\ Blocked
  /\ Reported
  /\ History
  /\ AtMostOneLatePublication

---------------------------------------------------------------------------
LEMMA InitInv == Init => IInv
<1> SUFFICES ASSUME Init PROVE IInv
  OBVIOUS
<1> USE DEF Init
<1>1. constructed \in BOOLEAN
  BY BoundAssumption
<1>2. TypeOK
  BY <1>1 DEF TypeOK, Control, Unoccupied, StateKind
<1>3. Tokens
  BY DEF Tokens
<1>4. Jobs /\ Built /\ Blocked
  BY DEF Jobs, Built, Blocked, Active, Unoccupied
<1>5. Reported
  BY DEF Reported
<1>6. History /\ AtMostOneLatePublication
  BY DEF History, Late, AtMostOneLatePublication
<1> QED
  BY <1>2, <1>3, <1>4, <1>5, <1>6 DEF IInv

---------------------------------------------------------------------------
(* What the parts of the system leave alone.                                *)

\* Only schedule() and stop() change the requests, and only they and Take the
\* pending job; only Take changes the worker's own job.
LEMMA Frame ==
  ASSUME Worker \/ OwnerReturns
  PROVE  /\ UNCHANGED requests
         /\ ~Take => UNCHANGED <<pending_job, job>>
         /\ ~Publish => UNCHANGED published
<1> USE DEF requests
<1>1. CASE OwnerReturns
  BY <1>1 DEF OwnerReturns, Construct, Notify, Join
<1>2. CASE Advance
  BY <1>2 DEF Advance, TakeBeforeConstruction, Take, Debounce, PollCancellation,
              CheckCurrent, BeginBuild, LoadDocument, EndIndex,
              BeginOpenDocuments, BeginDiagnostics, Announce, Compute,
              SetPublished, EndDiagnostics, Throw, Catch
<1>3. CASE Decide
  BY <1>3 DEF Decide, ShouldPublish
<1>4. CASE Publish
  BY <1>4 DEF Publish
<1> QED
  BY <1>1, <1>2, <1>3, <1>4 DEF Worker

\* Every other step of the worker continues a job that is in progress.
LEMMA InProgress ==
  ASSUME Worker, ~Take, ~TakeBeforeConstruction
  PROVE  Active /\ UNCHANGED <<constructed, owner, requests, pending_job, job, waiting>>
<1> USE DEF requests, Active, Unoccupied
<1>1. CASE Advance
  BY <1>1 DEF Advance, Debounce, PollCancellation, ThrowIfCancelled,
              CheckCurrent, ContinueIfCurrent, BeginBuild, LoadDocument,
              EndIndex, BeginOpenDocuments, BeginDiagnostics, Announce, Compute,
              SetPublished, EndDiagnostics, Throw, MayThrow, Catch
<1>2. CASE Decide
  BY <1>2 DEF Decide, ShouldPublish
<1>3. CASE Publish
  BY <1>3 DEF Publish
<1> QED
  BY <1>1, <1>2, <1>3 DEF Worker

---------------------------------------------------------------------------
(* Each part of the invariant is preserved.                                 *)

LEMMA TypeStep == IInv /\ [Next]_vars => TypeOK'
<1> SUFFICES ASSUME IInv, [Next]_vars PROVE TypeOK'
  OBVIOUS
<1>0. TypeOK /\ (Active => job \in Job)
  BY DEF IInv, TypeOK, Jobs
<1> USE <1>0
<1>1. ASSUME NEW request \in JobRequest, Schedule(request) PROVE TypeOK'
  BY <1>1 DEF Schedule, Job, TypeOK, StateKind
<1>2. CASE Stop
  BY <1>2 DEF Stop, TypeOK, StateKind
<1>3. CASE OwnerReturns
  <2>1. constructed' \in BOOLEAN /\ waiting' \in BOOLEAN
        /\ owner' \in {"ready", "notify_schedule", "notify_stop", "join"}
    BY <1>3 DEF OwnerReturns, Construct, Notify, Join, TypeOK
  <2> QED
    BY <1>3, <2>1 DEF OwnerReturns, Construct, Notify, Join, TypeOK, requests
<1>4. CASE Advance
  <2> USE DEF requests
  <2>1. CASE TakeBeforeConstruction
    BY <2>1 DEF TakeBeforeConstruction, TypeOK, Control, Unoccupied
  <2>2. CASE Take
    BY <2>2 DEF Take, TypeOK, Control, Unoccupied, StateKind
  <2>3. CASE Debounce
    BY <2>3 DEF Debounce, TypeOK, Control, Unoccupied
  <2>4. CASE PollCancellation
    BY <2>4 DEF PollCancellation, ThrowIfCancelled, TypeOK, Control
  <2>5. CASE CheckCurrent
    BY <2>5 DEF CheckCurrent, ContinueIfCurrent, TypeOK, Control, Unoccupied, StateKind
  <2>6. CASE BeginBuild
    BY <2>6, RequestAssumption
    DEF BeginBuild, TypeOK, Control, Unoccupied, StateKind, Active, Job, Request
  <2>7. CASE LoadDocument
    BY <2>7 DEF LoadDocument, TypeOK, Control
  <2>8. CASE EndIndex \/ Compute \/ Throw
    BY <2>8 DEF EndIndex, Compute, Throw, TypeOK, Control
  <2>11. CASE SetPublished \/ EndDiagnostics \/ Catch
    <3>1. state' \in StateKind /\ pc' \in Control
      BY <2>11 DEF SetPublished, EndDiagnostics, Catch, TypeOK, Control, Unoccupied, StateKind
    <3> QED
      BY <2>11, <3>1 DEF SetPublished, EndDiagnostics, Catch, TypeOK
  <2>9. CASE BeginOpenDocuments \/ BeginDiagnostics
    BY <2>9 DEF BeginOpenDocuments, BeginDiagnostics, OpenIn, TypeOK, Control,
                StateKind
  <2>10. CASE Announce
    BY <2>10 DEF Announce, TypeOK, Control, StateKind
  <2> QED
    BY <1>4, <2>1, <2>2, <2>3, <2>4, <2>5, <2>6, <2>7, <2>8, <2>9, <2>10, <2>11 DEF Advance
<1>5. CASE Decide
  <2>1. state' \in StateKind /\ pc' \in Control
    BY <1>5 DEF Decide, ShouldPublish, TypeOK, Control, StateKind
  <2> QED
    BY <1>5, <2>1 DEF Decide, ShouldPublish, TypeOK, requests
<1>6. CASE Publish
  <2>1. job.request_generation \in Nat /\ uri \in Document
    BY <1>6 DEF Publish, Active, Unoccupied, Job, TypeOK
  <2>2. [request_generation |-> job.request_generation, uri |-> uri,
         superseded |-> ~IsCurrentJob(job.request_generation)] \in PublicationType
    BY <2>1 DEF PublicationType, IsCurrentJob
  <2>3. published' \subseteq PublicationType
    BY <1>6, <2>2 DEF Publish, TypeOK
  <2> QED
    BY <1>6, <2>3 DEF Publish, TypeOK, Control, requests
<1>7. CASE UNCHANGED vars
  BY <1>7 DEF vars, requests, TypeOK
<1> QED
  BY <1>1, <1>2, <1>3, <1>4, <1>5, <1>6, <1>7 DEF Next, Worker, Stopped

LEMMA TokensStep == IInv /\ [Next]_vars => Tokens'
<1> SUFFICES ASSUME IInv, [Next]_vars PROVE Tokens'
  OBVIOUS
<1> USE DEF IInv, TypeOK, Tokens
<1>1. ASSUME NEW request \in JobRequest, Schedule(request) PROVE Tokens'
  BY <1>1 DEF Schedule
<1>2. CASE Stop
  BY <1>2 DEF Stop
<1>3. CASE Worker \/ OwnerReturns
  BY <1>3, Frame DEF requests
<1>4. CASE UNCHANGED vars
  BY <1>4 DEF vars, requests
<1> QED
  BY <1>1, <1>2, <1>3, <1>4 DEF Next, Stopped

LEMMA JobsStep == IInv /\ [Next]_vars => Jobs'
<1> SUFFICES ASSUME IInv, [Next]_vars PROVE Jobs'
  OBVIOUS
<1> USE DEF IInv, Jobs, Job, TypeOK
<1>1. ASSUME NEW request \in JobRequest, Schedule(request) PROVE Jobs'
  <2>1. pending_job'.request_generation = active' /\ ~stop_requested'
        /\ active = request_generation /\ active' = active + 1
    BY <1>1 DEF Schedule, Tokens
  <2>2. job # NoJob => job.request_generation \in Nat
    OBVIOUS
  <2> QED
    BY <1>1, <2>1, <2>2 DEF Schedule, Active
<1>2. CASE Stop
  BY <1>2 DEF Stop, Active
<1>3. CASE OwnerReturns
  BY <1>3 DEF OwnerReturns, Construct, Notify, Join, Active, requests
<1>4. CASE Take
  BY <1>4 DEF Take, Active, Unoccupied, requests
<1>5. CASE TakeBeforeConstruction
  BY <1>5 DEF TakeBeforeConstruction, Active, Unoccupied, requests
<1>6. CASE Worker /\ ~Take /\ ~TakeBeforeConstruction
  BY <1>6, InProgress DEF requests
<1>7. CASE UNCHANGED vars
  BY <1>7 DEF vars, requests, Active
<1> QED
  BY <1>1, <1>2, <1>3, <1>4, <1>5, <1>6, <1>7 DEF Next, Stopped

LEMMA BuiltStep == IInv /\ [Next]_vars => Built' /\ Blocked'
<1> SUFFICES ASSUME IInv, [Next]_vars PROVE Built' /\ Blocked'
  OBVIOUS
<1> USE DEF IInv, Built, Blocked
<1>1. ASSUME NEW request \in JobRequest, Schedule(request) PROVE Built' /\ Blocked'
  BY <1>1 DEF Schedule
<1>2. CASE Stop
  BY <1>2 DEF Stop
<1>3. CASE OwnerReturns
  BY <1>3 DEF OwnerReturns, Construct, Notify, Join, requests
<1>4. CASE Take
  BY <1>4 DEF Take, requests
<1>5. CASE TakeBeforeConstruction
  BY <1>5 DEF TakeBeforeConstruction, requests
<1>6. CASE Worker /\ ~Take /\ ~TakeBeforeConstruction
  BY <1>6, InProgress DEF requests, Active, Unoccupied
<1>7. CASE UNCHANGED vars
  BY <1>7 DEF vars, requests
<1> QED
  BY <1>1, <1>2, <1>3, <1>4, <1>5, <1>6, <1>7 DEF Next, Stopped

LEMMA ReportedStep == IInv /\ [Next]_vars => Reported'
<1> SUFFICES ASSUME IInv, [Next]_vars PROVE Reported'
  OBVIOUS
<1> USE DEF IInv, Reported, Active, Unoccupied
<1>1. ASSUME NEW request \in JobRequest, Schedule(request) PROVE Reported'
  BY <1>1, NoJobAssumption DEF Schedule, Job, TypeOK
<1>2. CASE Stop
  BY <1>2 DEF Stop
<1>3. CASE OwnerReturns
  BY <1>3 DEF OwnerReturns, Construct, Notify, Join, requests
<1>4. CASE Take \/ TakeBeforeConstruction \/ Debounce
  BY <1>4 DEF Take, TakeBeforeConstruction, Debounce, requests
<1>5. CASE PollCancellation \/ CheckCurrent
  BY <1>5 DEF PollCancellation, ThrowIfCancelled, CheckCurrent, ContinueIfCurrent, requests
<1>6. CASE BeginBuild \/ LoadDocument \/ EndIndex
  BY <1>6 DEF BeginBuild, LoadDocument, EndIndex, requests
<1>7. CASE BeginOpenDocuments \/ BeginDiagnostics \/ Announce
  BY <1>7 DEF BeginOpenDocuments, BeginDiagnostics, Announce, requests
<1>8. CASE Compute \/ SetPublished \/ EndDiagnostics
  BY <1>8 DEF Compute, SetPublished, EndDiagnostics, requests
<1>9. CASE Throw \/ Catch
  BY <1>9 DEF Throw, MayThrow, Catch, requests
<1>10. CASE Decide \/ Publish
  BY <1>10 DEF Decide, ShouldPublish, Publish, requests
<1>11. CASE UNCHANGED vars
  BY <1>11 DEF vars, requests
<1> QED
  BY <1>1, <1>2, <1>3, <1>4, <1>5, <1>6, <1>7, <1>8, <1>9, <1>10, <1>11
  DEF Next, Worker, Advance, Stopped

(* A late publication is the last of its job: once it has happened, the     *)
(* token is set, and the only way on is through a poll of the token.        *)
LEMMA HistoryStep ==
  IInv /\ [Next]_vars => History' /\ AtMostOneLatePublication'
<1> SUFFICES ASSUME IInv, [Next]_vars
             PROVE  History' /\ AtMostOneLatePublication'
  OBVIOUS
<1> USE DEF IInv, History, Late, Active, Unoccupied
<1>1. ASSUME NEW request \in JobRequest, Schedule(request)
      PROVE  History' /\ AtMostOneLatePublication'
  BY <1>1 DEF Schedule, AtMostOneLatePublication
<1>2. CASE Stop
  BY <1>2 DEF Stop, AtMostOneLatePublication
<1>3. CASE OwnerReturns
  BY <1>3 DEF OwnerReturns, Construct, Notify, Join, requests, AtMostOneLatePublication
<1>4. CASE Publish
  <2> DEFINE p == [request_generation |-> job.request_generation, uri |-> uri,
                   superseded |-> ~IsCurrentJob(job.request_generation)]
  <2>1. job # NoJob /\ job.request_generation \in Nat
        /\ published \subseteq PublicationType
    BY <1>4 DEF Publish, Jobs, Job, TypeOK
  <2>2. published' = published \cup {p} /\ pc' = "delivered"
        /\ UNCHANGED <<requests, job>>
    BY <1>4 DEF Publish
  <2>3. ~Late(job.request_generation)
    BY <1>4 DEF Publish
  <2>4. ~IsCurrentJob(job.request_generation) => job.request_generation \in cancelled
    BY <2>1 DEF IsCurrentJob, Tokens, Jobs, TypeOK
  <2>5. History'
    <3>1. \A q \in published' : q.request_generation <= job.request_generation
      BY <2>1, <2>2 DEF PublicationType
    <3>2. ASSUME Late(job.request_generation)'
          PROVE  ~IsCurrentJob(job.request_generation)
      <4>1. PICK q \in published' :
              q.superseded /\ q.request_generation = job.request_generation
        BY <2>2, <3>2
      <4>2. q = p
        BY <2>2, <2>3, <4>1
      <4>3. p.superseded = ~IsCurrentJob(job.request_generation)
        OBVIOUS
      <4> QED
        BY <4>1, <4>2, <4>3
    <3> QED
      BY <2>1, <2>2, <2>4, <3>1, <3>2 DEF requests
  <2>6. AtMostOneLatePublication'
    BY <2>2, <2>3 DEF AtMostOneLatePublication
  <2> QED
    BY <2>5, <2>6
<1>5. CASE Take
  <2>1. UNCHANGED <<published, cancelled>>
    BY <1>5 DEF Take, requests
  <2>2. CASE UNCHANGED job /\ pc' \in Unoccupied
    BY <2>1, <2>2 DEF AtMostOneLatePublication
  <2>3. CASE job' = pending_job /\ pending_job # NoJob
    <3>1. \A q \in published : q.request_generation < job'.request_generation
      BY <2>3 DEF Jobs, TypeOK, PublicationType, Job
    <3>2. \A q \in published : q.request_generation <= job'.request_generation
          /\ q.request_generation # job'.request_generation
      BY <2>3, <3>1 DEF TypeOK, PublicationType, Job
    <3> QED
      BY <2>1, <2>3, <3>2 DEF AtMostOneLatePublication
  <2> QED
    BY <1>5, <2>2, <2>3 DEF Take
<1>6. CASE Advance /\ ~Take
  <2>1. UNCHANGED <<published, job, cancelled>>
    BY <1>6, Frame DEF Worker, requests, Advance, Publish, TakeBeforeConstruction,
              Debounce, PollCancellation, CheckCurrent, BeginBuild, LoadDocument,
              EndIndex, BeginOpenDocuments, BeginDiagnostics, Announce, Compute,
              SetPublished, EndDiagnostics, Throw, Catch
  <2>2. Late(job.request_generation) /\ Active /\ pc' \notin Unoccupied =>
          pc' \in {"delivered", "diagnostics", "cancelled"}
    BY <1>6 DEF Advance, TakeBeforeConstruction,
              Debounce, PollCancellation, ThrowIfCancelled, CheckCurrent,
              ContinueIfCurrent, BeginBuild, LoadDocument,
              EndIndex, BeginOpenDocuments, BeginDiagnostics, Announce, Compute,
              SetPublished, EndDiagnostics, Throw, MayThrow, Catch
  <2>3. ~Active => pc' \in Unoccupied
    BY <1>6, InProgress DEF Worker, TakeBeforeConstruction
  <2> QED
    BY <2>1, <2>2, <2>3 DEF AtMostOneLatePublication
<1>7. CASE Decide
  BY <1>7 DEF Decide, ShouldPublish, requests, AtMostOneLatePublication
<1>8. CASE UNCHANGED vars
  BY <1>8 DEF vars, requests, AtMostOneLatePublication
<1> QED
  BY <1>1, <1>2, <1>3, <1>4, <1>5, <1>6, <1>7, <1>8 DEF Next, Worker, Stopped

---------------------------------------------------------------------------
LEMMA Inductive == IInv /\ [Next]_vars => IInv'
  BY TypeStep, TokensStep, JobsStep, BuiltStep, ReportedStep, HistoryStep DEF IInv

LEMMA Invariance == Spec => []IInv
  BY InitInv, Inductive, PTL DEF Spec

\* Every variable keeps its type: the worker (BackgroundDiagnosticsWorker.h)
\* with any number of documents and jobs.
THEOREM TypeCorrect == Spec => []TypeOK
<1>1. IInv => TypeOK
  BY DEF IInv
<1> QED
  BY <1>1, Invariance, PTL

\* The lock-free poll of the token and isCurrentJob() agree on which job is
\* superseded, in every state of schedule(), stop() and loop().
THEOREM TokensCorrect == Spec => []TokenMeansSuperseded
<1>1. IInv => TokenMeansSuperseded
  BY DEF IInv, TokenMeansSuperseded, Tokens, Jobs, TypeOK, Job, IsCurrentJob
<1> QED
  BY <1>1, Invariance, PTL

\* The state waitUntilIdle() and stateSnapshot() read never promises work that
\* is not there, and the worker never sleeps on work (schedule(), loop()).
THEOREM ReportsAreHonest == Spec => []ReportedWorkExists
<1>1. IInv => ReportedWorkExists
  BY DEF IInv, TypeOK, ReportedWorkExists, Reported, Blocked
<1> QED
  BY <1>1, Invariance, PTL

\* A job superseded in the window before publish_ gets at most one document
\* through: the loop polls its token before the next one.
THEOREM OneLatePublication == Spec => []AtMostOneLatePublication
<1>1. IInv => AtMostOneLatePublication
  BY DEF IInv
<1> QED
  BY <1>1, Invariance, PTL

\* loop() publishes in the order of the requests.
THEOREM InOrder == Spec => PublicationsInOrder
<1>1. IInv /\ [Next]_vars =>
        \A p \in published' \ published :
          \A q \in published : q.request_generation <= p.request_generation
  <2> SUFFICES ASSUME IInv, [Next]_vars,
                      NEW p \in published' \ published, NEW q \in published
               PROVE  q.request_generation <= p.request_generation
    OBVIOUS
  <2>1. CASE Publish
    BY <2>1 DEF Publish, IInv, History
  <2>2. CASE ~Publish
    <3>1. UNCHANGED published
      BY <2>2, Frame DEF Next, Schedule, Stop, Stopped, vars
    <3> QED
      BY <3>1
  <2> QED
    BY <2>1, <2>2
<1> QED
  BY <1>1, Invariance, PTL DEF Spec, PublicationsInOrder

\* loop() takes a job only while it is the newest request.
THEOREM NewestStarts == Spec => OnlyNewestStarts
<1>1. IInv /\ [Next]_vars =>
        (job' # job => /\ job'.request_generation = request_generation
                       /\ job # NoJob => job'.request_generation
                                           > job.request_generation)
  <2> SUFFICES ASSUME IInv, [Next]_vars, job' # job
               PROVE  /\ job'.request_generation = request_generation
                      /\ job # NoJob => job'.request_generation
                                          > job.request_generation
    OBVIOUS
  <2>1. Take
    BY Frame DEF Next, Schedule, Stop, Stopped, vars
  <2>2. job' = pending_job /\ pending_job # NoJob
    BY <2>1 DEF Take
  <2> QED
    BY <2>2 DEF IInv, Jobs, Tokens, TypeOK, Job
<1> QED
  BY <1>1, Invariance, PTL DEF Spec, OnlyNewestStarts

---------------------------------------------------------------------------
(* The refinement: initial states map to initial states, and every step to  *)
(* a step of the request box or to a stutter.                               *)

LEMMA RefinesInit == Init => Box!Init
  BY DEF Init, Box!Init, Active, Unoccupied

LEMMA RefinesStep == IInv /\ [Next]_vars => [Box!Next]_Box!vars
<1> SUFFICES ASSUME IInv, [Next]_vars PROVE [Box!Next]_Box!vars
  OBVIOUS
<1> USE DEF Box!Next, Box!vars, Active, Unoccupied
<1>1. ASSUME NEW request \in JobRequest, Schedule(request) PROVE Box!Request
  <2>1. pending_job' # NoJob
    BY <1>1, NoJobAssumption DEF Schedule, Job, IInv, TypeOK
  <2> QED
    BY <1>1, <2>1 DEF Schedule, Box!Request
<1>2. CASE Stop
  BY <1>2 DEF Stop, Box!Close
<1>3. CASE OwnerReturns
  BY <1>3 DEF OwnerReturns, Construct, Notify, Join, requests
<1>4. CASE Take
  <2>1. CASE pending_job # NoJob /\ ~stop_requested
    BY <1>4, <2>1 DEF Take, Box!Serve, requests
  <2>2. CASE ~(pending_job # NoJob /\ ~stop_requested)
    BY <1>4, <2>2 DEF Take, requests
  <2> QED
    BY <2>1, <2>2
<1>5. CASE TakeBeforeConstruction
  BY <1>5 DEF TakeBeforeConstruction, requests
<1>6. CASE Worker /\ ~Take /\ ~TakeBeforeConstruction
  <2>1. Active /\ UNCHANGED <<requests, pending_job, job>>
    BY <1>6, InProgress
  <2>2. CASE Active'
    BY <2>1, <2>2 DEF requests
  <2>3. CASE ~Active'
    BY <2>1, <2>3 DEF Box!Finish, requests
  <2> QED
    BY <2>2, <2>3
<1>7. CASE UNCHANGED vars
  BY <1>7 DEF vars, requests
<1> QED
  BY <1>1, <1>2, <1>3, <1>4, <1>5, <1>6, <1>7 DEF Next, Stopped

\* The worker is a one-slot request box: requests replace one another, are
\* served one at a time and in order, and stop() empties the slot for good.
THEOREM Refinement == Spec => ImplementsBox
  BY RefinesInit, RefinesStep, Invariance, PTL
  DEF Spec, ImplementsBox, Box!SafeSpec

HIDE DEF NextGeneration, Supersede, Enqueue, DropJob, Wake, Publication, Record

-----------------------------------------------------------------------------
(* The session                                                             *)

(* The inductive invariant, in named parts; that of the worker is IInv.    *)

Texts == {Closed} \cup ((1 .. edits) \X (1 .. edits))

SessionTypeOK ==
  /\ edits \in 0 .. MaxEdits
  /\ documents \in [Document -> Texts]
  /\ engine_generation \in 0 .. MaxSchedules
  /\ handler \in {"idle", "update", "publish", "schedule", "close", "restore"}
  /\ target \in Document
  /\ generation_checked \in BOOLEAN
  /\ shown \in [Document -> [kind : {"none", "syntax", "semantic"}, text : Nat, generation : Nat]]

\* A handler that has changed the workspace, or is about to, raises the
\* generation, within its bound; one that has raised it may schedule a job.
Changing == {"update", "close", "restore"}

Past(j) ==
  j # NoJob =>
    /\ j.request.semantic_generation <= engine_generation
    /\ handler \in {"publish", "schedule"} => j.request.semantic_generation < engine_generation

HandlerInv ==
  /\ handler \in Changing => engine_generation < MaxSchedules
  /\ Past(job)
  /\ Past(pending_job)

\* A job of the present generation has the present documents, unless a handler
\* is about to raise the generation; and it is the newest.
Fits(j) ==
  j # NoJob /\ j.request.semantic_generation = engine_generation /\ handler = "idle" =>
    documents = j.request.open_documents

JobsInv ==
  /\ Fits(job)
  /\ Fits(pending_job)
  /\ job # NoJob /\ job.request_generation # active =>
       job.request.semantic_generation < engine_generation

\* The job the worker has, or had last, is of the present workspace.
Live ==
  /\ ~stop_requested
  /\ handler = "idle"
  /\ job # NoJob
  /\ job.request.semantic_generation = engine_generation

AboutUri ==
  {"current_before_publish", "compute", "cancel_after_compute", "current_after_diagnostics",
   "should_publish", "publish"}

\* The documents a live job has been through are current.
ProgressInv ==
  Live =>
    /\ pc # "cancelled"
    /\ pc \in {"diagnostics", "announce", "delivered"} => \A d \in Open \ todo : ShowsCurrent(d)
    /\ pc \in AboutUri => \A d \in Open \ (todo \cup {uri}) : ShowsCurrent(d)
    /\ pc = "take" /\ state # "Failed" => \A d \in Open : ShowsCurrent(d)

SInv ==
  /\ IInv
  /\ SessionTypeOK
  /\ HandlerInv
  /\ JobsInv
  /\ ProgressInv

---------------------------------------------------------------------------
LEMMA SessionInitInv == SessionInit => SInv
<1> SUFFICES ASSUME SessionInit PROVE SInv
  OBVIOUS
<1>1. IInv /\ job = NoJob /\ pending_job = NoJob
  BY InitInv DEF SessionInit, Init
<1>2. SessionTypeOK
  <2>1. Nothing \in [kind : {"none", "syntax", "semantic"}, text : Nat, generation : Nat]
    BY DEF Nothing
  <2>2. /\ edits = 0 /\ engine_generation = 0 /\ handler = "idle" /\ target \in Document
        /\ generation_checked = FALSE /\ shown = [d \in Document |-> Nothing]
        /\ documents = [d \in Document |-> Closed]
    BY DEF SessionInit
  <2>3. documents \in [Document -> Texts]
    BY ONLY <2>2 DEF Texts
  <2> HIDE DEF Nothing
  <2> QED
    <3>1. shown \in [Document -> [kind : {"none", "syntax", "semantic"}, text : Nat, generation : Nat]]
      BY ONLY <2>1, <2>2
    <3>2. edits \in 0 .. MaxEdits /\ engine_generation \in 0 .. MaxSchedules
      BY ONLY <2>2, SessionAssumption, BoundAssumption
    <3> QED
      BY ONLY <2>2, <2>3, <3>1, <3>2 DEF SessionTypeOK
<1>3. HandlerInv /\ JobsInv /\ ProgressInv
  BY <1>1 DEF SessionInit, HandlerInv, Past, JobsInv, Fits, ProgressInv, Live, Changing
<1> QED
  BY <1>1, <1>2, <1>3 DEF SInv

\* What the session schedules is one of the jobs.
LEMMA RequestIsAJob ==
  ASSUME SessionTypeOK
  PROVE  RequestForAll \in JobRequest
<1>1. documents \in [Document -> {Closed} \cup ((1 .. MaxEdits) \X (1 .. MaxEdits))]
  <2>1. Texts \subseteq {Closed} \cup ((1 .. MaxEdits) \X (1 .. MaxEdits))
    <3>1. 1 .. edits \subseteq 1 .. MaxEdits
      BY SessionAssumption DEF SessionTypeOK
    <3> QED
      BY <3>1 DEF Texts
  <2> QED
    BY <2>1 DEF SessionTypeOK
<1> QED
  BY <1>1, JobsAssumption DEF SessionTypeOK, RequestForAll, RequestOver, SessionJobRequest

\* Every step of the session is one of the worker, of its owner, or none of both.
LEMMA SessionStepIsWorkers == SInv /\ [SessionNext]_allVars => [Next]_vars
<1> SUFFICES ASSUME SInv, [SessionNext]_allVars PROVE [Next]_vars
  OBVIOUS
<1>1. CASE Client
  <2>1. CASE Shutdown
    BY <2>1 DEF Shutdown, Next
  <2>2. CASE ~Shutdown
    BY <1>1, <2>2 DEF Client, DidOpen, DidChange, DidSave, DidClose, DidChangeWatchedFiles, StoreText
  <2> QED
    BY <2>1, <2>2
<1>2. CASE Handler
  <2>1. CASE ScheduleDiagnostics
    BY <2>1, RequestIsAJob DEF ScheduleDiagnostics, Next, SInv
  <2>2. CASE OwnerReturns
    BY <2>2 DEF Next
  <2>3. CASE ~ScheduleDiagnostics /\ ~OwnerReturns
    BY <1>2, <2>3 DEF Handler, UpdateSemanticDocument, PublishDiagnostics, CloseDocument,
                      RestoreClosedDocument
  <2> QED
    BY <2>1, <2>2, <2>3
<1>3. CASE BackgroundWorker
  <2>1. CASE Advance
    BY <2>1 DEF Next, Worker
  <2>2. CASE CheckGeneration
    BY <2>2 DEF CheckGeneration, Next, Worker, Decide
  <2>3. CASE CheckVersion
    BY <2>3 DEF CheckVersion, Next, Worker, Decide
  <2>4. CASE PublishBackground
    BY <2>4 DEF PublishBackground, Next, Worker
  <2> QED
    BY <1>3, <2>1, <2>2, <2>3, <2>4 DEF BackgroundWorker
<1>4. CASE Stopped
  BY <1>4 DEF Stopped
<1>5. CASE UNCHANGED allVars
  BY <1>5 DEF allVars
<1> QED
  BY <1>1, <1>2, <1>3, <1>4, <1>5 DEF SessionNext

LEMMA SessionTypeStep == SInv /\ [SessionNext]_allVars => SessionTypeOK'
<1> SUFFICES ASSUME SInv, [SessionNext]_allVars PROVE SessionTypeOK'
  OBVIOUS
<1> DEFINE Shown == [kind : {"none", "syntax", "semantic"}, text : Nat, generation : Nat]
<1>0. /\ SessionTypeOK /\ (handler \in Changing => engine_generation < MaxSchedules)
      /\ MaxEdits \in Nat /\ MaxSchedules \in Nat
  BY SessionAssumption, BoundAssumption DEF SInv, HandlerInv
<1>1. \A d \in Document : Text(d) \in Nat /\ Version(d) \in 0 .. edits
  BY <1>0 DEF SessionTypeOK, Texts, Text, Version, Closed
<1>2. /\ Nothing \in Shown
      /\ \A text \in Nat : Syntax(text) \in Shown
      /\ \A text \in Nat, generation \in Nat : Semantic(text, generation) \in Shown
  BY DEF Nothing, Syntax, Semantic
<1> HIDE DEF Shown
<1>3. shown \in [Document -> Shown] /\ engine_generation \in Nat
  BY <1>0 DEF SessionTypeOK, Shown
<1>4. ASSUME NEW d \in Document, NEW v \in 1 .. edits + 1, Receives, StoreText(d, v)
      PROVE  SessionTypeOK'
  <2>1. edits' = edits + 1 /\ edits + 1 \in 0 .. MaxEdits
    BY <1>0, <1>4 DEF StoreText, SessionTypeOK
  <2>2. documents' \in [Document -> Texts']
    <3>1. <<v, edits + 1>> \in Texts' /\ Texts \subseteq Texts'
      BY <1>0, <2>1 DEF Texts, SessionTypeOK
    <3>2. documents' = [documents EXCEPT ![d] = <<v, edits + 1>>] /\ documents \in [Document -> Texts]
      BY <1>0, <1>4 DEF StoreText, Store, SessionTypeOK
    <3> HIDE DEF Texts
    <3> QED
      BY <3>1, <3>2
  <2> QED
    BY <1>0, <1>4, <2>1, <2>2 DEF StoreText, SessionTypeOK
<1>5. CASE Client
  <2>1. ASSUME NEW d \in Document, DidOpen(d) \/ DidChange(d) PROVE SessionTypeOK'
    <3>1. 1 \in 1 .. edits + 1 /\ Version(d) + 1 \in 1 .. edits + 1
      BY <1>0, <1>1 DEF SessionTypeOK
    <3> QED
      BY <1>4, <2>1, <3>1 DEF DidOpen, DidChange
  <2>2. ASSUME NEW d \in Document, DidSave(d) PROVE SessionTypeOK'
    BY <1>0, <2>2 DEF DidSave, SessionTypeOK, Texts
  <2>3. ASSUME NEW d \in Document, DidClose(d) PROVE SessionTypeOK'
    <3>1. shown' \in [Document -> Shown]
      BY <1>2, <1>3, <2>3 DEF DidClose
    <3> QED
      BY <1>0, <2>3, <3>1 DEF DidClose, SessionTypeOK, Texts, Shown
  <2>4. CASE DidChangeWatchedFiles
    BY <1>0, <2>4 DEF DidChangeWatchedFiles, Receives, SessionTypeOK, Texts
  <2>5. CASE Shutdown
    BY <1>0, <2>5 DEF Shutdown, session, SessionTypeOK, Texts
  <2> QED
    BY <1>5, <2>1, <2>2, <2>3, <2>4, <2>5 DEF Client
<1>6. CASE Handler
  <2>1. CASE UpdateSemanticDocument
    BY <1>0, <2>1 DEF UpdateSemanticDocument, SessionTypeOK, Texts, Changing
  <2>2. CASE PublishDiagnostics
    <3>1. shown' \in [Document -> Shown]
      <4>1. target \in Document /\ Text(target) \in Nat
        BY <1>0, <1>1 DEF SessionTypeOK
      <4>2. Syntax(Text(target)) \in Shown /\ Semantic(Text(target), engine_generation) \in Shown
        BY <1>2, <1>3, <4>1
      <4>3. \E value \in Shown : shown' = [shown EXCEPT ![target] = value] \/ shown' = shown
        BY <1>2, <2>2, <4>2 DEF PublishDiagnostics
      <4> QED
        BY ONLY <1>3, <4>1, <4>3
    <3> QED
      BY <1>0, <2>2, <3>1 DEF PublishDiagnostics, SessionTypeOK, Texts, Shown
  <2>3. CASE ScheduleDiagnostics
    BY <1>0, <2>3 DEF ScheduleDiagnostics, SessionTypeOK, Texts
  <2>4. CASE CloseDocument
    <3>1. documents' \in [Document -> Texts]
      BY <1>0, <2>4 DEF CloseDocument, Store, SessionTypeOK, Texts
    <3> QED
      BY <1>0, <2>4, <3>1 DEF CloseDocument, SessionTypeOK, Texts
  <2>5. CASE RestoreClosedDocument
    BY <1>0, <2>5 DEF RestoreClosedDocument, SessionTypeOK, Texts, Changing
  <2>6. CASE OwnerReturns /\ UNCHANGED <<session, generation_checked, shown>>
    BY <1>0, <2>6 DEF session, SessionTypeOK, Texts
  <2> QED
    BY <1>6, <2>1, <2>2, <2>3, <2>4, <2>5, <2>6 DEF Handler
<1>7. CASE BackgroundWorker
  <2>1. shown' \in [Document -> Shown] /\ generation_checked' \in BOOLEAN
    <3>1. CASE PublishBackground
      <4>1. Semantic(job.request.open_documents[uri][2], job.request.semantic_generation) \in Shown
        <5>1. job \in Job /\ uri \in Document
          BY <3>1 DEF PublishBackground, Publish, SInv, IInv, TypeOK, Jobs, Active, Unoccupied
        <5>2. job.request \in Request
          BY <5>1, RequestAssumption DEF Job
        <5>3. job.request.open_documents[uri][2] \in Nat /\ job.request.semantic_generation \in Nat
          BY <5>1, <5>2 DEF Request
        <5> QED
          BY <1>2, <5>3
      <4> QED
        BY <1>0, <1>3, <3>1, <4>1 DEF PublishBackground, SessionTypeOK
    <3>2. CASE ~PublishBackground
      BY <1>0, <1>3, <1>7, <3>2
      DEF BackgroundWorker, CheckGeneration, CheckVersion, SessionTypeOK
    <3> QED
      BY <3>1, <3>2
  <2>2. UNCHANGED session
    BY <1>7 DEF BackgroundWorker, CheckGeneration, CheckVersion, PublishBackground
  <2> QED
    BY <1>0, <2>1, <2>2 DEF session, SessionTypeOK, Texts, Shown
<1>8. CASE Stopped /\ UNCHANGED <<session, generation_checked, shown>>
  BY <1>0, <1>8 DEF session, SessionTypeOK, Texts
<1>9. CASE UNCHANGED allVars
  BY <1>0, <1>9 DEF allVars, session, SessionTypeOK, Texts
<1> QED
  BY <1>5, <1>6, <1>7, <1>8, <1>9 DEF SessionNext

\* The pending job changes when it is scheduled, dropped or taken, and the
\* worker's own when it takes the one that is pending.
LEMMA JobsKept ==
  ASSUME SInv, [SessionNext]_allVars
  PROVE  /\ \/ pending_job' \in {pending_job, NoJob}
            \/ ScheduleDiagnostics /\ pending_job'.request = RequestForAll
         /\ \/ job' = job
            \/ /\ job' = pending_job /\ pending_job # NoJob /\ pending_job' = NoJob
               /\ pc' = "debounce" /\ UNCHANGED session
         /\ ScheduleDiagnostics \/ UNCHANGED active
<1> USE DEF NextGeneration, Enqueue, DropJob
<1>1. CASE ScheduleDiagnostics
  BY <1>1 DEF ScheduleDiagnostics, Schedule
<1>2. CASE Shutdown
  BY <1>2 DEF Shutdown, Stop
<1>3. CASE OwnerReturns
  BY <1>3, Frame DEF OwnerReturns, Construct, Notify, Join, requests
<1>4. CASE BackgroundWorker
  <2>1. (Worker \/ UNCHANGED vars) /\ UNCHANGED session
    BY <1>4 DEF BackgroundWorker, CheckGeneration, CheckVersion, PublishBackground, Worker, Decide
  <2>2. CASE Worker
    BY <2>1, <2>2, Frame DEF Take, requests
  <2>3. CASE UNCHANGED vars
    BY <2>3 DEF vars, requests
  <2> QED
    BY <2>1, <2>2, <2>3
<1>5. CASE UNCHANGED vars
  BY <1>5 DEF vars, requests
<1> QED
  BY <1>1, <1>2, <1>3, <1>4, <1>5
  DEF SessionNext, Client, DidOpen, DidChange, DidSave, DidClose, DidChangeWatchedFiles, StoreText,
      Handler, UpdateSemanticDocument, PublishDiagnostics, CloseDocument, RestoreClosedDocument,
      Stopped, allVars

\* How the handlers change what the jobs are compared with.
LEMMA HandlersStep ==
  ASSUME SInv, [SessionNext]_allVars
  PROVE  /\ engine_generation \in Nat /\ engine_generation' \in Nat
         /\ \/ /\ handler' \in Changing /\ engine_generation' = engine_generation
               /\ handler = "idle" => engine_generation < MaxSchedules \/ handler' = handler
               /\ handler \in Changing \/ handler = "idle"
            \/ engine_generation' > engine_generation /\ handler' \in {"publish", "idle"}
            \/ /\ UNCHANGED <<documents, engine_generation>>
               /\ \/ handler' = "schedule" /\ handler = "publish"
                  \/ handler' = "idle" /\ handler \in {"publish", "schedule"}
                  \/ handler' = handler /\ ~ScheduleDiagnostics
         /\ ScheduleDiagnostics =>
              handler = "schedule" /\ handler' = "idle" /\ UNCHANGED <<documents, engine_generation>>
<1> USE DEF session
<1>1. engine_generation \in Nat /\ engine_generation' \in Nat
  BY SessionTypeStep, BoundAssumption DEF SInv, SessionTypeOK
<1>2. engine_generation + 1 > engine_generation
  BY <1>1
<1>3. ScheduleDiagnostics => handler = "schedule" /\ handler' = "idle"
                             /\ UNCHANGED <<documents, engine_generation>>
  BY DEF ScheduleDiagnostics
<1>5. CASE UNCHANGED engine_generation /\ handler = "idle" /\ handler' \in Changing
           /\ engine_generation < MaxSchedules
  BY <1>1, <1>3, <1>5
<1>6. CASE /\ engine_generation' = engine_generation + 1 /\ handler # "schedule"
           /\ handler' \in {"publish", "idle"}
  BY <1>1, <1>2, <1>3, <1>6
<1>7. ASSUME NEW d \in Document, DidOpen(d) \/ DidChange(d) \/ DidSave(d) \/ DidClose(d)
      PROVE  UNCHANGED engine_generation /\ handler = "idle" /\ handler' \in Changing
             /\ engine_generation < MaxSchedules
  BY <1>7 DEF DidOpen, DidChange, DidSave, DidClose, StoreText, Receives, Changing
<1>8. CASE UpdateSemanticDocument \/ RestoreClosedDocument \/ DidChangeWatchedFiles
  BY <1>6, <1>8 DEF UpdateSemanticDocument, RestoreClosedDocument, DidChangeWatchedFiles, Receives
<1>9. CASE CloseDocument
  BY <1>1, <1>3, <1>9 DEF CloseDocument, Changing
<1>10. CASE PublishDiagnostics
  BY <1>1, <1>3, <1>10 DEF PublishDiagnostics
<1>11. CASE ScheduleDiagnostics
  BY <1>1, <1>3, <1>11
<1>4. CASE UNCHANGED session
  <2>1. ~ScheduleDiagnostics
    BY <1>4 DEF ScheduleDiagnostics
  <2> QED
    BY <1>1, <1>4, <2>1
<1> QED
  BY <1>4, <1>5, <1>7, <1>8, <1>9, <1>10, <1>11
  DEF SessionNext, Client, Shutdown, Handler, BackgroundWorker, CheckGeneration, CheckVersion,
      PublishBackground, allVars

LEMMA HandlerInvStep == SInv /\ [SessionNext]_allVars => HandlerInv' /\ JobsInv'
<1> SUFFICES ASSUME SInv, [SessionNext]_allVars PROVE HandlerInv' /\ JobsInv'
  OBVIOUS
<1>0. HandlerInv /\ JobsInv /\ SessionTypeOK /\ TypeOK /\ Jobs
  BY DEF SInv, IInv
<1>1. \A j \in {job, pending_job} : j # NoJob => j.request.semantic_generation \in Nat
  BY <1>0, RequestAssumption DEF TypeOK, Job, Request
<1>2. handler' \in Changing => engine_generation' < MaxSchedules
  BY <1>0, HandlersStep, SessionTypeStep DEF HandlerInv, Changing, SessionTypeOK
<1>3. ASSUME NEW j \in {job, pending_job}, j # NoJob
      PROVE  /\ j.request.semantic_generation <= engine_generation'
             /\ handler' \in {"publish", "schedule"} =>
                  j.request.semantic_generation < engine_generation'
             /\ j.request.semantic_generation = engine_generation' /\ handler' = "idle" =>
                  documents' = j.request.open_documents
             /\ ScheduleDiagnostics => j.request.semantic_generation < engine_generation'
             /\ j.request.semantic_generation < engine_generation =>
                  j.request.semantic_generation < engine_generation'
  <2> DEFINE g == j.request.semantic_generation
  <2>1. /\ g \in Nat /\ g <= engine_generation
        /\ handler \in {"publish", "schedule"} => g < engine_generation
        /\ g = engine_generation /\ handler = "idle" => documents = j.request.open_documents
    BY <1>0, <1>1, <1>3 DEF HandlerInv, Past, JobsInv, Fits
  <2> HIDE DEF g
  <2>2. CASE handler' \in Changing /\ engine_generation' = engine_generation /\ ~ScheduleDiagnostics
    BY <2>1, <2>2 DEF g, Changing
  <2>3. CASE engine_generation' > engine_generation
    BY <2>1, <2>3, HandlersStep DEF g
  <2>4. CASE /\ UNCHANGED <<documents, engine_generation>>
             /\ \/ handler' = "schedule" /\ handler = "publish"
                \/ handler' = "idle" /\ handler \in {"publish", "schedule"}
                \/ handler' = handler /\ ~ScheduleDiagnostics
    BY <2>1, <2>4, HandlersStep DEF g
  <2> QED
    BY <2>2, <2>3, <2>4, HandlersStep DEF Changing
<1>4. Past(job)' /\ Fits(job)'
  BY <1>3, JobsKept DEF Past, Fits
<1>5. Past(pending_job)' /\ Fits(pending_job)'
  <2>1. CASE pending_job' \in {pending_job, NoJob}
    BY <1>3, <2>1 DEF Past, Fits
  <2>2. CASE ScheduleDiagnostics /\ pending_job'.request = RequestForAll
    <3>1. /\ pending_job'.request.semantic_generation = engine_generation
          /\ pending_job'.request.open_documents = documents
      BY <2>2 DEF RequestForAll, RequestOver
    <3>2. handler' = "idle" /\ UNCHANGED <<documents, engine_generation>> /\ engine_generation \in Nat
      BY <2>2, HandlersStep
    <3> QED
      BY <3>1, <3>2 DEF Past, Fits
  <2> QED
    BY <2>1, <2>2, JobsKept
<1>6. job' # NoJob /\ job'.request_generation # active' =>
        job'.request.semantic_generation < engine_generation'
  <2>1. CASE job' = job /\ ScheduleDiagnostics
    BY <1>3, <2>1
  <2>2. CASE job' = job /\ UNCHANGED active
    BY <1>0, <1>3, <2>2 DEF JobsInv
  <2>3. CASE job' = pending_job /\ pending_job # NoJob /\ UNCHANGED session
    <3>1. UNCHANGED active
      BY <2>3, JobsKept DEF ScheduleDiagnostics, session
    <3> QED
      BY <1>0, <2>3, <3>1 DEF Jobs
  <2> QED
    BY <2>1, <2>2, <2>3, JobsKept
<1> QED
  BY <1>2, <1>4, <1>5, <1>6 DEF HandlerInv, JobsInv

\* A job that is live after a step was live before, or has just been taken.
LEMMA LiveStep ==
  ASSUME SInv, [SessionNext]_allVars, Live', job' = job
  PROVE  /\ Live
         /\ UNCHANGED session
         /\ \/ UNCHANGED <<vars, shown>>
            \/ OwnerReturns /\ UNCHANGED shown
            \/ BackgroundWorker
<1>1. /\ HandlerInv /\ job # NoJob /\ handler' = "idle"
      /\ job.request.semantic_generation = engine_generation'
      /\ job.request.semantic_generation \in Nat
  BY RequestAssumption DEF SInv, Live, IInv, TypeOK, Job, Request
<1>2. handler \notin Changing \cup {"publish", "schedule"} /\ UNCHANGED engine_generation
  BY <1>1, HandlersStep DEF HandlerInv, Past, Changing
<1>3. handler = "idle"
  BY <1>2 DEF SInv, SessionTypeOK, Changing
<1>4. ~stop_requested'
  BY DEF Live
<1>5. ~Client
  <2>1. ~Shutdown
    BY <1>4 DEF Shutdown, Stop
  <2>2. \A d \in Document : ~DidOpen(d) /\ ~DidChange(d) /\ ~DidSave(d) /\ ~DidClose(d)
    BY <1>1 DEF DidOpen, DidChange, DidSave, DidClose, StoreText
  <2>3. ~DidChangeWatchedFiles
    BY <1>2, HandlersStep DEF DidChangeWatchedFiles
  <2> QED
    BY <2>1, <2>2, <2>3 DEF Client
<1>6. \/ UNCHANGED allVars
      \/ Stopped /\ UNCHANGED <<session, generation_checked, shown>>
      \/ OwnerReturns /\ UNCHANGED <<session, generation_checked, shown>>
      \/ BackgroundWorker
  BY <1>3, <1>5 DEF SessionNext, Handler, UpdateSemanticDocument, PublishDiagnostics,
                   ScheduleDiagnostics, CloseDocument, RestoreClosedDocument
<1>7. UNCHANGED <<session, stop_requested>>
  <2>1. BackgroundWorker => UNCHANGED session /\ (Worker \/ UNCHANGED vars)
    BY DEF BackgroundWorker, CheckGeneration, CheckVersion, PublishBackground, Worker, Decide
  <2> QED
    BY <1>6, <2>1, Frame DEF allVars, Stopped, vars, requests
<1> QED
  BY <1>1, <1>3, <1>4, <1>6, <1>7 DEF Live, session, allVars, Stopped

\* The polls and the checks let a live job pass.
LEMMA LivePasses ==
  ASSUME SInv, Live
  PROVE  /\ IsCurrentJob(job.request_generation)
         /\ job.request_generation \notin cancelled
         /\ documents = job.request.open_documents
         /\ job.request.allow_cold_snapshot_build
<1>1. job \in Job /\ job.request_generation \in Nat /\ job.request \in JobRequest
  BY DEF SInv, IInv, TypeOK, Live, Job
<1>2. job.request_generation = active
  BY RequestAssumption, <1>1 DEF SInv, JobsInv, Live, Request
<1>3. active = request_generation /\ active \notin cancelled
  BY <1>1, <1>2 DEF SInv, IInv, Tokens, Live, TypeOK
<1>4. job.request.allow_cold_snapshot_build = TRUE
  BY <1>1, JobsAssumption DEF SessionJobRequest
<1> QED
  BY <1>2, <1>3, <1>4 DEF IsCurrentJob, Live, SInv, JobsInv, Fits

LEMMA ProgressStep == SInv /\ [SessionNext]_allVars => ProgressInv'
<1> SUFFICES ASSUME SInv, [SessionNext]_allVars, Live' PROVE ProgressInv'
  BY DEF ProgressInv
<1>1. CASE job' # job
  BY <1>1, JobsKept DEF ProgressInv, AboutUri
<1>2. CASE job' = job
  <2>1. Live /\ UNCHANGED session
    BY <1>2, LiveStep
  <2>2. ProgressInv
    BY DEF SInv
  <2>3. /\ IsCurrentJob(job.request_generation) /\ job.request_generation \notin cancelled
        /\ documents = job.request.open_documents /\ job.request.allow_cold_snapshot_build
        /\ Open = OpenIn(job.request.open_documents)
    BY <2>1, LivePasses DEF Open
  <2>4. Open' = Open /\ (UNCHANGED shown => \A d : ShowsCurrent(d)' <=> ShowsCurrent(d))
    BY <2>1 DEF session, Open, OpenIn, ShowsCurrent, Text, Semantic
  <2>5. CASE UNCHANGED <<vars, shown>>
    BY <2>1, <2>2, <2>4, <2>5 DEF ProgressInv, vars
  <2>6. CASE OwnerReturns /\ UNCHANGED shown
    BY <2>1, <2>2, <2>4, <2>6 DEF ProgressInv, OwnerReturns, Construct, Notify, Join
  <2>7. CASE BackgroundWorker
    <3>0. /\ pc # "cancelled"
          /\ pc \in {"diagnostics", "announce", "delivered"} => \A d \in Open \ todo : ShowsCurrent(d)
          /\ pc \in AboutUri => \A d \in Open \ (todo \cup {uri}) : ShowsCurrent(d)
          /\ pc = "take" /\ state # "Failed" => \A d \in Open : ShowsCurrent(d)
      BY <2>1, <2>2 DEF ProgressInv
    <3>1. SUFFICES /\ pc' # "cancelled"
                   /\ pc' \in {"diagnostics", "announce", "delivered"} =>
                        \A d \in Open \ todo' : ShowsCurrent(d)'
                   /\ pc' \in AboutUri => \A d \in Open \ (todo' \cup {uri'}) : ShowsCurrent(d)'
                   /\ pc' = "take" /\ state' # "Failed" => \A d \in Open : ShowsCurrent(d)'
      BY <2>4, <3>1 DEF ProgressInv, AboutUri
    <3>2. CASE Advance /\ UNCHANGED shown
      <4>0. \A d : ShowsCurrent(d)' <=> ShowsCurrent(d)
        BY <2>4, <3>2
      <4>1. CASE TakeBeforeConstruction
        BY <3>0, <4>0, <4>1 DEF TakeBeforeConstruction, AboutUri
      <4>2. CASE Take
        <5>1. pc' # "debounce"
          <6> SUFFICES ASSUME pc' = "debounce" PROVE FALSE
            OBVIOUS
          <6>1. job = pending_job /\ pending_job # NoJob
            BY <1>2, <4>2 DEF Take
          <6>2. job.request_generation < pending_job.request_generation
            BY <2>1, <6>1 DEF SInv, IInv, Jobs, Live
          <6>3. job.request_generation \in Nat
            BY <2>1 DEF SInv, IInv, TypeOK, Job, Live
          <6> QED
            BY <6>1, <6>2, <6>3
        <5> QED
          BY <2>1, <3>0, <4>0, <4>2, <5>1 DEF Take, Live, AboutUri
      <4>3. CASE Debounce
        BY <4>0, <4>3 DEF Debounce, AboutUri
      <4>4. CASE PollCancellation
        BY <2>3, <3>0, <4>0, <4>4 DEF PollCancellation, ThrowIfCancelled, AboutUri
      <4>5. CASE CheckCurrent
        BY <2>3, <3>0, <4>0, <4>5 DEF CheckCurrent, ContinueIfCurrent, AboutUri
      <4>6. CASE BeginBuild
        BY <2>3, <4>6 DEF BeginBuild, AboutUri
      <4>7. CASE LoadDocument
        BY <4>7 DEF LoadDocument, AboutUri
      <4>8. CASE EndIndex
        BY <4>8 DEF EndIndex, AboutUri
      <4>9. CASE BeginOpenDocuments
        BY <4>9 DEF BeginOpenDocuments, AboutUri
      <4>10. CASE BeginDiagnostics
        BY <2>3, <4>10 DEF BeginDiagnostics, AboutUri
      <4>11. CASE Announce
        <5>1. pc = "announce" /\ pc' = "current_before_publish" /\ todo' = todo \ {uri'}
          BY <4>11 DEF Announce
        <5> QED
          BY <3>0, <4>0, <5>1 DEF AboutUri
      <4>12. CASE Compute
        BY <2>3, <3>0, <4>0, <4>12 DEF Compute, AboutUri
      <4>13. CASE SetPublished
        BY <3>0, <4>0, <4>13 DEF SetPublished, AboutUri
      <4>14. CASE EndDiagnostics
        BY <3>0, <4>0, <4>14 DEF EndDiagnostics, AboutUri
      <4>15. CASE Throw
        BY <4>15 DEF Throw, AboutUri
      <4>16. CASE Catch
        BY <3>0, <4>16 DEF Catch, AboutUri
      <4> QED
        BY <3>2, <4>1, <4>2, <4>3, <4>4, <4>5, <4>6, <4>7, <4>8, <4>9, <4>10, <4>11, <4>12, <4>13,
           <4>14, <4>15, <4>16 DEF Advance
    <3>3. CASE CheckGeneration
      <4>1. UNCHANGED <<pc, state, todo, uri, shown>>
        BY <2>1, <3>3 DEF CheckGeneration, Live, vars
      <4> QED
        BY <2>4, <3>0, <4>1
    <3>4. CASE CheckVersion
      <4>1. pc = "should_publish" /\ UNCHANGED <<todo, uri, shown>>
        BY <3>4 DEF CheckVersion, ShouldPublish
      <4>2. \/ pc' = "publish"
            \/ pc' = "diagnostics" /\ ~IsOpenUnchanged
        BY <3>4 DEF CheckVersion, ShouldPublish
      <4>3. ~IsOpenUnchanged => uri \notin Open
        BY <2>3 DEF IsOpenUnchanged, Version
      <4> QED
        BY <2>4, <3>0, <4>1, <4>2, <4>3 DEF AboutUri
    <3>5. CASE PublishBackground
      <4>1. pc = "publish" /\ pc' = "delivered" /\ UNCHANGED <<todo, uri, documents, engine_generation>>
        BY <2>1, <3>5 DEF PublishBackground, Publish, session
      <4>2. shown' = [shown EXCEPT ![uri] = Semantic(Text(uri), engine_generation)]
        BY <2>1, <2>3, <3>5 DEF PublishBackground, Text, Live
      <4>3. shown \in [Document -> [kind : {"none", "syntax", "semantic"}, text : Nat, generation : Nat]]
        BY DEF SInv, SessionTypeOK
      <4>4. ASSUME NEW d \in Open \ todo PROVE ShowsCurrent(d)'
        <5> DEFINE Shows(e) == Semantic(Text(e), engine_generation)
        <5>1. Semantic(Text(d), engine_generation)' = Shows(d)
          BY <4>1 DEF Semantic, Text
        <5>2. d \in Document
          BY DEF Open, OpenIn
        <5>3. d # uri => shown[d] = Shows(d)
          BY <3>0, <4>1, <4>4 DEF ShowsCurrent, AboutUri
        <5>4. shown' = [shown EXCEPT ![uri] = Shows(uri)]
          BY <4>2
        <5> HIDE DEF Shows
        <5>5. shown'[d] = Shows(d)
          BY ONLY <4>3, <5>2, <5>3, <5>4
        <5> QED
          BY <5>1, <5>5 DEF ShowsCurrent
      <4> QED
        BY <4>1, <4>4 DEF AboutUri
    <3> QED
      BY <2>7, <3>2, <3>3, <3>4, <3>5 DEF BackgroundWorker
  <2> QED
    BY <1>2, <2>5, <2>6, <2>7, LiveStep
<1> QED
  BY <1>1, <1>2

---------------------------------------------------------------------------
LEMMA SessionInductive == SInv /\ [SessionNext]_allVars => SInv'
<1> SUFFICES ASSUME SInv, [SessionNext]_allVars PROVE SInv'
  OBVIOUS
<1>1. IInv'
  BY SessionStepIsWorkers, Inductive DEF SInv
<1> QED
  BY <1>1, SessionTypeStep, HandlerInvStep, ProgressStep DEF SInv

LEMMA SessionInvariance == SessionSpec => []SInv
  BY SessionInitInv, SessionInductive, PTL DEF SessionSpec

\* The state of the session keeps its types: the store's versions and texts
\* stay within what was sent (document_store_, ServerSession.cpp).
THEOREM SessionTypeCorrect == SessionSpec => []SessionTypeOK
<1>1. SInv => SessionTypeOK
  BY DEF SInv
<1> QED
  BY <1>1, SessionInvariance, PTL

\* The session drives the worker only as the worker's specification allows:
\* what is proved of the worker on its own holds of it in the session.
THEOREM SessionRunsWorker == SessionSpec => Init /\ [][Next]_vars
<1>1. SessionInit => Init
  BY DEF SessionInit
<1> QED
  BY <1>1, SessionInvariance, SessionStepIsWorkers, PTL DEF SessionSpec

\* At rest after a job of the present workspace, every open document shows the
\* engine's diagnostics of its present text (ServerSession.cpp, the callbacks
\* should_publish_ and publish_, and BackgroundDiagnosticsWorker::loop).
THEOREM LastJobIsShown == SessionSpec => []LastJobLeavesCurrentDiagnostics
<1>1. SInv => LastJobLeavesCurrentDiagnostics
  BY DEF SInv, ProgressInv, Live, Quiescent, LastJobLeavesCurrentDiagnostics
<1> QED
  BY <1>1, SessionInvariance, PTL

============================================================================
