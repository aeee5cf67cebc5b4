--------------------------- MODULE JsonRpcServer ---------------------------
(***************************************************************************)
(* The JSON-RPC front end: run() reads messages on the reader thread,      *)
(* answers what it can at once and queues the rest; dispatchLoop() takes   *)
(* them off the queue one at a time on the dispatcher thread.  Requests    *)
(* can be cancelled while queued or running.                               *)
(* Source: src/jsonrpc/JsonRpcServer.cpp, and the shutdown and exit        *)
(* handlers of src/server/ServerSession.cpp.                               *)
(*                                                                         *)
(* One action is one critical section of queue_mutex_ or write_mutex_, or  *)
(* one step between two of them.  A message is chosen when it is read:     *)
(* until then nothing in the server depends on it.  A message's serial is  *)
(* its position in the input.                                              *)
(***************************************************************************)
EXTENDS Naturals, Sequences, FiniteSets

CONSTANTS Id,          \* request ids the client uses, again and again if it likes
          MaxMessages  \* bound on the messages the client sends

ASSUME ServerAssumption == MaxMessages \in Nat

\* "plain" handlers ignore the cancellation token, "contextual" ones poll it; an
\* exit sent with an id is an unknown request, but ends the reading all the same.
Method == {"plain", "contextual", "shutdown", "exit", "unknown"}
HasHandler(method) == method \notin {"exit", "unknown"}
NoRequest == 0

VARIABLES
  reader,              \* where the reader is in run()
  received,            \* number of messages read
  queue,               \* queue_
  cancellation_states, \* cancellation_states_: id -> serial of the request
  cancelled,           \* serials whose cancellation source is set
  input_closed,        \* input_closed_
  stop_requested,      \* stop_requested_
  exit_code,           \* exit_code_
  shutdown_requested,  \* ServerSession::shutdown_requested_
  dispatcher,          \* where the dispatcher is in dispatchLoop()
  blocked,             \* dispatcher blocked in queue_cv_.wait
  current,             \* the message being dispatched
  outcome,             \* how the request being dispatched will be answered
  output,              \* the answers written, in order
  cancels              \* history of the $/cancelRequest messages read

flow == <<queue, cancellation_states, input_closed>>
lifecycle == <<stop_requested, exit_code, shutdown_requested>>
dispatch == <<dispatcher, current, outcome>>
vars == <<reader, received, flow, cancelled, lifecycle, blocked, dispatch,
          output, cancels>>

Request == [kind : {"request"}, serial : Nat, id : Id, method : Method]
Notification == [kind : {"notification", "exit"}, serial : Nat]
Message == Request \cup Notification
Idle == [kind |-> "notification", serial |-> 0]

Answer == {"result", "error", "cancelled", "duplicate", "unknown"}

TypeOK ==
  /\ reader \in {"read", "notify", "notify_exit", "test", "close",
                 "notify_all", "join", "returned"}
  /\ received \in 0..MaxMessages
  /\ queue \in Seq(Message)
  /\ cancellation_states \in [Id -> Nat]
  /\ cancelled \subseteq 1..MaxMessages
  /\ input_closed \in BOOLEAN
  /\ stop_requested \in BOOLEAN
  /\ exit_code \in {0, 1}
  /\ shutdown_requested \in BOOLEAN
  /\ dispatcher \in {"wait", "lookup", "unknown", "start", "handler", "finish",
                     "respond", "erase", "notification", "sweep", "returned"}
  /\ blocked \in BOOLEAN
  /\ current \in Message
  /\ outcome \in {"result", "error", "cancelled"}
  /\ output \in Seq([serial : 1..MaxMessages, id : Id, answer : Answer])
  /\ cancels \subseteq [serial : 1..MaxMessages, id : Id]

Init ==
  /\ reader = "test"
  /\ received = 0
  /\ queue = <<>>
  /\ cancellation_states = [i \in Id |-> NoRequest]
  /\ cancelled = {}
  /\ input_closed = FALSE
  /\ stop_requested = FALSE
  /\ exit_code = 0
  /\ shutdown_requested = FALSE
  /\ dispatcher = "wait"
  /\ blocked = FALSE
  /\ current = Idle
  /\ outcome = "result"
  /\ output = <<>>
  /\ cancels = {}

---------------------------------------------------------------------------
(* The reader: run() and enqueueIncoming() *)

Write(serial, id, answer) ==
  output' = Append(output, [serial |-> serial, id |-> id, answer |-> answer])

Receive ==
  /\ reader = "read"
  /\ received < MaxMessages
  /\ received' = received + 1

Push(message) == queue' = Append(queue, message)

\* A request is registered, queued and announced in one critical section; a
\* request whose id is registered already is refused in it.
ReceiveRequest(id, method) ==
  /\ Receive
  /\ reader' = IF method = "exit" THEN "close" ELSE "test"
  /\ IF cancellation_states[id] # NoRequest
       THEN /\ Write(received', id, "duplicate")
            /\ UNCHANGED <<queue, cancellation_states, blocked>>
       ELSE /\ cancellation_states' = [cancellation_states EXCEPT ![id] = received']
            /\ Push([kind |-> "request", serial |-> received', id |-> id,
                     method |-> method])
            /\ blocked' = FALSE
            /\ UNCHANGED output
  /\ UNCHANGED <<cancelled, input_closed, lifecycle, dispatch, cancels>>

\* A notification is queued first and announced after the unlock.
ReceiveNotification(kind) ==
  /\ Receive
  /\ Push([kind |-> kind, serial |-> received'])
  /\ reader' = IF kind = "exit" THEN "notify_exit" ELSE "notify"
  /\ UNCHANGED <<cancellation_states, cancelled, input_closed, lifecycle,
                 blocked, dispatch, output, cancels>>

\* $/cancelRequest overtakes the queue; an unknown id is ignored.
ReceiveCancel(id) ==
  /\ Receive
  /\ reader' = "test"
  /\ cancelled' = cancelled \cup ({cancellation_states[id]} \ {NoRequest})
  /\ cancels' = cancels \cup {[serial |-> received', id |-> id]}
  /\ UNCHANGED <<flow, lifecycle, blocked, dispatch, output>>

\* A message that is no JSON object, has an invalid id, or answers a request the
\* server never made, is refused or dropped at once.
ReceiveInvalid ==
  /\ Receive
  /\ reader' = "test"
  /\ UNCHANGED <<flow, cancelled, lifecycle, blocked, dispatch, output, cancels>>

\* queue_cv_.notify_one(); run() leaves its loop after an exit message.
NotifyOne ==
  /\ reader \in {"notify", "notify_exit"}
  /\ blocked' = FALSE
  /\ reader' = IF reader = "notify_exit" THEN "close" ELSE "test"
  /\ UNCHANGED <<received, flow, cancelled, lifecycle, dispatch, output, cancels>>

\* while (!stop_requested_)
TestStop ==
  /\ reader = "test"
  /\ reader' = IF stop_requested THEN "close" ELSE "read"
  /\ UNCHANGED <<received, flow, cancelled, lifecycle, blocked, dispatch,
                 output, cancels>>

\* The client closes its end.
EndOfInput ==
  /\ reader = "read"
  /\ reader' = "close"
  /\ UNCHANGED <<received, flow, cancelled, lifecycle, blocked, dispatch,
                 output, cancels>>

CloseInput ==
  /\ reader = "close"
  /\ input_closed' = TRUE
  /\ reader' = "notify_all"
  /\ UNCHANGED <<received, queue, cancellation_states, cancelled, lifecycle,
                 blocked, dispatch, output, cancels>>

NotifyAll ==
  /\ reader = "notify_all"
  /\ blocked' = FALSE
  /\ reader' = "join"
  /\ UNCHANGED <<received, flow, cancelled, lifecycle, dispatch, output, cancels>>

Join ==
  /\ reader = "join"
  /\ dispatcher = "returned"
  /\ reader' = "returned"
  /\ UNCHANGED <<received, flow, cancelled, lifecycle, blocked, dispatch,
                 output, cancels>>

---------------------------------------------------------------------------
(* The dispatcher: dispatchLoop() and dispatchIncoming() *)

\* Bug: the dispatcher leaves before the queue is drained.
LeavesAtOnce == input_closed
Leaves == queue = <<>> /\ input_closed

\* queue_cv_.wait, then the next message or, when there is none, the end.
Take ==
  /\ dispatcher = "wait"
  /\ ~blocked
  /\ \/ /\ queue = <<>>
        /\ ~input_closed
        /\ blocked' = TRUE
        /\ UNCHANGED <<dispatcher, current, queue>>
     \/ /\ Leaves
        /\ dispatcher' = "returned"
        /\ UNCHANGED <<blocked, current, queue>>
     \/ /\ queue # <<>>
        /\ current' = Head(queue)
        /\ queue' = Tail(queue)
        /\ dispatcher' = IF Head(queue).kind = "request"
                           THEN IF HasHandler(Head(queue).method)
                                  THEN "start" ELSE "lookup"
                           ELSE "notification"
        /\ UNCHANGED blocked
  /\ UNCHANGED <<reader, received, cancellation_states, input_closed, cancelled,
                 lifecycle, outcome, output, cancels>>

\* Bug: nothing is forgotten.
ForgetNothing(id) == UNCHANGED cancellation_states
Forget(id) == cancellation_states' = [cancellation_states EXCEPT ![id] = NoRequest]

\* No handler: the request is forgotten first and answered afterwards.
ForgetUnknown ==
  /\ dispatcher = "lookup"
  /\ Forget(current.id)
  /\ dispatcher' = "unknown"
  /\ UNCHANGED <<reader, received, queue, input_closed, cancelled, lifecycle,
                 blocked, current, outcome, output, cancels>>

AnswerUnknown ==
  /\ dispatcher = "unknown"
  /\ Write(current.serial, current.id, "unknown")
  /\ dispatcher' = "sweep"
  /\ UNCHANGED <<reader, received, flow, cancelled, lifecycle, blocked, current,
                 outcome, cancels>>

\* throwIfCancellationRequested() before and after the handler.
PollCancellation(here, next) ==
  /\ dispatcher = here
  /\ IF current.serial \in cancelled
       THEN outcome' = "cancelled" /\ dispatcher' = "respond"
       ELSE outcome' = "result" /\ dispatcher' = next

Poll ==
  /\ \/ PollCancellation("start", "handler")
     \/ PollCancellation("finish", "respond")
  /\ UNCHANGED <<reader, received, flow, cancelled, lifecycle, blocked, current,
                 output, cancels>>

\* The handler returns, throws, or, if it polls the token, stops early.  The
\* shutdown handler notes the request.
RunHandler ==
  /\ dispatcher = "handler"
  /\ \/ dispatcher' = "finish" /\ UNCHANGED outcome
     \/ /\ current.method # "shutdown"
        /\ outcome' = "error"
        /\ dispatcher' = "respond"
     \/ /\ current.method = "contextual"
        /\ current.serial \in cancelled
        /\ outcome' = "cancelled"
        /\ dispatcher' = "respond"
  /\ shutdown_requested' = (shutdown_requested \/ current.method = "shutdown")
  /\ UNCHANGED <<reader, received, flow, cancelled, stop_requested, exit_code,
                 blocked, current, output, cancels>>

\* The answer is written before the request is forgotten.
Respond ==
  /\ dispatcher = "respond"
  /\ Write(current.serial, current.id, outcome)
  /\ dispatcher' = "erase"
  /\ UNCHANGED <<reader, received, flow, cancelled, lifecycle, blocked, current,
                 outcome, cancels>>

Erase ==
  /\ dispatcher = "erase"
  /\ Forget(current.id)
  /\ dispatcher' = "sweep"
  /\ UNCHANGED <<reader, received, queue, input_closed, cancelled, lifecycle,
                 blocked, current, outcome, output, cancels>>

ExitCode == IF shutdown_requested THEN 0 ELSE 1

\* The exit handler requests the stop; other notifications change nothing here.
Notify ==
  /\ dispatcher = "notification"
  /\ IF current.kind = "exit"
       THEN /\ stop_requested' = TRUE
            /\ exit_code' = ExitCode
       ELSE UNCHANGED <<stop_requested, exit_code>>
  /\ dispatcher' = "sweep"
  /\ UNCHANGED <<reader, received, flow, cancelled, shutdown_requested, blocked,
                 current, outcome, output, cancels>>

\* Bug: the queue is cancelled after every message.
CancelAlways == cancelled' = cancelled \cup {queue[i].serial : i \in DOMAIN queue}
CancelIfStopped ==
  cancelled' = IF stop_requested
                 THEN cancelled \cup {queue[i].serial : i \in DOMAIN queue}
                 ELSE cancelled

\* Once a stop is requested, whatever is still queued is cancelled.
Sweep ==
  /\ dispatcher = "sweep"
  /\ CancelIfStopped
  /\ dispatcher' = "wait"
  /\ UNCHANGED <<reader, received, flow, lifecycle, blocked, current, outcome,
                 output, cancels>>

---------------------------------------------------------------------------
Client ==
  \/ \E id \in Id, method \in Method : ReceiveRequest(id, method)
  \/ \E id \in Id : ReceiveCancel(id)
  \/ \E kind \in {"notification", "exit"} : ReceiveNotification(kind)
  \/ ReceiveInvalid
  \/ EndOfInput

Reader == NotifyOne \/ TestStop \/ CloseInput \/ NotifyAll \/ Join

Dispatcher ==
  \/ Take
  \/ ForgetUnknown
  \/ AnswerUnknown
  \/ Poll
  \/ RunHandler
  \/ Respond
  \/ Erase
  \/ Notify
  \/ Sweep

Returned == reader = "returned" /\ UNCHANGED vars

Next == Client \/ Reader \/ Dispatcher \/ Returned

\* Both threads are scheduled and handlers return; the client need not send
\* anything, but its end of the pipe closes some day.
Spec ==
  /\ Init
  /\ [][Next]_vars
  /\ WF_vars(Reader)
  /\ WF_vars(Dispatcher)
  /\ WF_vars(EndOfInput)

---------------------------------------------------------------------------
(* Properties *)

Queued(serial) == \E i \in DOMAIN queue : queue[i].serial = serial
Answered(serial) == \E i \in DOMAIN output : output[i].serial = serial

\* The request the dispatcher has taken and not yet forgotten.
Registered(serial) ==
  current.serial = serial /\ dispatcher \in {"lookup", "start", "handler",
                                             "finish", "respond", "erase"}

\* The registry of cancellation sources holds exactly the requests that are
\* queued or being dispatched: no source is lost while its request can still be
\* cancelled, and no id stays taken once its request is forgotten.
RegistryMatchesWork ==
  /\ \A id \in Id :
       cancellation_states[id] # NoRequest =>
         Queued(cancellation_states[id]) \/ Registered(cancellation_states[id])
  /\ \A i \in DOMAIN queue :
       queue[i].kind = "request" => cancellation_states[queue[i].id] = queue[i].serial
  /\ dispatcher \in {"lookup", "start", "handler", "finish", "respond", "erase"}
       => cancellation_states[current.id] = current.serial

\* A request is answered with "cancelled" only if the client cancelled its id
\* after sending it: a late cancellation never hits a request that reuses the
\* id, and the sweep after an exit message, the last one read, finds nothing.
CancelledMeansAsked ==
  \A i \in DOMAIN output :
    output[i].answer = "cancelled" =>
      \E c \in cancels : c.id = output[i].id /\ c.serial > output[i].serial

\* Every request that is read gets an answer, also when the input ends or an
\* exit message follows it in the queue.
EveryRequestAnswered ==
  \A serial \in 1..MaxMessages :
    (\E id \in Id : cancellation_states[id] = serial) ~> Answered(serial)

============================================================================
