---------------------------- MODULE PipeService -----------------------------
(***************************************************************************)
(* The service that answers binary requests on a local socket, one session *)
(* at a time (WaveformPipeService.cpp; LayoutPipeService.cpp is the same   *)
(* with a source of its own, see LayoutPipes).  The thread that handles    *)
(* the JSON-RPC requests opens and closes sessions; each session is a      *)
(* thread that accepts one connection after the other on the endpoint of   *)
(* the session and answers its requests until it is told to stop.          *)
(*                                                                         *)
(* The Unix side is modelled.  A frame that has not come in full is one    *)
(* that has not come: the thread waits for the rest as for the whole.      *)
(***************************************************************************)
EXTENDS Integers, Sequences

CONSTANTS MaxClients,   \* bound: programs that connect to an endpoint
          Messages,     \* kinds of frames clients send
          Backlog,      \* connections the endpoint keeps before accept
          Buffer,       \* responses a connection holds before it is read
          MaxSessions,  \* bound: sessions opened
          MaxMessages   \* bound: frames clients send, all together

ASSUME PipeConstants ==
    /\ Messages \subseteq {"data", "status", "unknown", "malformed", "oversized", "close"}
    /\ {MaxClients, Backlog, Buffer, MaxSessions, MaxMessages} \subseteq Nat \ {0}

VARIABLES running,        \* the process has not been ended
          caller,         \* the RPC thread in openSession, closeSession or stop
          stopRequested,
          active,         \* the number of the active session, 0 when there is none
          nextSession,
          thread,         \* the session's thread
          bound,          \* the session whose endpoint exists, 0 when there is none
          backlog,        \* connections waiting for accept
          conn,           \* the connection of each client
          frames            \* counts the frames sent, for the bound

pipeVars == << running, caller, stopRequested, active, nextSession, thread, bound, backlog, conn, frames >>

\* Clients are numbered in the order in which they connect; 0 stands for the
\* connection that stop() makes itself.
Clients == 1 .. MaxClients
Wake    == 0

Idle     == [at |-> "idle", op |-> "none"]
\* An answer, and the phase it tells when it is a status.  Of the answers a
\* connection was given, the last phase told is kept.
Answer(kind) == [kind |-> kind, phase |-> 0]

NoThread == [at |-> "done", session |-> 0, client |-> Wake, request |-> "none",
             answer |-> Answer("none"), last |-> FALSE]
NoConn   == [at |-> "away", session |-> 0, inbox |-> << >>, told |-> 0, unread |-> 0,
             gone |-> FALSE]
Closed   == [NoConn EXCEPT !.at = "closed"]

PipeInit ==
    /\ running = TRUE
    /\ caller = Idle
    /\ stopRequested = FALSE
    /\ active = 0
    /\ nextSession = 1
    /\ thread = NoThread
    /\ bound = 0
    /\ backlog = << >>
    /\ conn = [c \in Clients |-> NoConn]
    /\ frames = 0

\* The caller has stopped a session, or opened one: its operations and those
\* of the thread.
callerVars == << caller, stopRequested, active, nextSession >>
socketVars == << bound, backlog, conn, frames >>

ShouldStop == stopRequested \/ active # thread.session

-----------------------------------------------------------------------------
(***************************************************************************)
(* The caller.  stop() sets the flag, connects to the endpoint, joins the  *)
(* thread, and clears the session.                                         *)
(***************************************************************************)
\* Bug: the flag is not set.
WakeOnly(op) ==
    /\ caller = Idle
    /\ caller' = [at |-> IF active # 0 THEN "waking" ELSE "joining", op |-> op]
    /\ UNCHANGED << running, stopRequested, active, nextSession, thread, socketVars >>

RequestStop(op) ==
    /\ caller = Idle
    /\ stopRequested' = TRUE
    /\ caller' = [at |-> IF active # 0 THEN "waking" ELSE "joining", op |-> op]
    /\ UNCHANGED << running, active, nextSession, thread, socketVars >>

\* connect() waits while the backlog is full, and fails when no one listens.
WakeEndpoint ==
    /\ caller.at = "waking"
    /\ \/ /\ bound = active
          /\ Len(backlog) < Backlog
          /\ backlog' = Append(backlog, Wake)
       \/ /\ bound # active
          /\ UNCHANGED backlog
    /\ caller' = [caller EXCEPT !.at = "joining"]
    /\ UNCHANGED << running, stopRequested, active, nextSession, thread, bound, conn, frames >>

\* Bug: the thread is not joined.
JoinNothing ==
    /\ caller.at = "joining"
    /\ caller' = [caller EXCEPT !.at = "clearing"]
    /\ UNCHANGED << running, stopRequested, active, nextSession, thread, socketVars >>

JoinThread ==
    /\ caller.at = "joining"
    /\ thread.at = "done"
    /\ caller' = [caller EXCEPT !.at = "clearing"]
    /\ UNCHANGED << running, stopRequested, active, nextSession, thread, socketVars >>

ClearSession ==
    /\ caller.at = "clearing"
    /\ active' = 0
    /\ stopRequested' = FALSE
    /\ caller' = IF caller.op = "open" THEN [caller EXCEPT !.at = "describing"] ELSE Idle
    /\ UNCHANGED << running, nextSession, thread, socketVars >>

OpenSession == nextSession =< MaxSessions /\ RequestStop("open")

\* A session that is not the active one is not closed: nothing changes.
CloseSession == active # 0 /\ RequestStop("end")

\* Shutdown, exit, and the end of the server session.
Stop == RequestStop("end")

\* The description of the session reads the source and is returned; the
\* thread starts after.
DescribeSession ==
    /\ caller.at = "describing"
    /\ caller' = [caller EXCEPT !.at = "starting"]
    /\ UNCHANGED << running, stopRequested, active, nextSession, thread, socketVars >>

StartSession ==
    /\ caller.at = "starting"
    /\ active' = nextSession
    /\ nextSession' = nextSession + 1
    /\ stopRequested' = FALSE
    /\ thread' = [NoThread EXCEPT !.at = "starting", !.session = nextSession]
    /\ caller' = Idle
    /\ UNCHANGED << running, socketVars >>

-----------------------------------------------------------------------------
(***************************************************************************)
(* The thread.                                                             *)
(***************************************************************************)
\* socket, bind and listen may fail: the session then has no endpoint.
BindEndpoint ==
    /\ thread.at = "starting"
    /\ \/ /\ bound' = thread.session
          /\ backlog' = << >>
          /\ thread' = [thread EXCEPT !.at = "polling"]
       \/ /\ thread' = [thread EXCEPT !.at = "ending"]
          /\ UNCHANGED << bound, backlog >>
    /\ UNCHANGED << running, callerVars, conn, frames >>

Poll ==
    /\ thread.at = "polling"
    /\ thread' = [thread EXCEPT !.at = IF ShouldStop THEN "closing" ELSE "selecting"]
    /\ UNCHANGED << running, callerVars, socketVars >>

\* The flag is looked at again when nothing comes for five milliseconds.
Accept ==
    /\ thread.at = "selecting"
    /\ IF backlog = << >>
       THEN /\ thread' = [thread EXCEPT !.at = "polling"]
            /\ UNCHANGED << backlog, conn >>
       ELSE /\ thread' = [thread EXCEPT !.at = "accepted", !.client = Head(backlog)]
            /\ backlog' = Tail(backlog)
            /\ conn' = [c \in Clients |-> IF c = Head(backlog) THEN [conn[c] EXCEPT !.at = "served"]
                                          ELSE conn[c]]
    /\ UNCHANGED << running, callerVars, bound, frames >>

CheckAccepted ==
    /\ thread.at = "accepted"
    /\ thread' = [thread EXCEPT !.at = IF ShouldStop THEN "hanging up" ELSE "serving"]
    /\ UNCHANGED << running, callerVars, socketVars >>

\* The connection stop() makes is closed and empty.
Waiting(c) == c # Wake /\ conn[c].inbox # << >>
Gone(c)    == c = Wake \/ conn[c].gone

\* serveConnection, and readExact before each read, look at the flag.
CheckServing ==
    /\ thread.at = "serving"
    /\ thread' = [thread EXCEPT !.at = IF ShouldStop THEN "hanging up" ELSE "reading"]
    /\ UNCHANGED << running, callerVars, socketVars >>

\* What a client sent before it left is read.
ReadFrame ==
    /\ thread.at = "reading"
    /\ LET c == thread.client
       IN  IF Waiting(c)
           THEN /\ thread' = [thread EXCEPT !.at = "handling", !.request = Head(conn[c].inbox)]
                /\ conn' = [conn EXCEPT ![c].inbox = Tail(@)]
           ELSE /\ thread' = [thread EXCEPT !.at = IF Gone(c) THEN "hanging up" ELSE "serving"]
                /\ UNCHANGED conn
    /\ UNCHANGED << running, callerVars, bound, backlog, frames >>

\* handleRequest answers what it does not know, and what fails, with an error.
HandleRequest == Answer(IF thread.request = "data" THEN "data" ELSE "error")

Respond(answer, last) ==
    [thread EXCEPT !.at = "writing", !.request = "none", !.answer = answer, !.last = last]

\* A frame that cannot be decoded, or that claims too large a payload, is an
\* exception no one catches on this thread: the process ends.
Abort == running' = FALSE /\ UNCHANGED thread

ServeFrame ==
    /\ thread.at = "handling"
    /\ CASE thread.request = "close" ->
              /\ thread' = [thread EXCEPT !.at = "hanging up", !.request = "none"]
              /\ UNCHANGED running
         [] thread.request \in {"malformed", "oversized"} -> Abort
         [] OTHER -> thread' = Respond(HandleRequest, FALSE) /\ UNCHANGED running
    /\ UNCHANGED << callerVars, socketVars >>

\* write() waits while the client does not read, and looks at no flag.  On a
\* connection the client has closed it raises SIGPIPE, which is not ignored.
WriteFrame ==
    /\ thread.at = "writing"
    /\ LET c == thread.client
       IN  IF Gone(c) THEN Abort /\ UNCHANGED conn
           ELSE /\ conn[c].unread < Buffer
                /\ conn' = [conn EXCEPT ![c].told = IF thread.answer.kind = "status" THEN thread.answer.phase
                                                 ELSE @,
                                     ![c].unread = @ + 1]
                /\ thread' = [thread EXCEPT !.at = IF thread.last THEN "hanging up" ELSE "serving",
                                            !.answer = Answer("none"), !.last = FALSE]
                /\ UNCHANGED running
    /\ UNCHANGED << callerVars, bound, backlog, frames >>

HangUp ==
    /\ thread.at = "hanging up"
    /\ conn' = [c \in Clients |-> IF c = thread.client THEN Closed ELSE conn[c]]
    /\ thread' = [thread EXCEPT !.at = "polling", !.client = Wake]
    /\ UNCHANGED << running, callerVars, bound, backlog, frames >>

\* Connections that no one accepted are reset with the endpoint.
CloseEndpoint ==
    /\ thread.at = "closing"
    /\ bound' = 0
    /\ backlog' = << >>
    /\ conn' = [c \in Clients |-> IF conn[c].at = "queued" THEN Closed ELSE conn[c]]
    /\ thread' = [thread EXCEPT !.at = "ending"]
    /\ UNCHANGED << running, callerVars, frames >>

\* The thread held the last reference to the source.
EndThread ==
    /\ thread.at = "ending"
    /\ thread' = [thread EXCEPT !.at = "done"]
    /\ UNCHANGED << running, callerVars, socketVars >>

-----------------------------------------------------------------------------
(***************************************************************************)
(* Clients: each connects once.                                            *)
(***************************************************************************)
Connect(c) ==
    /\ conn[c].at = "away"
    /\ \A d \in 1 .. c - 1 : conn[d].at # "away"
    /\ bound # 0
    /\ Len(backlog) < Backlog
    /\ backlog' = Append(backlog, c)
    /\ conn' = [conn EXCEPT ![c].at = "queued", ![c].session = bound]
    /\ UNCHANGED << running, callerVars, thread, bound, frames >>

Connected(c) == conn[c].at \in {"queued", "served"} /\ ~conn[c].gone

Send(c, m) ==
    /\ Connected(c)
    /\ frames < MaxMessages
    /\ frames' = frames + 1
    /\ conn' = [conn EXCEPT ![c].inbox = Append(@, m)]
    /\ UNCHANGED << running, callerVars, thread, bound, backlog >>

Receive(c) ==
    /\ ~conn[c].gone
    /\ conn[c].unread > 0
    /\ conn' = [conn EXCEPT ![c].unread = @ - 1]
    /\ UNCHANGED << running, callerVars, thread, bound, backlog, frames >>

Disconnect(c) ==
    /\ Connected(c)
    /\ conn' = [conn EXCEPT ![c].gone = TRUE, ![c].unread = 0, ![c].told = 0]
    /\ UNCHANGED << running, callerVars, thread, bound, backlog, frames >>
=============================================================================
