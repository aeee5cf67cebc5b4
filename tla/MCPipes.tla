------------------------------ MODULE MCPipes -------------------------------
(***************************************************************************)
(* Two clients, two sessions, and what must hold of the services on a      *)
(* socket.                                                                 *)
(***************************************************************************)
EXTENDS LayoutPipes

\* When no operation is under way, the endpoint, the connections, the source
\* and the thread that are left are those of the active session: closing and
\* replacing a session leaves nothing of it, whatever its thread and its
\* clients were doing.  (stop, openSession, runSession.)
SessionsAreApart ==
    caller = Idle =>
        /\ thread.at # "done" => thread.session = active
        /\ bound \in {0, active}
        /\ \A c \in Clients : conn[c].at \in {"queued", "served"} => /\ active # 0
                                                                  /\ conn[c].session = active
        /\ \A n \in 1 .. MaxSessions : source[n].state # "none" => n = active

\* The phases a client is told never go back, and once it is told that the
\* source is ready its requests for data are not refused as too early.
\* (StagedGdsLayoutSource, asked while the parse thread publishes.)
StatusNeverRegresses ==
    thread.at = "writing" /\ ~Gone(thread.client) =>
        LET told == conn[thread.client].told
        IN  /\ thread.answer.kind = "status" => told =< thread.answer.phase
            /\ told = Rank("ready") => thread.answer.kind # "not ready"

\* The thread waits for a client that does not read.
Stuck ==
    /\ thread.at = "writing"
    /\ ~Gone(thread.client)
    /\ conn[thread.client].unread = Buffer

\* openSession, closeSession and stop return: connections that wait, the full
\* backlog, a parse and a warm-up under way do not keep them, only a client
\* that never reads its answer.  (stop, wakeEndpoint, ~StagedGdsLayoutSource.)
StopReturns ==
    (caller # Idle) ~> (caller = Idle \/ ~running \/ []Stuck)
=============================================================================
