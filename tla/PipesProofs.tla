---------------------------- MODULE PipesProofs -----------------------------
(***************************************************************************)
(* Proofs that the sessions of the socket services are apart, and that the *)
(* phases a client is told never go back, for any number of clients,       *)
(* sessions and frames, any backlog and any buffer.                        *)
(***************************************************************************)
EXTENDS MCPipes, SequenceTheorems, TLAPS

Listening == {"polling", "selecting", "accepted", "serving", "reading", "handling", "writing",
              "hanging up", "closing"}

\* Where the thread has a connection.
Serving == {"accepted", "serving", "reading", "handling", "writing", "hanging up"}

Sessions == 1 .. MaxSessions

Kinds == {"none", "data", "status", "not ready", "error", "unsupported"}

ThreadState ==
    [at : Listening \cup {"starting", "ending", "done"}, session : Nat,
     client : Clients \cup {Wake}, request : Messages \cup {"none"},
     answer : [kind : Kinds, phase : Nat], last : BOOLEAN]

ConnState ==
    [at : {"away", "queued", "served", "closed"}, session : Nat, inbox : Seq(Messages),
     told : Nat, unread : Nat, gone : BOOLEAN]

SourceState ==
    [state : {"none", "parsing", "ready", "failed", "closing"}, phase : 1 .. 6, ready : BOOLEAN,
     parse : {"running", "done"}, warmup : {"running", "done"}]

TypeOK ==
    /\ running \in BOOLEAN /\ stopRequested \in BOOLEAN
    /\ caller \in [at : {"idle", "waking", "joining", "clearing", "describing", "starting"},
                   op : {"none", "open", "end"}]
    /\ active \in Nat /\ nextSession \in Nat
    /\ bound \in Nat
    /\ thread \in ThreadState
    /\ backlog \in Seq(Clients \cup {Wake})
    /\ conn \in [Clients -> ConnState]
    /\ source \in [Sessions -> SourceState]

\* A thread is that of the active session, and is done before the session is
\* cleared or another one is made.
ThreadInv ==
    /\ 1 =< nextSession /\ active < nextSession /\ active =< MaxSessions
    /\ caller.at = "idle" <=> caller.op = "none"
    /\ caller.op = "open" => nextSession =< MaxSessions
    /\ caller.at = "waking" => active # 0
    /\ caller.at \in {"clearing", "describing", "starting"} => thread.at = "done"
    /\ caller.at \in {"describing", "starting"} => caller.op = "open" /\ active = 0
    /\ thread.at # "done" => active # 0 /\ thread.session = active

\* An endpoint is that of a thread that listens, and who waits there is queued.
EndpointInv ==
    /\ bound # 0 => bound = thread.session /\ thread.at \in Listening
    /\ bound = 0 => backlog = << >>
    /\ \A i \in DOMAIN backlog : backlog[i] # Wake => conn[backlog[i]].at = "queued"
    /\ \A i, j \in DOMAIN backlog : backlog[i] = backlog[j] /\ backlog[i] # Wake => i = j

\* A connection is queued at the endpoint, or is the one that is served.
ConnInv ==
    /\ \A c \in Clients :
          /\ conn[c].at = "queued" => bound # 0 /\ conn[c].session = bound
          /\ conn[c].at = "served" => /\ thread.at \in Serving /\ thread.client = c
                                      /\ conn[c].session = thread.session
          /\ conn[c].told # 0 => conn[c].at = "served"
    /\ thread.at \in Serving /\ thread.client # Wake => conn[thread.client].at = "served"

\* A source is that of the thread, or of the session that is being opened.
SourceInv ==
    \A n \in Sessions :
       /\ source[n].state # "none" => \/ thread.at # "done" /\ n = thread.session
                                      \/ caller.op = "open" /\ n = nextSession
       /\ source[n].parse = "running" => source[n].state \in {"parsing", "closing"} /\ ~source[n].ready
       /\ source[n].state = "parsing" => source[n].parse = "running"
       /\ source[n].phase = Rank("ready") => source[n].ready

\* What a client was told, and is being told, is not ahead of the source.
ToldInv ==
    thread.at \in Serving /\ thread.client # Wake =>
       LET told   == conn[thread.client].told
           s      == source[thread.session]
           behind(phase) == phase =< StatusSnapshot(s).phase /\ (phase = Rank("ready") => s.ready)
       IN  /\ behind(told)
           /\ thread.at = "writing" /\ thread.answer.kind = "status" =>
                 told =< thread.answer.phase /\ behind(thread.answer.phase)
           /\ thread.at = "writing" /\ thread.answer.kind = "not ready" => told # Rank("ready")

IInv == TypeOK /\ ThreadInv /\ EndpointInv /\ ConnInv /\ SourceInv /\ ToldInv
-----------------------------------------------------------------------------
LEMMA Ranks ==
  /\ Rank("read") = 1 /\ Rank("records") = 2 /\ Rank("finalize") = 3
  /\ Rank("resolve") = 4 /\ Rank("ready") = 5 /\ Rank("failed") = 6
<1>1. Len(Phases) = 6
  BY DEF Phases
<1>2. \A i \in 1 .. 6 : i = 1 \/ i = 2 \/ i = 3 \/ i = 4 \/ i = 5 \/ i = 6
  OBVIOUS
<1>3. /\ Phases[1] = "read" /\ Phases[2] = "records" /\ Phases[3] = "finalize"
      /\ Phases[4] = "resolve" /\ Phases[5] = "ready" /\ Phases[6] = "failed"
  BY DEF Phases
<1> QED
  BY <1>1, <1>2, <1>3 DEF Rank

\* What there is at first and at last is of the types.
LEMMA Values ==
  /\ \A kind \in Kinds : Answer(kind) \in [kind : Kinds, phase : Nat] /\ Answer(kind).kind = kind
  /\ NoThread \in ThreadState
  /\ NoConn \in ConnState /\ Closed \in ConnState
  /\ Closed.at = "closed" /\ Closed.told = 0
  /\ NoSource \in SourceState /\ StagedSource \in SourceState
  /\ StagedSource.state = "parsing" /\ StagedSource.parse = "running" /\ ~StagedSource.ready
  /\ StagedSource.phase = 1
  /\ \A w \in {"running", "done"} :
        /\ WholeSource(w) \in SourceState
        /\ WholeSource(w).state = "ready" /\ WholeSource(w).parse = "done" /\ WholeSource(w).ready
<1>1. \A kind \in Kinds : Answer(kind) \in [kind : Kinds, phase : Nat] /\ Answer(kind).kind = kind
  BY DEF Answer, Kinds
<1>2. NoThread \in ThreadState
  <2>1. Answer("none") \in [kind : Kinds, phase : Nat]
    BY <1>1 DEF Kinds
  <2> HIDE DEF Answer, Kinds
  <2> QED
    BY <2>1 DEF NoThread, ThreadState, Wake
<1>3. NoConn \in ConnState /\ Closed \in ConnState /\ Closed.at = "closed" /\ Closed.told = 0
  <2>1. << >> \in Seq(Messages)
    BY EmptySeq
  <2> QED
    BY <2>1 DEF NoConn, Closed, ConnState
<1>4. NoSource \in SourceState /\ NoSource.parse = "done" /\ ~NoSource.ready
  BY DEF NoSource, SourceState
<1> HIDE DEF NoSource
<1>5. /\ StagedSource \in SourceState
      /\ StagedSource.state = "parsing" /\ StagedSource.parse = "running" /\ ~StagedSource.ready
      /\ StagedSource.phase = 1
  <2>1. ASSUME NEW state \in {"parsing"}, NEW phase \in 1 .. 6, NEW parse \in {"running"}, NEW s,
               s = [NoSource EXCEPT !.state = state, !.phase = phase, !.parse = parse]
        PROVE  /\ s \in SourceState
               /\ s.state = state /\ s.parse = parse /\ ~s.ready /\ s.phase = phase
    BY <1>4, <2>1 DEF SourceState
  <2> HIDE DEF SourceState
  <2>2. Rank("read") = 1 /\ Rank("read") \in 1 .. 6
    BY Ranks
  <2> QED
    BY <2>1, <2>2, Zenon DEF StagedSource
<1>6. ASSUME NEW w \in {"running", "done"}
      PROVE  /\ WholeSource(w) \in SourceState
             /\ WholeSource(w).state = "ready" /\ WholeSource(w).parse = "done"
             /\ WholeSource(w).ready
  <2>1. ASSUME NEW state \in {"ready"}, NEW phase \in 1 .. 6, NEW ready \in {TRUE}, NEW s,
               s = [NoSource EXCEPT !.state = state, !.phase = phase, !.ready = ready, !.warmup = w]
        PROVE  s \in SourceState /\ s.state = state /\ s.parse = "done" /\ s.ready
    BY <1>4, <2>1 DEF SourceState
  <2> HIDE DEF SourceState
  <2>2. Rank("ready") \in 1 .. 6
    BY Ranks
  <2> QED
    BY <2>1, <2>2, Zenon DEF WholeSource
<1> QED
  BY <1>1, <1>2, <1>3, <1>4, <1>5, <1>6

LEMMA Snapshots ==
  ASSUME NEW s \in SourceState
  PROVE  /\ StatusSnapshot(s).phase = IF s.ready THEN 5 ELSE s.phase
         /\ StatusSnapshot(s).phase \in 1 .. 6
<1>1. StatusSnapshot(s).phase = IF s.ready THEN 5 ELSE s.phase
  <2>1. CASE s.ready
    BY <2>1, Ranks DEF StatusSnapshot
  <2>2. CASE ~s.ready
    BY <2>2 DEF StatusSnapshot
  <2> QED
    BY <2>1, <2>2
<1> QED
  BY <1>1 DEF SourceState

LEMMA InitInv == Init => IInv
<1> SUFFICES ASSUME Init PROVE IInv
  OBVIOUS
<1> USE PipeConstants, Ranks DEF Init, PipeInit, Idle
<1>1. TypeOK
  <2>1. backlog \in Seq(Clients \cup {Wake})
    BY EmptySeq
  <2> QED
    BY <2>1, Values DEF TypeOK, Sessions
<1> USE DEF NoThread, NoConn, NoSource, Answer
<1>2. ThreadInv /\ EndpointInv /\ ConnInv /\ SourceInv /\ ToldInv
  BY EmptySeq DEF ThreadInv, EndpointInv, ConnInv, SourceInv, ToldInv, Clients, Wake, Sessions, Serving
<1> QED
  BY <1>1, <1>2 DEF IInv

-----------------------------------------------------------------------------
(* The caller *)

\* An operation begins; one that opens a session makes its source.
LEMMA RequestStopInv ==
  ASSUME IInv, NEW op \in {"open", "end"}, RequestStop(op),
         \/ UNCHANGED source /\ op = "end"
         \/ /\ op = "open" /\ nextSession =< MaxSessions
            /\ \E s \in {WholeSource("done"), WholeSource("running"), StagedSource} :
                 source' = [source EXCEPT ![nextSession] = s]
  PROVE  IInv'
<1> USE PipeConstants, Ranks DEF IInv, RequestStop, socketVars, Idle, Sessions
<1>1. TypeOK'
  <2>1. source' \in [Sessions -> SourceState]
    <3>1. ASSUME NEW s \in {WholeSource("done"), WholeSource("running"), StagedSource},
                 source' = [source EXCEPT ![nextSession] = s]
          PROVE  source' \in [Sessions -> SourceState]
      <4>1. s \in SourceState
        BY Values
      <4> HIDE DEF SourceState
      <4> QED
        BY <3>1, <4>1 DEF TypeOK
    <3> QED
      BY <3>1 DEF TypeOK
  <2> QED
    BY <2>1 DEF TypeOK
<1>2. ThreadInv'
  BY DEF TypeOK, ThreadInv
<1>3. EndpointInv' /\ ConnInv'
  BY DEF EndpointInv, ConnInv
<1>4. SourceInv'
  <2>1. CASE UNCHANGED source
    BY <2>1 DEF SourceInv, TypeOK
  <2>2. ASSUME NEW s \in {WholeSource("done"), WholeSource("running"), StagedSource},
               op = "open", nextSession =< MaxSessions, source' = [source EXCEPT ![nextSession] = s]
        PROVE  SourceInv'
    <3>1. /\ s.parse = "running" => s.state = "parsing" /\ ~s.ready
          /\ s.state = "parsing" => s.parse = "running"
          /\ s.phase = 5 => s.ready
      <4>1. \/ s = StagedSource \/ s = WholeSource("done") \/ s = WholeSource("running")
        BY <2>2
      <4> QED
        BY <4>1, Values
    <3>2. \A n \in Sessions : source'[n] = IF n = nextSession THEN s ELSE source[n]
      BY <2>2 DEF TypeOK
    <3>3. thread' = thread /\ caller'.op = "open" /\ nextSession' = nextSession /\ caller.op # "open"
      BY <2>2 DEF TypeOK
    <3> QED
      BY <3>1, <3>2, <3>3 DEF SourceInv
  <2> QED
    BY <2>1, <2>2
<1>5. ToldInv'
  <2>1. thread.at \in Serving => thread.session < nextSession /\ thread.session \in Sessions
    <3>1. ASSUME thread.at \in Serving
          PROVE  active # 0 /\ thread.session = active
      BY <3>1 DEF ThreadInv, Serving
    <3> QED
      BY <3>1 DEF TypeOK, ThreadInv
  <2>2. thread.at \in Serving => source'[thread.session] = source[thread.session]
    <3>1. ASSUME NEW s, source' = [source EXCEPT ![nextSession] = s], thread.at \in Serving
          PROVE  source'[thread.session] = source[thread.session]
      BY <2>1, <3>1 DEF TypeOK
    <3> QED
      BY <3>1
  <2> QED
    BY <2>2 DEF ToldInv, StatusSnapshot
<1> QED
  BY <1>1, <1>2, <1>3, <1>4, <1>5

LEMMA WakeEndpointInv ==
  ASSUME IInv, WakeEndpoint, UNCHANGED sourceVars
  PROVE  IInv'
<1> USE PipeConstants DEF IInv, WakeEndpoint, sourceVars
<1>1. /\ backlog' \in Seq(Clients \cup {Wake})
      /\ \A i \in DOMAIN backlog' : backlog'[i] = Wake \/ (i \in DOMAIN backlog /\ backlog'[i] = backlog[i])
      /\ bound = 0 => backlog' = backlog
  <2>1. CASE backlog' = Append(backlog, Wake) /\ bound = active
    BY <2>1, AppendProperties, LenProperties DEF TypeOK, ThreadInv
  <2>2. CASE UNCHANGED backlog
    BY <2>2 DEF TypeOK
  <2> QED
    BY <2>1, <2>2
<1>2. TypeOK'
  BY <1>1 DEF TypeOK
<1>3. ThreadInv'
  BY DEF TypeOK, ThreadInv
<1>4. EndpointInv'
  BY <1>1 DEF EndpointInv
<1>5. ConnInv' /\ SourceInv'
  BY DEF TypeOK, ConnInv, SourceInv
<1>6. ToldInv'
  BY DEF ToldInv, StatusSnapshot
<1> QED
  BY <1>2, <1>3, <1>4, <1>5, <1>6

\* The thread is done: the caller goes on.
LEMMA CallerMovesInv ==
  ASSUME IInv, NEW at, caller' = [caller EXCEPT !.at = at],
         \/ at = "clearing" /\ caller.at = "joining" /\ thread.at = "done"
         \/ at = "starting" /\ caller.at = "describing",
         UNCHANGED << running, stopRequested, active, nextSession, thread, socketVars, source >>
  PROVE  IInv'
<1> USE DEF IInv, socketVars
<1>1. TypeOK' /\ ThreadInv'
  BY DEF TypeOK, ThreadInv
<1>2. EndpointInv' /\ ConnInv'
  BY DEF EndpointInv, ConnInv
<1>3. SourceInv'
  BY DEF TypeOK, SourceInv
<1>4. ToldInv'
  BY DEF ToldInv, StatusSnapshot
<1> QED
  BY <1>1, <1>2, <1>3, <1>4

LEMMA ClearSessionInv ==
  ASSUME IInv, ClearSession, UNCHANGED sourceVars
  PROVE  IInv'
<1> USE PipeConstants DEF IInv, ClearSession, socketVars, sourceVars, Idle
<1>1. TypeOK'
  BY DEF TypeOK
<1>5. ThreadInv'
  BY DEF TypeOK, ThreadInv
<1>2. EndpointInv' /\ ConnInv'
  BY DEF EndpointInv, ConnInv
<1>3. SourceInv'
  BY DEF TypeOK, SourceInv
<1>4. ToldInv'
  BY DEF ToldInv, StatusSnapshot
<1> QED
  BY <1>1, <1>2, <1>3, <1>4, <1>5

\* A session starts: its thread owns the source.
LEMMA StartInv ==
  ASSUME IInv, Start
  PROVE  IInv'
<1> USE PipeConstants DEF IInv, Start, StartSession, socketVars, Idle
<1>1. /\ thread' \in ThreadState /\ thread'.at = "starting" /\ thread'.session = nextSession
      /\ thread'.client = Wake
  <2>1. ASSUME NEW at \in {"starting"}, NEW session \in Nat, NEW t,
               t = [NoThread EXCEPT !.at = at, !.session = session]
        PROVE  t \in ThreadState /\ t.at = at /\ t.session = session /\ t.client = Wake
    <3>1. NoThread.client = Wake
      BY DEF NoThread
    <3> QED
      BY <2>1, <3>1, Values DEF ThreadState
  <2>2. nextSession \in Nat
    BY DEF TypeOK
  <2> QED
    <3>1. thread' = [NoThread EXCEPT !.at = "starting", !.session = nextSession]
      OBVIOUS
    <3> QED
      BY ONLY <2>1, <2>2, <3>1, Zenon
<1>2. TypeOK'
  <2>1. caller' \in [at : {"idle"}, op : {"none"}] /\ active' \in Nat /\ nextSession' \in Nat
    BY DEF TypeOK
  <2>2. source' = source /\ conn' = conn /\ backlog' = backlog /\ bound' = bound
    OBVIOUS
  <2> QED
    BY <1>1, <2>1, <2>2 DEF TypeOK
<1>3. ThreadInv'
  BY <1>1 DEF TypeOK, ThreadInv
<1>4. EndpointInv' /\ ConnInv'
  BY <1>1 DEF ThreadInv, EndpointInv, ConnInv, Serving, Listening
<1>5. SourceInv'
  BY <1>1 DEF TypeOK, ThreadInv, SourceInv
<1>6. ToldInv'
  BY <1>1 DEF ToldInv, Serving
<1> QED
  BY <1>2, <1>3, <1>4, <1>5, <1>6

-----------------------------------------------------------------------------
(* The thread *)

LEMMA BindInv ==
  ASSUME IInv, Bind
  PROVE  IInv'
<1> USE DEF IInv, Bind, BindEndpoint, callerVars
<1>1. thread.at = "starting" /\ bound = 0 /\ thread.session # 0 /\ thread \in ThreadState
  BY DEF TypeOK, ThreadInv, EndpointInv, Listening
<1>7. /\ thread' \in ThreadState /\ thread'.session = thread.session /\ thread'.client = thread.client
      /\ \/ bound' = thread.session /\ backlog' = << >> /\ thread'.at = "polling"
         \/ UNCHANGED << bound, backlog >> /\ thread'.at = "ending"
  BY <1>1 DEF ThreadState, Listening
<1>2. TypeOK'
  <2>1. backlog' \in Seq(Clients \cup {Wake})
    BY <1>7, EmptySeq DEF TypeOK
  <2>2. bound' \in Nat
    <3>1. thread.session \in Nat /\ bound \in Nat
      BY <1>1 DEF ThreadState, TypeOK
    <3> QED
      BY <3>1, <1>7
  <2> QED
    BY <1>7, <2>1, <2>2 DEF TypeOK
<1>3. ThreadInv'
  BY <1>1, <1>7 DEF ThreadInv
<1>4. EndpointInv'
  <2>1. DOMAIN << >> = {}
    BY EmptySeq
  <2> QED
    BY <1>1, <1>7, <2>1 DEF EndpointInv, Listening
<1>5. ConnInv' /\ ToldInv'
  BY <1>1 DEF ConnInv, ToldInv, Serving, ThreadState
<1>6. SourceInv'
  BY <1>1 DEF SourceInv, ThreadState
<1> QED
  BY <1>2, <1>3, <1>4, <1>5, <1>6

\* The thread goes on with the connection it has, or without one.
LEMMA ThreadMovesInv ==
  ASSUME IInv, NEW at \in Listening \ {"writing"}, thread.at \in Listening,
         thread.at \in Serving <=> at \in Serving,
         thread' = [thread EXCEPT !.at = at],
         UNCHANGED << running, callerVars, socketVars, source >>
  PROVE  IInv'
<1> USE DEF IInv, callerVars, socketVars
<1>1. thread \in ThreadState
  BY DEF TypeOK
<1>2. /\ thread'.at = at /\ thread'.session = thread.session /\ thread'.client = thread.client
      /\ thread'.answer = thread.answer /\ thread' \in ThreadState
  BY <1>1 DEF ThreadState
<1>3. TypeOK' /\ ThreadInv'
  BY <1>2 DEF TypeOK, ThreadInv, Listening
<1>4. EndpointInv' /\ ConnInv'
  BY <1>2 DEF EndpointInv, ConnInv
<1>5. SourceInv'
  BY <1>2 DEF SourceInv, Listening
<1>6. ToldInv'
  BY <1>2 DEF ToldInv, StatusSnapshot
<1> QED
  BY <1>3, <1>4, <1>5, <1>6

\* What is in the source is at least what was told at first: nothing.
LEMMA NothingToldIsBehind ==
  ASSUME IInv, thread.at # "done"
  PROVE  /\ thread.session \in Sessions
         /\ source[thread.session] \in SourceState
         /\ 0 =< StatusSnapshot(source[thread.session]).phase
<1>1. thread.session \in Sessions
  BY DEF IInv, TypeOK, ThreadInv, Sessions
<1>2. source[thread.session] \in SourceState
  BY <1>1 DEF IInv, TypeOK
<1> QED
  BY <1>1, <1>2, Ranks DEF StatusSnapshot, SourceState

LEMMA AcceptInv ==
  ASSUME IInv, Accept, UNCHANGED sourceVars
  PROVE  IInv'
<1>1. CASE backlog = << >>
  <2>1. /\ thread.at = "selecting" /\ thread' = [thread EXCEPT !.at = "polling"]
        /\ UNCHANGED << running, callerVars, socketVars, source >>
    BY <1>1 DEF Accept, socketVars, sourceVars
  <2> QED
    BY <2>1, ThreadMovesInv DEF Listening, Serving
<1>2. CASE backlog # << >>
  <2> DEFINE h == Head(backlog)
  <2> USE <1>2, PipeConstants, Ranks DEF callerVars, sourceVars
  <2>1. /\ backlog \in Seq(Clients \cup {Wake}) /\ h \in Clients \cup {Wake} /\ h = backlog[1]
        /\ backlog' \in Seq(Clients \cup {Wake}) /\ 1 \in DOMAIN backlog
        /\ \A i \in DOMAIN backlog' :
              i \in Nat /\ i # 0 /\ i + 1 \in DOMAIN backlog /\ backlog'[i] = backlog[i + 1]
    <3>1. backlog \in Seq(Clients \cup {Wake})
      BY DEF IInv, TypeOK
    <3>2. /\ Head(backlog) \in Clients \cup {Wake} /\ Tail(backlog) \in Seq(Clients \cup {Wake})
          /\ Len(Tail(backlog)) = Len(backlog) - 1 /\ Len(backlog) \in Nat \ {0}
          /\ \A i \in 1 .. Len(Tail(backlog)) : Tail(backlog)[i] = backlog[i + 1]
      BY ONLY <1>2, <3>1, HeadTailProperties, LenProperties, EmptySeq
    <3>3. /\ DOMAIN backlog = 1 .. Len(backlog) /\ Head(backlog) = backlog[1]
          /\ DOMAIN Tail(backlog) = 1 .. Len(Tail(backlog))
      BY ONLY <1>2, <3>1, <3>2, LenProperties
    <3>4. backlog' = Tail(backlog)
      BY DEF Accept
    <3> QED
      BY ONLY <3>1, <3>2, <3>3, <3>4
  <2> HIDE DEF h
  <2>2. /\ thread.at = "selecting" /\ thread' \in ThreadState /\ thread'.at = "accepted"
        /\ thread'.session = thread.session /\ thread'.client = h
    <3>1. thread.at = "selecting"
      BY DEF Accept
    <3>2. ASSUME NEW at \in {"accepted"}, NEW t, t = [thread EXCEPT !.at = at, !.client = h]
          PROVE  t \in ThreadState /\ t.at = at /\ t.session = thread.session /\ t.client = h
      BY <2>1, <3>2 DEF IInv, TypeOK, ThreadState, Listening
    <3>3. thread' = [thread EXCEPT !.at = "accepted", !.client = h]
      BY DEF Accept, h
    <3> QED
      BY ONLY <3>1, <3>2, <3>3, Zenon
  <2>3. /\ conn' \in [Clients -> ConnState]
        /\ \A c \in Clients :
              /\ conn'[c].session = conn[c].session /\ conn'[c].told = conn[c].told
              /\ IF c = h THEN conn'[c].at = "served" ELSE conn'[c] = conn[c]
    <3>1. conn' = [c \in Clients |-> IF c = h THEN [conn[c] EXCEPT !.at = "served"] ELSE conn[c]]
      BY DEF Accept, h
    <3>2. \A c \in Clients : /\ conn[c] \in ConnState
                             /\ [conn[c] EXCEPT !.at = "served"] \in ConnState
                             /\ [conn[c] EXCEPT !.at = "served"].at = "served"
                             /\ [conn[c] EXCEPT !.at = "served"].session = conn[c].session
                             /\ [conn[c] EXCEPT !.at = "served"].told = conn[c].told
      <4>1. \A k \in ConnState : /\ [k EXCEPT !.at = "served"] \in ConnState
                                 /\ [k EXCEPT !.at = "served"].at = "served"
                                 /\ [k EXCEPT !.at = "served"].session = k.session
                                 /\ [k EXCEPT !.at = "served"].told = k.told
        BY DEF ConnState
      <4>2. \A c \in Clients : conn[c] \in ConnState
        BY DEF IInv, TypeOK
      <4> QED
        BY ONLY <4>1, <4>2
    <3> QED
      BY <3>1, <3>2
  <2>4. h # Wake => /\ h \in Clients /\ conn[h].at = "queued" /\ conn[h].told = 0
                    /\ \A i \in DOMAIN backlog' : backlog'[i] # h
    BY <2>1 DEF IInv, EndpointInv, ConnInv
  <2>5. UNCHANGED << running, caller, stopRequested, active, nextSession, bound, source >>
    BY DEF Accept
  <2>6. bound # 0 /\ bound = thread.session
    BY DEF IInv, EndpointInv
  <2>7. TypeOK'
    BY <2>1, <2>2, <2>3, <2>5 DEF IInv, TypeOK
  <2>8. ThreadInv'
    BY <2>2, <2>5 DEF IInv, ThreadInv
  <2>9. EndpointInv'
    <3>1. \A i \in DOMAIN backlog' : backlog'[i] # Wake => conn'[backlog'[i]].at = "queued"
      <4> SUFFICES ASSUME NEW i \in DOMAIN backlog', backlog'[i] # Wake
                   PROVE  conn'[backlog'[i]].at = "queued"
        OBVIOUS
      <4>1. /\ i + 1 \in DOMAIN backlog /\ backlog'[i] = backlog[i + 1] /\ i + 1 # 1
            /\ backlog[i + 1] \in Clients /\ backlog[i + 1] # Wake
        <5>1. i + 1 \in DOMAIN backlog /\ backlog'[i] = backlog[i + 1] /\ i + 1 # 1
          BY <2>1
        <5>2. backlog[i + 1] \in Clients \cup {Wake}
          BY ONLY <2>1, <5>1, ElementOfSeq, LenProperties
        <5> QED
          BY <5>1, <5>2
      <4>2. \A j \in DOMAIN backlog : backlog[j] # Wake => conn[backlog[j]].at = "queued"
        BY DEF IInv, EndpointInv
      <4>3. backlog[i + 1] # h
        <5>1. \A j, k \in DOMAIN backlog : backlog[j] = backlog[k] /\ backlog[j] # Wake => j = k
          BY DEF IInv, EndpointInv
        <5> QED
          BY ONLY <2>1, <4>1, <5>1
      <4> QED
        BY ONLY <2>3, <4>1, <4>2, <4>3
    <3>2. \A i, j \in DOMAIN backlog' : backlog'[i] = backlog'[j] /\ backlog'[i] # Wake => i = j
      <4>1. \A j, k \in DOMAIN backlog : backlog[j] = backlog[k] /\ backlog[j] # Wake => j = k
        BY DEF IInv, EndpointInv
      <4> QED
        BY ONLY <2>1, <4>1
    <3>3. bound' # 0 => bound' = thread'.session /\ thread'.at \in Listening
      BY <2>2, <2>5, <2>6 DEF Listening
    <3> QED
      BY <2>5, <2>6, <3>1, <3>2, <3>3 DEF EndpointInv
  <2>10. ConnInv'
    <3>1. ConnInv /\ thread.at \notin Serving /\ thread'.at \in Serving
      BY <2>2 DEF IInv, Serving
    <3>2. \A c \in Clients : conn[c].at # "served" /\ conn[c].told = 0
      BY <2>3, <3>1 DEF ConnInv, IInv, TypeOK, ConnState
    <3>3. \A c \in Clients : c # h => conn'[c] = conn[c]
      BY <2>3
    <3>4. ASSUME NEW c \in Clients
          PROVE  /\ conn'[c].at = "queued" => bound' # 0 /\ conn'[c].session = bound'
                 /\ conn'[c].at = "served" => c = h /\ conn'[c].session = bound
                 /\ conn'[c].told = 0
      <4>1. CASE c = h
        <5>1. conn[c].session = bound /\ conn'[c].at = "served"
          BY ONLY <2>3, <2>4, <2>6, <3>1, <4>1, PipeConstants DEF ConnInv, Clients, Wake
        <5> QED
          BY <2>3, <3>2, <5>1, <4>1
      <4>2. CASE c # h
        BY ONLY <2>5, <3>1, <3>2, <3>3, <4>2 DEF ConnInv
      <4> QED
        BY <4>1, <4>2
    <3>5. h # Wake => conn'[h].at = "served"
      BY ONLY <2>3, <2>4
    <3> QED
      BY ONLY <2>2, <2>6, <3>1, <3>4, <3>5 DEF ConnInv
  <2>11. SourceInv'
    BY <2>2, <2>5 DEF IInv, SourceInv
  <2>12. ToldInv'
    <3>1. h # Wake => conn'[h].told = 0
      BY <2>3, <2>4
    <3> QED
      BY <2>2, <2>5, <3>1, NothingToldIsBehind DEF ToldInv
  <2> QED
    BY <2>7, <2>8, <2>9, <2>10, <2>11, <2>12 DEF IInv
<1> QED
  BY <1>1, <1>2

LEMMA ReadFrameInv ==
  ASSUME IInv, ReadFrame, UNCHANGED sourceVars
  PROVE  IInv'
<1> DEFINE c == thread.client
<1>0. thread.at = "reading"
  BY DEF ReadFrame
<1>1. CASE ~Waiting(c)
  <2>1. /\ \E at \in {"hanging up", "serving"} : thread' = [thread EXCEPT !.at = at]
        /\ UNCHANGED << running, callerVars, socketVars, source >>
    BY <1>1 DEF ReadFrame, socketVars, sourceVars
  <2> QED
    BY <1>0, <2>1, ThreadMovesInv DEF Listening, Serving
<1>2. CASE Waiting(c)
  <2> HIDE DEF c
  <2>1. c \in Clients /\ c # Wake /\ conn[c].inbox # << >> /\ thread \in ThreadState
    <3>1. c \in Clients \cup {Wake} /\ thread \in ThreadState
      BY DEF c, IInv, TypeOK, ThreadState
    <3> QED
      BY <3>1, <1>2 DEF Waiting
  <2>2. conn[c] \in ConnState
    BY <2>1 DEF IInv, TypeOK
  <2>3. Head(conn[c].inbox) \in Messages /\ Tail(conn[c].inbox) \in Seq(Messages)
    <3>1. conn[c].inbox \in Seq(Messages)
      BY <2>2 DEF ConnState
    <3> QED
      BY ONLY <2>1, <3>1, HeadTailProperties
  <2>4. /\ thread' \in ThreadState /\ thread'.at = "handling" /\ thread'.client = c
        /\ thread'.session = thread.session
    <3>1. ASSUME NEW at \in {"handling"}, NEW request \in Messages, NEW t,
                 t = [thread EXCEPT !.at = at, !.request = request]
          PROVE  t \in ThreadState /\ t.at = at /\ t.client = c /\ t.session = thread.session
      BY <2>1, <3>1 DEF ThreadState, Listening, c
    <3>2. thread' = [thread EXCEPT !.at = "handling", !.request = Head(conn[c].inbox)]
      BY <1>2 DEF ReadFrame, c
    <3> QED
      BY ONLY <2>3, <3>1, <3>2, Zenon
  <2>5. /\ conn' \in [Clients -> ConnState]
        /\ \A d \in Clients : /\ conn'[d].at = conn[d].at /\ conn'[d].session = conn[d].session
                              /\ conn'[d].told = conn[d].told
    <3>1. ASSUME NEW inbox \in Seq(Messages), NEW k, k = [conn[c] EXCEPT !.inbox = inbox]
          PROVE  k \in ConnState /\ k.at = conn[c].at /\ k.session = conn[c].session
                 /\ k.told = conn[c].told
      BY <2>2, <3>1 DEF ConnState
    <3> DEFINE k == [conn[c] EXCEPT !.inbox = Tail(conn[c].inbox)]
    <3>2. conn' = [conn EXCEPT ![c] = k]
      BY <1>2 DEF ReadFrame, c
    <3>3. k \in ConnState /\ k.at = conn[c].at /\ k.session = conn[c].session
          /\ k.told = conn[c].told
      BY ONLY <2>3, <3>1, Zenon
    <3>4. conn \in [Clients -> ConnState]
      BY DEF IInv, TypeOK
    <3> HIDE DEF k
    <3> QED
      BY ONLY <2>1, <3>2, <3>3, <3>4
  <2>6. UNCHANGED << running, callerVars, bound, backlog, source >>
    BY DEF ReadFrame, sourceVars
  <2> USE DEF callerVars
  <2>7. TypeOK' /\ ThreadInv'
    BY <1>0, <2>4, <2>5, <2>6 DEF IInv, TypeOK, ThreadInv
  <2>8. EndpointInv'
    <3>1. \A i \in DOMAIN backlog : backlog[i] # Wake => backlog[i] \in Clients
      BY ElementOfSeq, LenProperties DEF IInv, TypeOK
    <3> QED
      BY <1>0, <2>4, <2>5, <2>6, <3>1 DEF IInv, EndpointInv, Listening
  <2>9. ConnInv'
    BY <1>0, <2>1, <2>4, <2>5, <2>6 DEF IInv, ConnInv, Serving, c
  <2>10. SourceInv'
    BY <1>0, <2>4, <2>6 DEF IInv, SourceInv
  <2>11. ToldInv'
    BY <1>0, <2>1, <2>4, <2>5, <2>6 DEF IInv, ToldInv, Serving, StatusSnapshot, c
  <2> QED
    BY <2>7, <2>8, <2>9, <2>10, <2>11 DEF IInv
<1> QED
  BY <1>1, <1>2

\* The process ends with an answer it cannot write, or a frame it cannot read.
LEMMA AbortInv ==
  ASSUME IInv, running' \in BOOLEAN,
         UNCHANGED << callerVars, thread, socketVars, source >>
  PROVE  IInv'
<1> USE DEF IInv, callerVars, socketVars
<1>1. TypeOK' /\ ThreadInv' /\ EndpointInv'
  BY DEF TypeOK, ThreadInv, EndpointInv
<1>2. ConnInv' /\ SourceInv'
  BY DEF ConnInv, SourceInv
<1>3. ToldInv'
  BY DEF ToldInv, StatusSnapshot
<1> QED
  BY <1>1, <1>2, <1>3

\* An answer tells the source as it is.
LEMMA RespondInv ==
  ASSUME IInv, thread.at = "handling",
         NEW answer \in [kind : Kinds, phase : Nat], NEW last \in BOOLEAN,
         thread' = Respond(answer, last),
         answer.kind = "status" => answer.phase = StatusSnapshot(source[thread.session]).phase,
         answer.kind = "not ready" => ~source[thread.session].ready,
         UNCHANGED << running, callerVars, socketVars, source >>
  PROVE  IInv'
<1>1. /\ thread' \in ThreadState /\ thread'.at = "writing" /\ thread'.client = thread.client
      /\ thread'.session = thread.session /\ thread'.answer = answer
  <2>1. ASSUME NEW at \in {"writing"}, NEW request \in {"none"}, NEW t,
               t = [thread EXCEPT !.at = at, !.request = request, !.answer = answer, !.last = last]
        PROVE  t \in ThreadState /\ t.at = at /\ t.client = thread.client
               /\ t.session = thread.session /\ t.answer = answer
    BY <2>1 DEF IInv, TypeOK, ThreadState, Listening
  <2> QED
    BY ONLY <2>1, Zenon, thread' = Respond(answer, last) DEF Respond
<1> USE DEF callerVars, socketVars
<1>2. TypeOK' /\ ThreadInv'
  BY <1>1 DEF IInv, TypeOK, ThreadInv
<1>3. EndpointInv' /\ ConnInv'
  BY <1>1 DEF IInv, EndpointInv, ConnInv, Serving, Listening
<1>4. SourceInv'
  BY <1>1 DEF IInv, SourceInv
<1>5. ToldInv'
  <2>1. thread.session \in Sessions /\ source[thread.session] \in SourceState
    BY NothingToldIsBehind
  <2>2. source[thread.session].phase = 5 => source[thread.session].ready
    BY <2>1, Ranks DEF IInv, SourceInv
  <2> SUFFICES ASSUME thread.client # Wake
               PROVE  ToldInv'
    BY <1>1 DEF ToldInv
  <2> DEFINE s == source[thread.session]
  <2> DEFINE p == StatusSnapshot(s).phase
             t == conn[thread.client].told
  <2>3. t =< p /\ (t = 5 => s.ready)
    BY Ranks DEF IInv, ToldInv, Serving
  <2>4. p =< p /\ (p = 5 => s.ready)
    <3>1. p = (IF s.ready THEN 5 ELSE s.phase) /\ p \in 1 .. 6
      BY <2>1, Snapshots
    <3> HIDE DEF p
    <3>2. p = 5 => s.ready
      BY <2>2, <3>1
    <3>3. p =< p
      BY ONLY <3>1
    <3> QED
      BY <3>2, <3>3
  <2>6. /\ answer.kind = "status" => answer.phase = p
        /\ answer.kind = "not ready" => ~s.ready
    OBVIOUS
  <2> DEFINE sNew == source'[thread'.session]
             tNew == conn'[thread'.client].told
  <2>7. sNew = s /\ tNew = t /\ StatusSnapshot(sNew).phase = p /\ thread'.answer = answer
    BY ONLY <1>1, UNCHANGED << conn, source >>
  <2> HIDE DEF p, t, s
  <2>8. /\ t =< p /\ (t = 5 => s.ready)
        /\ answer.kind = "status" => t =< answer.phase /\ answer.phase =< p
                                     /\ (answer.phase = 5 => s.ready)
        /\ answer.kind = "not ready" => t # 5
    BY ONLY <2>3, <2>4, <2>6, Zenon
  <2>9. /\ tNew =< StatusSnapshot(sNew).phase /\ (tNew = 5 => sNew.ready)
        /\ thread'.answer.kind = "status" =>
              /\ tNew =< thread'.answer.phase
              /\ thread'.answer.phase =< StatusSnapshot(sNew).phase
              /\ thread'.answer.phase = 5 => sNew.ready
        /\ thread'.answer.kind = "not ready" => tNew # 5
    BY ONLY <2>7, <2>8
  <2> QED
    BY ONLY <2>9, Ranks DEF ToldInv, StatusSnapshot
<1> QED
  BY <1>2, <1>3, <1>4, <1>5 DEF IInv

LEMMA ServeInv ==
  ASSUME IInv, Serve
  PROVE  IInv'
<1> DEFINE hangsUp == [thread EXCEPT !.at = "hanging up", !.request = "none"]
<1>1. thread.at = "handling" /\ UNCHANGED << callerVars, socketVars, source >>
  BY DEF Serve, ServeFrame, ServeLayoutFrame, sourceVars
<1>2. \/ UNCHANGED thread
      \/ thread' = hangsUp /\ UNCHANGED running
      \/ /\ \E answer \in [kind : Kinds, phase : Nat], last \in BOOLEAN :
               /\ thread' = Respond(answer, last)
               /\ answer.kind = "status" => answer.phase = StatusSnapshot(source[thread.session]).phase
               /\ answer.kind = "not ready" => ~source[thread.session].ready
         /\ UNCHANGED running
  <2>1. CASE service = "waveform" /\ ServeFrame
    <3>1. /\ HandleRequest \in [kind : Kinds, phase : Nat]
          /\ HandleRequest.kind # "status" /\ HandleRequest.kind # "not ready"
      BY Values DEF HandleRequest, Kinds
    <3> HIDE DEF HandleRequest
    <3> QED
      BY <2>1, <3>1 DEF ServeFrame, Abort
  <2>2. CASE service = "layout" /\ ServeLayoutFrame
    <3> DEFINE s == source[thread.session]
               answer == HandleLayoutRequest(s)
    <3>1. s \in SourceState
      BY <1>1, NothingToldIsBehind
    <3>2. StatusSnapshot(s).phase \in Nat
      BY <3>1, Ranks DEF StatusSnapshot, SourceState
    <3>3. /\ StatusAnswer(s) \in [kind : Kinds, phase : Nat]
          /\ StatusAnswer(s).kind = "status" /\ StatusAnswer(s).phase = StatusSnapshot(s).phase
      BY <3>2 DEF StatusAnswer, Kinds
    <3>4. /\ DataAnswer(s) \in [kind : Kinds, phase : Nat] /\ DataAnswer(s).kind # "status"
          /\ DataAnswer(s).kind = "not ready" => ~s.ready
      BY Values DEF DataAnswer, Kinds
    <3>5. /\ Answer("error") \in [kind : Kinds, phase : Nat] /\ Answer("error").kind = "error"
          /\ Answer("unsupported") \in [kind : Kinds, phase : Nat]
          /\ Answer("unsupported").kind = "unsupported"
      BY Values DEF Kinds
    <3>6. /\ answer \in [kind : Kinds, phase : Nat]
          /\ answer.kind = "status" => answer.phase = StatusSnapshot(s).phase
          /\ answer.kind = "not ready" => ~s.ready
      BY <3>3, <3>4, <3>5 DEF HandleLayoutRequest
    <3> HIDE DEF answer
    <3>7. \/ UNCHANGED thread
          \/ thread' = hangsUp /\ UNCHANGED running
          \/ thread' = Respond(Answer("unsupported"), TRUE) /\ UNCHANGED running
          \/ thread' = Respond(answer, FALSE) /\ UNCHANGED running
      BY <2>2 DEF ServeLayoutFrame, Abort, answer
    <3> QED
      BY <3>5, <3>6, <3>7
  <2> QED
    BY <2>1, <2>2 DEF Serve
<1>3. CASE UNCHANGED thread
  BY <1>1, <1>3, AbortInv DEF Serve, ServeFrame, ServeLayoutFrame, Abort, IInv, TypeOK
<1>4. CASE thread' = hangsUp /\ UNCHANGED running
  <2>1. /\ thread' \in ThreadState /\ thread'.at = "hanging up" /\ thread'.client = thread.client
        /\ thread'.session = thread.session
    <3>1. ASSUME NEW at \in {"hanging up"}, NEW request \in {"none"}, NEW t,
                 t = [thread EXCEPT !.at = at, !.request = request]
          PROVE  t \in ThreadState /\ t.at = at /\ t.client = thread.client
                 /\ t.session = thread.session
      BY <3>1 DEF IInv, TypeOK, ThreadState, Listening
    <3> QED
      BY ONLY <1>4, <3>1, Zenon
  <2> USE DEF callerVars, socketVars
  <2>2. TypeOK' /\ ThreadInv'
    BY <1>1, <1>4, <2>1 DEF IInv, TypeOK, ThreadInv
  <2>3. EndpointInv' /\ ConnInv'
    BY <1>1, <2>1 DEF IInv, EndpointInv, ConnInv, Serving, Listening
  <2>4. SourceInv'
    BY <1>1, <2>1 DEF IInv, SourceInv
  <2>5. ToldInv'
    BY <1>1, <2>1 DEF IInv, ToldInv, Serving, StatusSnapshot
  <2> QED
    BY <2>2, <2>3, <2>4, <2>5 DEF IInv
<1>5. CASE /\ \E answer \in [kind : Kinds, phase : Nat], last \in BOOLEAN :
                 /\ thread' = Respond(answer, last)
                 /\ answer.kind = "status" =>
                       answer.phase = StatusSnapshot(source[thread.session]).phase
                 /\ answer.kind = "not ready" => ~source[thread.session].ready
           /\ UNCHANGED running
  BY <1>1, <1>5, RespondInv
<1> QED
  BY <1>2, <1>3, <1>4, <1>5

\* What is written is what the client is told from then on.
LEMMA WriteFrameInv ==
  ASSUME IInv, WriteFrame, UNCHANGED sourceVars
  PROVE  IInv'
<1> DEFINE c == thread.client
<1>1. thread.at = "writing" /\ UNCHANGED << callerVars, bound, backlog, frames, source >>
  BY DEF WriteFrame, sourceVars
<1>2. CASE Gone(c)
  BY <1>1, <1>2, AbortInv DEF WriteFrame, Abort, socketVars
<1>3. CASE ~Gone(c)
  <2> DEFINE told == IF thread.answer.kind = "status" THEN thread.answer.phase ELSE conn[c].told
             k    == [conn[c] EXCEPT !.told = told, !.unread = conn[c].unread + 1]
             at   == IF thread.last THEN "hanging up" ELSE "serving"
  <2>1. /\ c \in Clients /\ c # Wake /\ thread \in ThreadState /\ conn \in [Clients -> ConnState]
        /\ conn[c] \in ConnState /\ thread.answer.phase \in Nat
    <3>1. thread \in ThreadState /\ conn \in [Clients -> ConnState]
      BY DEF IInv, TypeOK
    <3>2. c \in Clients /\ c # Wake
      BY <1>3, <3>1 DEF ThreadState, Gone
    <3> QED
      BY <3>1, <3>2 DEF ThreadState
  <2>2. told \in Nat
    BY <2>1 DEF ConnState
  <2>3. k \in ConnState /\ k.at = conn[c].at /\ k.session = conn[c].session /\ k.told = told
    <3>1. ASSUME NEW n \in Nat, NEW unread \in Nat, NEW l,
                 l = [conn[c] EXCEPT !.told = n, !.unread = unread]
          PROVE  l \in ConnState /\ l.at = conn[c].at /\ l.session = conn[c].session /\ l.told = n
      BY <2>1, <3>1 DEF ConnState
    <3>2. conn[c].unread + 1 \in Nat
      BY <2>1 DEF ConnState
    <3> HIDE DEF told
    <3> QED
      BY ONLY <2>2, <3>1, <3>2, Zenon
  <2>4. conn' = [conn EXCEPT ![c] = k]
    BY <1>3 DEF WriteFrame
  <2>5. /\ thread' \in ThreadState /\ thread'.at = at /\ thread'.client = c
        /\ thread'.session = thread.session /\ at \in {"hanging up", "serving"}
    <3>1. ASSUME NEW a \in {"hanging up", "serving"}, NEW answer \in [kind : Kinds, phase : Nat],
                 NEW last \in {FALSE}, NEW t,
                 t = [thread EXCEPT !.at = a, !.answer = answer, !.last = last]
          PROVE  t \in ThreadState /\ t.at = a /\ t.client = c /\ t.session = thread.session
      BY <2>1, <3>1 DEF ThreadState, Listening
    <3>2. Answer("none") \in [kind : Kinds, phase : Nat]
      BY Values DEF Kinds
    <3>3. thread' = [thread EXCEPT !.at = at, !.answer = Answer("none"), !.last = FALSE]
      BY <1>3 DEF WriteFrame
    <3>4. at \in {"hanging up", "serving"}
      OBVIOUS
    <3> HIDE DEF at
    <3> QED
      BY ONLY <3>1, <3>2, <3>3, <3>4, Zenon
  <2>6. running' = running
    BY <1>3 DEF WriteFrame
  <2>7. told =< StatusSnapshot(source[thread.session]).phase
        /\ (told = Rank("ready") => source[thread.session].ready)
    <3>1. thread.at \in Serving
      BY <1>1 DEF Serving
    <3>2. CASE thread.answer.kind = "status"
      BY <1>1, <2>1, <3>1, <3>2 DEF IInv, ToldInv
    <3>3. CASE thread.answer.kind # "status"
      BY <1>1, <2>1, <3>1, <3>3 DEF IInv, ToldInv
    <3> QED
      BY <3>2, <3>3
  <2> HIDE DEF k, told, at
  <2>8. /\ conn' \in [Clients -> ConnState] /\ conn'[c].told = told
        /\ \A d \in Clients : /\ conn'[d].at = conn[d].at /\ conn'[d].session = conn[d].session
                              /\ d # c => conn'[d] = conn[d]
    BY ONLY <2>1, <2>3, <2>4
  <2> HIDE DEF c
  <2> USE DEF callerVars
  <2>9. TypeOK' /\ ThreadInv'
    BY <1>1, <2>5, <2>6, <2>8 DEF IInv, TypeOK, ThreadInv
  <2>10. EndpointInv'
    <3>1. \A i \in DOMAIN backlog : backlog[i] # Wake => backlog[i] \in Clients
      BY ElementOfSeq, LenProperties DEF IInv, TypeOK
    <3> QED
      BY <1>1, <2>5, <2>8, <3>1 DEF IInv, EndpointInv, Listening
  <2>11. ConnInv'
    <3>1. conn[c].at = "served" /\ thread.at \in Serving /\ thread'.at \in Serving
      BY <1>1, <2>1, <2>5 DEF IInv, ConnInv, Serving, c
    <3> QED
      BY <1>1, <2>1, <2>5, <2>8, <3>1 DEF IInv, ConnInv, c
  <2>12. SourceInv'
    BY <1>1, <2>5 DEF IInv, SourceInv
  <2>13. ToldInv'
    BY <1>1, <2>5, <2>7, <2>8 DEF ToldInv, StatusSnapshot
  <2> QED
    BY <2>9, <2>10, <2>11, <2>12, <2>13 DEF IInv
<1> QED
  BY <1>2, <1>3

LEMMA HangUpInv ==
  ASSUME IInv, HangUp, UNCHANGED sourceVars
  PROVE  IInv'
<1>1. thread.at = "hanging up" /\ UNCHANGED << running, callerVars, bound, backlog, source >>
  BY DEF HangUp, sourceVars
<1>2. /\ thread \in ThreadState /\ conn \in [Clients -> ConnState]
      /\ backlog \in Seq(Clients \cup {Wake})
  BY DEF IInv, TypeOK
<1>3. /\ thread' \in ThreadState /\ thread'.at = "polling" /\ thread'.client = Wake
      /\ thread'.session = thread.session
  <2>1. ASSUME NEW at \in {"polling"}, NEW client \in {Wake}, NEW t,
               t = [thread EXCEPT !.at = at, !.client = client]
        PROVE  t \in ThreadState /\ t.at = at /\ t.client = client /\ t.session = thread.session
    BY <1>2, <2>1 DEF ThreadState, Listening
  <2>2. thread' = [thread EXCEPT !.at = "polling", !.client = Wake]
    BY DEF HangUp
  <2> QED
    BY ONLY <2>1, <2>2, Zenon
<1>4. /\ conn' \in [Clients -> ConnState]
      /\ \A c \in Clients : IF c = thread.client THEN conn'[c] = Closed ELSE conn'[c] = conn[c]
  BY <1>2, Values DEF HangUp
<1>5. \A c \in Clients : conn'[c].at # "served" /\ conn'[c].told = 0
  <2> TAKE c \in Clients
  <2>1. CASE c = thread.client
    BY <1>4, <2>1, Values
  <2>2. CASE c # thread.client
    <3>1. conn[c].at # "served" /\ conn[c].told \in Nat
      BY <1>2, <2>2 DEF IInv, ConnInv, ConnState
    <3> QED
      BY <1>4, <2>2, <3>1 DEF IInv, ConnInv
  <2> QED
    BY <2>1, <2>2
<1> USE DEF callerVars
<1>6. TypeOK' /\ ThreadInv'
  BY <1>1, <1>3, <1>4 DEF IInv, TypeOK, ThreadInv
<1>7. EndpointInv'
  <2>1. \A i \in DOMAIN backlog : backlog[i] # Wake =>
           backlog[i] \in Clients /\ backlog[i] # thread.client
    <3>1. thread.client # Wake => conn[thread.client].at = "served"
      BY <1>1 DEF IInv, ConnInv, Serving
    <3>2. \A i \in DOMAIN backlog : backlog[i] # Wake => conn[backlog[i]].at = "queued"
      BY DEF IInv, EndpointInv
    <3>3. \A i \in DOMAIN backlog : backlog[i] # Wake => backlog[i] \in Clients
      BY <1>2, ElementOfSeq, LenProperties
    <3> QED
      BY ONLY <3>1, <3>2, <3>3
  <2> QED
    BY <1>1, <1>3, <1>4, <2>1 DEF IInv, EndpointInv, Listening
<1>8. ConnInv'
  <2>1. Closed.at # "queued"
    BY Values
  <2>2. \A c \in Clients : conn'[c].at = "queued" => bound' # 0 /\ conn'[c].session = bound'
    BY <1>1, <1>4, <2>1 DEF IInv, ConnInv
  <2> QED
    BY <1>3, <1>5, <2>2 DEF ConnInv
<1>9. SourceInv'
  BY <1>1, <1>3 DEF IInv, SourceInv
<1>10. ToldInv'
  BY <1>3 DEF ToldInv, Serving
<1> QED
  BY <1>6, <1>7, <1>8, <1>9, <1>10 DEF IInv

LEMMA CloseEndpointInv ==
  ASSUME IInv, CloseEndpoint, UNCHANGED sourceVars
  PROVE  IInv'
<1>1. /\ thread.at = "closing" /\ bound' = 0 /\ backlog' = << >>
      /\ UNCHANGED << running, callerVars, source >>
  BY DEF CloseEndpoint, sourceVars
<1>2. thread \in ThreadState /\ conn \in [Clients -> ConnState]
  BY DEF IInv, TypeOK
<1>3. /\ thread' \in ThreadState /\ thread'.at = "ending" /\ thread'.session = thread.session
  BY <1>2 DEF CloseEndpoint, ThreadState
<1>4. /\ conn' \in [Clients -> ConnState]
      /\ \A c \in Clients : IF conn[c].at = "queued" THEN conn'[c] = Closed ELSE conn'[c] = conn[c]
  BY <1>2, Values DEF CloseEndpoint
<1> USE DEF callerVars
<1>5. TypeOK' /\ ThreadInv'
  <2>1. backlog' \in Seq(Clients \cup {Wake})
    BY <1>1, EmptySeq
  <2> QED
    BY <1>1, <1>3, <1>4, <2>1 DEF IInv, TypeOK, ThreadInv
<1>6. EndpointInv'
  <2>1. DOMAIN << >> = {}
    BY EmptySeq
  <2> QED
    BY <1>1, <2>1 DEF EndpointInv
<1>7. ConnInv'
  BY <1>1, <1>3, <1>4, Values DEF IInv, ConnInv, Serving
<1>8. SourceInv'
  BY <1>1, <1>3 DEF IInv, SourceInv
<1>9. ToldInv'
  BY <1>3 DEF ToldInv, Serving
<1> QED
  BY <1>5, <1>6, <1>7, <1>8, <1>9 DEF IInv

-----------------------------------------------------------------------------
(* The source *)

\* A source that goes on is not behind what it was.
LEMMA SourceMovesInv ==
  ASSUME IInv, UNCHANGED << running, callerVars, thread, socketVars >>,
         NEW n \in Sessions, NEW s \in SourceState, source' = [source EXCEPT ![n] = s],
         s.state # "none" => source[n].state # "none",
         s.parse = "running" => s.state \in {"parsing", "closing"} /\ ~s.ready,
         s.state = "parsing" => s.parse = "running",
         s.phase = Rank("ready") => s.ready,
         StatusSnapshot(source[n]).phase =< StatusSnapshot(s).phase,
         source[n].ready => s.ready
  PROVE  IInv'
<1>1. /\ source' \in [Sessions -> SourceState]
      /\ source'[n] = s /\ \A k \in Sessions : k # n => source'[k] = source[k]
  <2> HIDE DEF SourceState
  <2> QED
    BY DEF IInv, TypeOK
<1> USE DEF callerVars, socketVars
<1>2. TypeOK'
  BY <1>1 DEF IInv, TypeOK
<1>3. ThreadInv' /\ EndpointInv' /\ ConnInv'
  BY DEF IInv, ThreadInv, EndpointInv, ConnInv
<1>4. SourceInv'
  BY <1>1 DEF IInv, SourceInv
<1>5. ToldInv'
  <2>1. CASE thread.at \in Serving /\ thread.client # Wake
    <3>1. thread.session \in Sessions /\ source[thread.session] \in SourceState
      BY <2>1, NothingToldIsBehind DEF Serving
    <3>2. CASE thread.session = n
      <4> DEFINE old == StatusSnapshot(source[n]).phase
                 new == StatusSnapshot(s).phase
                 t   == conn[thread.client].told
                 a   == thread.answer
      <4>1. old \in 1 .. 6 /\ new \in 1 .. 6 /\ old =< new
        BY <3>1, <3>2, Snapshots
      <4>2. t \in Nat /\ a.phase \in Nat
        <5>1. thread \in ThreadState /\ conn \in [Clients -> ConnState]
          BY DEF IInv, TypeOK
        <5>2. thread.client \in Clients
          BY <2>1, <5>1 DEF ThreadState
        <5> QED
          BY <5>1, <5>2 DEF ThreadState, ConnState
      <4>3. /\ t =< old /\ (t = 5 => source[n].ready)
            /\ thread.at = "writing" /\ a.kind = "status" =>
                  t =< a.phase /\ a.phase =< old /\ (a.phase = 5 => source[n].ready)
            /\ thread.at = "writing" /\ a.kind = "not ready" => t # 5
        BY <2>1, <3>2, Ranks DEF IInv, ToldInv
      <4>4. StatusSnapshot(source'[n]).phase = new /\ source'[thread.session] = s
        BY <1>1, <3>2
      <4> HIDE DEF old, new
      <4>5. t =< new /\ (a.phase =< old => a.phase =< new)
        <5>1. t =< old
          BY <4>3
        <5> HIDE DEF t, a
        <5> QED
          BY ONLY <4>1, <4>2, <5>1
      <4>6. /\ t =< StatusSnapshot(source'[n]).phase /\ (t = 5 => s.ready)
            /\ thread.at = "writing" /\ a.kind = "status" =>
                  /\ t =< a.phase /\ a.phase =< StatusSnapshot(source'[n]).phase
                  /\ a.phase = 5 => s.ready
            /\ thread.at = "writing" /\ a.kind = "not ready" => t # 5
        BY <4>3, <4>4, <4>5
      <4>7. thread' = thread /\ conn' = conn /\ source'[n] = s
        BY <1>1
      <4> QED
        BY ONLY <3>2, <4>6, <4>7, Ranks DEF ToldInv, StatusSnapshot
    <3>3. CASE thread.session # n
      BY <1>1, <3>1, <3>3 DEF IInv, ToldInv, StatusSnapshot
    <3> QED
      BY <3>2, <3>3
  <2>2. CASE ~(thread.at \in Serving /\ thread.client # Wake)
    BY <2>2 DEF ToldInv
  <2> QED
    BY <2>1, <2>2
<1> QED
  BY <1>2, <1>3, <1>4, <1>5 DEF IInv

\* What a source is made when it is cancelled, parsed, given up or warmed up.
Holds(s, state, phase, ready, parse) ==
    /\ s \in SourceState
    /\ s.state = state /\ s.phase = phase /\ s.ready = ready /\ s.parse = parse

LEMMA SourceValues ==
  ASSUME NEW r \in SourceState
  PROVE  /\ \A phase \in 1 .. 6 : \A s :
               s = [r EXCEPT !.phase = phase] => Holds(s, r.state, phase, r.ready, r.parse)
         /\ \A s : s = [r EXCEPT !.parse = "done"] => Holds(s, r.state, r.phase, r.ready, "done")
         /\ \A s : s = [r EXCEPT !.state = "closing"] => Holds(s, "closing", r.phase, r.ready, r.parse)
         /\ \A s : s = [r EXCEPT !.warmup = "done"] => Holds(s, r.state, r.phase, r.ready, r.parse)
         /\ \A state \in {"failed"}, phase \in 1 .. 6, parse \in {"done"} : \A s :
               s = [r EXCEPT !.state = state, !.phase = phase, !.parse = parse] =>
                  Holds(s, state, phase, r.ready, parse)
         /\ \A state \in {"ready"}, phase \in 1 .. 6, ready \in {TRUE}, parse \in {"done"},
               warmup \in Warmups : \A s :
               s = [r EXCEPT !.state = state, !.phase = phase, !.ready = ready, !.parse = parse,
                             !.warmup = warmup] =>
                  Holds(s, state, phase, ready, parse)
<1> USE DEF SourceState, Holds
<1>1. ASSUME NEW phase \in 1 .. 6, NEW s, s = [r EXCEPT !.phase = phase]
      PROVE  Holds(s, r.state, phase, r.ready, r.parse)
  BY <1>1
<1>2. ASSUME NEW s, s = [r EXCEPT !.parse = "done"]
      PROVE  Holds(s, r.state, r.phase, r.ready, "done")
  BY <1>2
<1>3. ASSUME NEW s, s = [r EXCEPT !.state = "closing"]
      PROVE  Holds(s, "closing", r.phase, r.ready, r.parse)
  BY <1>3
<1>4. ASSUME NEW s, s = [r EXCEPT !.warmup = "done"]
      PROVE  Holds(s, r.state, r.phase, r.ready, r.parse)
  BY <1>4
<1>5. ASSUME NEW state \in {"failed"}, NEW phase \in 1 .. 6, NEW parse \in {"done"}, NEW s,
             s = [r EXCEPT !.state = state, !.phase = phase, !.parse = parse]
      PROVE  Holds(s, state, phase, r.ready, parse)
  BY <1>5
<1>6. ASSUME NEW state \in {"ready"}, NEW phase \in 1 .. 6, NEW ready \in {TRUE},
             NEW parse \in {"done"}, NEW warmup \in Warmups, NEW s,
             s = [r EXCEPT !.state = state, !.phase = phase, !.ready = ready, !.parse = parse,
                           !.warmup = warmup]
      PROVE  Holds(s, state, phase, ready, parse)
  BY <1>6 DEF Warmups
<1> HIDE DEF SourceState, Holds
<1> QED
  BY <1>1, <1>2, <1>3, <1>4, <1>5, <1>6

LEMMA SourceStepInv ==
  ASSUME IInv, NEW n \in 1 .. MaxSessions, SourceStep(n)
  PROVE  IInv'
<1> DEFINE r == source[n]
<1>1. source \in [Sessions -> SourceState] /\ n \in Sessions /\ r \in SourceState
  BY DEF IInv, TypeOK, Sessions
<1>2. UNCHANGED << running, callerVars, thread, socketVars >>
  BY DEF SourceStep, PublishParseProgress, FinishParse, FailParse, FinishWarmup, pipeVars,
         callerVars, socketVars
<1>3. /\ r.parse = "running" => r.state \in {"parsing", "closing"} /\ ~r.ready
      /\ r.state = "parsing" => r.parse = "running"
      /\ r.phase = 5 => r.ready
  BY <1>1, Ranks DEF IInv, SourceInv
<1>4. \A s \in SourceState :
         /\ StatusSnapshot(s).phase = IF s.ready THEN 5 ELSE s.phase
         /\ s.phase \in 1 .. 6
  BY Snapshots DEF SourceState
<1>5. CASE PublishParseProgress(n)
  <2>1. PICK phase \in {"records", "finalize", "resolve"} :
           /\ Rank(phase) \in {r.phase, r.phase + 1}
           /\ source' = [source EXCEPT ![n].phase = Rank(phase)]
    BY <1>5 DEF PublishParseProgress
  <2>2. Rank(phase) \in 2 .. 4
    BY Ranks
  <2> DEFINE s == [r EXCEPT !.phase = Rank(phase)]
  <2>3. source' = [source EXCEPT ![n] = s]
    BY <2>1
  <2>4. Holds(s, r.state, Rank(phase), r.ready, r.parse)
    <3>1. Rank(phase) \in 1 .. 6
      BY <2>2
    <3> QED
      BY ONLY <1>1, <3>1, SourceValues, Zenon
  <2>5. r.parse = "running" /\ r.state = "parsing" /\ ~r.ready
    BY <1>3, <1>5 DEF PublishParseProgress, Parsing
  <2> HIDE DEF s, r
  <2>6. StatusSnapshot(r).phase =< StatusSnapshot(s).phase
    BY <1>1, <1>4, <2>1, <2>2, <2>4, <2>5 DEF Holds
  <2>7. /\ s.state # "none" => r.state # "none"
        /\ s.parse = "running" => s.state \in {"parsing", "closing"} /\ ~s.ready
        /\ s.state = "parsing" => s.parse = "running"
        /\ s.phase = Rank("ready") => s.ready
        /\ r.ready => s.ready
    BY <2>2, <2>4, <2>5, Ranks DEF Holds
  <2> QED
    BY <1>1, <1>2, <2>3, <2>4, <2>6, <2>7, SourceMovesInv DEF r, Holds
<1>6. CASE FinishParse(n)
  <2>1. r.parse = "running" /\ r.state \in {"parsing", "closing"} /\ ~r.ready
    BY <1>3, <1>6 DEF FinishParse, Parsing
  <2>2. CASE r.state = "closing" /\ source' = [source EXCEPT ![n].parse = "done"]
    <3> DEFINE s == [r EXCEPT !.parse = "done"]
    <3>1. source' = [source EXCEPT ![n] = s]
      BY <2>2
    <3>2. Holds(s, r.state, r.phase, r.ready, "done")
      BY ONLY <1>1, SourceValues, Zenon
    <3> HIDE DEF s, r
    <3>3. StatusSnapshot(r).phase =< StatusSnapshot(s).phase
      BY <1>1, <1>4, <2>1, <3>2 DEF Holds
    <3>4. r.phase # Rank("ready")
      BY <1>3, <2>1, Ranks
    <3> QED
      BY <1>1, <1>2, <2>1, <2>2, <3>1, <3>2, <3>3, <3>4, SourceMovesInv DEF r, Holds
  <2>3. CASE /\ r.state # "closing" /\ r.phase = Rank("resolve")
             /\ \E w \in Warmups : source' = [source EXCEPT ![n] = PublishReady(source[n], w)]
    <3>1. PICK w \in Warmups : source' = [source EXCEPT ![n] = PublishReady(source[n], w)]
      BY <2>3
    <3> DEFINE s == PublishReady(r, w)
    <3>2. source' = [source EXCEPT ![n] = s]
      BY <3>1
    <3>3. Holds(s, "ready", Rank("ready"), TRUE, "done") /\ Rank("ready") = 5
      <4>1. Rank("ready") \in 1 .. 6 /\ Rank("ready") = 5
        BY Ranks
      <4> HIDE DEF r
      <4> QED
        BY ONLY <1>1, <4>1, SourceValues, Zenon DEF PublishReady
    <3> HIDE DEF s, r
    <3>4. StatusSnapshot(r).phase =< StatusSnapshot(s).phase
      BY <1>1, <1>4, <2>1, <2>3, <3>3, Ranks DEF Holds
    <3> QED
      BY <1>1, <1>2, <2>1, <3>2, <3>3, <3>4, SourceMovesInv DEF r, Holds
  <2> QED
    BY <1>6, <2>2, <2>3 DEF FinishParse
<1>7. CASE FailParse(n)
  <2>1. /\ r.parse = "running" /\ r.state \in {"parsing", "closing"} /\ ~r.ready
        /\ source' = [source EXCEPT ![n].state = "failed", ![n].phase = Rank("failed"),
                                    ![n].parse = "done"]
    BY <1>3, <1>7 DEF FailParse, Parsing
  <2> DEFINE s == [r EXCEPT !.state = "failed", !.phase = Rank("failed"), !.parse = "done"]
  <2>2. source' = [source EXCEPT ![n] = s]
    BY <2>1
  <2>3. Holds(s, "failed", Rank("failed"), r.ready, "done") /\ Rank("failed") = 6
    <3>1. Rank("failed") \in 1 .. 6 /\ Rank("failed") = 6
      BY Ranks
    <3> HIDE DEF r
    <3> QED
      BY ONLY <1>1, <3>1, SourceValues, Zenon
  <2> HIDE DEF s, r
  <2>4. StatusSnapshot(r).phase =< StatusSnapshot(s).phase
    BY <1>1, <1>4, <2>1, <2>3 DEF Holds
  <2>5. s.phase # Rank("ready")
    BY <2>3, Ranks DEF Holds
  <2> QED
    BY <1>1, <1>2, <2>1, <2>2, <2>3, <2>4, <2>5, SourceMovesInv DEF r, Holds
<1>8. CASE FinishWarmup(n)
  <2> DEFINE s == [r EXCEPT !.warmup = "done"]
  <2>1. source' = [source EXCEPT ![n] = s]
    BY <1>8 DEF FinishWarmup
  <2>2. Holds(s, r.state, r.phase, r.ready, r.parse)
    BY ONLY <1>1, SourceValues, Zenon
  <2> HIDE DEF s, r
  <2>3. StatusSnapshot(r).phase =< StatusSnapshot(s).phase
    BY <1>1, <1>4, <2>2 DEF Holds
  <2> QED
    BY <1>1, <1>2, <1>3, <2>1, <2>2, <2>3, Ranks, SourceMovesInv DEF r, Holds
<1> QED
  BY <1>5, <1>6, <1>7, <1>8 DEF SourceStep

\* The thread ends: the source is told to, and goes with it.
LEMMA RequestCancelInv ==
  ASSUME IInv, RequestCancel
  PROVE  IInv'
<1> DEFINE n == thread.session
           r == source[n]
           s == [r EXCEPT !.state = "closing"]
<1>1. thread.at = "ending" /\ r.state = "parsing" /\ source' = [source EXCEPT ![n] = s]
  BY DEF RequestCancel
<1>2. UNCHANGED << running, callerVars, thread, socketVars >>
  BY DEF RequestCancel, pipeVars, callerVars, socketVars
<1>3. n \in Sessions /\ r \in SourceState
  BY <1>1, NothingToldIsBehind
<1>4. Holds(s, "closing", r.phase, r.ready, r.parse)
  BY ONLY <1>3, SourceValues, Zenon
<1>5. r.parse = "running" /\ ~r.ready /\ r.phase # Rank("ready")
  BY <1>1, <1>3 DEF IInv, SourceInv
<1> HIDE DEF s, r, n
<1>6. StatusSnapshot(r).phase =< StatusSnapshot(s).phase
  BY <1>3, <1>4, <1>5, Snapshots DEF Holds, SourceState
<1> QED
  BY <1>1, <1>2, <1>3, <1>4, <1>5, <1>6, SourceMovesInv DEF r, Holds

LEMMA DestroySourceInv ==
  ASSUME IInv, DestroySource
  PROVE  IInv'
<1>1. /\ thread.at = "ending" /\ thread' = [thread EXCEPT !.at = "done"]
      /\ UNCHANGED << running, callerVars, socketVars >>
      /\ source' = [source EXCEPT ![thread.session] = NoSource]
  BY DEF DestroySource, EndThread
<1>2. thread \in ThreadState /\ source \in [Sessions -> SourceState] /\ thread.session \in Sessions
  BY <1>1, NothingToldIsBehind DEF IInv, TypeOK
<1>3. /\ thread' \in ThreadState /\ thread'.at = "done" /\ thread'.session = thread.session
  BY <1>1, <1>2 DEF ThreadState
<1>4. /\ source' \in [Sessions -> SourceState]
      /\ \A n \in Sessions : source'[n] = IF n = thread.session THEN NoSource ELSE source[n]
  <2> HIDE DEF SourceState, NoSource
  <2> QED
    BY <1>1, <1>2, Values
<1> USE DEF callerVars, socketVars
<1>5. TypeOK' /\ ThreadInv'
  BY <1>1, <1>3, <1>4 DEF IInv, TypeOK, ThreadInv
<1>6. EndpointInv' /\ ConnInv'
  BY <1>1, <1>3 DEF IInv, EndpointInv, ConnInv, Serving, Listening
<1>7. SourceInv'
  <2>1. NoSource.state = "none" /\ NoSource.parse = "done" /\ NoSource.phase # Rank("ready")
    BY Ranks DEF NoSource
  <2> HIDE DEF NoSource
  <2> QED
    BY <1>1, <1>3, <1>4, <2>1 DEF IInv, SourceInv
<1>8. ToldInv'
  BY <1>3 DEF ToldInv, Serving
<1> QED
  BY <1>5, <1>6, <1>7, <1>8 DEF IInv

-----------------------------------------------------------------------------
(* The clients *)

\* Who connects is queued at the endpoint, and nowhere else.
LEMMA ConnectInv ==
  ASSUME IInv, NEW c \in Clients, Connect(c), UNCHANGED sourceVars
  PROVE  IInv'
<1> USE DEF callerVars
<1>1. /\ conn[c].at = "away" /\ bound # 0 /\ backlog' = Append(backlog, c)
      /\ conn' = [conn EXCEPT ![c].at = "queued", ![c].session = bound]
      /\ UNCHANGED << running, callerVars, thread, bound, source >>
  BY DEF Connect, sourceVars
<1>2. /\ conn \in [Clients -> ConnState] /\ conn[c] \in ConnState /\ bound \in Nat
      /\ backlog \in Seq(Clients \cup {Wake}) /\ c # Wake /\ thread \in ThreadState
  BY PipeConstants DEF IInv, TypeOK, Clients, Wake
<1>3. /\ conn' \in [Clients -> ConnState]
      /\ conn'[c].at = "queued" /\ conn'[c].session = bound /\ conn'[c].told = conn[c].told
      /\ \A d \in Clients : d # c => conn'[d] = conn[d]
  <2>1. ASSUME NEW at \in {"queued"}, NEW k, k = [conn[c] EXCEPT !.at = at, !.session = bound]
        PROVE  k \in ConnState /\ k.at = at /\ k.session = bound /\ k.told = conn[c].told
    BY <1>2, <2>1 DEF ConnState
  <2> DEFINE k == [conn[c] EXCEPT !.at = "queued", !.session = bound]
  <2>2. conn' = [conn EXCEPT ![c] = k]
    BY <1>1
  <2>3. k \in ConnState /\ k.at = "queued" /\ k.session = bound /\ k.told = conn[c].told
    BY ONLY <2>1, Zenon
  <2> HIDE DEF k
  <2> QED
    BY ONLY <1>2, <2>2, <2>3
<1>4. /\ backlog' \in Seq(Clients \cup {Wake}) /\ Len(backlog) \in Nat
      /\ DOMAIN backlog = 1 .. Len(backlog) /\ DOMAIN backlog' = 1 .. Len(backlog) + 1
      /\ \A i \in DOMAIN backlog : backlog'[i] = backlog[i]
      /\ backlog'[Len(backlog) + 1] = c
  <2>1. c \in Clients \cup {Wake}
    OBVIOUS
  <2> QED
    BY ONLY <1>1, <1>2, <2>1, AppendProperties, LenProperties
<1>5. \A i \in DOMAIN backlog : backlog[i] # Wake => /\ backlog[i] \in Clients /\ backlog[i] # c
                                                    /\ conn[backlog[i]].at = "queued"
  <2>1. \A i \in DOMAIN backlog : backlog[i] # Wake => backlog[i] \in Clients
    BY <1>2, ElementOfSeq, LenProperties
  <2> QED
    BY <1>1, <2>1 DEF IInv, EndpointInv
<1>6. TypeOK' /\ ThreadInv'
  BY <1>1, <1>3, <1>4 DEF IInv, TypeOK, ThreadInv
<1>7. EndpointInv'
  <2>1. \A i \in DOMAIN backlog' : backlog'[i] # Wake => conn'[backlog'[i]].at = "queued"
    BY ONLY <1>3, <1>4, <1>5
  <2>2. \A i, j \in DOMAIN backlog' : backlog'[i] = backlog'[j] /\ backlog'[i] # Wake => i = j
    <3>1. \A i, j \in DOMAIN backlog : backlog[i] = backlog[j] /\ backlog[i] # Wake => i = j
      BY DEF IInv, EndpointInv
    <3> QED
      BY ONLY <1>4, <1>5, <3>1
  <2> QED
    BY <1>1, <2>1, <2>2 DEF IInv, EndpointInv
<1>8. ConnInv'
  <2>1. thread.at \in Serving /\ thread.client # Wake => thread.client # c
    BY <1>1 DEF IInv, ConnInv
  <2>2. conn[c].told = 0
    BY <1>1, <1>2 DEF IInv, ConnInv, ConnState
  <2>3. ASSUME NEW d \in Clients
        PROVE  /\ conn'[d].at = "queued" => bound' # 0 /\ conn'[d].session = bound'
               /\ conn'[d].at = "served" => /\ thread'.at \in Serving /\ thread'.client = d
                                            /\ conn'[d].session = thread'.session
               /\ conn'[d].told # 0 => conn'[d].at = "served"
    <3>1. CASE d = c
      BY <1>1, <1>3, <2>2, <3>1
    <3>2. CASE d # c
      BY <1>1, <1>3, <3>2 DEF IInv, ConnInv
    <3> QED
      BY <3>1, <3>2
  <2>4. thread'.at \in Serving /\ thread'.client # Wake => conn'[thread'.client].at = "served"
    BY <1>1, <1>2, <1>3, <2>1 DEF IInv, ConnInv, ThreadState
  <2> QED
    BY <2>3, <2>4 DEF ConnInv
<1>9. SourceInv'
  BY <1>1 DEF IInv, SourceInv
<1>10. ToldInv'
  <2>1. thread.at \in Serving /\ thread.client # Wake =>
           thread.client \in Clients /\ thread.client # c
    BY <1>1, <1>2 DEF IInv, ConnInv, ThreadState
  <2> QED
    BY <1>1, <1>3, <2>1 DEF IInv, ToldInv, StatusSnapshot
<1> QED
  BY <1>6, <1>7, <1>8, <1>9, <1>10 DEF IInv

\* A client that sends, reads or leaves stays where it is.
LEMMA ClientMovesInv ==
  ASSUME IInv, NEW c \in Clients, NEW k \in ConnState, conn' = [conn EXCEPT ![c] = k],
         k.at = conn[c].at, k.session = conn[c].session, k.told \in {0, conn[c].told},
         UNCHANGED << running, callerVars, thread, bound, backlog, source >>
  PROVE  IInv'
<1> USE DEF callerVars
<1>1. /\ conn' \in [Clients -> ConnState]
      /\ \A d \in Clients : /\ conn'[d].at = conn[d].at /\ conn'[d].session = conn[d].session
                            /\ conn'[d].told \in {0, conn[d].told}
  <2>1. conn \in [Clients -> ConnState]
    BY DEF IInv, TypeOK
  <2>2. \A d \in Clients : conn'[d] = IF d = c THEN k ELSE conn[d]
    BY <2>1
  <2> QED
    BY <2>1, <2>2
<1>2. TypeOK' /\ ThreadInv'
  BY <1>1 DEF IInv, TypeOK, ThreadInv
<1>3. EndpointInv'
  <2>1. \A i \in DOMAIN backlog : backlog[i] # Wake => backlog[i] \in Clients
    BY ElementOfSeq, LenProperties DEF IInv, TypeOK
  <2> QED
    BY <1>1, <2>1 DEF IInv, EndpointInv
<1>4. thread.at \in Serving /\ thread.client # Wake => thread.client \in Clients
  BY DEF IInv, TypeOK, ThreadState
<1>5. ConnInv'
  BY <1>1, <1>4 DEF IInv, ConnInv
<1>6. SourceInv'
  BY DEF IInv, SourceInv
<1>7. ToldInv'
  <2>1. CASE thread.at \in Serving /\ thread.client # Wake
    <3> DEFINE s    == source[thread.session]
               t    == conn[thread.client].told
               tNew == conn'[thread.client].told
    <3>1. tNew \in {0, t}
      BY <1>1, <1>4, <2>1
    <3>2. s \in SourceState /\ 0 =< StatusSnapshot(s).phase
      BY <2>1, NothingToldIsBehind DEF Serving
    <3>3. /\ t =< StatusSnapshot(s).phase /\ (t = 5 => s.ready)
          /\ thread.at = "writing" /\ thread.answer.kind = "status" =>
                /\ t =< thread.answer.phase
                /\ thread.answer.phase =< StatusSnapshot(s).phase
                /\ thread.answer.phase = 5 => s.ready
          /\ thread.at = "writing" /\ thread.answer.kind = "not ready" => t # 5
      BY <2>1, Ranks DEF IInv, ToldInv
    <3>4. 0 =< thread.answer.phase
      BY DEF IInv, TypeOK, ThreadState
    <3>5. CASE tNew = t
      <4>1. UNCHANGED << thread, source >> /\ conn'[thread'.client].told = t
        BY <3>5
      <4> QED
        BY <3>3, <4>1, Ranks DEF ToldInv, StatusSnapshot
    <3>6. CASE tNew = 0
      <4>1. UNCHANGED << thread, source >> /\ conn'[thread'.client].told = 0
        BY <3>6
      <4>2. /\ conn'[thread'.client].told =< StatusSnapshot(source'[thread'.session]).phase
            /\ conn'[thread'.client].told # 5
            /\ thread'.at = "writing" /\ thread'.answer.kind = "status" =>
                  /\ conn'[thread'.client].told =< thread'.answer.phase
                  /\ thread'.answer.phase =< StatusSnapshot(source'[thread'.session]).phase
                  /\ thread'.answer.phase = 5 => source'[thread'.session].ready
        <5>1. source'[thread'.session] = s /\ thread' = thread
          BY <4>1
        <5>2. 0 # 5
          OBVIOUS
        <5> HIDE DEF s
        <5> QED
          BY ONLY <3>2, <3>3, <3>4, <4>1, <5>1, <5>2, Zenon
      <4> QED
        BY ONLY <4>2, Ranks DEF ToldInv, StatusSnapshot
    <3> QED
      BY <3>1, <3>5, <3>6
  <2>2. CASE ~(thread.at \in Serving /\ thread.client # Wake)
    BY <2>2 DEF ToldInv
  <2> QED
    BY <2>1, <2>2
<1> QED
  BY <1>2, <1>3, <1>5, <1>6, <1>7 DEF IInv

LEMMA ClientStepInv ==
  ASSUME IInv, NEW c \in Clients, ClientStep(c)
  PROVE  IInv'
<1>1. conn \in [Clients -> ConnState] /\ conn[c] \in ConnState
  BY DEF IInv, TypeOK
<1>2. CASE Connect(c) /\ UNCHANGED sourceVars
  BY <1>2, ConnectInv
<1>3. ASSUME NEW m \in Messages, Send(c, m), UNCHANGED sourceVars
      PROVE  IInv'
  <2> DEFINE k == [conn[c] EXCEPT !.inbox = Append(conn[c].inbox, m)]
  <2>1. conn[c].inbox \in Seq(Messages)
    BY <1>1 DEF ConnState
  <2>2. Append(conn[c].inbox, m) \in Seq(Messages)
    BY <2>1, AppendProperties
  <2>3. k \in ConnState /\ k.at = conn[c].at /\ k.session = conn[c].session /\ k.told = conn[c].told
    BY <1>1, <2>2 DEF ConnState
  <2>4. /\ conn' = [conn EXCEPT ![c] = k]
        /\ UNCHANGED << running, callerVars, thread, bound, backlog, source >>
    BY <1>3 DEF Send, sourceVars
  <2> HIDE DEF k
  <2> QED
    BY <2>3, <2>4, ClientMovesInv
<1>4. CASE Receive(c) /\ UNCHANGED sourceVars
  <2> DEFINE k == [conn[c] EXCEPT !.unread = conn[c].unread - 1]
  <2>1. k \in ConnState /\ k.at = conn[c].at /\ k.session = conn[c].session /\ k.told = conn[c].told
    <3>1. conn[c].unread - 1 \in Nat
      BY <1>1, <1>4 DEF ConnState, Receive
    <3>2. ASSUME NEW unread \in Nat, NEW l, l = [conn[c] EXCEPT !.unread = unread]
          PROVE  l \in ConnState /\ l.at = conn[c].at /\ l.session = conn[c].session
                 /\ l.told = conn[c].told
      BY <1>1, <3>2 DEF ConnState
    <3> QED
      BY ONLY <3>1, <3>2, Zenon
  <2>2. /\ conn' = [conn EXCEPT ![c] = k]
        /\ UNCHANGED << running, callerVars, thread, bound, backlog, source >>
    BY <1>4 DEF Receive, sourceVars
  <2> HIDE DEF k
  <2> QED
    BY <2>1, <2>2, ClientMovesInv
<1>5. CASE Disconnect(c) /\ UNCHANGED sourceVars
  <2> DEFINE k == [conn[c] EXCEPT !.gone = TRUE, !.unread = 0, !.told = 0]
  <2>1. k \in ConnState /\ k.at = conn[c].at /\ k.session = conn[c].session /\ k.told = 0
    <3>1. ASSUME NEW unread \in Nat, NEW told \in Nat, NEW l,
                 l = [conn[c] EXCEPT !.gone = TRUE, !.unread = unread, !.told = told]
          PROVE  l \in ConnState /\ l.at = conn[c].at /\ l.session = conn[c].session /\ l.told = told
      BY <1>1, <3>1 DEF ConnState
    <3>2. 0 \in Nat
      OBVIOUS
    <3> QED
      BY ONLY <3>1, <3>2, Zenon
  <2>2. /\ conn' = [conn EXCEPT ![c] = k]
        /\ UNCHANGED << running, callerVars, thread, bound, backlog, source >>
    BY <1>5 DEF Disconnect, sourceVars
  <2> HIDE DEF k
  <2> QED
    BY <2>1, <2>2, ClientMovesInv
<1> QED
  BY <1>2, <1>3, <1>4, <1>5 DEF ClientStep

-----------------------------------------------------------------------------
(* The service *)

LEMMA OperationInv ==
  ASSUME IInv, Operation
  PROVE  IInv'
<1>1. CASE OpenWaveform \/ OpenWhole \/ OpenStaged
  <2>1. /\ RequestStop("open") /\ nextSession =< MaxSessions
        /\ \E s \in {WholeSource("done"), WholeSource("running"), StagedSource} :
              source' = [source EXCEPT ![nextSession] = s]
    <3> HIDE DEF WholeSource, StagedSource
    <3> QED
      BY <1>1 DEF OpenWaveform, OpenWhole, OpenStaged, OpenSession, Opened, Warmups
  <2> QED
    BY <2>1, RequestStopInv
<1>2. CASE (CloseSession \/ Stop) /\ UNCHANGED sourceVars
  <2>1. RequestStop("end") /\ UNCHANGED source
    BY <1>2 DEF CloseSession, Stop, sourceVars
  <2> QED
    BY <2>1, RequestStopInv
<1> QED
  BY <1>1, <1>2 DEF Operation

LEMMA CallerStepInv ==
  ASSUME IInv, CallerStep
  PROVE  IInv'
<1>1. CASE WakeEndpoint /\ UNCHANGED sourceVars
  BY <1>1, WakeEndpointInv
<1>2. CASE JoinThread /\ UNCHANGED sourceVars
  BY <1>2, CallerMovesInv DEF JoinThread, sourceVars
<1>3. CASE ClearSession /\ UNCHANGED sourceVars
  BY <1>3, ClearSessionInv
<1>4. CASE Describe
  BY <1>4, CallerMovesInv DEF Describe, DescribeSession
<1>5. CASE Start
  BY <1>5, StartInv
<1> QED
  BY <1>1, <1>2, <1>3, <1>4, <1>5 DEF CallerStep

LEMMA ThreadStepInv ==
  ASSUME IInv, ThreadStep
  PROVE  IInv'
<1>1. CASE Bind
  BY <1>1, BindInv
<1>2. CASE (Poll \/ CheckAccepted \/ CheckServing) /\ UNCHANGED sourceVars
  <2>1. \E at \in {"closing", "selecting", "hanging up", "serving", "reading"} :
           /\ thread' = [thread EXCEPT !.at = at]
           /\ \/ thread.at = "polling" /\ at \in {"closing", "selecting"}
              \/ thread.at = "accepted" /\ at \in {"hanging up", "serving"}
              \/ thread.at = "serving" /\ at \in {"hanging up", "reading"}
           /\ UNCHANGED << running, callerVars, socketVars, source >>
    BY <1>2 DEF Poll, CheckAccepted, CheckServing, sourceVars
  <2> QED
    BY <2>1, ThreadMovesInv DEF Listening, Serving
<1>3. CASE Accept /\ UNCHANGED sourceVars
  BY <1>3, AcceptInv
<1>4. CASE ReadFrame /\ UNCHANGED sourceVars
  BY <1>4, ReadFrameInv
<1>5. CASE Serve
  BY <1>5, ServeInv
<1>6. CASE WriteFrame /\ UNCHANGED sourceVars
  BY <1>6, WriteFrameInv
<1>7. CASE HangUp /\ UNCHANGED sourceVars
  BY <1>7, HangUpInv
<1>8. CASE CloseEndpoint /\ UNCHANGED sourceVars
  BY <1>8, CloseEndpointInv
<1>9. CASE RequestCancel
  BY <1>9, RequestCancelInv
<1>10. CASE DestroySource
  BY <1>10, DestroySourceInv
<1> QED
  BY <1>1, <1>2, <1>3, <1>4, <1>5, <1>6, <1>7, <1>8, <1>9, <1>10 DEF ThreadStep

LEMMA StutterInv == IInv /\ UNCHANGED vars => IInv'
<1> SUFFICES ASSUME IInv, UNCHANGED vars PROVE IInv'
  OBVIOUS
<1> QED
  BY AbortInv DEF IInv, TypeOK, vars, pipeVars, sourceVars, callerVars, socketVars

LEMMA Invariance == Spec => []IInv
<1>1. Init => IInv
  BY InitInv
<1>2. IInv /\ [Next]_vars => IInv'
  <2>1. IInv /\ Next => IInv'
    BY OperationInv, CallerStepInv, ThreadStepInv, SourceStepInv, ClientStepInv DEF Next
  <2> QED
    BY <2>1, StutterInv
<1> QED
  BY <1>1, <1>2, PTL DEF Spec

\* What the services keep is of its types, whatever their clients do.
\* (WaveformPipeService, LayoutPipeService.)
THEOREM TypeCorrect == Spec => []TypeOK
BY Invariance, PTL DEF IInv

\* When no operation is under way nothing of a session that was closed or
\* replaced is left: no thread, endpoint, connection or source.  (stop,
\* openSession, runSession, for any number of clients and sessions.)
THEOREM SessionsStayApart == Spec => []SessionsAreApart
<1>1. IInv => SessionsAreApart
  <2> SUFFICES ASSUME IInv, caller = Idle
               PROVE  /\ thread.at # "done" => thread.session = active
                      /\ bound \in {0, active}
                      /\ \A c \in Clients : conn[c].at \in {"queued", "served"} =>
                                              active # 0 /\ conn[c].session = active
                      /\ \A n \in 1 .. MaxSessions : source[n].state # "none" => n = active
    BY DEF SessionsAreApart
  <2>1. caller.op = "none" /\ (thread.at # "done" => active # 0 /\ thread.session = active)
    BY DEF IInv, ThreadInv, Idle
  <2>2. bound \in {0, active}
    BY <2>1 DEF IInv, EndpointInv, Listening
  <2>3. ASSUME NEW c \in Clients, conn[c].at \in {"queued", "served"}
        PROVE  active # 0 /\ conn[c].session = active
    BY <2>1, <2>2, <2>3 DEF IInv, ConnInv, Serving
  <2>4. \A n \in 1 .. MaxSessions : source[n].state # "none" => n = active
    BY <2>1 DEF IInv, SourceInv, Sessions
  <2> QED
    BY <2>1, <2>2, <2>3, <2>4
<1> QED
  BY <1>1, Invariance, PTL

\* The phases a client is told never go back, and what it asks for after it
\* was told that the source is ready is not refused as too early.
\* (StagedGdsLayoutSource, for any interleaving with the parse.)
THEOREM StatusStaysOrdered == Spec => []StatusNeverRegresses
<1>1. IInv => StatusNeverRegresses
  BY DEF IInv, ToldInv, StatusNeverRegresses, Gone, Serving
<1> QED
  BY <1>1, Invariance, PTL

=============================================================================
