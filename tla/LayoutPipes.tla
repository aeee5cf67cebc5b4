---------------------------- MODULE LayoutPipes -----------------------------
(***************************************************************************)
(* The two services that answer on a socket, waveform and layout, and the  *)
(* source of a layout session (LayoutPipeService.cpp, LayoutSource.cpp).   *)
(* The services share no state and run the same code: a behaviour is one   *)
(* of the one or of the other, as the variable service tells.              *)
(*                                                                         *)
(* A large layout is opened in stages: the session is there at once, a     *)
(* thread parses the file, and until it is done requests for data are      *)
(* answered with an error and requests for the status with the phase.  A   *)
(* source that is whole, or that the parse has completed, may have a       *)
(* thread that builds its indices (the warm-up).                           *)
(***************************************************************************)
EXTENDS PipeService

VARIABLES service,   \* "waveform" or "layout"
          source,    \* the source of each session
          info       \* what the last openSession returned

sourceVars == << service, source, info >>
vars == << pipeVars, sourceVars >>

Phases == << "read", "records", "finalize", "resolve", "ready", "failed" >>
Rank(phase) == CHOOSE i \in 1 .. Len(Phases) : Phases[i] = phase

NoSource     == [state |-> "none", phase |-> 1, ready |-> FALSE, parse |-> "done", warmup |-> "done"]
StagedSource == [NoSource EXCEPT !.state = "parsing", !.phase = Rank("read"), !.parse = "running"]
WholeSource(warmup) ==
    [NoSource EXCEPT !.state = "ready", !.phase = Rank("ready"), !.ready = TRUE, !.warmup = warmup]

\* Whether a library is large enough for a warm-up depends on the file.
Warmups == {"running", "done"}

NoInfo == [status |-> "none", deferred |-> FALSE, data |-> "none"]

Init ==
    /\ PipeInit
    /\ service \in {"waveform", "layout"}
    /\ source = [n \in 1 .. MaxSessions |-> NoSource]
    /\ info = NoInfo

-----------------------------------------------------------------------------
(***************************************************************************)
(* Opening: the source is made, then the session before is stopped.  A     *)
(* request that is refused, and a whole source that cannot be read, end    *)
(* before openSession and change nothing.                                  *)
(***************************************************************************)
Opened(s) ==
    /\ source' = [source EXCEPT ![nextSession] = s]
    /\ UNCHANGED << service, info >>

OpenWaveform ==
    /\ service = "waveform"
    /\ OpenSession
    /\ Opened(WholeSource("done"))

OpenWhole ==
    /\ service = "layout"
    /\ OpenSession
    /\ \E w \in Warmups : Opened(WholeSource(w))

\* The mode "staged", or "auto" for a large file.
OpenStaged ==
    /\ service = "layout"
    /\ OpenSession
    /\ Opened(StagedSource)


\* The state and the phase a status tells.
StatusSnapshot(s) ==
    IF s.ready THEN [state |-> "ready", phase |-> Rank("ready")]
    ELSE [state |-> s.state, phase |-> s.phase]

\* The data of a staged source is a placeholder until it is ready.
DataSet(s) == IF s.ready THEN "data" ELSE "placeholder"

\* openSession takes the data set and the status one after the other.
Describe ==
    /\ DescribeSession
    /\ info' = [NoInfo EXCEPT !.data = DataSet(source[nextSession])]
    /\ UNCHANGED << service, source >>

Start ==
    /\ StartSession
    /\ LET state == StatusSnapshot(source[nextSession]).state
       IN  info' = [info EXCEPT !.status = state, !.deferred = state # "ready"]
    /\ UNCHANGED << service, source >>

-----------------------------------------------------------------------------
(***************************************************************************)
(* The thread that parses.                                                 *)
(***************************************************************************)
Parsing(n) == source[n].parse = "running"

\* The parser tells the phases in their order; what it tells after the source
\* is being closed is dropped.
PublishParseProgress(n) ==
    /\ Parsing(n)
    /\ source[n].state = "parsing"
    /\ \E phase \in {"records", "finalize", "resolve"} :
          /\ Rank(phase) \in {source[n].phase, source[n].phase + 1}
          /\ source' = [source EXCEPT ![n].phase = Rank(phase)]
    /\ UNCHANGED << pipeVars, service, info >>

\* Bug: the state is published without the source.
PublishStateOnly(s, warmup) ==
    [s EXCEPT !.state = "ready", !.phase = Rank("ready"), !.parse = "done", !.warmup = warmup]

PublishReady(s, warmup) ==
    [s EXCEPT !.state = "ready", !.phase = Rank("ready"), !.ready = TRUE, !.parse = "done",
              !.warmup = warmup]

\* A source that is being closed keeps nothing of what was parsed.
FinishParse(n) ==
    /\ Parsing(n)
    /\ \/ /\ source[n].state = "closing"
          /\ source' = [source EXCEPT ![n].parse = "done"]
       \/ /\ source[n].state # "closing"
          /\ source[n].phase = Rank("resolve")
          /\ \E w \in Warmups : source' = [source EXCEPT ![n] = PublishReady(source[n], w)]
    /\ UNCHANGED << pipeVars, service, info >>

FailParse(n) ==
    /\ Parsing(n)
    /\ source[n].state # "closing"
    /\ source' = [source EXCEPT ![n].state = "failed", ![n].phase = Rank("failed"), ![n].parse = "done"]
    /\ UNCHANGED << pipeVars, service, info >>

FinishWarmup(n) ==
    /\ source[n].warmup = "running"
    /\ source' = [source EXCEPT ![n].warmup = "done"]
    /\ UNCHANGED << pipeVars, service, info >>

-----------------------------------------------------------------------------
(***************************************************************************)
(* Answering.                                                              *)
(***************************************************************************)
StatusAnswer(s) == [kind |-> "status", phase |-> StatusSnapshot(s).phase]
DataAnswer(s)   == Answer(IF s.ready THEN "data" ELSE "not ready")

HandleLayoutRequest(s) ==
    CASE thread.request = "status" -> StatusAnswer(s)
      [] thread.request = "data"   -> DataAnswer(s)
      [] OTHER              -> Answer("error")

\* A frame that cannot be decoded is answered, and the connection closed.
ServeLayoutFrame ==
    /\ thread.at = "handling"
    /\ CASE thread.request = "close" ->
              /\ thread' = [thread EXCEPT !.at = "hanging up", !.request = "none"]
              /\ UNCHANGED running
         [] thread.request = "oversized" -> Abort
         [] thread.request = "malformed" -> thread' = Respond(Answer("unsupported"), TRUE) /\ UNCHANGED running
         [] OTHER -> /\ thread' = Respond(HandleLayoutRequest(source[thread.session]), FALSE)
                     /\ UNCHANGED running
    /\ UNCHANGED << callerVars, socketVars >>

Serve ==
    /\ \/ service = "waveform" /\ ServeFrame
       \/ service = "layout" /\ ServeLayoutFrame
    /\ UNCHANGED sourceVars

-----------------------------------------------------------------------------
(***************************************************************************)
(* The end of a session: the source is told to cancel its parse, and is    *)
(* gone when its threads are.                                              *)
(***************************************************************************)
RequestCancel ==
    /\ thread.at = "ending"
    /\ source[thread.session].state = "parsing"
    /\ source' = [source EXCEPT ![thread.session].state = "closing"]
    /\ UNCHANGED << pipeVars, service, info >>

DestroySource ==
    /\ EndThread
    /\ source[thread.session].state # "parsing"
    /\ source[thread.session].parse = "done"
    /\ source[thread.session].warmup = "done"
    /\ source' = [source EXCEPT ![thread.session] = NoSource]
    /\ UNCHANGED << service, info >>

\* What openSession returned is noted until the thread runs.
Bind == BindEndpoint /\ info' = NoInfo /\ UNCHANGED << service, source >>

-----------------------------------------------------------------------------
CallerStep ==
    \/ WakeEndpoint /\ UNCHANGED sourceVars
    \/ JoinThread /\ UNCHANGED sourceVars
    \/ ClearSession /\ UNCHANGED sourceVars
    \/ Describe
    \/ Start

ThreadStep ==
    \/ Bind
    \/ Poll /\ UNCHANGED sourceVars
    \/ Accept /\ UNCHANGED sourceVars
    \/ CheckAccepted /\ UNCHANGED sourceVars
    \/ CheckServing /\ UNCHANGED sourceVars
    \/ ReadFrame /\ UNCHANGED sourceVars
    \/ Serve
    \/ WriteFrame /\ UNCHANGED sourceVars
    \/ HangUp /\ UNCHANGED sourceVars
    \/ CloseEndpoint /\ UNCHANGED sourceVars
    \/ RequestCancel
    \/ DestroySource

SourceStep(n) ==
    \/ PublishParseProgress(n)
    \/ FinishParse(n)
    \/ FailParse(n)
    \/ FinishWarmup(n)

\* A parse and a warm-up come to an end.
SourceEnds(n) == FinishParse(n) \/ FailParse(n) \/ FinishWarmup(n)

Operation ==
    \/ OpenWaveform
    \/ OpenWhole
    \/ OpenStaged
    \/ CloseSession /\ UNCHANGED sourceVars
    \/ Stop /\ UNCHANGED sourceVars

ClientStep(c) ==
    \/ Connect(c) /\ UNCHANGED sourceVars
    \/ \E m \in Messages : Send(c, m) /\ UNCHANGED sourceVars
    \/ Receive(c) /\ UNCHANGED sourceVars
    \/ Disconnect(c) /\ UNCHANGED sourceVars

Next ==
    /\ running
    /\ \/ Operation
       \/ CallerStep
       \/ ThreadStep
       \/ \E n \in 1 .. MaxSessions : SourceStep(n)
       \/ \E c \in Clients : ClientStep(c)

Fairness ==
    /\ WF_vars(running /\ CallerStep)
    /\ WF_vars(running /\ ThreadStep)
    /\ WF_vars(running /\ \E n \in 1 .. MaxSessions : SourceEnds(n))

Spec == Init /\ [][Next]_vars /\ Fairness

=============================================================================
