------------------------- MODULE DiagnosticRefresh -------------------------
(***************************************************************************)
(* workspace/diagnostic/refresh, the one request the server sends to its   *)
(* client.  With pull diagnostics every change of the diagnostics asks for *)
(* a refresh; while one is outstanding, further ones are coalesced into a  *)
(* flag and sent when the answer arrives.  The dispatcher and the          *)
(* background worker ask, the reader thread handles the answers and asks   *)
(* again for what was coalesced.                                           *)
(* Source: requestDiagnosticRefresh and handleDiagnosticRefreshResponse of *)
(* src/server/ServerSession.cpp, sendRequest and consumeServerResponse of  *)
(* src/jsonrpc/JsonRpcServer.cpp.                                          *)
(***************************************************************************)
EXTENDS Naturals, TLAPS

CONSTANTS Caller,      \* threads that change diagnostics (dispatcher, worker)
          Reader,      \* the reader thread
          MaxChanges   \* bound on the changes

ASSUME RefreshAssumption ==
  Reader \notin Caller /\ MaxChanges \in Nat

Thread == Caller \cup {Reader}

VARIABLES
  outstanding,     \* diagnostic_refresh_outstanding_
  pending,         \* diagnostic_refresh_pending_
  next_id,         \* next_server_request_id_
  registered,      \* ids in pending_server_requests_
  pc,              \* where each thread is
  id,              \* the id of the request each thread is sending
  to_client,       \* refresh requests the client has not answered
  to_server,       \* answers the reader has not read
  changes,         \* number of changes of the diagnostics so far
  refreshed,       \* number of changes made before the last refresh was sent
  failed           \* has the transport refused a message?

flags == <<outstanding, pending>>
channel == <<to_client, to_server>>
history == <<changes, refreshed, failed>>
vars == <<flags, next_id, registered, pc, id, channel, history>>

TypeOK ==
  /\ outstanding \in BOOLEAN
  /\ pending \in BOOLEAN
  /\ next_id \in Nat \ {0}
  /\ registered \subseteq Nat
  /\ pc \in [Thread -> {"idle", "request", "register", "write", "unregister",
                        "give_up", "handle"}]
  /\ id \in [Thread -> Nat]
  /\ to_client \subseteq Nat
  /\ to_server \subseteq Nat
  /\ changes \in Nat
  /\ refreshed \in Nat
  /\ failed \in BOOLEAN

Init ==
  /\ outstanding = FALSE
  /\ pending = FALSE
  /\ next_id = 1
  /\ registered = {}
  /\ pc = [t \in Thread |-> "idle"]
  /\ id = [t \in Thread |-> 0]
  /\ to_client = {}
  /\ to_server = {}
  /\ changes = 0
  /\ refreshed = 0
  /\ failed = FALSE

Goto(t, here, next) == pc[t] = here /\ pc' = [pc EXCEPT ![t] = next]

---------------------------------------------------------------------------
\* publishDiagnostics, clearDiagnostics or didChangeWatchedFiles in pull mode.
Change(t) ==
  /\ changes < MaxChanges
  /\ Goto(t, "idle", "request")
  /\ changes' = changes + 1
  /\ UNCHANGED <<flags, next_id, registered, id, channel, refreshed, failed>>

\* requestDiagnosticRefresh, under state_mutex_: coalesce or send.
RequestRefresh(t) ==
  /\ IF outstanding
       THEN /\ Goto(t, "request", "idle")
            /\ pending' = TRUE
            /\ UNCHANGED outstanding
       ELSE /\ Goto(t, "request", "register")
            /\ outstanding' = TRUE
            /\ UNCHANGED pending
  /\ UNCHANGED <<next_id, registered, id, channel, history>>

TakeId == next_id' = next_id + 1

\* sendRequest registers the request under queue_mutex_ ...
Register(t) ==
  /\ Goto(t, "register", "write")
  /\ id' = [id EXCEPT ![t] = next_id]
  /\ registered' = registered \cup {next_id}
  /\ TakeId
  /\ UNCHANGED <<flags, channel, history>>

\* ... and writes it under write_mutex_; a failed write takes it back.
WriteRequest(t) ==
  /\ Goto(t, "write", "idle")
  /\ to_client' = to_client \cup {id[t]}
  /\ refreshed' = changes
  /\ UNCHANGED <<flags, next_id, registered, id, to_server, changes, failed>>

FailWrite(t) ==
  /\ Goto(t, "write", "unregister")
  /\ failed' = TRUE
  /\ UNCHANGED <<flags, next_id, registered, id, channel, changes, refreshed>>

Unregister(t) ==
  /\ Goto(t, "unregister", "give_up")
  /\ registered' = registered \ {id[t]}
  /\ UNCHANGED <<flags, next_id, id, channel, history>>

\* Bug: the flag stays up when a refresh ends.
KeepOutstanding == UNCHANGED outstanding
EndOutstanding == outstanding' = FALSE

\* The catch clause of requestDiagnosticRefresh leaves the pending flag alone.
GiveUp(t) ==
  /\ Goto(t, "give_up", "idle")
  /\ EndOutstanding
  /\ UNCHANGED <<pending, next_id, registered, id, channel, history>>

\* The client answers a refresh request.
Answer ==
  \E i \in to_client :
    /\ to_client' = to_client \ {i}
    /\ to_server' = to_server \cup {i}
    /\ UNCHANGED <<flags, next_id, registered, pc, id, history>>

\* consumeServerResponse: an answer nobody waits for is ignored.
Consume ==
  \E i \in to_server :
    /\ to_server' = to_server \ {i}
    /\ registered' = registered \ {i}
    /\ IF i \in registered THEN Goto(Reader, "idle", "handle")
                           ELSE pc[Reader] = "idle" /\ UNCHANGED pc
    /\ UNCHANGED <<flags, next_id, id, to_client, history>>

\* A bug: the coalesced refresh is forgotten.
LosePending == Goto(Reader, "handle", "idle") /\ pending' = FALSE
SettlePending == Goto(Reader, "handle", IF pending THEN "request" ELSE "idle")
                   /\ pending' = FALSE

\* handleDiagnosticRefreshResponse, under state_mutex_.
HandleResponse ==
  /\ SettlePending
  /\ EndOutstanding
  /\ UNCHANGED <<next_id, registered, id, channel, history>>

---------------------------------------------------------------------------
Send(t) ==
  \/ RequestRefresh(t) \/ Register(t) \/ WriteRequest(t) \/ FailWrite(t)
  \/ Unregister(t) \/ GiveUp(t)

Respond == Consume \/ HandleResponse

AllSent == changes = MaxChanges /\ \A t \in Thread : pc[t] = "idle"

\* No more changes: the program waits for the client.
Rest == AllSent /\ to_client = {} /\ to_server = {} /\ UNCHANGED vars

Next ==
  \/ \E t \in Caller : Change(t)
  \/ \E t \in Thread : Send(t)
  \/ Answer
  \/ Respond
  \/ Rest

\* Threads that are inside a call are scheduled, the reader reads what arrives,
\* and the client answers the requests it gets, as the protocol demands.
Spec ==
  /\ Init
  /\ [][Next]_vars
  /\ \A t \in Thread : WF_vars(Send(t))
  /\ WF_vars(Respond)
  /\ WF_vars(Answer)

---------------------------------------------------------------------------
(* Properties *)

\* Threads that are sending a refresh request, from the flag to the write.
Sending == {t \in Thread : pc[t] \in {"register", "write", "unregister", "give_up"}}

\* Where a refresh can be between the raising of the flag and its fall.
InFlight == {<<"sending", t>> : t \in Sending}
              \cup {<<"client", i>> : i \in to_client}
              \cup {<<"answered", i>> : i \in to_server}
              \cup {<<"handled", t>> : t \in {u \in Thread : pc[u] = "handle"}}

\* The flag is up exactly while one refresh is under way somewhere: in a sending
\* thread, at the client, on its way back or about to be handled.  So the client
\* has never more than one to answer, and the flag never gets stuck.
OutstandingIsReal ==
  /\ outstanding <=> InFlight # {}
  /\ \A a, b \in InFlight : a = b

\* Every change is followed by a refresh request sent after it, however calls
\* and answers interleave, as long as the transport takes the messages.
EveryChangeIsAnnounced ==
  \A n \in 1..MaxChanges : (changes >= n) ~> (refreshed >= n \/ failed)

---------------------------------------------------------------------------
(* Proofs, for every set of calling threads, any number of changes and any *)
(* failures of the transport.                                              *)

\* The parts of the actions that have a name are expanded everywhere.
USE DEF TakeId, EndOutstanding, SettlePending

\* An answer on its way is one the server waits for, so consuming it is what
\* ends the refresh; an id is registered before it is written.
AnswersAreAwaited ==
  /\ to_client \subseteq registered
  /\ to_server \subseteq registered
  /\ \A t \in Thread : pc[t] = "write" => id[t] \in registered
  /\ \A t \in Thread : pc[t] = "handle" => t = Reader

\* OutstandingIsReal without its tagged union: one sender, one unanswered
\* request, one answer or a handling reader, and no two of these at once.
OneCarrier ==
  /\ \A t, u \in Sending : t = u
  /\ \A i, j \in to_client : i = j
  /\ \A i, j \in to_server : i = j
  /\ \A t \in Sending : to_client = {} /\ to_server = {} /\ pc[Reader] # "handle"
  /\ \A i \in to_client : to_server = {} /\ pc[Reader] # "handle"
  /\ \A i \in to_server : pc[Reader] # "handle"

Carried == Sending # {} \/ to_client # {} \/ to_server # {} \/ pc[Reader] = "handle"

IInv ==
  /\ TypeOK
  /\ AnswersAreAwaited
  /\ OneCarrier
  /\ outstanding <=> Carried

LEMMA ReaderIsThread == Reader \in Thread /\ Caller \subseteq Thread
BY DEF Thread

LEMMA InitInv == Init => IInv
<1> SUFFICES ASSUME Init PROVE IInv
  OBVIOUS
<1>1. TypeOK
  <2>1. /\ pc \in [Thread -> {"idle", "request", "register", "write", "unregister",
                              "give_up", "handle"}]
        /\ id \in [Thread -> Nat]
    BY DEF Init
  <2>2. next_id \in Nat \ {0} /\ changes \in Nat /\ refreshed \in Nat
    BY DEF Init
  <2>3. registered \subseteq Nat /\ to_client \subseteq Nat /\ to_server \subseteq Nat
    BY DEF Init
  <2>4. outstanding \in BOOLEAN /\ pending \in BOOLEAN /\ failed \in BOOLEAN
    BY DEF Init
  <2> QED
    BY <2>1, <2>2, <2>3, <2>4 DEF TypeOK
<1>2. Sending = {} /\ pc[Reader] # "handle"
  BY ReaderIsThread DEF Init, Sending
<1>3. OneCarrier /\ (outstanding <=> Carried)
  BY <1>2 DEF Init, OneCarrier, Carried
<1>4. AnswersAreAwaited
  BY DEF Init, AnswersAreAwaited
<1> QED
  BY <1>1, <1>3, <1>4 DEF IInv

LEMMA TypeStep == TypeOK /\ [Next]_vars => TypeOK'
<1> SUFFICES ASSUME TypeOK, [Next]_vars PROVE TypeOK'
  OBVIOUS
<1> USE ReaderIsThread DEF TypeOK, Goto, flags, channel, history
<1>1. ASSUME NEW t \in Caller, Change(t) PROVE TypeOK'
  BY <1>1 DEF Change
<1>2. ASSUME NEW t \in Thread, Send(t) PROVE TypeOK'
  <2>1. CASE RequestRefresh(t)
    BY <2>1 DEF RequestRefresh
  <2>2. CASE Register(t)
    BY <2>2 DEF Register
  <2>3. CASE WriteRequest(t)
    BY <2>3 DEF WriteRequest
  <2>4. CASE FailWrite(t)
    BY <2>4 DEF FailWrite
  <2>5. CASE Unregister(t)
    BY <2>5 DEF Unregister
  <2>6. CASE GiveUp(t)
    BY <2>6 DEF GiveUp
  <2> QED
    BY <1>2, <2>1, <2>2, <2>3, <2>4, <2>5, <2>6 DEF Send
<1>3. CASE Answer
  BY <1>3 DEF Answer
<1>4. CASE Consume
  BY <1>4 DEF Consume
<1>5. CASE HandleResponse
  BY <1>5 DEF HandleResponse
<1>6. CASE UNCHANGED vars
  BY <1>6 DEF vars
<1> QED
  BY <1>1, <1>2, <1>3, <1>4, <1>5, <1>6 DEF Next, Respond, Rest

(* Every step keeps the carrier, appoints the first or dismisses the last.   *)
LEMMA CarrierStep ==
  IInv /\ [Next]_vars => AnswersAreAwaited' /\ OneCarrier' /\ (outstanding <=> Carried)'
<1> DEFINE Goal == AnswersAreAwaited' /\ OneCarrier' /\ (outstanding <=> Carried)'
<1> SUFFICES ASSUME IInv, [Next]_vars PROVE Goal
  OBVIOUS
<1> USE ReaderIsThread DEF IInv, TypeOK, OneCarrier, Carried, AnswersAreAwaited,
                           Sending, Goto, flags, channel, history
<1>1. ASSUME NEW t \in Caller, Change(t) PROVE Goal
  BY <1>1 DEF Change
<1>2. ASSUME NEW t \in Thread, Send(t) PROVE Goal
  <2>1. CASE RequestRefresh(t)
    BY <2>1 DEF RequestRefresh
  <2>2. CASE Register(t)
    BY <2>2 DEF Register
  <2>3. CASE WriteRequest(t)
    <3>1. t \in Sending /\ to_client = {} /\ to_server = {} /\ pc[Reader] # "handle"
      BY <2>3 DEF WriteRequest
    <3>2. Sending' = {} /\ pc'[Reader] # "handle"
      BY <2>3, <3>1 DEF WriteRequest
    <3>3. to_client' = {id[t]} /\ to_server' = {} /\ outstanding' /\ id[t] \in registered
      BY <2>3, <3>1 DEF WriteRequest
    <3>4. AnswersAreAwaited'
      BY <2>3, <3>3 DEF WriteRequest
    <3> QED
      BY <3>2, <3>3, <3>4
  <2>4. CASE FailWrite(t)
    BY <2>4 DEF FailWrite
  <2>5. CASE Unregister(t)
    BY <2>5 DEF Unregister
  <2>6. CASE GiveUp(t)
    BY <2>6 DEF GiveUp
  <2> QED
    BY <1>2, <2>1, <2>2, <2>3, <2>4, <2>5, <2>6 DEF Send
<1>3. CASE Answer
  BY <1>3 DEF Answer
<1>4. CASE Consume
  BY <1>4 DEF Consume
<1>5. CASE HandleResponse
  BY <1>5 DEF HandleResponse
<1>6. CASE UNCHANGED vars
  BY <1>6 DEF vars
<1> QED
  BY <1>1, <1>2, <1>3, <1>4, <1>5, <1>6 DEF Next, Respond, Rest

LEMMA Invariance == Spec => []IInv
<1>1. IInv /\ [Next]_vars => IInv'
  BY TypeStep, CarrierStep DEF IInv
<1> QED
  BY InitInv, <1>1, PTL DEF Spec

LEMMA CarriersAreFlights == IInv => OutstandingIsReal
<1> SUFFICES ASSUME IInv PROVE OutstandingIsReal
  OBVIOUS
<1> DEFINE Handling == {u \in Thread : pc[u] = "handle"}
<1>1. Handling = IF pc[Reader] = "handle" THEN {Reader} ELSE {}
  BY ReaderIsThread DEF IInv, AnswersAreAwaited
<1>2. outstanding <=> InFlight # {}
  BY <1>1, ReaderIsThread DEF IInv, Carried, InFlight
<1>3. ASSUME NEW a \in InFlight, NEW b \in InFlight PROVE a = b
  BY <1>1, <1>3 DEF IInv, OneCarrier, InFlight
<1> QED
  BY <1>2, <1>3 DEF OutstandingIsReal

\* The types of the flags, of the ids and of every thread's state.
THEOREM RefreshTypeCorrect == Spec => []TypeOK
BY Invariance, PTL DEF IInv

\* The outstanding flag is up exactly while one refresh is somewhere between the
\* raising of the flag and its fall: it is never stuck, and the client never has
\* two refresh requests at once.
THEOREM OutstandingCorrect == Spec => []OutstandingIsReal
BY Invariance, CarriersAreFlights, PTL
============================================================================
