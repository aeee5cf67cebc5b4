------------------------ MODULE JsonRpcServerProofs ------------------------
(***************************************************************************)
(* Proofs about the JSON-RPC front end, for any ids and any number of      *)
(* messages.                                                               *)
(***************************************************************************)
EXTENDS JsonRpcServer, TLAPS

LEMMA BoundIsNat == MaxMessages \in Nat
BY ServerAssumption

USE BoundIsNat

InHand ==
  dispatcher \in {"lookup", "start", "handler", "finish", "respond", "erase"}

\* A serial is the position of a message that was read; queued messages come
\* after the one that is dispatched, in the order they were read.
Serials ==
  /\ current.serial \in 0..received
  /\ current.kind = "request" => current.serial # NoRequest
  /\ \A i \in DOMAIN queue : queue[i].serial \in 1..received
  /\ \A i \in DOMAIN queue : current.serial < queue[i].serial
  /\ \A i, j \in DOMAIN queue : i < j => queue[i].serial < queue[j].serial
  /\ \A id \in Id : cancellation_states[id] \in 0..received
  /\ cancelled \subseteq 1..received

\* No two ids name one request.
OneIdEach ==
  \A i, j \in Id :
    cancellation_states[i] # NoRequest /\ cancellation_states[i] = cancellation_states[j]
      => i = j

\* The dispatcher treats requests as requests.
Sorted ==
  /\ InHand \/ dispatcher = "unknown" => current.kind = "request"
  /\ dispatcher = "notification" => current.kind # "request"

Ending == reader \in {"notify_exit", "close", "notify_all", "join", "returned"}

\* Nothing is read after an exit message, so the stop it asks for finds the
\* queue empty.
ExitIsLast ==
  /\ \A i \in DOMAIN queue : queue[i].kind = "exit" => i = Len(queue) /\ Ending
  /\ current.kind = "exit" => queue = <<>> /\ Ending
  /\ stop_requested => current.kind = "exit"

\* RegistryMatchesWork, and the serials it finds are those of requests.
RegistryParts ==
  /\ \A id \in Id :
       cancellation_states[id] # NoRequest =>
         \/ \E i \in DOMAIN queue :
              queue[i].kind = "request" /\ queue[i].serial = cancellation_states[id]
         \/ InHand /\ current.serial = cancellation_states[id]
  /\ \A i \in DOMAIN queue :
       queue[i].kind = "request" => cancellation_states[queue[i].id] = queue[i].serial
  /\ InHand => cancellation_states[current.id] = current.serial

Asked(serial, id) == \E c \in cancels : c.id = id /\ c.serial > serial

\* What CancelledMeansAsked says of the answers, of the requests before them.
CancelledAreAsked ==
  /\ \A i \in DOMAIN queue :
       queue[i].serial \in cancelled =>
         queue[i].kind = "request" /\ Asked(queue[i].serial, queue[i].id)
  /\ InHand /\ current.serial \in cancelled => Asked(current.serial, current.id)
  /\ dispatcher = "respond" /\ outcome = "cancelled" => current.serial \in cancelled

IInv ==
  /\ TypeOK
  /\ Serials
  /\ OneIdEach
  /\ Sorted
  /\ ExitIsLast
  /\ RegistryParts
  /\ CancelledAreAsked
  /\ CancelledMeansAsked

LEMMA AppendFacts ==
  ASSUME NEW S, NEW s \in Seq(S), NEW x \in S
  PROVE  /\ Append(s, x) \in Seq(S)
         /\ DOMAIN s = 1..Len(s)
         /\ Len(s) \in Nat
         /\ Len(Append(s, x)) = Len(s) + 1
         /\ DOMAIN Append(s, x) = 1..(Len(s) + 1)
         /\ \A i \in DOMAIN s : Append(s, x)[i] = s[i]
         /\ Append(s, x)[Len(s) + 1] = x
OBVIOUS

LEMMA TailFacts ==
  ASSUME NEW S, NEW s \in Seq(S), s # <<>>
  PROVE  /\ Head(s) = s[1]
         /\ Head(s) \in S
         /\ DOMAIN s = 1..Len(s)
         /\ Len(s) \in Nat
         /\ 1 \in DOMAIN s
         /\ Tail(s) \in Seq(S)
         /\ Len(Tail(s)) = Len(s) - 1
         /\ DOMAIN Tail(s) = 1..(Len(s) - 1)
         /\ \A i \in DOMAIN Tail(s) : i + 1 \in DOMAIN s /\ Tail(s)[i] = s[i + 1]
OBVIOUS

LEMMA InitInv == Init => IInv
<1> SUFFICES ASSUME Init PROVE IInv
  OBVIOUS
<1> USE DEF Init
<1>1. TypeOK
  <2>1. current \in Message
    BY DEF Idle, Message, Notification
  <2>2. /\ queue \in Seq(Message)
        /\ output \in Seq([serial : 1..MaxMessages, id : Id, answer : Answer])
    OBVIOUS
  <2>3. cancellation_states \in [Id -> Nat]
    BY DEF NoRequest
  <2>4. /\ cancelled \subseteq 1..MaxMessages
        /\ cancels \subseteq [serial : 1..MaxMessages, id : Id]
    OBVIOUS
  <2>5. /\ reader = "test" /\ received \in 0..MaxMessages /\ exit_code = 0
        /\ dispatcher = "wait" /\ outcome = "result"
        /\ input_closed = FALSE /\ stop_requested = FALSE /\ shutdown_requested = FALSE
        /\ blocked = FALSE
    OBVIOUS
  <2> HIDE DEF Init
  <2> QED
    BY <2>1, <2>2, <2>3, <2>4, <2>5 DEF TypeOK
<1>2. Serials /\ OneIdEach
  BY DEF Serials, OneIdEach, Idle, NoRequest
<1>3. Sorted /\ ExitIsLast
  BY DEF Sorted, ExitIsLast, InHand, Idle
<1>4. RegistryParts /\ CancelledAreAsked /\ CancelledMeansAsked
  BY DEF RegistryParts, CancelledAreAsked, CancelledMeansAsked, InHand, NoRequest
<1> QED
  BY <1>1, <1>2, <1>3, <1>4 DEF IInv

LEMMA MessageFacts ==
  /\ \A m \in Message : m.serial \in Nat /\ m.kind \in {"request", "notification", "exit"}
  /\ \A m \in Message : m.kind = "request" => m.id \in Id /\ m.method \in Method
BY DEF Message, Request, Notification

LEMMA TypeStep == TypeOK /\ Serials /\ Sorted /\ [Next]_vars => TypeOK'
<1> SUFFICES ASSUME TypeOK, Serials, Sorted, [Next]_vars PROVE TypeOK'
  OBVIOUS
<1>0. /\ received \in 0..MaxMessages
      /\ cancelled \subseteq 1..MaxMessages
      /\ cancellation_states \in [Id -> Nat]
      /\ output \in Seq([serial : 1..MaxMessages, id : Id, answer : Answer])
  BY DEF TypeOK
<1> USE DEF TypeOK, flow, lifecycle, dispatch
<1>1. ASSUME NEW id \in Id, NEW method \in Method, ReceiveRequest(id, method) PROVE TypeOK'
  <2>1. received' \in 0..MaxMessages /\ received' \in 1..MaxMessages
    BY <1>1 DEF ReceiveRequest, Receive
  <2>2. cancellation_states' \in [Id -> Nat] /\ queue' \in Seq(Message)
    <3>1. CASE cancellation_states[id] # NoRequest
      BY <1>1, <3>1 DEF ReceiveRequest
    <3>2. CASE cancellation_states[id] = NoRequest
      <4> DEFINE m == [kind |-> "request", serial |-> received', id |-> id, method |-> method]
      <4>1. m \in Message
        BY <2>1 DEF Message, Request
      <4>2. queue' = Append(queue, m)
        BY <1>1, <3>2 DEF ReceiveRequest, Push
      <4> HIDE DEF m
      <4>3. queue' \in Seq(Message)
        BY <4>1, <4>2, AppendFacts
      <4>4. cancellation_states' = [cancellation_states EXCEPT ![id] = received']
        BY <1>1, <3>2 DEF ReceiveRequest
      <4>5. received' \in Nat
        BY <2>1
      <4>6. cancellation_states' \in [Id -> Nat]
        BY <4>4, <4>5
      <4> QED
        BY <4>3, <4>6
    <3> QED
      BY <3>1, <3>2
  <2>3. output' \in Seq([serial : 1..MaxMessages, id : Id, answer : Answer])
    <3> DEFINE a == [serial |-> received', id |-> id, answer |-> "duplicate"]
    <3>1. a \in [serial : 1..MaxMessages, id : Id, answer : Answer]
      BY <2>1 DEF Answer
    <3>2. output' = Append(output, a) \/ output' = output
      BY <1>1 DEF ReceiveRequest, Write
    <3> HIDE DEF a
    <3>3. Append(output, a) \in Seq([serial : 1..MaxMessages, id : Id, answer : Answer])
      BY <1>0, <3>1, AppendFacts
    <3> QED
      BY <1>0, <3>2, <3>3
  <2> QED
    BY <1>1, <2>1, <2>2, <2>3 DEF ReceiveRequest
<1>2. ASSUME NEW id \in Id, ReceiveCancel(id) PROVE TypeOK'
  <2>1. received' \in 0..MaxMessages /\ received' \in 1..MaxMessages
    BY <1>2 DEF ReceiveCancel, Receive
  <2>2. cancelled' \subseteq 1..MaxMessages
    <3>1. cancelled' = cancelled \cup ({cancellation_states[id]} \ {NoRequest})
      BY <1>2 DEF ReceiveCancel
    <3>2. cancellation_states[id] \in 0..received
      BY DEF Serials
    <3> HIDE DEF TypeOK
    <3>3. cancellation_states[id] # NoRequest => cancellation_states[id] \in 1..MaxMessages
      BY <1>0, <3>2 DEF NoRequest
    <3> QED
      BY <1>0, <3>1, <3>3
  <2>3. cancels' \subseteq [serial : 1..MaxMessages, id : Id]
    BY <1>2, <2>1 DEF ReceiveCancel
  <2> QED
    BY <1>2, <2>1, <2>2, <2>3 DEF ReceiveCancel
<1>3. ASSUME NEW kind \in {"notification", "exit"}, ReceiveNotification(kind) PROVE TypeOK'
  <2>1. received' \in 0..MaxMessages
    BY <1>3 DEF ReceiveNotification, Receive
  <2> DEFINE m == [kind |-> kind, serial |-> received']
  <2>2. m \in Message
    BY <2>1 DEF Message, Notification
  <2>3. queue' = Append(queue, m)
    BY <1>3 DEF ReceiveNotification, Push
  <2> HIDE DEF m
  <2>4. queue' \in Seq(Message)
    BY <2>2, <2>3, AppendFacts
  <2> QED
    BY <1>3, <2>1, <2>4 DEF ReceiveNotification
<1>4. ASSUME ReceiveInvalid PROVE TypeOK'
  BY <1>4 DEF ReceiveInvalid, Receive
<1>5. ASSUME EndOfInput \/ Reader PROVE TypeOK'
  <2>1. CASE EndOfInput
    BY <2>1 DEF EndOfInput
  <2>4. CASE NotifyOne
    BY <2>4 DEF NotifyOne
  <2>5. CASE TestStop
    BY <2>5 DEF TestStop
  <2>2. CASE CloseInput
    BY <2>2 DEF CloseInput
  <2>3. CASE NotifyAll \/ Join
    BY <2>3 DEF NotifyAll, Join
  <2> QED
    BY <1>5, <2>1, <2>2, <2>3, <2>4, <2>5 DEF Reader
<1>6. ASSUME Take PROVE TypeOK'
  <2>1. CASE queue # <<>> /\ current' = Head(queue) /\ queue' = Tail(queue)
    <3>1. current' \in Message /\ queue' \in Seq(Message)
      BY <2>1, TailFacts
    <3> QED
      BY <1>6, <2>1, <3>1 DEF Take
  <2>2. CASE UNCHANGED <<current, queue>>
    BY <1>6, <2>2 DEF Take
  <2> QED
    BY <1>6, <2>1, <2>2 DEF Take
<1>7. ASSUME ForgetUnknown \/ Erase PROVE TypeOK'
  <2>1. cancellation_states' = [cancellation_states EXCEPT ![current.id] = 0]
    BY <1>7 DEF ForgetUnknown, Erase, Forget, NoRequest
  <2>2. cancellation_states' \in [Id -> Nat]
    BY <1>0, <2>1
  <2> QED
    BY <1>7, <2>2 DEF ForgetUnknown, Erase
<1>8. ASSUME AnswerUnknown \/ Respond PROVE TypeOK'
  <2>1. current.kind = "request"
    BY <1>8 DEF AnswerUnknown, Respond, Sorted, InHand
  <2>2. current.id \in Id /\ current.serial \in 0..MaxMessages
    BY <2>1, MessageFacts DEF Serials
  <2>3. PICK answer \in Answer : Write(current.serial, current.id, answer)
    BY <1>8 DEF AnswerUnknown, Respond, Answer
  <2>4. current.serial \in 1..MaxMessages
    BY <2>1, <2>2 DEF Serials, NoRequest
  <2> DEFINE a == [serial |-> current.serial, id |-> current.id, answer |-> answer]
  <2>5. a \in [serial : 1..MaxMessages, id : Id, answer : Answer]
    BY <2>2, <2>4
  <2>6. output' = Append(output, a)
    BY <2>3 DEF Write
  <2> HIDE DEF a
  <2>7. output' \in Seq([serial : 1..MaxMessages, id : Id, answer : Answer])
    BY <1>0, <2>5, <2>6, AppendFacts
  <2> QED
    BY <1>8, <2>7 DEF AnswerUnknown, Respond
<1>9. ASSUME Poll \/ RunHandler \/ Notify PROVE TypeOK'
  BY <1>9 DEF Poll, PollCancellation, RunHandler, Notify, ExitCode
<1>10. ASSUME Sweep PROVE TypeOK'
  <2>1. cancelled' \subseteq 1..MaxMessages
    <3>1. \A i \in DOMAIN queue : queue[i].serial \in 1..MaxMessages
      BY <1>0 DEF Serials
    <3>2. cancelled' \subseteq cancelled \cup {queue[i].serial : i \in DOMAIN queue}
      BY <1>10 DEF Sweep, CancelIfStopped
    <3> HIDE DEF TypeOK
    <3> QED
      BY <1>0, <3>1, <3>2
  <2> QED
    BY <1>10, <2>1 DEF Sweep
<1>11. ASSUME UNCHANGED vars PROVE TypeOK'
  BY <1>11 DEF vars
<1> QED
  BY <1>1, <1>2, <1>3, <1>4, <1>5, <1>6, <1>7, <1>8, <1>9, <1>10, <1>11
     DEF Next, Client, Dispatcher, Returned

---------------------------------------------------------------------------
(* What the steps do with the queue *)

LEMMA PushedFacts ==
  ASSUME TypeOK, NEW m \in Message, queue' = Append(queue, m)
  PROVE  /\ Len(queue') = Len(queue) + 1 /\ Len(queue) \in Nat
         /\ DOMAIN queue = 1..Len(queue) /\ DOMAIN queue' = 1..Len(queue')
         /\ \A i \in DOMAIN queue : i \in DOMAIN queue' /\ queue'[i] = queue[i]
         /\ queue'[Len(queue')] = m
         /\ \A i \in DOMAIN queue' : i \in DOMAIN queue \/ i = Len(queue')
<1>1. queue \in Seq(Message)
  BY DEF TypeOK
<1> QED
  BY <1>1, AppendFacts

\* A message that was read is refused, or queued behind the others.
LEMMA ReceivedRequest ==
  ASSUME TypeOK, NEW id \in Id, NEW method \in Method, ReceiveRequest(id, method)
  PROVE  LET m == [kind |-> "request", serial |-> received + 1, id |-> id,
                   method |-> method]
         IN  /\ m \in Message
             /\ \/ /\ cancellation_states[id] = NoRequest
                   /\ cancellation_states' = [cancellation_states EXCEPT ![id] = received + 1]
                   /\ queue' = Append(queue, m)
                   /\ UNCHANGED output
                \/ /\ cancellation_states[id] # NoRequest
                   /\ UNCHANGED <<queue, cancellation_states>>
                   /\ output' = Append(output, [serial |-> received + 1, id |-> id,
                                                answer |-> "duplicate"])
<1> DEFINE m == [kind |-> "request", serial |-> received + 1, id |-> id, method |-> method]
<1>1. received \in Nat /\ received' = received + 1
  BY DEF TypeOK, ReceiveRequest, Receive
<1>2. m \in Message
  BY <1>1 DEF Message, Request
<1>3. CASE cancellation_states[id] = NoRequest
  <2>1. /\ cancellation_states' = [cancellation_states EXCEPT ![id] = received']
        /\ Push([kind |-> "request", serial |-> received', id |-> id, method |-> method])
        /\ UNCHANGED output
    BY <1>3 DEF ReceiveRequest
  <2> QED
    BY <1>1, <1>2, <1>3, <2>1 DEF Push
<1>4. CASE cancellation_states[id] # NoRequest
  <2>1. Write(received', id, "duplicate") /\ UNCHANGED <<queue, cancellation_states>>
    BY <1>4 DEF ReceiveRequest
  <2> QED
    BY <1>1, <1>2, <1>4, <2>1 DEF Write
<1> QED
  BY <1>3, <1>4

LEMMA ReceivedNotification ==
  ASSUME TypeOK, NEW kind \in {"notification", "exit"}, ReceiveNotification(kind)
  PROVE  /\ [kind |-> kind, serial |-> received + 1] \in Message
         /\ queue' = Append(queue, [kind |-> kind, serial |-> received + 1])
<1>1. received \in Nat /\ received' = received + 1
  BY DEF TypeOK, ReceiveNotification, Receive
<1>2. Push([kind |-> kind, serial |-> received'])
  BY DEF ReceiveNotification
<1> QED
  BY <1>1, <1>2 DEF Push, Message, Notification

\* The dispatcher takes the first message, or finds none.
TakesFirst ==
  /\ queue # <<>>
  /\ 1 \in DOMAIN queue
  /\ current' = queue[1]
  /\ current' \in Message /\ queue' \in Seq(Message)
  /\ dispatcher' = IF current'.kind = "request"
                     THEN IF HasHandler(current'.method) THEN "start" ELSE "lookup"
                     ELSE "notification"
  /\ DOMAIN queue = 1..Len(queue) /\ DOMAIN queue' = 1..Len(queue')
  /\ Len(queue) \in Nat /\ Len(queue') = Len(queue) - 1
  /\ \A i \in DOMAIN queue' : i + 1 \in DOMAIN queue /\ queue'[i] = queue[i + 1]

LEMMA Taken ==
  ASSUME TypeOK, Take
  PROVE  \/ TakesFirst
         \/ UNCHANGED <<queue, current>> /\ dispatcher' \in {"wait", "returned"}
<1>1. CASE queue # <<>> /\ current' = Head(queue) /\ queue' = Tail(queue)
           /\ dispatcher' = IF Head(queue).kind = "request"
                              THEN IF HasHandler(Head(queue).method)
                                     THEN "start" ELSE "lookup"
                              ELSE "notification"
  <2>1. queue \in Seq(Message)
    BY DEF TypeOK
  <2> QED
    BY <1>1, <2>1, TailFacts DEF TakesFirst
<1>2. CASE UNCHANGED <<queue, current>> /\ dispatcher' \in {"wait", "returned"}
  BY <1>2
<1> QED
  BY <1>1, <1>2 DEF Take

---------------------------------------------------------------------------
(* The parts of the invariant, each through every step *)

\* The actions that leave the queue, the registry, the cancellations and the
\* message being dispatched alone.
Quiet ==
  \/ ReceiveInvalid \/ EndOfInput \/ Reader \/ AnswerUnknown \/ Poll \/ RunHandler
  \/ Respond \/ Notify \/ UNCHANGED vars

LEMMA NextCases ==
  ASSUME [Next]_vars,
         NEW P,
         \A id \in Id, method \in Method : ReceiveRequest(id, method) => P,
         \A id \in Id : ReceiveCancel(id) => P,
         \A kind \in {"notification", "exit"} : ReceiveNotification(kind) => P,
         Take => P,
         ForgetUnknown \/ Erase => P,
         Sweep => P,
         Quiet => P
  PROVE  P
BY DEF Next, Client, Dispatcher, Returned, Quiet

LEMMA QuietFacts ==
  ASSUME TypeOK, Quiet
  PROVE  /\ UNCHANGED <<queue, cancellation_states, cancelled, current, cancels>>
         /\ received' \in {received, received + 1}
BY DEF Quiet, ReceiveInvalid, Receive, EndOfInput, Reader, NotifyOne, TestStop, CloseInput,
       NotifyAll, Join, AnswerUnknown, Poll, PollCancellation, RunHandler, Respond, Notify,
       vars, flow, dispatch

LEMMA SerialsStep == TypeOK /\ Serials /\ OneIdEach /\ [Next]_vars => Serials' /\ OneIdEach'
<1> SUFFICES ASSUME TypeOK, Serials, OneIdEach, [Next]_vars PROVE Serials' /\ OneIdEach'
  OBVIOUS
<1>0. received \in Nat /\ received + 1 \in Nat
  BY DEF TypeOK
<1>1. ASSUME NEW id \in Id, NEW method \in Method, ReceiveRequest(id, method)
      PROVE  Serials' /\ OneIdEach'
  <2>1. received' = received + 1 /\ UNCHANGED <<current, cancelled>>
    BY <1>1 DEF ReceiveRequest, Receive, dispatch
  <2>2. CASE UNCHANGED <<queue, cancellation_states>>
    BY <1>0, <2>1, <2>2 DEF Serials, OneIdEach
  <2>3. CASE ~UNCHANGED <<queue, cancellation_states>>
    <3> DEFINE m == [kind |-> "request", serial |-> received + 1, id |-> id, method |-> method]
    <3>1. /\ m \in Message
          /\ cancellation_states' = [cancellation_states EXCEPT ![id] = received + 1]
          /\ queue' = Append(queue, m)
      BY <1>1, <2>3, ReceivedRequest
    <3>2. m.serial = received + 1
      OBVIOUS
    <3> HIDE DEF m
    <3>3. cancellation_states \in [Id -> Nat]
      BY DEF TypeOK
    <3>4. OneIdEach' /\ \A i \in Id : cancellation_states'[i] \in 0..(received + 1)
      BY <1>0, <3>1, <3>3 DEF Serials, OneIdEach
    <3>5. \A i \in DOMAIN queue' : queue'[i].serial \in 1..(received + 1)
                                   /\ current.serial < queue'[i].serial
      BY <1>0, <3>1, <3>2, PushedFacts DEF Serials
    <3>6. \A i, j \in DOMAIN queue' : i < j => queue'[i].serial < queue'[j].serial
      BY <1>0, <3>1, <3>2, PushedFacts DEF Serials
    <3> QED
      BY <1>0, <2>1, <3>4, <3>5, <3>6 DEF Serials
  <2> QED
    BY <2>2, <2>3
<1>2. ASSUME NEW id \in Id, ReceiveCancel(id) PROVE Serials' /\ OneIdEach'
  <2>1. /\ received' = received + 1 /\ UNCHANGED <<current, queue, cancellation_states>>
        /\ cancelled' = cancelled \cup ({cancellation_states[id]} \ {NoRequest})
    BY <1>2 DEF ReceiveCancel, Receive, flow, dispatch
  <2>2. cancellation_states[id] # NoRequest => cancellation_states[id] \in 1..received
    BY <1>0 DEF Serials, NoRequest
  <2>3. cancelled' \subseteq 1..(received + 1)
    <3>1. cancelled \subseteq 1..received
      BY DEF Serials
    <3>2. \A s \in cancelled' : s \in 1..received
      BY <2>1, <2>2, <3>1
    <3> QED
      BY <1>0, <3>2
  <2> QED
    BY <1>0, <2>1, <2>3 DEF Serials, OneIdEach
<1>3. ASSUME NEW kind \in {"notification", "exit"}, ReceiveNotification(kind)
      PROVE  Serials' /\ OneIdEach'
  <2> DEFINE m == [kind |-> kind, serial |-> received + 1]
  <2>1. m \in Message /\ queue' = Append(queue, m)
    BY <1>3, ReceivedNotification
  <2>2. m.serial = received + 1
    OBVIOUS
  <2> HIDE DEF m
  <2>3. received' = received + 1 /\ UNCHANGED <<current, cancelled, cancellation_states>>
    BY <1>3 DEF ReceiveNotification, Receive, dispatch
  <2>4. \A i \in DOMAIN queue' : queue'[i].serial \in 1..(received + 1)
                                 /\ current.serial < queue'[i].serial
    BY <1>0, <2>1, <2>2, PushedFacts DEF Serials
  <2>5. \A i, j \in DOMAIN queue' : i < j => queue'[i].serial < queue'[j].serial
    BY <1>0, <2>1, <2>2, PushedFacts DEF Serials
  <2> QED
    BY <1>0, <2>3, <2>4, <2>5 DEF Serials, OneIdEach
<1>4. ASSUME Take PROVE Serials' /\ OneIdEach'
  <2>1. UNCHANGED <<received, cancellation_states, cancelled>>
    BY <1>4 DEF Take
  <2>2. CASE TakesFirst
    <3>1. /\ current'.serial \in 1..received
          /\ \A i \in DOMAIN queue' : queue'[i].serial \in 1..received
                                      /\ current'.serial < queue'[i].serial
      BY <2>2 DEF TakesFirst, Serials
    <3>2. \A i, j \in DOMAIN queue' : i < j => queue'[i].serial < queue'[j].serial
      BY <2>2 DEF TakesFirst, Serials
    <3> QED
      BY <1>0, <2>1, <3>1, <3>2 DEF Serials, OneIdEach, NoRequest
  <2>3. CASE UNCHANGED <<queue, current>>
    BY <2>1, <2>3 DEF Serials, OneIdEach
  <2> QED
    BY <1>4, <2>2, <2>3, Taken
<1>5. ASSUME ForgetUnknown \/ Erase PROVE Serials' /\ OneIdEach'
  <2>1. /\ UNCHANGED <<received, queue, current, cancelled>>
        /\ cancellation_states' = [cancellation_states EXCEPT ![current.id] = NoRequest]
    BY <1>5 DEF ForgetUnknown, Erase, Forget
  <2>2. cancellation_states \in [Id -> Nat]
    BY DEF TypeOK
  <2> QED
    BY <1>0, <2>1, <2>2 DEF Serials, OneIdEach, NoRequest
<1>6. ASSUME Sweep PROVE Serials' /\ OneIdEach'
  <2>1. /\ UNCHANGED <<received, queue, current, cancellation_states>>
        /\ cancelled' \subseteq cancelled \cup {queue[i].serial : i \in DOMAIN queue}
    BY <1>6 DEF Sweep, CancelIfStopped, flow
  <2>2. cancelled' \subseteq 1..received
    BY <2>1 DEF Serials
  <2> QED
    BY <2>1, <2>2 DEF Serials, OneIdEach
<1>7. ASSUME Quiet PROVE Serials' /\ OneIdEach'
  <2>1. /\ UNCHANGED <<queue, cancellation_states, cancelled, current>>
        /\ received' \in {received, received + 1}
    BY <1>7, QuietFacts
  <2>2. 1..received \subseteq 1..received' /\ 0..received \subseteq 0..received'
    BY <1>0, <2>1
  <2> QED
    BY <2>1, <2>2 DEF Serials, OneIdEach
<1> QED
  BY <1>1, <1>2, <1>3, <1>4, <1>5, <1>6, <1>7, NextCases

LEMMA SortedStep == TypeOK /\ Sorted /\ [Next]_vars => Sorted'
<1> SUFFICES ASSUME TypeOK, Sorted, [Next]_vars PROVE Sorted'
  OBVIOUS
<1> USE DEF Sorted, InHand
<1>1. ASSUME UNCHANGED <<dispatcher, current>> PROVE Sorted'
  BY <1>1
<1>2. ASSUME Take PROVE Sorted'
  BY <1>2, Taken, MessageFacts DEF TakesFirst
<1>3. ASSUME ForgetUnknown \/ AnswerUnknown \/ Poll \/ RunHandler \/ Respond \/ Erase \/ Notify
             \/ Sweep
      PROVE  Sorted'
  BY <1>3 DEF ForgetUnknown, AnswerUnknown, Poll, PollCancellation, RunHandler, Respond, Erase,
              Notify, Sweep
<1>4. ASSUME Client \/ Reader PROVE UNCHANGED <<dispatcher, current>>
  BY <1>4 DEF Client, Reader, ReceiveRequest, ReceiveCancel, ReceiveNotification, ReceiveInvalid,
              EndOfInput, NotifyOne, TestStop, CloseInput, NotifyAll, Join, dispatch
<1> QED
  BY <1>1, <1>2, <1>3, <1>4 DEF Next, Dispatcher, Returned, vars, dispatch

LEMMA ExitStep == TypeOK /\ Sorted /\ ExitIsLast /\ [Next]_vars => ExitIsLast'
<1> SUFFICES ASSUME TypeOK, Sorted, ExitIsLast, [Next]_vars PROVE ExitIsLast'
  OBVIOUS
<1> USE DEF ExitIsLast, Ending
<1>1. ASSUME NEW id \in Id, NEW method \in Method, ReceiveRequest(id, method)
      PROVE  ExitIsLast'
  <2>1. reader = "read" /\ UNCHANGED <<current, stop_requested>>
    BY <1>1 DEF ReceiveRequest, Receive, dispatch, lifecycle
  <2>2. PICK m \in Message : m.kind = "request" /\ (queue' = Append(queue, m) \/ UNCHANGED queue)
    BY <1>1, ReceivedRequest
  <2>3. \A i \in DOMAIN queue' : queue'[i].kind # "exit"
    BY <2>1, <2>2, PushedFacts
  <2> QED
    BY <2>1, <2>3
<1>2. ASSUME NEW kind \in {"notification", "exit"}, ReceiveNotification(kind) PROVE ExitIsLast'
  <2>1. /\ reader = "read" /\ UNCHANGED <<current, stop_requested>>
        /\ kind = "exit" => reader' = "notify_exit"
    BY <1>2 DEF ReceiveNotification, Receive, dispatch, lifecycle
  <2> DEFINE m == [kind |-> kind, serial |-> received + 1]
  <2>2. m \in Message /\ queue' = Append(queue, m) /\ m.kind = kind
    BY <1>2, ReceivedNotification
  <2> HIDE DEF m
  <2>3. \A i \in DOMAIN queue' :
          queue'[i].kind = "exit" => i = Len(queue') /\ kind = "exit"
    BY <2>1, <2>2, PushedFacts
  <2> QED
    BY <2>1, <2>3
<1>3. ASSUME Take PROVE ExitIsLast'
  <2>1. UNCHANGED <<reader, stop_requested>>
    BY <1>3 DEF Take, lifecycle
  <2>2. CASE TakesFirst
    <3>1. current'.kind = "exit" => queue' = <<>>
      BY <2>2 DEF TakesFirst
    <3> QED
      BY <2>1, <2>2, <3>1 DEF TakesFirst
  <2>3. CASE UNCHANGED <<queue, current>>
    BY <2>1, <2>3
  <2> QED
    BY <1>3, <2>2, <2>3, Taken
<1>4. ASSUME Notify PROVE ExitIsLast'
  BY <1>4 DEF Notify, flow
<1>5. ASSUME UNCHANGED <<queue, current, stop_requested>>, Ending => Ending' PROVE ExitIsLast'
  BY <1>5
<1>6. ASSUME ReceiveInvalid \/ EndOfInput \/ Reader PROVE ExitIsLast'
  BY <1>5, <1>6 DEF ReceiveInvalid, Receive, EndOfInput, Reader, NotifyOne, TestStop, CloseInput,
                    NotifyAll, Join, flow, dispatch, lifecycle
<1>7. ASSUME NEW id \in Id, ReceiveCancel(id) PROVE ExitIsLast'
  BY <1>5, <1>7 DEF ReceiveCancel, Receive, flow, dispatch, lifecycle
<1>8. ASSUME ForgetUnknown \/ AnswerUnknown \/ Poll \/ RunHandler \/ Respond \/ Erase \/ Sweep
      PROVE  ExitIsLast'
  BY <1>5, <1>8 DEF ForgetUnknown, AnswerUnknown, Poll, PollCancellation, RunHandler, Respond,
                    Erase, Sweep, flow, dispatch, lifecycle
<1> QED
  BY <1>1, <1>2, <1>3, <1>4, <1>5, <1>6, <1>7, <1>8
     DEF Next, Client, Dispatcher, Returned, vars, flow, dispatch, lifecycle

LEMMA RegistryStep ==
  TypeOK /\ Serials /\ OneIdEach /\ Sorted /\ RegistryParts /\ [Next]_vars => RegistryParts'
<1> SUFFICES ASSUME TypeOK, Serials, OneIdEach, Sorted, RegistryParts, [Next]_vars
             PROVE  RegistryParts'
  OBVIOUS
<1>0. /\ cancellation_states \in [Id -> Nat] /\ received \in Nat /\ queue \in Seq(Message)
      /\ \A i \in DOMAIN queue : queue[i] \in Message
      /\ \A i \in DOMAIN queue : queue[i].kind = "request" => queue[i].id \in Id
  BY MessageFacts DEF TypeOK
<1>1. ASSUME NEW id \in Id, NEW method \in Method, ReceiveRequest(id, method)
      PROVE  RegistryParts'
  <2>1. UNCHANGED <<current, dispatcher>>
    BY <1>1 DEF ReceiveRequest, dispatch
  <2>2. CASE UNCHANGED <<queue, cancellation_states>>
    BY <2>1, <2>2 DEF RegistryParts, InHand
  <2>3. CASE ~UNCHANGED <<queue, cancellation_states>>
    <3> DEFINE m == [kind |-> "request", serial |-> received + 1, id |-> id, method |-> method]
    <3>1. /\ m \in Message
          /\ cancellation_states[id] = NoRequest
          /\ cancellation_states' = [cancellation_states EXCEPT ![id] = received + 1]
          /\ queue' = Append(queue, m)
      BY <1>1, <2>3, ReceivedRequest
    <3>2. m.serial = received + 1 /\ m.id = id /\ m.kind = "request"
      OBVIOUS
    <3> HIDE DEF m
    <3>3. \A i \in DOMAIN queue : queue[i].kind = "request" => queue[i].id # id
      BY <1>0, <3>1 DEF RegistryParts, Serials, NoRequest
    <3>4. InHand => current.id # id /\ current.id \in Id
      BY <3>1, MessageFacts DEF RegistryParts, Serials, Sorted, TypeOK
    <3>5. \A j \in Id :
            cancellation_states'[j] # NoRequest =>
              \/ \E i \in DOMAIN queue' :
                   queue'[i].kind = "request" /\ queue'[i].serial = cancellation_states'[j]
              \/ InHand /\ current.serial = cancellation_states'[j]
      <4> SUFFICES ASSUME NEW j \in Id, cancellation_states'[j] # NoRequest
                   PROVE  \/ \E i \in DOMAIN queue' :
                               /\ queue'[i].kind = "request"
                               /\ queue'[i].serial = cancellation_states'[j]
                          \/ InHand /\ current.serial = cancellation_states'[j]
        OBVIOUS
      <4>1. CASE j = id
        <5>1. Len(queue') \in DOMAIN queue'
          BY <3>1, PushedFacts
        <5>2. /\ queue'[Len(queue')].serial = cancellation_states'[j]
              /\ queue'[Len(queue')].kind = "request"
          BY <1>0, <3>1, <3>2, <4>1, PushedFacts
        <5> QED
          BY <5>1, <5>2
      <4>2. CASE j # id
        <5>1. cancellation_states'[j] = cancellation_states[j]
          BY <1>0, <3>1, <4>2
        <5> QED
          BY <3>1, <5>1, PushedFacts DEF RegistryParts
      <4> QED
        BY <4>1, <4>2
    <3>6. \A i \in DOMAIN queue' :
            queue'[i].kind = "request" => cancellation_states'[queue'[i].id] = queue'[i].serial
      <4> SUFFICES ASSUME NEW i \in DOMAIN queue', queue'[i].kind = "request"
                   PROVE  cancellation_states'[queue'[i].id] = queue'[i].serial
        OBVIOUS
      <4>1. CASE i \in DOMAIN queue
        BY <1>0, <3>1, <3>3, <4>1, PushedFacts DEF RegistryParts
      <4>2. CASE i = Len(queue')
        BY <1>0, <3>1, <3>2, <4>2, PushedFacts
      <4> QED
        BY <3>1, <4>1, <4>2, PushedFacts
    <3>7. InHand => cancellation_states'[current.id] = current.serial
      BY <1>0, <3>1, <3>4 DEF RegistryParts
    <3> QED
      BY <2>1, <3>5, <3>6, <3>7 DEF RegistryParts, InHand
  <2> QED
    BY <2>2, <2>3
<1>2. ASSUME NEW id \in Id, ReceiveCancel(id) PROVE RegistryParts'
  BY <1>2 DEF ReceiveCancel, RegistryParts, InHand, flow, dispatch
<1>3. ASSUME NEW kind \in {"notification", "exit"}, ReceiveNotification(kind)
      PROVE  RegistryParts'
  <2> DEFINE m == [kind |-> kind, serial |-> received + 1]
  <2>1. m \in Message /\ queue' = Append(queue, m) /\ m.kind # "request"
    BY <1>3, ReceivedNotification
  <2> HIDE DEF m
  <2>2. UNCHANGED <<current, dispatcher, cancellation_states>>
    BY <1>3 DEF ReceiveNotification, dispatch
  <2>3. \A i \in DOMAIN queue : i \in DOMAIN queue' /\ queue'[i] = queue[i]
    BY <2>1, PushedFacts
  <2>4. \A i \in DOMAIN queue' : queue'[i].kind = "request" =>
          i \in DOMAIN queue /\ queue'[i] = queue[i]
    BY <2>1, PushedFacts
  <2> QED
    BY <2>2, <2>3, <2>4 DEF RegistryParts, InHand
<1>4. ASSUME Take PROVE RegistryParts'
  <2>1. UNCHANGED cancellation_states /\ dispatcher = "wait"
    BY <1>4 DEF Take
  <2>2. CASE TakesFirst
    <3>1. current'.kind = "request" => InHand'
      BY <2>2 DEF TakesFirst, InHand
    <3>2. InHand' => current'.kind = "request"
      BY <2>2, MessageFacts DEF TakesFirst, InHand
    <3>3. \A id \in Id : cancellation_states[id] # NoRequest =>
            \E i \in DOMAIN queue :
              queue[i].kind = "request" /\ queue[i].serial = cancellation_states[id]
      BY <2>1 DEF RegistryParts, InHand
    <3>4. \A i \in DOMAIN queue : i = 1 \/ (i - 1 \in DOMAIN queue' /\ queue'[i - 1] = queue[i])
      BY <2>2 DEF TakesFirst
    <3>5. \A id \in Id : cancellation_states[id] # NoRequest =>
            \/ \E i \in DOMAIN queue' :
                 queue'[i].kind = "request" /\ queue'[i].serial = cancellation_states[id]
            \/ current'.kind = "request" /\ current'.serial = cancellation_states[id]
      BY <2>2, <3>3, <3>4 DEF TakesFirst
    <3> QED
      BY <2>1, <2>2, <3>1, <3>2, <3>5 DEF RegistryParts, TakesFirst
  <2>3. CASE UNCHANGED <<queue, current>> /\ dispatcher' \in {"wait", "returned"}
    BY <2>1, <2>3 DEF RegistryParts, InHand
  <2> QED
    BY <1>4, <2>2, <2>3, Taken
<1>5. ASSUME ForgetUnknown \/ Erase PROVE RegistryParts'
  <2>1. /\ UNCHANGED <<queue, current>> /\ InHand /\ ~InHand'
        /\ cancellation_states' = [cancellation_states EXCEPT ![current.id] = NoRequest]
    BY <1>5 DEF ForgetUnknown, Erase, Forget, InHand
  <2>2. current.id \in Id /\ cancellation_states[current.id] = current.serial
        /\ current.serial # NoRequest
    BY <2>1, MessageFacts DEF Sorted, RegistryParts, TypeOK, Serials
  <2>3. \A i \in DOMAIN queue : queue[i].kind = "request" => queue[i].id # current.id
    <3>1. \A i \in DOMAIN queue : queue[i].serial # current.serial
      BY <1>0, MessageFacts DEF Serials
    <3> QED
      BY <2>2, <3>1 DEF RegistryParts
  <2>4. \A id \in Id : cancellation_states'[id] # NoRequest =>
          /\ cancellation_states'[id] = cancellation_states[id]
          /\ cancellation_states[id] # current.serial
    BY <1>0, <2>1, <2>2 DEF OneIdEach
  <2>5. \A i \in DOMAIN queue : queue[i].kind = "request" =>
          cancellation_states'[queue[i].id] = queue[i].serial
    BY <1>0, <2>1, <2>3 DEF RegistryParts
  <2> QED
    BY <2>1, <2>4, <2>5 DEF RegistryParts
<1>6. ASSUME UNCHANGED <<queue, cancellation_states, current>>, InHand' = InHand
      PROVE  RegistryParts'
  BY <1>6 DEF RegistryParts
<1>7. ASSUME Sweep PROVE RegistryParts'
  BY <1>6, <1>7 DEF Sweep, InHand, flow
<1>8. ASSUME Quiet PROVE RegistryParts'
  <2>1. InHand' = InHand
    BY <1>8 DEF Quiet, InHand, ReceiveInvalid, EndOfInput, Reader, NotifyOne, TestStop, CloseInput,
                NotifyAll, Join, AnswerUnknown, Poll, PollCancellation, RunHandler, Respond,
                Notify, vars, flow, dispatch
  <2> QED
    BY <1>6, <1>8, <2>1, QuietFacts
<1> QED
  BY <1>1, <1>2, <1>3, <1>4, <1>5, <1>7, <1>8, NextCases

LEMMA CancelStep ==
  ASSUME TypeOK, TypeOK', Serials, OneIdEach, Sorted, ExitIsLast, RegistryParts,
         CancelledAreAsked, CancelledMeansAsked, [Next]_vars
  PROVE  CancelledAreAsked' /\ CancelledMeansAsked'
<1>0. /\ received \in Nat /\ queue \in Seq(Message)
      /\ output \in Seq([serial : 1..MaxMessages, id : Id, answer : Answer])
      /\ cancellation_states \in [Id -> Nat]
      /\ \A i \in DOMAIN queue : queue[i] \in Message
      /\ \A i \in DOMAIN queue : queue[i].kind = "request" => queue[i].id \in Id
  BY MessageFacts DEF TypeOK
\* A message just read is not cancelled.
<1>1. ASSUME NEW m \in Message, m.serial = received + 1, queue' = Append(queue, m),
             UNCHANGED <<current, dispatcher, outcome, cancelled, cancels>>
      PROVE  CancelledAreAsked'
  <2>1. m.serial \notin cancelled
    BY <1>0, <1>1 DEF Serials
  <2>2. \A i \in DOMAIN queue' : queue'[i].serial \in cancelled =>
          i \in DOMAIN queue /\ queue'[i] = queue[i]
    BY <1>1, <2>1, PushedFacts
  <2> QED
    BY <1>1, <2>2 DEF CancelledAreAsked, Asked, InHand
<1>2. ASSUME UNCHANGED <<queue, current, dispatcher, outcome, cancelled, cancels>>
      PROVE  CancelledAreAsked'
  BY <1>2 DEF CancelledAreAsked, Asked, InHand
<1>3. ASSUME UNCHANGED <<output, cancels>> PROVE CancelledMeansAsked'
  BY <1>3 DEF CancelledMeansAsked
<1>4. ASSUME NEW a \in [serial : 1..MaxMessages, id : Id, answer : Answer],
             output' = Append(output, a), UNCHANGED cancels,
             a.answer = "cancelled" => Asked(a.serial, a.id)
      PROVE  CancelledMeansAsked'
  <2>1. \A i \in DOMAIN output' : (i \in DOMAIN output /\ output'[i] = output[i]) \/ output'[i] = a
    BY <1>0, <1>4, AppendFacts
  <2> QED
    BY <1>4, <2>1 DEF CancelledMeansAsked, Asked
<1>5. ASSUME NEW id \in Id, NEW method \in Method, ReceiveRequest(id, method)
      PROVE  CancelledAreAsked' /\ CancelledMeansAsked'
  <2> DEFINE m == [kind |-> "request", serial |-> received + 1, id |-> id, method |-> method]
             a == [serial |-> received + 1, id |-> id, answer |-> "duplicate"]
  <2>1. /\ m \in Message
        /\ \/ queue' = Append(queue, m) /\ UNCHANGED output
           \/ UNCHANGED queue /\ output' = Append(output, a)
    BY <1>5, ReceivedRequest
  <2>2. UNCHANGED <<current, dispatcher, outcome, cancelled, cancels>>
    BY <1>5 DEF ReceiveRequest, dispatch
  <2>3. m.serial = received + 1 /\ a.answer # "cancelled"
    OBVIOUS
  <2>4. a \in [serial : 1..MaxMessages, id : Id, answer : Answer]
    <3>1. received + 1 \in 1..MaxMessages
      BY <1>0, <1>5 DEF ReceiveRequest, Receive, TypeOK
    <3> QED
      BY <3>1 DEF Answer
  <2> HIDE DEF m, a
  <2> QED
    BY <1>1, <1>2, <1>3, <1>4, <2>1, <2>2, <2>3, <2>4
<1>6. ASSUME NEW id \in Id, ReceiveCancel(id) PROVE CancelledAreAsked' /\ CancelledMeansAsked'
  <2> DEFINE c == [serial |-> received + 1, id |-> id]
  <2>1. /\ UNCHANGED <<queue, current, dispatcher, outcome, output>>
        /\ cancels' = cancels \cup {c}
        /\ cancelled' = cancelled \cup ({cancellation_states[id]} \ {NoRequest})
    BY <1>6 DEF ReceiveCancel, Receive, flow, dispatch
  <2>2. c.id = id /\ c.serial = received + 1
    OBVIOUS
  <2> HIDE DEF c
  <2>3. \A s, i : Asked(s, i) => Asked(s, i)'
    BY <2>1 DEF Asked
  <2>4. \A s \in 0..received : Asked(s, id)'
    BY <1>0, <2>1, <2>2 DEF Asked
  <2>5. ASSUME NEW i \in DOMAIN queue, queue[i].serial \in cancelled'
        PROVE  queue[i].kind = "request" /\ Asked(queue[i].serial, queue[i].id)'
    <3>1. CASE queue[i].serial \in cancelled
      BY <2>1, <2>3, <3>1 DEF CancelledAreAsked
    <3>2. CASE queue[i].serial = cancellation_states[id] /\ cancellation_states[id] # NoRequest
      <4>1. queue[i].kind = "request" /\ queue[i].id = id
        <5>1. CASE InHand /\ current.serial = cancellation_states[id]
          BY <3>2, <5>1, MessageFacts DEF Serials, TypeOK
        <5>2. ASSUME NEW j \in DOMAIN queue, queue[j].kind = "request",
                     queue[j].serial = cancellation_states[id]
              PROVE  queue[i].kind = "request" /\ queue[i].id = id
          <6>1. i = j
            <7>1. i \in Nat /\ j \in Nat
              BY <1>0
            <7>2. queue[i].serial = queue[j].serial /\ queue[i].serial \in Nat
              BY <3>2, <5>2 DEF Serials
            <7>3. i < j => queue[i].serial < queue[j].serial
              BY <5>2 DEF Serials
            <7>4. j < i => queue[j].serial < queue[i].serial
              BY <5>2 DEF Serials
            <7> QED
              BY <7>1, <7>2, <7>3, <7>4
          <6> QED
            BY <1>0, <3>2, <5>2, <6>1 DEF RegistryParts, OneIdEach
        <5> QED
          BY <3>2, <5>1, <5>2 DEF RegistryParts
      <4>2. queue[i].serial \in 0..received
        BY <1>0 DEF Serials
      <4> QED
        BY <2>1, <2>4, <4>1, <4>2
    <3> QED
      BY <2>1, <2>5, <3>1, <3>2
  <2>6. ASSUME InHand, current.serial \in cancelled' PROVE Asked(current.serial, current.id)'
    <3>1. CASE current.serial \in cancelled
      BY <2>1, <2>3, <2>6, <3>1 DEF CancelledAreAsked
    <3>2. CASE current.serial = cancellation_states[id] /\ cancellation_states[id] # NoRequest
      <4>1. current.id \in Id
        BY <2>6, MessageFacts DEF Sorted, TypeOK
      <4>2. current.id = id
        BY <2>6, <3>2, <4>1 DEF RegistryParts, OneIdEach
      <4> QED
        BY <2>1, <2>4, <4>2 DEF Serials
    <3> QED
      BY <2>1, <2>6, <3>1, <3>2
  <2>7. CancelledAreAsked'
    <3>1. dispatcher = "respond" /\ outcome = "cancelled" => current.serial \in cancelled'
      BY <2>1 DEF CancelledAreAsked
    <3> QED
      BY <2>1, <2>5, <2>6, <3>1 DEF CancelledAreAsked, InHand
  <2> QED
    BY <2>1, <2>7 DEF CancelledMeansAsked
<1>7. ASSUME NEW kind \in {"notification", "exit"}, ReceiveNotification(kind)
      PROVE  CancelledAreAsked' /\ CancelledMeansAsked'
  <2> DEFINE m == [kind |-> kind, serial |-> received + 1]
  <2>1. m \in Message /\ queue' = Append(queue, m) /\ m.serial = received + 1
    BY <1>7, ReceivedNotification
  <2>2. UNCHANGED <<current, dispatcher, outcome, cancelled, cancels, output>>
    BY <1>7 DEF ReceiveNotification, dispatch
  <2> HIDE DEF m
  <2> QED
    BY <1>1, <1>3, <2>1, <2>2
<1>8. ASSUME Take PROVE CancelledAreAsked' /\ CancelledMeansAsked'
  <2>1. UNCHANGED <<cancelled, cancels, output, outcome>> /\ dispatcher' # "respond"
    BY <1>8 DEF Take
  <2>2. CASE TakesFirst
    BY <1>3, <2>1, <2>2 DEF TakesFirst, CancelledAreAsked, Asked
  <2>3. CASE UNCHANGED <<queue, current>> /\ dispatcher' \in {"wait", "returned"}
    BY <1>3, <2>1, <2>3 DEF CancelledAreAsked, Asked, InHand
  <2> QED
    BY <1>8, <2>2, <2>3, Taken
<1>9. ASSUME ForgetUnknown \/ Erase \/ Poll \/ RunHandler \/ Notify
      PROVE  CancelledAreAsked' /\ CancelledMeansAsked'
  <2>1. UNCHANGED <<queue, current, cancelled, cancels, output>> /\ (InHand' => InHand)
    BY <1>9 DEF ForgetUnknown, Erase, Poll, PollCancellation, RunHandler, Notify, InHand, flow
  <2>2. dispatcher' = "respond" /\ outcome' = "cancelled" => current.serial \in cancelled
    BY <1>9 DEF ForgetUnknown, Erase, Poll, PollCancellation, RunHandler, Notify
  <2> QED
    BY <1>3, <2>1, <2>2 DEF CancelledAreAsked, Asked
<1>10. ASSUME AnswerUnknown \/ Respond PROVE CancelledAreAsked' /\ CancelledMeansAsked'
  <2>1. UNCHANGED <<queue, current, cancelled, cancels>> /\ (InHand' => InHand)
        /\ dispatcher' # "respond"
    BY <1>10 DEF AnswerUnknown, Respond, InHand, flow
  <2>2. CancelledAreAsked'
    BY <2>1 DEF CancelledAreAsked, Asked
  <2>3. PICK answer \in Answer :
          /\ Write(current.serial, current.id, answer)
          /\ answer = "cancelled" => dispatcher = "respond" /\ outcome = "cancelled"
    BY <1>10 DEF AnswerUnknown, Respond, Answer, TypeOK
  <2>4. current.kind = "request" /\ current.id \in Id /\ current.serial \in 1..MaxMessages
    <3>1. current.kind = "request"
      BY <1>10 DEF AnswerUnknown, Respond, Sorted, InHand
    <3>2. current.id \in Id /\ current.serial \in 1..received
      BY <3>1, MessageFacts DEF Serials, TypeOK, NoRequest
    <3> QED
      BY <3>1, <3>2 DEF TypeOK
  <2> DEFINE a == [serial |-> current.serial, id |-> current.id, answer |-> answer]
  <2>5. a \in [serial : 1..MaxMessages, id : Id, answer : Answer]
    BY <2>4
  <2>6. output' = Append(output, a)
    BY <2>3 DEF Write
  <2>7. a.answer = "cancelled" => Asked(a.serial, a.id)
    BY <2>3 DEF CancelledAreAsked, InHand
  <2> HIDE DEF a
  <2> QED
    BY <1>4, <2>1, <2>2, <2>5, <2>6, <2>7
<1>11. ASSUME Sweep PROVE CancelledAreAsked' /\ CancelledMeansAsked'
  <2>1. cancelled' = cancelled
    BY <1>11 DEF Sweep, CancelIfStopped, ExitIsLast
  <2>2. UNCHANGED <<queue, current, outcome, output, cancels>> /\ dispatcher' = "wait"
    BY <1>11 DEF Sweep, flow
  <2> QED
    BY <1>3, <2>1, <2>2 DEF CancelledAreAsked, Asked, InHand
<1>12. ASSUME ReceiveInvalid \/ EndOfInput \/ Reader \/ UNCHANGED vars
       PROVE  CancelledAreAsked' /\ CancelledMeansAsked'
  <2>1. UNCHANGED <<queue, current, dispatcher, outcome, cancelled, cancels, output>>
    BY <1>12 DEF ReceiveInvalid, EndOfInput, Reader, NotifyOne, TestStop, CloseInput, NotifyAll,
                 Join, vars, flow, dispatch
  <2> QED
    BY <1>2, <1>3, <2>1
<1>13. ASSUME Quiet PROVE CancelledAreAsked' /\ CancelledMeansAsked'
  BY <1>9, <1>10, <1>12, <1>13 DEF Quiet
<1> QED
  BY <1>5, <1>6, <1>7, <1>8, <1>9, <1>11, <1>13, NextCases

---------------------------------------------------------------------------
LEMMA StepInv == IInv /\ [Next]_vars => IInv'
BY TypeStep, SerialsStep, SortedStep, ExitStep, RegistryStep, CancelStep DEF IInv

THEOREM Invariance == Spec => []IInv
BY InitInv, StepInv, PTL DEF Spec

\* The state stays in its types, whatever the client sends.
THEOREM TypeCorrect == Spec => []TypeOK
<1>1. IInv => TypeOK
  BY DEF IInv
<1> QED
  BY <1>1, Invariance, PTL

\* The registry of cancellation sources holds exactly the requests that are
\* queued or being dispatched (RegistryMatchesWork).
THEOREM RegistryCorrect == Spec => []RegistryMatchesWork
<1>1. IInv => RegistryMatchesWork
  BY DEF IInv, RegistryMatchesWork, RegistryParts, Queued, Registered, InHand
<1> QED
  BY <1>1, Invariance, PTL

\* A request is answered with "cancelled" only if the client cancelled its id
\* after sending it (CancelledMeansAsked).
THEOREM CancellationsCorrect == Spec => []CancelledMeansAsked
<1>1. IInv => CancelledMeansAsked
  BY DEF IInv
<1> QED
  BY <1>1, Invariance, PTL
=============================================================================
