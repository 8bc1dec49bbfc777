-------------------------- MODULE ConnectionProofs --------------------------
(***************************************************************************)
(* Proofs about the life of a connection, for every number of requests,    *)
(* every size of the buffer and every capacity of the handler's channel:   *)
(* what is served while requests are accepted, what is left at the end,    *)
(* and that a request once forwarded is processed and answered.            *)
(***************************************************************************)
EXTENDS Connection, TLAPS

Receivers == [alive : BOOLEAN, allowed : BOOLEAN, responses : BOOLEAN,
              forwarding : BOOLEAN, handle : BOOLEAN, stream : BOOLEAN]

\* The members of a sequence.
Elems(s) == {s[i] : i \in 1 .. Len(s)}

-----------------------------------------------------------------------------
(* The inductive invariants. *)

\* A receiver that was dropped has no part left.
DroppedHasNothing == ~receiver.alive => receiver = NoReceiver

\* Only a receiver that is there is polled.
PollsWhatIsThere == conn \in {"stream", "forward"} => receiver.alive

\* Whoever reaches the last state of a shutdown has signalled it.
ShutdownIsSignalled == shutdown = "Shutdown" => eventSent

\* While requests are accepted what they need is there, and a connection that
\* is over has nothing left.
PartsInv ==
    /\ TypeOK
    /\ AllowedMeansServed
    /\ PollsWhatIsThere
    /\ DroppedHasNothing
    /\ ShutdownIsSignalled
    /\ NothingLeftWhenDone

\* The requests are numbered from 1, so that none of them looks like "no
\* request" to the handler.
RequestsNumbered == 0 \notin Elems(buffered) \cup Elems(queue)

\* What was forwarded is in the channel, with the service or handled, for as
\* long as nobody drops the handler.
ForwardedIsSomewhere ==
    handler # "dropped" =>
        forwarded = handled \cup Elems(queue) \cup ({servicing} \ {0})

\* The handler ends with nothing in hand, and without one nothing is forwarded.
EndsEmptyHanded ==
    /\ handler = "done" => queue = << >> /\ servicing = 0
    /\ handler = "none" => forwarded = {}

\* The handler gives up its handle only at its end or when the sender is gone.
KeepsHandle == handler = "running" /\ sender => handlerHandle

\* An answer is with the sender, or written, for as long as there is a sender.
AnswersKept == sender => handled \subseteq written \cup Elems(outbox)

\* The sender comes to its end only after the handler.
FinishedIsLast == finished => ~sender /\ handler # "running"

\* Forwarded requests are not lost on the way from the forwarding receiver
\* through channel, service and sender to the peer.
ProcessInv ==
    /\ TypeOK
    /\ RequestsNumbered
    /\ ForwardedIsSomewhere
    /\ EndsEmptyHanded
    /\ KeepsHandle
    /\ AnswersKept
    /\ FinishedIsLast
    /\ ForwardedAreProcessed

-----------------------------------------------------------------------------
(* Sequences as channels. *)

\* Appending adds one member.
LEMMA ElemsAppend ==
    ASSUME NEW S, NEW s \in Seq(S), NEW x \in S
    PROVE  /\ Append(s, x) \in Seq(S)
           /\ Elems(Append(s, x)) = Elems(s) \cup {x}
<1>1. /\ Append(s, x) \in Seq(S) /\ Len(Append(s, x)) = Len(s) + 1
      /\ Len(s) \in Nat
      /\ \A i \in 1 .. Len(s) : Append(s, x)[i] = s[i]
      /\ Append(s, x)[Len(s) + 1] = x
  OBVIOUS
<1> DEFINE t == Append(s, x)
<1> HIDE DEF t
<1>2. 1 .. Len(t) = (1 .. Len(s)) \cup {Len(s) + 1}
  BY <1>1 DEF t
<1>3. Elems(t) = Elems(s) \cup {x}
  BY <1>1, <1>2 DEF Elems, t
<1> QED BY <1>1, <1>3 DEF t

\* Taking the head takes it out of the members.
LEMMA ElemsTail ==
    ASSUME NEW S, NEW s \in Seq(S), s # << >>
    PROVE  /\ Head(s) \in S /\ Tail(s) \in Seq(S)
           /\ Elems(s) = {Head(s)} \cup Elems(Tail(s))
<1>1. /\ Len(s) \in Nat \ {0} /\ Head(s) = s[1] /\ s[1] \in S
      /\ Tail(s) \in Seq(S) /\ Len(Tail(s)) = Len(s) - 1
      /\ \A i \in 1 .. Len(s) - 1 : Tail(s)[i] = s[i + 1]
  OBVIOUS
<1> DEFINE t == Tail(s)
<1> HIDE DEF t
<1>2. Elems(t) \subseteq Elems(s) /\ s[1] \in Elems(s)
  BY <1>1 DEF Elems, t
<1>3. ASSUME NEW i \in 1 .. Len(s), i # 1
      PROVE  s[i] \in Elems(t)
  <2>1. i - 1 \in 1 .. Len(t) /\ t[i - 1] = s[i]
    BY <1>1, <1>3 DEF t
  <2> QED BY <2>1 DEF Elems
<1>4. Elems(s) \subseteq {s[1]} \cup Elems(t)
  BY <1>3 DEF Elems
<1> QED BY <1>1, <1>2, <1>4 DEF t

\* Taking the first n members leaves the others.
LEMMA ElemsSplit ==
    ASSUME NEW S, NEW s \in Seq(S), NEW n \in 0 .. Len(s)
    PROVE  /\ SubSeq(s, n + 1, Len(s)) \in Seq(S)
           /\ {s[i] : i \in 1 .. n} \subseteq S
           /\ Elems(s) = {s[i] : i \in 1 .. n} \cup Elems(SubSeq(s, n + 1, Len(s)))
<1> DEFINE t == SubSeq(s, n + 1, Len(s))
<1>1. /\ Len(s) \in Nat /\ \A i \in 1 .. Len(s) : s[i] \in S
      /\ t \in Seq(S) /\ Len(t) = Len(s) - n
      /\ \A i \in 1 .. Len(s) - n : t[i] = s[n + i]
  OBVIOUS
<1> HIDE DEF t
<1>2. Elems(t) \subseteq Elems(s) /\ {s[i] : i \in 1 .. n} \subseteq Elems(s)
  BY <1>1 DEF Elems
<1>3. ASSUME NEW i \in 1 .. Len(s), i \notin 1 .. n
      PROVE  s[i] \in Elems(t)
  <2>1. i - n \in 1 .. Len(t) /\ t[i - n] = s[i]
    BY <1>1, <1>3
  <2> QED BY <2>1 DEF Elems
<1>4. Elems(s) \subseteq {s[i] : i \in 1 .. n} \cup Elems(t)
  BY <1>3 DEF Elems
<1>5. {s[i] : i \in 1 .. n} \subseteq S
  BY <1>1
<1> QED BY <1>1, <1>2, <1>4, <1>5 DEF t

\* The empty sequence has no members.
LEMMA ElemsEmpty == Elems(<< >>) = {}
BY DEF Elems

-----------------------------------------------------------------------------
(* What the shutdown functions of Receiver leave. *)

\* Receiver::shutdown_request_receiver
LEMMA ShutRequestParts ==
    ASSUME NEW v \in Receivers
    PROVE  /\ ShutRequestReceiver(v) \in Receivers
           /\ ~ShutRequestReceiver(v).allowed
           /\ ShutRequestReceiver(v).alive = v.alive
  BY DEF Receivers, ShutRequestReceiver

\* Receiver::shutdown_response_receiver
LEMMA ShutResponseParts ==
    ASSUME NEW v \in Receivers
    PROVE  /\ ShutResponseReceiver(v) \in Receivers
           /\ ShutResponseReceiver(v).alive = v.alive
           /\ ShutResponseReceiver(v).allowed = v.allowed
           /\ ShutResponseReceiver(v).forwarding = v.forwarding
           /\ v.allowed => /\ ShutResponseReceiver(v).handle = v.handle
                           /\ ShutResponseReceiver(v).stream = v.stream
  BY DEF Receivers, ShutResponseReceiver

\* Receiver::shutdown_receiving
LEMMA ShutReceivingParts ==
    ASSUME NEW v \in Receivers
    PROVE  /\ ShutReceiving(v) \in Receivers
           /\ ~ShutReceiving(v).allowed
           /\ ShutReceiving(v).alive = v.alive
<1>1. /\ ShutRequestReceiver(v) \in Receivers
      /\ ~ShutRequestReceiver(v).allowed
      /\ ShutRequestReceiver(v).alive = v.alive
  BY ShutRequestParts
<1> QED BY <1>1, ShutResponseParts DEF ShutReceiving

\* Receiver::shutdown_forwarding_receiver
LEMMA ShutForwardingParts ==
    ASSUME NEW v \in Receivers
    PROVE  /\ ShutForwarding(v) \in Receivers
           /\ ~ShutForwarding(v).allowed
           /\ ShutForwarding(v).alive = v.alive
<1>1. /\ [v EXCEPT !.forwarding = FALSE] \in Receivers
      /\ [v EXCEPT !.forwarding = FALSE].alive = v.alive
  BY DEF Receivers
<1> QED BY <1>1, ShutRequestParts DEF ShutForwarding

-----------------------------------------------------------------------------
(* Types. *)

\* Installing a receiver keeps its type and that of the buffer.
LEMMA SetReceiverTypes ==
    ASSUME TypeOK, NEW v \in Receivers, SetReceiver(v)
    PROVE  receiver' \in Receivers /\ buffered' \in Seq(Messages)
<1>1. buffered \in Seq(Messages) /\ << >> \in Seq(Messages)
  BY DEF TypeOK
<1> QED BY <1>1 DEF SetReceiver

\* The receiver that Connection::shutdown_request_receiver leaves.
LEMMA AfterShutRequestsParts ==
    ASSUME TypeOK
    PROVE  /\ AfterShutRequests \in Receivers
           /\ ~AfterShutRequests.allowed
           /\ ~AfterShutRequests.alive => AfterShutRequests = NoReceiver
<1>1. receiver \in Receivers
  BY DEF TypeOK, Receivers
<1>2. /\ NoReceiver \in Receivers /\ ~NoReceiver.allowed
  BY DEF NoReceiver, Receivers
<1> QED BY <1>1, <1>2, ShutRequestParts DEF AfterShutRequests

\* A new connection is well typed.
LEMMA TypeInit == Init => TypeOK
<1> SUFFICES ASSUME Init PROVE TypeOK
  OBVIOUS
<1>1. 0 \in Messages /\ 0 \in 0 .. 1
  BY BoundsAssumption DEF Messages
<1>2. receiver \in Receivers
  BY DEF Init, FullReceiver, Receivers
<1>3. /\ buffered \in Seq(Messages) /\ queue \in Seq(Messages)
      /\ outbox \in Seq(Messages)
  BY DEF Init
<1>4. handlerHandle \in BOOLEAN
  BY DEF Init
<1> QED BY <1>1, <1>2, <1>3, <1>4, Zenon DEF Init, TypeOK, Receivers

\* Every step keeps the types.
LEMMA TypeNext == TypeOK /\ [Next]_vars => TypeOK'
<1> SUFFICES ASSUME TypeOK, [Next]_vars PROVE TypeOK'
  OBVIOUS
<1> USE DEF receiverVars, senderVars, shutdownVars, handlerVars, userVars
<1>0. /\ receiver \in Receivers /\ NoReceiver \in Receivers
      /\ Other \in Messages /\ << >> \in Seq(Messages)
  BY BoundsAssumption DEF TypeOK, Receivers, NoReceiver, Other, Messages
<1>1. CASE PollUpdates
  <2>1. receiver' \in Receivers /\ buffered' \in Seq(Messages)
    BY <1>0, <1>1, ShutResponseParts, SetReceiverTypes DEF PollUpdates, TypeOK
  <2> QED BY <1>1, <2>1 DEF PollUpdates, TypeOK, Receivers
<1>2. CASE ReadRequest
  <2>1. arrived' \in Messages
    BY <1>2, BoundsAssumption DEF ReadRequest, TypeOK, Messages
  <2>2. buffered \in Seq(Messages)
    BY DEF TypeOK
  <2>3. buffered' \in Seq(Messages)
    BY <1>2, <2>1, <2>2, ElemsAppend DEF ReadRequest
  <2> QED BY <1>2, <2>1, <2>3 DEF ReadRequest, TypeOK
<1>3. CASE ReadBadRequest
  <2>1. arrived' \in Messages
    BY <1>3, BoundsAssumption DEF ReadBadRequest, TypeOK, Messages
  <2>2. outbox' \in Seq(Messages)
    BY <1>0, <1>3 DEF ReadBadRequest, TypeOK
  <2> QED BY <1>3, <2>1, <2>2 DEF ReadBadRequest, TypeOK
<1>4. CASE StreamNotReady
  BY <1>4 DEF StreamNotReady, TypeOK
<1>5. CASE StreamEnds
  <2>1. receiver' \in Receivers /\ buffered' \in Seq(Messages)
    BY <1>0, <1>5, ShutReceivingParts, SetReceiverTypes DEF StreamEnds
  <2> QED BY <1>5, <2>1 DEF StreamEnds, TypeOK, Receivers
<1>6. CASE StreamFails
  <2>1. receiver' \in Receivers /\ buffered' \in Seq(Messages)
    BY <1>0, <1>6, ShutReceivingParts, SetReceiverTypes DEF StreamFails
  <2>2. outbox' \in Seq(Messages)
    BY <1>0, <1>6 DEF StreamFails, TypeOK
  <2> QED BY <1>6, <2>1, <2>2 DEF StreamFails, TypeOK, Receivers
<1>7. CASE StreamPanics
  <2>1. receiver' \in Receivers /\ buffered' \in Seq(Messages)
    BY <1>0, <1>7, SetReceiverTypes DEF StreamPanics
  <2> QED BY <1>0, <1>7, <2>1, Zenon
          DEF StreamPanics, DropSender, ImmediateShutdown, TypeOK, Receivers
<1>8. CASE Forward
  <2>1. /\ Head(buffered) \in Messages /\ Tail(buffered) \in Seq(Messages)
    BY <1>8, ElemsTail DEF Forward, HasRequestsReady, TypeOK
  <2>2. queue' \in Seq(Messages) /\ forwarded' \subseteq Messages
    BY <1>8, <2>1 DEF Forward, TypeOK
  <2> QED BY <1>8, <2>1, <2>2 DEF Forward, TypeOK
<1>9. CASE EndForward
  <2>1. ShutForwarding(receiver) \in Receivers
    BY <1>0, ShutForwardingParts
  <2>2. PICK v \in Receivers : SetReceiver(v)
    BY <1>0, <1>9, <2>1, Zenon DEF EndForward
  <2>3. receiver' \in Receivers /\ buffered' \in Seq(Messages)
    BY <2>2, SetReceiverTypes
  <2> QED BY <1>9, <2>3 DEF EndForward, TypeOK, Receivers
<1>10. CASE PollSender
  <2>1. CASE sender
    <3>1. PICK n \in 0 .. Len(outbox) :
              /\ written' = written \cup {outbox[i] : i \in 1 .. n}
              /\ outbox' = SubSeq(outbox, n + 1, Len(outbox))
      BY <1>10, <2>1 DEF PollSender
    <3>2. written' \subseteq Messages /\ outbox' \in Seq(Messages)
      BY <3>1, ElemsSplit DEF TypeOK
    <3> QED BY <1>10, <3>2 DEF PollSender, TypeOK
  <2>2. CASE ~sender
    BY <1>10, <2>2 DEF PollSender, TypeOK
  <2> QED BY <2>1, <2>2
<1>11. CASE SenderFinishes
  <2>1. receiver' \in Receivers /\ buffered' \in Seq(Messages)
    BY <1>11, AfterShutRequestsParts, SetReceiverTypes DEF SenderFinishes
  <2>2. sender' \in BOOLEAN /\ finished' \in BOOLEAN
    BY <1>11, Zenon DEF SenderFinishes
  <2> QED BY <1>11, <2>1, <2>2 DEF SenderFinishes, TypeOK, Receivers
<1>12. CASE WriteFails
  <2>1. receiver' \in Receivers /\ buffered' \in Seq(Messages)
    BY <1>12, AfterShutRequestsParts, SetReceiverTypes DEF WriteFails
  <2>2. sender' \in BOOLEAN /\ writeFailed' \in BOOLEAN
    BY <1>12, Zenon DEF WriteFails
  <2> QED BY <1>0, <1>12, <2>1, <2>2 DEF WriteFails, TypeOK, Receivers
<1>13. CASE PollShutdown
  <2>1. eventSent' \in BOOLEAN
    BY <1>13, Zenon DEF PollShutdown, ImmediateShutdown, TypeOK
  <2> QED BY <1>13, <2>1 DEF PollShutdown, ImmediateShutdown, TypeOK
<1>14. CASE StateRunning
  <2>1. allowRequests' \in BOOLEAN
    BY <1>14 DEF StateRunning
  <2>2. sender' \in BOOLEAN /\ outbox' \in Seq(Messages)
    BY <1>0, <1>14 DEF StateRunning, DropSender, TypeOK
  <2>3. eventSent' \in BOOLEAN
    BY <1>14, Zenon DEF StateRunning, EndPoll, ImmediateShutdown, TypeOK
  <2> QED BY <1>14, <2>1, <2>2, <2>3
          DEF StateRunning, EndPoll, ImmediateShutdown, TypeOK
<1>15. CASE StateShuttingDown
  <2>1. receiver' \in Receivers /\ buffered' \in Seq(Messages)
    BY <1>15, AfterShutRequestsParts, SetReceiverTypes DEF StateShuttingDown
  <2>2. eventSent' \in BOOLEAN /\ allowRequests' \in BOOLEAN
    BY <1>15, Zenon DEF StateShuttingDown, EndPoll, ImmediateShutdown, TypeOK
  <2> QED BY <1>15, <2>1, <2>2
          DEF StateShuttingDown, EndPoll, ImmediateShutdown, TypeOK, Receivers
<1>16. CASE StateShutdown
  <2>1. receiver' \in Receivers /\ buffered' \in Seq(Messages)
    BY <1>0, <1>16, SetReceiverTypes DEF StateShutdown
  <2> QED BY <1>0, <1>16, <2>1, Zenon DEF StateShutdown, DropSender, TypeOK, Receivers
<1>17. CASE HandlerTakes
  <2>1. Head(queue) \in Messages /\ Tail(queue) \in Seq(Messages)
    BY <1>17, ElemsTail DEF HandlerTakes, TypeOK
  <2> QED BY <1>17, <2>1 DEF HandlerTakes, TypeOK
<1>18. CASE HandlerResponds
  <2>1. outbox' \in Seq(Messages) /\ handled' \subseteq Messages
    <3>1. outbox \in Seq(Messages) /\ servicing \in Messages
      BY DEF TypeOK
    <3>2. Append(outbox, servicing) \in Seq(Messages)
      BY <3>1
    <3> QED BY <1>18, <3>1, <3>2 DEF HandlerResponds, TypeOK
  <2>2. handlerHandle' \in BOOLEAN
    BY <1>18, Zenon DEF HandlerResponds, TypeOK
  <2> QED BY <1>0, <1>18, <2>1, <2>2 DEF HandlerResponds, TypeOK, Other
<1>19. CASE HandlerEnds
  <2>1. handlerHandle' \in BOOLEAN
    BY <1>19, Zenon DEF HandlerEnds
  <2> QED BY <1>19, <2>1 DEF HandlerEnds, TypeOK
<1>20. CASE HandlerDropped
  <2>1. handlerHandle' \in BOOLEAN
    BY <1>20, Zenon DEF HandlerDropped
  <2> QED BY <1>0, <1>20, <2>1 DEF HandlerDropped, TypeOK, Other
<1>21. CASE UserStep
  <2>1. ASSUME NEW type \in {"Graceful", "Immediate"}, Shutdown(type)
        PROVE  TypeOK'
    BY <2>1 DEF Shutdown, TypeOK
  <2>2. CASE DropHandle
    <3>1. handleAlive' \in BOOLEAN
      BY <2>2, Zenon DEF DropHandle
    <3> QED BY <2>2, <3>1 DEF DropHandle, TypeOK
  <2>3. CASE UserSends
    <3>1. outbox' \in Seq(Messages)
      BY <1>0, <2>3 DEF UserSends, TypeOK
    <3> QED BY <2>3, <3>1 DEF UserSends, TypeOK
  <2>4. CASE FutureEnds
    BY <2>4 DEF FutureEnds, TypeOK
  <2> QED BY <1>21, <2>1, <2>2, <2>3, <2>4 DEF UserStep
<1>22. CASE TimerExpires
  BY <1>22 DEF TimerExpires, TypeOK
<1>23. CASE UNCHANGED vars
  BY <1>23 DEF vars, TypeOK
<1> QED BY <1>1, <1>2, <1>3, <1>4, <1>5, <1>6, <1>7, <1>8, <1>9, <1>10, <1>11,
           <1>12, <1>13, <1>14, <1>15, <1>16, <1>17, <1>18, <1>19, <1>20, <1>21,
           <1>22, <1>23 DEF Next, ConnectionStep, HandlerStep

\* The state of a connection, of its handler and of its user stays within its
\* types and bounds, for every number of requests and size of the channels.
THEOREM TypeCorrect == Spec => []TypeOK
BY TypeInit, TypeNext, PTL DEF Spec

-----------------------------------------------------------------------------
(* What is there while requests are accepted, and what is left at the end. *)

\* A step that leaves the poll, the receiver, the sender and the shutdown alone.
LEMMA PartsFrame ==
    ASSUME PartsInv, TypeOK',
           UNCHANGED <<conn, receiver, sender, shutdown, eventSent, allowRequests,
                       panicked>>
    PROVE  PartsInv'
BY DEF PartsInv, AllowedMeansServed, PollsWhatIsThere, DroppedHasNothing,
   ShutdownIsSignalled, NothingLeftWhenDone

\* A step of the poll that changes neither the sender nor the shutdown, and
\* leaves a receiver that accepts nothing, or all it accepted before.
LEMMA PartsPoll ==
    ASSUME PartsInv, TypeOK', conn' # "done",
           UNCHANGED <<sender, shutdown, eventSent>>,
           \/ ~receiver'.allowed
           \/ /\ receiver.allowed /\ receiver'.alive = receiver.alive
              /\ receiver'.forwarding = receiver.forwarding
              /\ receiver'.handle = receiver.handle
              /\ receiver'.stream = receiver.stream,
           PollsWhatIsThere', DroppedHasNothing'
    PROVE  PartsInv'
BY DEF PartsInv, AllowedMeansServed, ShutdownIsSignalled, NothingLeftWhenDone

\* A new connection has all its parts.
LEMMA PartsInit == Init => PartsInv
BY TypeInit DEF Init, FullReceiver, PartsInv, AllowedMeansServed,
   PollsWhatIsThere, DroppedHasNothing, ShutdownIsSignalled, NothingLeftWhenDone

\* Every step keeps the invariant about the parts.
LEMMA PartsNext == PartsInv /\ [Next]_vars => PartsInv'
<1> SUFFICES ASSUME PartsInv, [Next]_vars PROVE PartsInv'
  OBVIOUS
<1> USE DEF receiverVars, senderVars, shutdownVars, handlerVars, userVars
<1>0. /\ TypeOK /\ TypeOK' /\ receiver \in Receivers
      /\ AllowedMeansServed /\ PollsWhatIsThere /\ DroppedHasNothing
      /\ ShutdownIsSignalled /\ NothingLeftWhenDone
  BY TypeNext DEF PartsInv, TypeOK, Receivers
<1>n. NoReceiver \in Receivers /\ ~NoReceiver.allowed /\ ~NoReceiver.alive
      /\ ~NoReceiver.responses
  BY DEF NoReceiver, Receivers
<1>1. CASE PollUpdates
  <2>1. CASE receiver.responses /\ UpdatesEnded
    <3>1. receiver.alive
      BY <1>0, <1>n, <2>1 DEF DroppedHasNothing
    <3>2. receiver' = ShutResponseReceiver(receiver)
      BY <1>1, <2>1 DEF PollUpdates, SetReceiver
    <3>3. /\ receiver'.alive = receiver.alive
          /\ receiver'.allowed = receiver.allowed
          /\ receiver'.forwarding = receiver.forwarding
          /\ receiver.allowed => /\ receiver'.handle = receiver.handle
                                 /\ receiver'.stream = receiver.stream
      BY <1>0, <3>2, ShutResponseParts
    <3>4. PollsWhatIsThere' /\ DroppedHasNothing'
      BY <3>1, <3>3 DEF PollsWhatIsThere, DroppedHasNothing
    <3> QED BY <1>0, <1>1, <3>3, <3>4, PartsPoll DEF PollUpdates
  <2>2. CASE ~(receiver.responses /\ UpdatesEnded)
    <3>1. receiver' = receiver
      BY <1>1, <2>2 DEF PollUpdates
    <3>2. PollsWhatIsThere' /\ DroppedHasNothing'
      BY <1>0, <1>1, <3>1 DEF PollUpdates, PollsWhatIsThere, DroppedHasNothing
    <3> QED BY <1>0, <1>1, <3>1, <3>2, PartsPoll DEF PollUpdates
  <2> QED BY <2>1, <2>2
<1>2. CASE ReadRequest
  BY <1>0, <1>2, PartsFrame DEF ReadRequest
<1>3. CASE ReadBadRequest
  BY <1>0, <1>3, PartsFrame DEF ReadBadRequest
<1>4. CASE StreamNotReady
  <2>1. PollsWhatIsThere' /\ DroppedHasNothing'
    BY <1>0, <1>4 DEF StreamNotReady, PollsWhatIsThere, DroppedHasNothing
  <2> QED BY <1>0, <1>4, <2>1, PartsPoll DEF StreamNotReady
<1>5. CASE StreamEnds \/ StreamFails
  <2>1. /\ receiver' = ShutReceiving(receiver) /\ receiver.alive
        /\ conn' = "forward" /\ UNCHANGED <<sender, shutdown, eventSent>>
    BY <1>0, <1>5 DEF StreamEnds, StreamFails, SetReceiver, PollsWhatIsThere
  <2>2. ~receiver'.allowed /\ receiver'.alive
    BY <1>0, <2>1, ShutReceivingParts
  <2>3. PollsWhatIsThere' /\ DroppedHasNothing'
    BY <2>2 DEF PollsWhatIsThere, DroppedHasNothing
  <2> QED BY <1>0, <2>1, <2>2, <2>3, PartsPoll
<1>6. CASE StreamPanics \/ StateShutdown
  <2>1. /\ receiver' = NoReceiver /\ ~sender' /\ conn' = "done"
        /\ shutdown' = "Shutdown" /\ eventSent'
        /\ allowRequests' => panicked'
    BY <1>0, <1>6 DEF StreamPanics, StateShutdown, SetReceiver, DropSender,
       ImmediateShutdown, ShutdownIsSignalled
  <2> QED BY <1>0, <1>n, <2>1 DEF PartsInv, AllowedMeansServed, PollsWhatIsThere,
             DroppedHasNothing, ShutdownIsSignalled, NothingLeftWhenDone
<1>7. CASE Forward
  BY <1>0, <1>7, PartsFrame DEF Forward
<1>8. CASE EndForward
  <2>1. PICK v \in {receiver, ShutForwarding(receiver)} :
            receiver' = IF IsShutdown(v) THEN NoReceiver ELSE v
    BY <1>8, Zenon DEF EndForward, SetReceiver
  <2>2. receiver.alive
    BY <1>0, <1>8 DEF EndForward, PollsWhatIsThere
  <2>3. /\ v.alive
        /\ v = receiver \/ ~v.allowed
    BY <1>0, <2>1, <2>2, ShutForwardingParts
  <2>4. DroppedHasNothing'
    BY <2>1, <2>3 DEF DroppedHasNothing
  <2>5. ~receiver'.allowed \/ receiver' = receiver
    BY <1>n, <2>1, <2>3
  <2>6. PollsWhatIsThere'
    BY <1>8 DEF EndForward, PollsWhatIsThere
  <2>7. conn' # "done" /\ UNCHANGED <<sender, shutdown, eventSent>>
    BY <1>8 DEF EndForward
  <2> QED BY <1>0, <2>4, <2>5, <2>6, <2>7, PartsPoll
<1>9. CASE PollSender
  <2>1. PollsWhatIsThere' /\ DroppedHasNothing'
    BY <1>0, <1>9 DEF PollSender, PollsWhatIsThere, DroppedHasNothing
  <2> QED BY <1>0, <1>9, <2>1, PartsPoll DEF PollSender
<1>10. CASE SenderFinishes \/ WriteFails
  <2>1. /\ receiver' = AfterShutRequests /\ conn' = "shutdown"
        /\ UNCHANGED <<shutdown, eventSent>>
    BY <1>10 DEF SenderFinishes, WriteFails, SetReceiver
  <2>2. ~receiver'.allowed /\ DroppedHasNothing'
    BY <1>0, <2>1, AfterShutRequestsParts DEF DroppedHasNothing
  <2> QED BY <1>0, <2>1, <2>2 DEF PartsInv, AllowedMeansServed, PollsWhatIsThere,
             ShutdownIsSignalled, NothingLeftWhenDone
<1>11. CASE PollShutdown
  <2>1. ShutdownIsSignalled'
    BY <1>0, <1>11 DEF PollShutdown, ImmediateShutdown, ShutdownIsSignalled, TypeOK
  <2> QED BY <1>0, <1>11, <2>1 DEF PollShutdown, PartsInv, AllowedMeansServed,
             PollsWhatIsThere, DroppedHasNothing, NothingLeftWhenDone
<1>12. CASE StateRunning
  <2>1. receiver' = receiver /\ (~receiver.alive => ~allowRequests')
    BY <1>0, <1>n, <1>12 DEF StateRunning, DroppedHasNothing
  <2>2. sender' = sender \/ ~receiver.alive
    BY <1>12 DEF StateRunning
  <2>3. AllowedMeansServed' /\ DroppedHasNothing'
    BY <1>0, <2>1, <2>2 DEF AllowedMeansServed, DroppedHasNothing
  <2>4. \/ /\ ~receiver'.alive /\ ~sender' /\ conn' = "done"
           /\ shutdown' = "Shutdown" /\ eventSent'
        \/ conn' = "updates" /\ UNCHANGED <<shutdown, eventSent>>
    BY <1>12 DEF StateRunning, EndPoll, ImmediateShutdown
  <2>5. PollsWhatIsThere' /\ ShutdownIsSignalled' /\ NothingLeftWhenDone'
    BY <1>0, <2>1, <2>4
    DEF PollsWhatIsThere, ShutdownIsSignalled, NothingLeftWhenDone
  <2> QED BY <1>0, <2>3, <2>5 DEF PartsInv
<1>13. CASE StateShuttingDown
  <2>1. receiver' = AfterShutRequests /\ ~allowRequests'
    BY <1>13 DEF StateShuttingDown, SetReceiver
  <2>2. ~receiver'.allowed /\ DroppedHasNothing'
    BY <1>0, <2>1, AfterShutRequestsParts DEF DroppedHasNothing
  <2>3. \/ /\ ~receiver'.alive /\ ~sender' /\ conn' = "done"
           /\ shutdown' = "Shutdown" /\ eventSent'
        \/ conn' = "updates" /\ UNCHANGED <<shutdown, eventSent>>
    BY <1>13 DEF StateShuttingDown, EndPoll, ImmediateShutdown
  <2>4. PollsWhatIsThere' /\ ShutdownIsSignalled' /\ NothingLeftWhenDone'
    BY <1>0, <2>1, <2>3
    DEF PollsWhatIsThere, ShutdownIsSignalled, NothingLeftWhenDone
  <2> QED BY <1>0, <2>2, <2>4 DEF PartsInv, AllowedMeansServed
<1>14. CASE HandlerStep \/ HandlerDropped \/ UserStep \/ TimerExpires
  BY <1>0, <1>14, PartsFrame DEF HandlerStep, HandlerTakes, HandlerResponds,
     HandlerEnds, HandlerDropped, UserStep, Shutdown, DropHandle, UserSends,
     FutureEnds, TimerExpires
<1>15. CASE UNCHANGED vars
  BY <1>0, <1>15, PartsFrame DEF vars
<1> QED BY <1>1, <1>2, <1>3, <1>4, <1>5, <1>6, <1>7, <1>8, <1>9, <1>10, <1>11,
           <1>12, <1>13, <1>14, <1>15 DEF Next, ConnectionStep

\* The parts of a connection stay consistent.
LEMMA PartsInvariant == Spec => []PartsInv
BY PartsInit, PartsNext, PTL DEF Spec

\* The expects of handle_message and handle_request_receiver_error hold: while
\* requests are accepted there is everything to forward or refuse one.
THEOREM AcceptedIsServed == Spec => []AllowedMeansServed
<1>1. PartsInv => AllowedMeansServed
  BY DEF PartsInv
<1> QED BY <1>1, PartsInvariant, PTL

\* Every path to the end of Connection::poll, a panic included, leaves neither
\* receiver nor sender, has signalled the shutdown and, a panic apart, has
\* disallowed requests.
THEOREM EndLeavesNothing == Spec => []NothingLeftWhenDone
<1>1. PartsInv => NothingLeftWhenDone
  BY DEF PartsInv
<1> QED BY <1>1, PartsInvariant, PTL

\* No step of the poll takes back the progress of a shutdown, its event or the
\* ban on requests.
THEOREM ShutdownAdvances == Spec => ShutdownOnlyAdvances
<1> DEFINE advances ==
        /\ shutdown = "ShuttingDown" => shutdown' # "Running"
        /\ shutdown = "Shutdown" => shutdown' = "Shutdown"
        /\ eventSent => eventSent'
        /\ ~allowRequests => ~allowRequests'
<1>1. ASSUME TypeOK, [Next]_vars
      PROVE  [advances]_vars
  <2> USE DEF receiverVars, senderVars, shutdownVars, handlerVars, userVars
  <2>1. CASE PollShutdown
    BY <1>1, <2>1 DEF PollShutdown, ImmediateShutdown, TypeOK
  <2>2. CASE StateRunning \/ StateShuttingDown \/ StateShutdown
    BY <1>1, <2>2 DEF StateRunning, StateShuttingDown, StateShutdown, EndPoll,
       ImmediateShutdown, TypeOK
  <2>3. CASE StreamPanics
    BY <1>1, <2>3 DEF StreamPanics, ImmediateShutdown
  <2>4. CASE \/ PollUpdates \/ ReadRequest \/ ReadBadRequest \/ StreamNotReady
             \/ StreamEnds \/ StreamFails \/ Forward \/ EndForward
    BY <2>4 DEF PollUpdates, ReadRequest, ReadBadRequest, StreamNotReady,
       StreamEnds, StreamFails, Forward, EndForward
  <2>5. CASE PollSender \/ SenderFinishes \/ WriteFails
    BY <2>5 DEF PollSender, SenderFinishes, WriteFails
  <2>6. CASE HandlerStep \/ HandlerDropped \/ UserStep \/ TimerExpires
    BY <2>6 DEF HandlerStep, HandlerTakes, HandlerResponds, HandlerEnds,
       HandlerDropped, UserStep, Shutdown, DropHandle, UserSends, FutureEnds,
       TimerExpires
  <2> QED BY <1>1, <2>1, <2>2, <2>3, <2>4, <2>5, <2>6 DEF Next, ConnectionStep
<1> QED BY <1>1, TypeCorrect, PTL DEF Spec, ShutdownOnlyAdvances

-----------------------------------------------------------------------------
(* The way of a request: forwarded, serviced, answered. *)

\* Installing a receiver keeps the buffer or empties it.
LEMMA BufferKept ==
    ASSUME ProcessInv, NEW v, SetReceiver(v), queue' = queue
    PROVE  RequestsNumbered'
<1>1. buffered' = buffered \/ buffered' = << >>
  BY DEF SetReceiver
<1> QED BY <1>1, ElemsEmpty DEF ProcessInv, RequestsNumbered

\* A step that touches neither the handler, nor its channel, nor the sender.
LEMMA ProcessFrame ==
    ASSUME ProcessInv, TypeOK', RequestsNumbered',
           UNCHANGED <<queue, forwarded, sender, outbox, written, finished,
                       handlerVars>>
    PROVE  ProcessInv'
BY DEF ProcessInv, ForwardedIsSomewhere, EndsEmptyHanded, KeepsHandle,
   AnswersKept, FinishedIsLast, ForwardedAreProcessed, handlerVars

\* A message that is no response leaves everything as it was.
LEMMA ProcessOther ==
    ASSUME ProcessInv, TypeOK', RequestsNumbered',
           outbox' = Append(outbox, Other),
           UNCHANGED <<queue, forwarded, sender, written, finished, handlerVars>>
    PROVE  ProcessInv'
<1>1. Elems(outbox) \subseteq Elems(outbox')
  <2>1. Other \in Messages /\ outbox \in Seq(Messages)
    BY BoundsAssumption DEF Other, Messages, ProcessInv, TypeOK
  <2> QED BY <2>1, ElemsAppend
<1>2. AnswersKept'
  BY <1>1 DEF ProcessInv, AnswersKept, handlerVars
<1> QED BY <1>2 DEF ProcessInv, ForwardedIsSomewhere, EndsEmptyHanded, KeepsHandle,
           FinishedIsLast, ForwardedAreProcessed, handlerVars

\* The sender is dropped with what it has not written.
LEMMA ProcessDropSender ==
    ASSUME ProcessInv, TypeOK', RequestsNumbered', ~sender',
           UNCHANGED <<queue, forwarded, written, finished, handlerVars>>
    PROVE  ProcessInv'
BY DEF ProcessInv, ForwardedIsSomewhere, EndsEmptyHanded, KeepsHandle,
   AnswersKept, FinishedIsLast, ForwardedAreProcessed, handlerVars

\* A new connection has forwarded nothing.
LEMMA ProcessInit == Init => ProcessInv
<1> SUFFICES ASSUME Init PROVE ProcessInv
  OBVIOUS
<1>1. Elems(buffered) = {} /\ Elems(queue) = {} /\ Elems(outbox) = {}
  BY ElemsEmpty DEF Init
<1> QED BY <1>1, TypeInit DEF Init, ProcessInv, RequestsNumbered,
           ForwardedIsSomewhere, EndsEmptyHanded, KeepsHandle, AnswersKept,
           FinishedIsLast, ForwardedAreProcessed

\* Every step keeps the invariant about forwarded requests.
LEMMA ProcessNext == ProcessInv /\ [Next]_vars => ProcessInv'
<1> SUFFICES ASSUME ProcessInv, [Next]_vars PROVE ProcessInv'
  OBVIOUS
<1> USE DEF receiverVars, senderVars, shutdownVars, userVars
<1>0. /\ TypeOK /\ TypeOK' /\ RequestsNumbered
      /\ ForwardedIsSomewhere /\ EndsEmptyHanded /\ KeepsHandle /\ AnswersKept
      /\ FinishedIsLast /\ ForwardedAreProcessed
  BY TypeNext DEF ProcessInv
<1>t. /\ buffered \in Seq(Messages) /\ queue \in Seq(Messages)
      /\ outbox \in Seq(Messages) /\ servicing \in Messages /\ arrived \in Nat
  BY <1>0, BoundsAssumption DEF TypeOK, Messages
<1>1. CASE PollUpdates
  <2>1. RequestsNumbered'
    BY <1>0, <1>1, BufferKept DEF PollUpdates, RequestsNumbered
  <2> QED BY <1>0, <1>1, <2>1, ProcessFrame DEF PollUpdates
<1>2. CASE ReadRequest
  <2>1. arrived' \in Messages /\ arrived' # 0
    BY <1>0, <1>2, <1>t DEF ReadRequest, TypeOK
  <2>2. Elems(Append(buffered, arrived')) = Elems(buffered) \cup {arrived'}
    BY <1>t, <2>1, ElemsAppend
  <2>3. RequestsNumbered'
    BY <1>0, <1>2, <2>1, <2>2 DEF ReadRequest, RequestsNumbered
  <2> QED BY <1>0, <1>2, <2>3, ProcessFrame DEF ReadRequest
<1>3. CASE ReadBadRequest
  <2>1. RequestsNumbered'
    BY <1>0, <1>3 DEF ReadBadRequest, RequestsNumbered
  <2> QED BY <1>0, <1>3, <2>1, ProcessFrame, ProcessOther DEF ReadBadRequest
<1>4. CASE StreamNotReady \/ PollShutdown
  <2>1. RequestsNumbered'
    BY <1>0, <1>4 DEF StreamNotReady, PollShutdown, RequestsNumbered
  <2> QED BY <1>0, <1>4, <2>1, ProcessFrame DEF StreamNotReady, PollShutdown
<1>5. CASE StreamEnds
  <2>1. RequestsNumbered'
    BY <1>5, BufferKept DEF StreamEnds
  <2> QED BY <1>0, <1>5, <2>1, ProcessFrame DEF StreamEnds
<1>6. CASE StreamFails
  <2>1. RequestsNumbered'
    BY <1>6, BufferKept DEF StreamFails
  <2> QED BY <1>0, <1>6, <2>1, ProcessFrame, ProcessOther DEF StreamFails
<1>7. CASE StreamPanics \/ StateShutdown
  <2>1. RequestsNumbered'
    BY <1>7, BufferKept DEF StreamPanics, StateShutdown
  <2> QED BY <1>0, <1>7, <2>1, ProcessDropSender
          DEF StreamPanics, StateShutdown, DropSender
<1>8. CASE Forward
  <2> DEFINE r == Head(buffered)
  <2>1. /\ r \in Messages /\ Elems(buffered) = {r} \cup Elems(Tail(buffered))
    BY <1>8, <1>t, ElemsTail DEF Forward, HasRequestsReady
  <2>2. Elems(queue') = Elems(queue) \cup {r}
    BY <1>8, <1>t, <2>1, ElemsAppend DEF Forward
  <2>3. forwarded' = forwarded \cup {r} /\ buffered' = Tail(buffered)
    BY <1>8 DEF Forward
  <2>4. handler = "running" /\ ~finished
    BY <1>0, <1>8 DEF Forward, FinishedIsLast
  <2> HIDE DEF r
  <2>5. RequestsNumbered'
    BY <1>0, <2>1, <2>2, <2>3 DEF RequestsNumbered
  <2>6. ForwardedIsSomewhere'
    BY <1>0, <1>8, <2>2, <2>3 DEF Forward, ForwardedIsSomewhere, handlerVars
  <2> QED BY <1>0, <1>8, <2>4, <2>5, <2>6
          DEF Forward, ProcessInv, EndsEmptyHanded, KeepsHandle, AnswersKept,
              FinishedIsLast, ForwardedAreProcessed, handlerVars
<1>9. CASE EndForward
  <2>1. RequestsNumbered'
    BY <1>9, BufferKept DEF EndForward
  <2> QED BY <1>0, <1>9, <2>1, ProcessFrame DEF EndForward
<1>10. CASE PollSender
  <2>1. RequestsNumbered'
    BY <1>0, <1>10 DEF PollSender, RequestsNumbered
  <2>2. CASE sender
    <3>1. PICK n \in 0 .. Len(outbox) :
              /\ written' = written \cup {outbox[i] : i \in 1 .. n}
              /\ outbox' = SubSeq(outbox, n + 1, Len(outbox))
      BY <1>10, <2>2 DEF PollSender
    <3>2. Elems(outbox) = {outbox[i] : i \in 1 .. n} \cup Elems(outbox')
      BY <1>t, <3>1, ElemsSplit
    <3>3. AnswersKept'
      BY <1>0, <1>10, <3>1, <3>2 DEF PollSender, AnswersKept, handlerVars
    <3>4. ForwardedAreProcessed'
      BY <1>0, <1>10, <3>1 DEF PollSender, ForwardedAreProcessed, handlerVars
    <3> QED BY <1>0, <1>10, <2>1, <3>3, <3>4
            DEF PollSender, ProcessInv, ForwardedIsSomewhere, EndsEmptyHanded,
                KeepsHandle, FinishedIsLast, handlerVars
  <2>3. CASE ~sender
    BY <1>0, <1>10, <2>1, <2>3, ProcessFrame DEF PollSender
  <2> QED BY <2>2, <2>3
<1>11. CASE SenderFinishes
  <2>1. RequestsNumbered'
    BY <1>11, BufferKept DEF SenderFinishes
  <2>2. /\ sender /\ outbox = << >> /\ ~handlerHandle
        /\ ~sender' /\ finished'
    BY <1>11 DEF SenderFinishes, HandlesExist
  <2>3. handler # "running"
    BY <1>0, <2>2 DEF KeepsHandle
  <2>4. ASSUME handler # "dropped" PROVE forwarded \subseteq written
    <3>1. handled \subseteq written
      BY <1>0, <2>2, ElemsEmpty DEF AnswersKept
    <3>2. CASE handler = "done"
      BY <1>0, <3>1, <3>2 DEF ForwardedAreProcessed
    <3>3. CASE handler = "none"
      BY <1>0, <3>3 DEF EndsEmptyHanded
    <3> QED BY <1>0, <2>3, <2>4, <3>2, <3>3 DEF TypeOK
  <2> QED BY <1>0, <1>11, <2>1, <2>2, <2>3, <2>4
          DEF SenderFinishes, ProcessInv, ForwardedIsSomewhere, EndsEmptyHanded,
              KeepsHandle, AnswersKept, FinishedIsLast, ForwardedAreProcessed,
              handlerVars
<1>12. CASE WriteFails
  <2>1. RequestsNumbered'
    BY <1>12, BufferKept DEF WriteFails
  <2> QED BY <1>0, <1>12, <2>1, ProcessDropSender DEF WriteFails
<1>13. CASE StateRunning
  <2>1. RequestsNumbered'
    BY <1>0, <1>13 DEF StateRunning, RequestsNumbered
  <2> QED BY <1>0, <1>13, <2>1, ProcessFrame, ProcessDropSender
          DEF StateRunning, DropSender
<1>14. CASE StateShuttingDown
  <2>1. RequestsNumbered'
    BY <1>14, BufferKept DEF StateShuttingDown
  <2> QED BY <1>0, <1>14, <2>1, ProcessFrame DEF StateShuttingDown
<1>15. CASE HandlerTakes
  <2> DEFINE r == Head(queue)
  <2>1. /\ r \in Messages /\ Elems(queue) = {r} \cup Elems(Tail(queue))
    BY <1>15, <1>t, ElemsTail DEF HandlerTakes
  <2>2. servicing = 0 /\ servicing' = r /\ queue' = Tail(queue)
    BY <1>15 DEF HandlerTakes
  <2> HIDE DEF r
  <2>3. RequestsNumbered' /\ r # 0
    BY <1>0, <1>15, <2>1, <2>2 DEF HandlerTakes, RequestsNumbered
  <2>4. ForwardedIsSomewhere'
    BY <1>0, <1>15, <2>1, <2>2, <2>3 DEF HandlerTakes, ForwardedIsSomewhere
  <2> QED BY <1>0, <1>15, <2>3, <2>4
          DEF HandlerTakes, ProcessInv, EndsEmptyHanded, KeepsHandle, AnswersKept,
              FinishedIsLast, ForwardedAreProcessed
<1>16. CASE HandlerResponds
  <2>1. /\ handler = "running" /\ handler' = handler /\ ~finished
        /\ servicing # 0 /\ servicing' = 0
        /\ handled' = handled \cup {servicing}
        /\ UNCHANGED <<queue, buffered, forwarded, sender, written, finished>>
    BY <1>0, <1>16 DEF HandlerResponds, FinishedIsLast
  <2>2. RequestsNumbered'
    BY <1>0, <2>1 DEF RequestsNumbered
  <2>3. ForwardedIsSomewhere'
    BY <1>0, <2>1 DEF ForwardedIsSomewhere
  <2>4. KeepsHandle'
    BY <1>0, <1>16 DEF HandlerResponds, KeepsHandle
  <2>5. AnswersKept'
    <3>1. CASE sender
      <4>1. outbox' = Append(outbox, servicing)
        BY <1>0, <1>16, <3>1 DEF HandlerResponds, KeepsHandle
      <4>2. Elems(outbox') = Elems(outbox) \cup {servicing}
        BY <1>t, <4>1, ElemsAppend
      <4> QED BY <1>0, <2>1, <4>2 DEF AnswersKept
    <3>2. CASE ~sender
      BY <2>1, <3>2 DEF AnswersKept
    <3> QED BY <3>1, <3>2
  <2> QED BY <1>0, <2>1, <2>2, <2>3, <2>4, <2>5
          DEF ProcessInv, EndsEmptyHanded, FinishedIsLast, ForwardedAreProcessed
<1>17. CASE HandlerEnds
  <2>1. /\ handler = "running" /\ handler' = "done" /\ ~finished
        /\ servicing = 0 /\ queue = << >>
        /\ UNCHANGED <<queue, buffered, forwarded, sender, outbox, written,
                       finished, servicing, handled>>
    BY <1>0, <1>17 DEF HandlerEnds, FinishedIsLast
  <2>2. handled = forwarded
    BY <1>0, <2>1, ElemsEmpty DEF ForwardedIsSomewhere
  <2> QED BY <1>0, <2>1, <2>2
          DEF ProcessInv, RequestsNumbered, ForwardedIsSomewhere, EndsEmptyHanded,
              KeepsHandle, AnswersKept, FinishedIsLast, ForwardedAreProcessed
<1>18. CASE HandlerDropped
  BY <1>0, <1>18, ElemsEmpty
  DEF HandlerDropped, ProcessInv, RequestsNumbered, ForwardedIsSomewhere,
      EndsEmptyHanded, KeepsHandle, AnswersKept, FinishedIsLast,
      ForwardedAreProcessed
<1>19. CASE UserStep
  <2>1. RequestsNumbered'
    BY <1>0, <1>19 DEF UserStep, Shutdown, DropHandle, UserSends, FutureEnds,
       RequestsNumbered
  <2>2. CASE UserSends
    BY <1>0, <2>1, <2>2, ProcessOther DEF UserSends
  <2>3. CASE ~UserSends
    BY <1>0, <1>19, <2>1, <2>3, ProcessFrame
    DEF UserStep, Shutdown, DropHandle, FutureEnds
  <2> QED BY <2>2, <2>3
<1>20. CASE TimerExpires
  <2>1. RequestsNumbered'
    BY <1>0, <1>20 DEF TimerExpires, RequestsNumbered
  <2> QED BY <1>0, <1>20, <2>1, ProcessFrame DEF TimerExpires
<1>21. CASE UNCHANGED vars
  <2>1. RequestsNumbered'
    BY <1>0, <1>21 DEF vars, RequestsNumbered
  <2> QED BY <1>0, <1>21, <2>1, ProcessFrame DEF vars
<1> QED BY <1>1, <1>2, <1>3, <1>4, <1>5, <1>6, <1>7, <1>8, <1>9, <1>10, <1>11,
           <1>12, <1>13, <1>14, <1>15, <1>16, <1>17, <1>18, <1>19, <1>20, <1>21
        DEF Next, ConnectionStep, HandlerStep

\* No forwarded request is lost.
LEMMA ProcessInvariant == Spec => []ProcessInv
BY ProcessInit, ProcessNext, PTL DEF Spec

\* RequestHandler ends only after it has processed every request forwarded to
\* it, and a sender that comes to its own end has written all their answers, in
\* every order in which receiver, handler, sender and shutdown can end.
THEOREM ForwardedRequestsAreProcessed == Spec => []ForwardedAreProcessed
<1>1. ProcessInv => ForwardedAreProcessed
  BY DEF ProcessInv
<1> QED BY <1>1, ProcessInvariant, PTL

=============================================================================
