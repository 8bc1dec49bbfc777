------------------------- MODULE ForwardingReceiver -------------------------
(***************************************************************************)
(* The request path of a connection: protocol/connection/receiver.rs, as   *)
(* far as requests are concerned, with the channel to the request handler  *)
(* at its far end.                                                         *)
(*                                                                         *)
(* The connection task polls Receiver. A poll reads messages from the      *)
(* stream (poll_stream) until the stream has none or the reorder buffer is *)
(* full, and then forwards the buffered requests whose turn it is          *)
(* (ForwardingReceiver::poll) into a bounded channel, which the request    *)
(* handler empties on a task of its own. Every iteration of the two loops  *)
(* is a step here, so the handler's steps fall between any two of them.    *)
(*                                                                         *)
(* A task that is not woken does not run: streamInterest and parked record *)
(* where the last poll left its waker, woken whether a poll is due.        *)
(***************************************************************************)
EXTENDS CSeq, Sequences, FiniteSets

CONSTANTS
    RequestBufferSize,  \* Config::request_buffer_size
    Arrivals            \* the sequences of requests the peer may send, each
                        \* given by its CSeq, or NoCSeq without a valid one

ASSUME RequestBufferSizeAssumption ==
    RequestBufferSize \in Nat \ {0} /\ RequestBufferSize + 2 < MaxCSeq

ASSUME ArrivalsAssumption == Arrivals \subseteq Seq(OptionalCSeqs)

VARIABLES
    wire,               \* what the peer has yet to send
    stream,             \* messages the socket holds, not yet read
    streamInterest,     \* the connection task waits for the stream
    woken,              \* the connection task has been notified
    pc,                 \* where the poll of Receiver is
    cur,                \* local incoming_sequence_number of the forward loop
    forwardingAlive,    \* Receiver.forwarding_receiver is Some, which here is
                        \* also Receiver.requests_allowed
    incoming,           \* ForwardingReceiver.incoming_sequence_number
    buffered,           \* keys of ForwardingReceiver.buffered_requests
    queue,              \* the bounded channel to the request handler
    parked,             \* the channel's sender is parked, the channel full
    handlerAlive,       \* the handler holds the channel's receiving half
    servicing,          \* RequestHandler.serviced_request
    forwarded,          \* history: the requests sent into the channel
    errors              \* history: the error responses sent to the peer

streamVars  == <<wire, stream, streamInterest>>
handlerVars == <<handlerAlive, servicing>>
bufferVars  == <<forwardingAlive, incoming, buffered>>
vars == <<streamVars, woken, pc, cur, bufferVars, queue, parked, handlerVars,
          forwarded, errors>>

Reading == "reading"        \* in the loop of poll_stream
Forwarding == "forwarding"  \* in the loop of ForwardingReceiver::poll
Asleep == "asleep"          \* between two polls

-----------------------------------------------------------------------------
\* Mutant: the buffer is full one request too late.
IsFullLate == Cardinality(buffered) > RequestBufferSize

\* ForwardingReceiver::is_full
IsFull == Cardinality(buffered) >= RequestBufferSize

\* ForwardingReceiver::has_requests_ready
HasRequestsReady == incoming \in buffered

\* Mutant: every request resets the expected number.
IncomingReset(c) == c

\* ForwardingReceiver::incoming_sequence_number_or_default
IncomingOrDefault(c) == IF incoming = NoCSeq THEN c ELSE incoming

\* Mutant: the window check is off by one.
TooFarAheadLate(c) == CSeqSub(c, IncomingOrDefault(c)) > RequestBufferSize + 1

\* The window check of ForwardingReceiver::handle_request.
TooFarAhead(c) == CSeqSub(c, IncomingOrDefault(c)) > RequestBufferSize

\* Receiver::handle_request_receiver_error answers with one of these.
ErrorStatuses == {"BadRequest", "Forbidden"}

\* Notify the connection task if its waker is where the event happens.
Notify(waiting) == woken' = (woken \/ waiting)

Init ==
    /\ wire \in Arrivals
    /\ stream = << >>
    /\ streamInterest = FALSE
    /\ woken = TRUE             \* a spawned task is polled once
    /\ pc = Asleep
    /\ cur = NoCSeq
    /\ forwardingAlive = TRUE
    /\ incoming = NoCSeq
    /\ buffered = {}
    /\ queue = << >>
    /\ parked = FALSE
    /\ handlerAlive \in BOOLEAN \* a handler exists only if a service does
    /\ servicing = NoCSeq
    /\ forwarded = << >>
    /\ errors = << >>

-----------------------------------------------------------------------------
(* The peer and the socket. *)

Arrive ==
    /\ wire # << >>
    /\ wire' = Tail(wire)
    /\ stream' = Append(stream, Head(wire))
    /\ streamInterest' = FALSE
    /\ Notify(streamInterest)
    /\ UNCHANGED <<pc, cur, bufferVars, queue, parked, handlerVars, forwarded,
                   errors>>

-----------------------------------------------------------------------------
(* The connection task: Receiver::poll. *)

StartPoll ==
    /\ pc = Asleep
    /\ woken
    /\ woken' = FALSE
    /\ pc' = Reading
    /\ UNCHANGED <<streamVars, cur, bufferVars, queue, parked, handlerVars,
                   forwarded, errors>>

\* poll_stream returns: go on to the forwarding receiver, if there is one.
StopReading ==
    /\ pc' = IF forwardingAlive THEN Forwarding ELSE Asleep
    /\ cur' = incoming
    /\ UNCHANGED <<wire, stream, woken, bufferVars, queue, parked, handlerVars,
                   forwarded, errors>>

\* The buffer is full: return without polling the stream.
StreamBlocked ==
    /\ pc = Reading
    /\ forwardingAlive /\ IsFull
    /\ StopReading
    /\ UNCHANGED streamInterest

\* Mutant: the waker is not left with the stream.
StreamNotReadyNoInterest ==
    /\ pc = Reading
    /\ ~(forwardingAlive /\ IsFull)
    /\ stream = << >>
    /\ StopReading
    /\ UNCHANGED streamInterest

\* The stream has no message: it keeps the task's waker.
StreamNotReady ==
    /\ pc = Reading
    /\ ~(forwardingAlive /\ IsFull)
    /\ stream = << >>
    /\ StopReading
    /\ streamInterest' = TRUE

\* ForwardingReceiver::handle_request stores the request.
Buffer(c) ==
    /\ c # NoCSeq
    /\ ~TooFarAhead(c)
    /\ c \notin buffered
    /\ buffered' = buffered \cup {c}
    /\ incoming' = IncomingOrDefault(c)
    /\ UNCHANGED errors

\* ForwardingReceiver::handle_request returns an error, which poll_stream
\* answers through handle_request_receiver_error.
Refuse(c) ==
    /\ \/ c = NoCSeq /\ errors' = Append(errors, "BadRequest")
       \/ c # NoCSeq /\ TooFarAhead(c) /\ errors' = Append(errors, "Forbidden")
       \/ c \in buffered /\ ~TooFarAhead(c)
            /\ errors' = Append(errors, "BadRequest")
    /\ UNCHANGED <<incoming, buffered>>

\* Receiver::handle_message on a request, once requests are not allowed.
Ignore == ~forwardingAlive /\ UNCHANGED <<incoming, buffered, errors>>

ReadRequest ==
    /\ pc = Reading
    /\ ~(forwardingAlive /\ IsFull)
    /\ stream # << >>
    /\ stream' = Tail(stream)
    /\ \/ forwardingAlive /\ (Buffer(Head(stream)) \/ Refuse(Head(stream)))
       \/ Ignore
    /\ UNCHANGED <<wire, streamInterest, woken, pc, cur, forwardingAlive,
                   queue, parked, handlerVars, forwarded>>

\* The expected request leaves the buffer and the channel takes it; the send
\* that fills the channel parks the sender.
Forward ==
    /\ pc = Forwarding
    /\ cur \in buffered
    /\ handlerAlive
    /\ ~parked
    /\ buffered' = buffered \ {cur}
    /\ queue' = Append(queue, cur)
    /\ parked' = (Len(queue') > RequestBufferSize)
    /\ forwarded' = Append(forwarded, cur)
    /\ cur' = WrappingIncrement(cur)
    /\ UNCHANGED <<streamVars, woken, pc, forwardingAlive, incoming,
                   handlerVars, errors>>

\* Mutant: the expected number is not stored when the channel is full.
ForwardBlockedStale ==
    /\ pc = Forwarding
    /\ cur \in buffered /\ handlerAlive /\ parked
    /\ pc' = Asleep
    /\ UNCHANGED <<streamVars, woken, cur, bufferVars, queue, parked,
                   handlerVars, forwarded, errors>>

\* The channel is full: the request goes back and the number is stored.
ForwardBlocked ==
    /\ pc = Forwarding
    /\ cur \in buffered
    /\ handlerAlive
    /\ parked
    /\ incoming' = cur
    /\ pc' = Asleep
    /\ UNCHANGED <<streamVars, woken, cur, forwardingAlive, buffered, queue,
                   parked, handlerVars, forwarded, errors>>

\* Nothing more is ready.
ForwardDone ==
    /\ pc = Forwarding
    /\ cur \notin buffered
    /\ incoming' = cur
    /\ pc' = Asleep
    /\ UNCHANGED <<streamVars, woken, cur, forwardingAlive, buffered, queue,
                   parked, handlerVars, forwarded, errors>>

\* The handler is gone: Receiver::shutdown_forwarding_receiver drops the
\* forwarding receiver with everything it still holds.
ForwardGone ==
    /\ pc = Forwarding
    /\ cur \in buffered
    /\ ~handlerAlive
    /\ forwardingAlive' = FALSE
    /\ buffered' = {}
    /\ pc' = Asleep
    /\ UNCHANGED <<streamVars, woken, cur, incoming, queue, parked,
                   handlerVars, forwarded, errors>>

-----------------------------------------------------------------------------
(* The handler task, as far as the channel and the wakeups go; module      *)
(* RequestHandler has the rest of it.                                      *)

\* Mutant: room is made and nobody told.
HandlerTakeSilent ==
    /\ handlerAlive
    /\ servicing = NoCSeq /\ queue # << >>
    /\ servicing' = Head(queue)
    /\ queue' = Tail(queue)
    /\ parked' = FALSE
    /\ UNCHANGED <<streamVars, woken, pc, cur, bufferVars, handlerAlive,
                   forwarded, errors>>

\* Taking a message makes room: a parked sender's task is notified.
HandlerTake ==
    /\ handlerAlive
    /\ servicing = NoCSeq
    /\ queue # << >>
    /\ servicing' = Head(queue)
    /\ queue' = Tail(queue)
    /\ parked' = FALSE
    /\ Notify(parked)
    /\ UNCHANGED <<streamVars, pc, cur, bufferVars, handlerAlive, forwarded,
                   errors>>

\* The response goes through the sender, which the connection task polls.
HandlerRespond ==
    /\ handlerAlive
    /\ servicing # NoCSeq
    /\ servicing' = NoCSeq
    /\ woken' = TRUE
    /\ UNCHANGED <<streamVars, pc, cur, bufferVars, queue, parked,
                   handlerAlive, forwarded, errors>>

\* The handler's task is dropped, the receiving half of the channel with it.
HandlerDrop ==
    /\ handlerAlive
    /\ handlerAlive' = FALSE
    /\ servicing' = NoCSeq
    /\ queue' = << >>
    /\ parked' = FALSE
    /\ Notify(parked)
    /\ UNCHANGED <<streamVars, pc, cur, bufferVars, forwarded, errors>>

-----------------------------------------------------------------------------
ConnectionStep ==
    \/ StartPoll
    \/ StreamBlocked \/ StreamNotReady \/ ReadRequest
    \/ Forward \/ ForwardBlocked \/ ForwardDone \/ ForwardGone

Next == Arrive \/ ConnectionStep \/ HandlerTake \/ HandlerRespond \/ HandlerDrop

Spec == Init /\ [][Next]_vars

\* The executor runs a notified task, and a service finishes its requests.
Fairness ==
    /\ WF_vars(ConnectionStep)
    /\ WF_vars(HandlerTake)
    /\ WF_vars(HandlerRespond)

FairSpec == Spec /\ Fairness

\* Besides, the peer sends all it has to send.
FairPeerSpec == FairSpec /\ WF_vars(Arrive)

-----------------------------------------------------------------------------
(* Properties. *)

\* The state of the peer, the socket, the connection task and the handler
\* stays within its types and bounds.
TypeOK ==
    /\ wire \in Seq(OptionalCSeqs)
    /\ stream \in Seq(OptionalCSeqs)
    /\ streamInterest \in BOOLEAN
    /\ woken \in BOOLEAN
    /\ pc \in {Asleep, Reading, Forwarding}
    /\ cur \in OptionalCSeqs
    /\ forwardingAlive \in BOOLEAN
    /\ incoming \in OptionalCSeqs
    /\ buffered \subseteq CSeqs
    /\ queue \in Seq(CSeqs)
    /\ parked \in BOOLEAN
    /\ handlerAlive \in BOOLEAN
    /\ servicing \in OptionalCSeqs
    /\ forwarded \in Seq(CSeqs)
    /\ errors \in Seq(ErrorStatuses)

\* The number the next forwarded request must have: while the forward loop
\* runs it is ahead of the field, which the loop writes only when it ends.
Expected == IF pc = Forwarding THEN cur ELSE incoming

\* The handler is given consecutive sequence numbers: whatever order requests
\* arrive in, however often the channel blocks the loop half way, and across
\* the wrap of the sequence number, none is skipped, repeated or overtaken.
InOrder ==
    \A i \in 1 .. Len(forwarded) - 1 :
        Distance(forwarded[i + 1], forwarded[i]) = 1

\* Nothing in the buffer is behind its turn, where no poll would ever look for
\* it, nor too far ahead of it: the window check made when the request came
\* still holds after any number of requests have been forwarded since.
BufferedWithinWindow ==
    \A c \in buffered : CSeqSub(c, Expected) <= RequestBufferSize

\* The buffer keeps to its capacity: the debug_assert of handle_request,
\* which rests on the check poll_stream makes before every message and on
\* the forward loop putting back only what it took out.
BufferWithinCapacity == Cardinality(buffered) <= RequestBufferSize

\* The reorder buffer as a whole: what is in it is still within the window of
\* the expected request, and it is never too much.
BufferBounded == BufferedWithinWindow /\ BufferWithinCapacity

\* A request whose turn it is never waits for a wakeup that cannot come: when
\* the connection task sleeps on one, the channel is full and the handler's
\* next take wakes the task.
ReadyRequestHasWaker ==
    (pc = Asleep /\ ~woken /\ forwardingAlive /\ HasRequestsReady)
        => (handlerAlive /\ parked /\ queue # << >>)

\* The buffer is full and the expected request is not in it, so that neither
\* loop of a poll can do anything any more.
Wedged == forwardingAlive /\ IsFull /\ ~HasRequestsReady

\* The connection task never sleeps on unread messages for good: a poll that
\* returned without polling the stream has left the handler something to do,
\* and its response will wake the task.
UnreadMessageHasWaker ==
    (pc = Asleep /\ ~woken /\ stream # << >> /\ handlerAlive)
        => (Wedged \/ queue # << >> \/ servicing # NoCSeq)

\* The connection task sleeps on work only if the handler will wake it (or the
\* buffer is wedged): neither a ready request that found the channel full, nor
\* a message that was not read because poll_stream returned early, is lost.
SleepsOnlyAttended == ReadyRequestHasWaker /\ UnreadMessageHasWaker

\* What the receiver does is what OrderedDelivery promises. The code's CSeq
\* subtraction lets a request be held one increment further ahead than the
\* buffer size when the window spans the wrap.
Ordered == INSTANCE OrderedDelivery WITH
    Window    <- RequestBufferSize + 1,
    next      <- IF forwardingAlive THEN Expected ELSE NoCSeq,
    held      <- buffered,
    delivered <- forwarded,
    open      <- forwardingAlive

\* The request path implements OrderedDelivery.
ImplementsOrderedDelivery == Ordered!Spec

\* Everything that arrives is eventually read off the stream, as long as the
\* handler lives and the buffer does not wedge.
MessagesEventuallyRead ==
    <>[](stream = << >> \/ Wedged \/ ~handlerAlive)

\* A request whose turn it is goes to the handler, however often the channel is
\* full: the poll that was blocked is made again and goes on from there.
ReadyRequestIsForwarded ==
    \A c \in CSeqs :
        (c \in buffered /\ Expected = c) ~> (c \notin buffered \/ ~handlerAlive)

\* "temporarily buffer requests internally until it is their turn to be
\* forwarded": whatever is held back is eventually handed to the handler, for
\* a peer that does send the requests in between.
HeldRequestsGetTheirTurn ==
    (buffered # {}) ~> (buffered = {} \/ ~handlerAlive)

=============================================================================
