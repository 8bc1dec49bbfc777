----------------------------- MODULE Connection -----------------------------
(***************************************************************************)
(* The life of a connection: Connection::poll (protocol/connection/mod.rs) *)
(* with the shutdown flags of Receiver (receiver.rs), Sender (sender.rs)   *)
(* and ShutdownHandler (shutdown.rs), next to the request handler's task   *)
(* (handler.rs) and the user who holds the connection handle.              *)
(*                                                                         *)
(* A poll is a fixed sequence of parts, and the handler and the user act   *)
(* between any two of them: the variable conn says which part is next. The *)
(* requests of the peer are numbered 1, 2, ... and arrive in order; module *)
(* ForwardingReceiver has the reordering, PendingRequests the matching of  *)
(* responses to the requests of this side, and both have the wakeups. Here *)
(* the executor may poll the connection at any time.                       *)
(***************************************************************************)
EXTENDS Integers, Sequences

CONSTANTS
    NumRequests,        \* bound on the requests the peer sends
    RequestBufferSize,  \* Config::request_buffer_size
    QueueCapacity       \* what the channel to the handler holds

ASSUME BoundsAssumption ==
    /\ NumRequests \in Nat
    /\ RequestBufferSize \in Nat \ {0}
    /\ QueueCapacity \in Nat \ {0}

VARIABLES
    conn,               \* the next part of Connection::poll, or "done"
    receiver,           \* Connection.receiver and its parts
    buffered,           \* requests the forwarding receiver holds, all ready
    arrived,            \* number of requests read from the stream
    queue,              \* the channel to the request handler
    forwarded,          \* the requests that were sent into it
    sender,             \* Connection.sender is Some
    outbox,             \* messages the sender has not written out
    written,            \* messages written to the peer
    writeFailed,        \* the transport refused a write
    shutdown,           \* ShutdownHandler::state
    initiate,           \* content of the oneshot rx_initiate_shutdown
    timerExpired,       \* the graceful shutdown timer has run out
    eventSent,          \* tx_shutdown_event has been used
    allowRequests,      \* Connection.allow_requests
    finished,           \* the sender's poll returned Ready
    panicked,           \* the connection task panicked
    handler,            \* the handler task: "running", "done", "dropped" or "none"
    servicing,          \* the request being serviced, 0 if none
    handled,            \* the requests the service has finished
    handlerHandle,      \* RequestHandler.sender_handle is Some
    handleAlive,        \* the user holds the connection handle
    futures             \* SendRequest futures of the user that are not done

receiverVars == <<receiver, buffered, arrived>>
senderVars == <<sender, outbox, written, writeFailed, finished>>
shutdownVars == <<shutdown, initiate, timerExpired, eventSent>>
handlerVars == <<handler, servicing, handled, handlerHandle>>
userVars == <<handleAlive, futures>>
vars == <<conn, receiverVars, queue, forwarded, senderVars, shutdownVars,
          allowRequests, panicked, handlerVars, userVars>>

\* Messages are named by the request they answer; the others have one name.
Other == 0

-----------------------------------------------------------------------------
(* Receiver: which of its parts are running. *)

\* allowed: requests_allowed; responses, forwarding, handle, stream: the
\* fields response_receiver, forwarding_receiver, sender_handle and stream.
FullReceiver == [alive |-> TRUE, allowed |-> TRUE, responses |-> TRUE,
                 forwarding |-> TRUE, handle |-> TRUE, stream |-> TRUE]

NoReceiver == [alive |-> FALSE, allowed |-> FALSE, responses |-> FALSE,
               forwarding |-> FALSE, handle |-> FALSE, stream |-> FALSE]

HasRequestsReady == buffered # << >>

\* Receiver::shutdown_request_receiver
ShutRequestReceiver(v) ==
    [v EXCEPT !.allowed = FALSE,
              !.handle = @ /\ v.responses,
              !.stream = @ /\ v.responses,
              !.forwarding = @ /\ HasRequestsReady]

\* Receiver::shutdown_response_receiver
ShutResponseReceiver(v) ==
    [v EXCEPT !.responses = FALSE,
              !.handle = @ /\ v.allowed,
              !.stream = @ /\ v.allowed]

\* Receiver::shutdown_receiving
ShutReceiving(v) == ShutResponseReceiver(ShutRequestReceiver(v))

\* Receiver::shutdown_forwarding_receiver
ShutForwarding(v) == ShutRequestReceiver([v EXCEPT !.forwarding = FALSE])

\* Receiver::is_shutdown
IsShutdown(v) == ~v.allowed /\ ~v.responses /\ ~v.forwarding

\* Mutant: the loss of the sender does not reach the receiver.
AfterShutRequestsForgotten == receiver

\* Connection::shutdown_request_receiver: the receiver goes with its last part.
AfterShutRequests ==
    LET v == ShutRequestReceiver(receiver) IN
    IF ~receiver.alive \/ IsShutdown(v) THEN NoReceiver ELSE v

\* Install a receiver; without a forwarding receiver there is no buffer.
SetReceiver(v) ==
    /\ receiver' = v
    /\ buffered' = IF v.forwarding THEN buffered ELSE << >>

\* Drop the sender: what it has not written is lost.
DropSender == sender' = FALSE /\ outbox' = << >>

\* ShutdownHandler::handle_shutdown(Immediate)
ImmediateShutdown == shutdown' = "Shutdown" /\ eventSent' = TRUE

\* The expects of send_message and handle_request_receiver_error would fail.
SendPanics ==
    \/ receiver.handle /\ ~sender
    \/ receiver.allowed /\ ~receiver.handle

-----------------------------------------------------------------------------
Init ==
    /\ conn = "updates"
    /\ receiver = FullReceiver
    /\ buffered = << >>
    /\ arrived = 0
    /\ queue = << >>
    /\ forwarded = {}
    /\ sender = TRUE
    /\ outbox = << >>
    /\ written = {}
    /\ writeFailed = FALSE
    /\ shutdown = "Running"
    /\ initiate = "none"
    /\ timerExpired = FALSE
    /\ eventSent = FALSE
    /\ allowRequests = TRUE
    /\ finished = FALSE
    /\ panicked = FALSE
    /\ handler \in {"running", "none"}  \* with a service, or without one
    /\ servicing = 0
    /\ handled = {}
    /\ handlerHandle = (handler = "running")
    /\ handleAlive = TRUE
    /\ futures = 0

-----------------------------------------------------------------------------
(* Connection::poll_receiver, that is Receiver::poll. *)

\* All senders of the pending request updates are gone.
UpdatesEnded == ~handleAlive /\ futures = 0

\* poll_receiving, first part: the response receiver. Without a receiver the
\* poll goes on with the sender.
PollUpdates ==
    /\ conn = "updates"
    /\ conn' = IF receiver.alive THEN "stream" ELSE "sender"
    /\ IF receiver.responses /\ UpdatesEnded
       THEN SetReceiver(ShutResponseReceiver(receiver))
       ELSE UNCHANGED <<receiver, buffered>>
    /\ UNCHANGED <<arrived, queue, forwarded, senderVars, shutdownVars,
                   allowRequests, panicked, handlerVars, userVars>>

\* The buffer is full: the stream is not polled.
IsFull == receiver.forwarding /\ Len(buffered) >= RequestBufferSize

\* poll_stream reads a request that can be buffered, if requests are allowed.
ReadRequest ==
    /\ conn = "stream"
    /\ receiver.stream /\ ~IsFull
    /\ arrived < NumRequests
    /\ arrived' = arrived + 1
    /\ \/ /\ receiver.allowed
          /\ buffered' = Append(buffered, arrived')
       \/ ~receiver.allowed /\ UNCHANGED buffered
    /\ UNCHANGED <<conn, receiver, queue, forwarded, senderVars, shutdownVars,
                   allowRequests, panicked, handlerVars, userVars>>

\* poll_stream reads a request that handle_request refuses, which is answered
\* with an error: handle_request_receiver_error.
ReadBadRequest ==
    /\ conn = "stream"
    /\ receiver.stream /\ ~IsFull /\ ~SendPanics
    /\ arrived < NumRequests
    /\ arrived' = arrived + 1
    /\ outbox' = IF receiver.allowed THEN Append(outbox, Other) ELSE outbox
    /\ UNCHANGED <<conn, receiver, buffered, queue, forwarded, sender,
                   written, writeFailed, finished, shutdownVars, allowRequests,
                   panicked, handlerVars, userVars>>

\* poll_stream returns NotReady.
StreamNotReady ==
    /\ conn = "stream"
    /\ receiver.stream
    /\ conn' = "forward"
    /\ UNCHANGED <<receiverVars, queue, forwarded, senderVars, shutdownVars,
                   allowRequests, panicked, handlerVars, userVars>>

\* The stream has ended or failed to decode a response, the decoding timer has
\* expired, or the stream is gone already: shutdown_receiving. While the buffer
\* is full no such timer runs, for the message that filled it ended the last.
StreamEnds ==
    /\ conn = "stream"
    /\ receiver.stream => ~IsFull
    /\ conn' = "forward"
    /\ SetReceiver(ShutReceiving(receiver))
    /\ UNCHANGED <<arrived, queue, forwarded, senderVars, shutdownVars,
                   allowRequests, panicked, handlerVars, userVars>>

\* A request fails to decode: handle_protocol_error answers it, if there is a
\* sender handle, before receiving is shut down.
StreamFails ==
    /\ conn = "stream"
    /\ receiver.stream /\ ~IsFull /\ ~SendPanics
    /\ conn' = "forward"
    /\ outbox' = IF receiver.handle THEN Append(outbox, Other) ELSE outbox
    /\ SetReceiver(ShutReceiving(receiver))
    /\ UNCHANGED <<arrived, queue, forwarded, sender, written,
                   writeFailed, finished, shutdownVars, allowRequests, panicked,
                   handlerVars, userVars>>

\* The answer to a request cannot be sent and the task panics: the connection
\* is dropped, and ShutdownHandler::drop signals the shutdown.
StreamPanics ==
    /\ conn = "stream"
    /\ receiver.stream /\ ~IsFull /\ SendPanics
    /\ conn' = "done"
    /\ panicked' = TRUE
    /\ SetReceiver(NoReceiver)
    /\ DropSender
    /\ ImmediateShutdown
    /\ UNCHANGED <<arrived, queue, forwarded, written, writeFailed,
                   finished, initiate, timerExpired, allowRequests, handlerVars,
                   userVars>>

\* ForwardingReceiver::poll sends one request into the channel.
Forward ==
    /\ conn = "forward"
    /\ receiver.forwarding /\ HasRequestsReady
    /\ handler = "running" /\ Len(queue) < QueueCapacity
    /\ queue' = Append(queue, Head(buffered))
    /\ forwarded' = forwarded \cup {Head(buffered)}
    /\ buffered' = Tail(buffered)
    /\ UNCHANGED <<conn, receiver, arrived, senderVars, shutdownVars,
                   allowRequests, panicked, handlerVars, userVars>>

\* The end of Receiver::poll and of Connection::poll_receiver: the forwarding
\* receiver goes when there is no handler, or when all is forwarded and no more
\* requests are allowed; the receiver goes when nothing of it is left.
EndForward ==
    /\ conn = "forward"
    /\ LET stop == /\ receiver.forwarding
                   /\ \/ HasRequestsReady /\ handler # "running"
                      \/ ~HasRequestsReady /\ ~receiver.allowed
           wait == HasRequestsReady /\ handler = "running"
           v == IF stop THEN ShutForwarding(receiver) ELSE receiver
       IN  /\ wait => Len(queue) >= QueueCapacity
           /\ SetReceiver(IF IsShutdown(v) THEN NoReceiver ELSE v)
    /\ conn' = "sender"
    /\ UNCHANGED <<arrived, queue, forwarded, senderVars, shutdownVars,
                   allowRequests, panicked, handlerVars, userVars>>

-----------------------------------------------------------------------------
(* Connection::poll_sender, that is Sender::poll. *)

\* Some SenderHandle exists, so that the outgoing stream has not ended.
HandlesExist == handleAlive \/ handlerHandle \/ receiver.handle

\* Write out messages until there are none or the transport blocks.
PollSender ==
    /\ conn = "sender"
    /\ conn' = "shutdown"
    /\ \/ /\ sender
          /\ \E n \in 0 .. Len(outbox) :
                /\ written' = written \cup {outbox[i] : i \in 1 .. n}
                /\ outbox' = SubSeq(outbox, n + 1, Len(outbox))
       \/ ~sender /\ UNCHANGED <<written, outbox>>
    /\ UNCHANGED <<receiverVars, queue, forwarded, sender, writeFailed, finished,
                   shutdownVars, allowRequests, panicked, handlerVars, userVars>>

\* Everything is written, no more can come and the sink is closed.
SenderFinishes ==
    /\ conn = "sender"
    /\ sender /\ outbox = << >> /\ ~HandlesExist
    /\ conn' = "shutdown"
    /\ finished' = TRUE
    /\ sender' = FALSE
    /\ SetReceiver(AfterShutRequests)
    /\ UNCHANGED <<arrived, queue, forwarded, outbox, written,
                   writeFailed, shutdownVars, allowRequests, panicked,
                   handlerVars, userVars>>

\* The transport fails: the sender is dropped with what it has not written.
WriteFails ==
    /\ conn = "sender"
    /\ sender
    /\ conn' = "shutdown"
    /\ writeFailed' = TRUE
    /\ sender' = FALSE
    /\ outbox' = << >>
    /\ SetReceiver(AfterShutRequests)
    /\ UNCHANGED <<arrived, queue, forwarded, written, finished,
                   shutdownVars, allowRequests, panicked, handlerVars, userVars>>

-----------------------------------------------------------------------------
(* ShutdownHandler::poll and the rest of Connection::poll. *)

\* Mutant: the state is taken out to look at the timer and not put back.
PollShutdownTakesState ==
    /\ conn = "shutdown"
    /\ conn' = "state"
    /\ \/ /\ shutdown = "Running" /\ initiate = "Graceful"
          /\ shutdown' = "ShuttingDown"
       \/ shutdown = "ShuttingDown" /\ shutdown' = "Running"
    /\ UNCHANGED <<receiverVars, queue, forwarded, senderVars, initiate, eventSent,
                   timerExpired, allowRequests, panicked, handlerVars, userVars>>

\* poll_running, and poll_shutting_down right after a graceful shutdown starts
\* and in every later poll; the timer may also fail for lack of capacity.
PollShutdown ==
    /\ conn = "shutdown"
    /\ conn' = "state"
    /\ LET s == IF shutdown = "Running" THEN initiate ELSE "none" IN
       \/ s = "Immediate" /\ ImmediateShutdown
       \/ /\ s = "Graceful" \/ shutdown = "ShuttingDown"
          /\ \/ ImmediateShutdown
             \/ ~timerExpired /\ shutdown' = "ShuttingDown" /\ UNCHANGED eventSent
       \/ s = "none" /\ shutdown # "ShuttingDown" /\ UNCHANGED <<shutdown, eventSent>>
    /\ UNCHANGED <<receiverVars, queue, forwarded, senderVars, initiate,
                   timerExpired, allowRequests, panicked, handlerVars, userVars>>

\* The check after the match: with neither receiver nor sender the connection
\* is over and force_shutdown signals it.
EndPoll ==
    IF ~receiver'.alive /\ ~sender'
    THEN conn' = "done" /\ ImmediateShutdown
    ELSE conn' = "updates" /\ UNCHANGED <<shutdown, eventSent>>

\* Mutant: the sender outlives the receiver and the handler.
StateRunningKeepsSender ==
    /\ conn = "state"
    /\ shutdown = "Running"
    /\ allowRequests' = (allowRequests /\ receiver.responses /\ sender)
    /\ UNCHANGED <<receiver, buffered, sender, outbox>>
    /\ EndPoll
    /\ UNCHANGED <<arrived, queue, forwarded, written, writeFailed,
                   finished, initiate, timerExpired, panicked, handlerVars,
                   userVars>>

\* ShutdownState::Running, with poll_request_handler_shutdown: once receiver
\* and handler are done, so is the sender.
StateRunning ==
    /\ conn = "state"
    /\ shutdown = "Running"
    /\ allowRequests' = (allowRequests /\ receiver.responses /\ sender)
    /\ IF ~receiver.alive /\ handler \in {"done", "dropped"}
       THEN DropSender
       ELSE UNCHANGED <<sender, outbox>>
    /\ UNCHANGED <<receiver, buffered>>
    /\ EndPoll
    /\ UNCHANGED <<arrived, queue, forwarded, written, writeFailed,
                   finished, initiate, timerExpired, panicked, handlerVars,
                   userVars>>

\* Mutant: requests stay allowed.
StateShuttingDownAllows ==
    /\ conn = "state"
    /\ shutdown = "ShuttingDown"
    /\ SetReceiver(AfterShutRequests)
    /\ UNCHANGED <<sender, outbox>>
    /\ EndPoll
    /\ UNCHANGED <<arrived, queue, forwarded, written, writeFailed,
                   finished, initiate, timerExpired, allowRequests, panicked,
                   handlerVars, userVars>>

\* ShutdownState::ShuttingDown: what is buffered is still forwarded.
StateShuttingDown ==
    /\ conn = "state"
    /\ shutdown = "ShuttingDown"
    /\ allowRequests' = FALSE
    /\ SetReceiver(AfterShutRequests)
    /\ UNCHANGED <<sender, outbox>>
    /\ EndPoll
    /\ UNCHANGED <<arrived, queue, forwarded, written, writeFailed,
                   finished, initiate, timerExpired, panicked, handlerVars,
                   userVars>>

\* ShutdownState::Shutdown: the receiver and the sender are dropped.
StateShutdown ==
    /\ conn = "state"
    /\ shutdown = "Shutdown"
    /\ allowRequests' = FALSE
    /\ SetReceiver(NoReceiver)
    /\ DropSender
    /\ conn' = "done"
    /\ UNCHANGED <<arrived, queue, forwarded, written, writeFailed,
                   finished, shutdownVars, panicked, handlerVars, userVars>>

-----------------------------------------------------------------------------
(* The request handler's task. *)

\* RequestHandler::process_request takes a request out of the channel.
HandlerTakes ==
    /\ handler = "running"
    /\ servicing = 0
    /\ queue # << >>
    /\ servicing' = Head(queue)
    /\ queue' = Tail(queue)
    /\ UNCHANGED <<conn, receiverVars, forwarded, senderVars, shutdownVars,
                   allowRequests, panicked, handler, handled, handlerHandle,
                   userVars>>

\* The service is done: RequestHandler::send_response. Without a sender the
\* handle is given up, and the requests left are serviced all the same.
HandlerResponds ==
    /\ handler = "running"
    /\ servicing # 0
    /\ servicing' = 0
    /\ handled' = handled \cup {servicing}
    /\ \/ handlerHandle /\ sender /\ outbox' = Append(outbox, servicing)
            /\ UNCHANGED handlerHandle
       \/ handlerHandle /\ ~sender /\ handlerHandle' = FALSE /\ UNCHANGED outbox
       \/ ~handlerHandle /\ UNCHANGED <<outbox, handlerHandle>>
    /\ UNCHANGED <<conn, receiverVars, queue, forwarded, sender, written,
                   writeFailed, finished, shutdownVars, allowRequests, panicked,
                   handler, userVars>>

\* Mutant: the handler ends with requests in the channel.
HandlerEndsEarly ==
    /\ handler = "running"
    /\ servicing = 0
    /\ ~receiver.forwarding
    /\ handler' = "done"
    /\ handlerHandle' = FALSE
    /\ UNCHANGED <<conn, receiverVars, queue, forwarded, senderVars, shutdownVars,
                   allowRequests, panicked, servicing, handled, userVars>>

\* The stream of requests has ended: RequestHandler::shutdown.
HandlerEnds ==
    /\ handler = "running"
    /\ servicing = 0
    /\ queue = << >>
    /\ ~receiver.forwarding
    /\ handler' = "done"
    /\ handlerHandle' = FALSE
    /\ UNCHANGED <<conn, receiverVars, queue, forwarded, senderVars, shutdownVars,
                   allowRequests, panicked, servicing, handled, userVars>>

\* The executor drops the task, as it does when the service panics: the
\* requests in the channel are lost.
HandlerDropped ==
    /\ handler = "running"
    /\ handler' = "dropped"
    /\ handlerHandle' = FALSE
    /\ servicing' = 0
    /\ queue' = << >>
    /\ UNCHANGED <<conn, receiverVars, forwarded, senderVars, shutdownVars,
                   allowRequests, panicked, handled, userVars>>

-----------------------------------------------------------------------------
(* The user and the clock. *)

\* ConnectionHandle::shutdown, once.
Shutdown(type) ==
    /\ handleAlive
    /\ initiate = "none"
    /\ initiate' = type
    /\ UNCHANGED <<conn, receiverVars, queue, forwarded, senderVars, shutdown,
                   timerExpired, eventSent, allowRequests, panicked, handlerVars,
                   userVars>>

\* Mutant: the last handle goes without starting a shutdown.
DropHandleSilently ==
    /\ handleAlive
    /\ handleAlive' = FALSE
    /\ UNCHANGED <<conn, receiverVars, queue, forwarded, senderVars, shutdownVars,
                   allowRequests, panicked, handlerVars, futures>>

\* The last handle is dropped: ConnectionShutdownSender::drop.
DropHandle ==
    /\ handleAlive
    /\ handleAlive' = FALSE
    /\ initiate' = IF initiate = "none" THEN "Graceful" ELSE initiate
    /\ UNCHANGED <<conn, receiverVars, queue, forwarded, senderVars, shutdown,
                   timerExpired, eventSent, allowRequests, panicked, handlerVars,
                   futures>>

\* A request of the user, as far as the connection sees it.
UserSends ==
    /\ handleAlive /\ allowRequests /\ receiver.responses /\ sender
    /\ futures = 0
    /\ futures' = 1
    /\ outbox' = Append(outbox, Other)
    /\ Len(outbox) < NumRequests + 1
    /\ UNCHANGED <<conn, receiverVars, queue, forwarded, sender, written,
                   writeFailed, finished, shutdownVars, allowRequests, panicked,
                   handlerVars, handleAlive>>

\* Mutant: a future that is done ends again when it is dropped.
FutureEndsTwice ==
    /\ futures' = futures - 1
    /\ UNCHANGED <<conn, receiverVars, queue, forwarded, senderVars, shutdownVars,
                   allowRequests, panicked, handlerVars, handleAlive>>

\* The request is answered, times out or is cancelled.
FutureEnds ==
    /\ futures = 1
    /\ futures' = 0
    /\ UNCHANGED <<conn, receiverVars, queue, forwarded, senderVars, shutdownVars,
                   allowRequests, panicked, handlerVars, handleAlive>>

\* The graceful shutdown timer of ShutdownHandler runs out.
TimerExpires ==
    /\ shutdown = "ShuttingDown"
    /\ ~timerExpired
    /\ timerExpired' = TRUE
    /\ UNCHANGED <<conn, receiverVars, queue, forwarded, senderVars, shutdown,
                   initiate, eventSent, allowRequests, panicked, handlerVars,
                   userVars>>

-----------------------------------------------------------------------------
ConnectionStep ==
    \/ PollUpdates
    \/ ReadRequest \/ ReadBadRequest \/ StreamNotReady \/ StreamEnds
    \/ StreamFails \/ StreamPanics
    \/ Forward \/ EndForward
    \/ PollSender \/ SenderFinishes \/ WriteFails
    \/ PollShutdown
    \/ StateRunning \/ StateShuttingDown \/ StateShutdown

HandlerStep == HandlerTakes \/ HandlerResponds \/ HandlerEnds

UserStep ==
    \/ \E type \in {"Graceful", "Immediate"} : Shutdown(type)
    \/ DropHandle \/ UserSends \/ FutureEnds

Next ==
    \/ ConnectionStep \/ HandlerStep \/ HandlerDropped \/ UserStep
    \/ TimerExpires

Spec == Init /\ [][Next]_vars

\* The executor polls both tasks, the service finishes what it is given, and
\* time passes. Nothing is assumed of the user, the peer or the transport.
Fairness ==
    /\ WF_vars(ConnectionStep)
    /\ WF_vars(HandlerStep)
    /\ WF_vars(TimerExpires)

FairSpec == Spec /\ Fairness

-----------------------------------------------------------------------------
(* Properties. *)

Messages == 0 .. NumRequests

\* The state of the connection, its handler and its user
\* stays within its types and bounds.
TypeOK ==
    /\ conn \in {"updates", "stream", "forward", "sender", "shutdown", "state",
                 "done"}
    /\ receiver \in [alive : BOOLEAN, allowed : BOOLEAN, responses : BOOLEAN,
                     forwarding : BOOLEAN, handle : BOOLEAN, stream : BOOLEAN]
    /\ buffered \in Seq(Messages) /\ queue \in Seq(Messages)
    /\ arrived \in Messages
    /\ forwarded \subseteq Messages
    /\ handled \subseteq Messages /\ written \subseteq Messages
    /\ outbox \in Seq(Messages)
    /\ sender \in BOOLEAN /\ writeFailed \in BOOLEAN /\ finished \in BOOLEAN
    /\ shutdown \in {"Running", "ShuttingDown", "Shutdown"}
    /\ initiate \in {"none", "Graceful", "Immediate"}
    /\ timerExpired \in BOOLEAN /\ eventSent \in BOOLEAN
    /\ allowRequests \in BOOLEAN /\ panicked \in BOOLEAN
    /\ handler \in {"running", "done", "dropped", "none"}
    /\ servicing \in Messages
    /\ handlerHandle \in BOOLEAN /\ handleAlive \in BOOLEAN
    /\ futures \in 0 .. 1

\* While requests are accepted everything needed to forward and to refuse one
\* is there: the expects of handle_message, handle_request_receiver_error and
\* send_message, whichever of receiver, sender and shutdown went first.
AllowedMeansServed ==
    receiver.allowed =>
        receiver.alive /\ receiver.forwarding /\ receiver.handle
        /\ receiver.stream /\ sender

\* When the connection is over nothing of it is left, its handles know, and no
\* request can be sent any more, on every path that leads there.
NothingLeftWhenDone ==
    conn = "done" =>
        /\ ~receiver.alive /\ ~sender /\ eventSent /\ shutdown = "Shutdown"
        /\ allowRequests => panicked

\* "All requests that are forwarded to the request handler will always be
\* processed before it shuts down", however the connection ended; and when the
\* sender comes to its own end, rather than being dropped, the peer has been
\* sent the answer to every request that was forwarded.
ForwardedAreProcessed ==
    /\ handler = "done" => handled = forwarded
    /\ finished /\ handler # "dropped" => forwarded \subseteq written

\* The shutdown state only advances, the shutdown event stays sent and
\* requests once disallowed stay so: no path of a poll takes any of it back.
ShutdownOnlyAdvances ==
    [][ /\ shutdown = "ShuttingDown" => shutdown' # "Running"
        /\ shutdown = "Shutdown" => shutdown' = "Shutdown"
        /\ eventSent => eventSent'
        /\ ~allowRequests => ~allowRequests' ]_vars

\* Dropping the handle ends both tasks: a ConnectionShutdownReceiver finishes.
DroppedHandleEndsBoth ==
    ~handleAlive ~> (conn = "done" /\ handler # "running")

\* A server connection whose receiver is done ends once the handler has served
\* what it was given, without a shutdown being asked for.
ReceiverEndEndsServer ==
    (~receiver.alive /\ handler # "none") ~> conn = "done"

\* "It is assumed the sender handle is always alive, sending a message must not
\* fail": send_message never panics.
SendNeverPanics == ~panicked

\* "To ensure that all messages are sent through the sink, the sender instance
\* should not be dropped until Sender::poll has returned": a connection that
\* ends by itself, on a working transport, has written out every response.
ResponsesWritten ==
    (conn = "done" /\ initiate = "none" /\ ~writeFailed /\ ~panicked
        /\ handler = "done") => handled \subseteq written

=============================================================================
