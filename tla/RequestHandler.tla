--------------------------- MODULE RequestHandler ---------------------------
(***************************************************************************)
(* The task that services the incoming requests of a connection, one at a  *)
(* time and in order: RequestHandler (protocol/connection/handler.rs).     *)
(*                                                                         *)
(* Each loop of its poll polls the service's future, then (if that is not  *)
(* ready) the continue timer, else the channel of requests: the variable   *)
(* pc says what is next, and the service, the timer, the forwarding        *)
(* receiver and the sender act between any two of these. Whatever returned *)
(* NotReady holds the task's waker until it uses it; everything else can   *)
(* happen without the task being polled again.                             *)
(***************************************************************************)
EXTENDS Naturals, Sequences

CONSTANTS
    NumRequests,        \* bound on the requests that are forwarded
    MaxContinues,       \* bound on the expirations of the continue timer
    HasContinueTimer    \* continue_wait_duration is Some

ASSUME BoundsAssumption ==
    /\ NumRequests \in Nat
    /\ MaxContinues \in Nat
    /\ HasContinueTimer \in BOOLEAN

VARIABLES
    pc,                 \* next part of poll, "asleep" between polls
    woken,              \* the task has been notified
    interests,          \* what holds the task's waker
    queue,              \* rx_incoming_request
    inputOpen,          \* the sending half of the channel exists
    sent,               \* number of requests put into the channel
    taken,              \* number of requests taken out of it
    servicing,          \* serviced_request, 0 for None
    service,            \* its future: "pending", "ok" or "err"
    timer,              \* continue_timer: "none", "armed" or "expired"
    expirations,        \* how often the timer has expired
    handle,             \* sender_handle is Some
    senderAlive,        \* the connection's sender exists
    responses,          \* what was put into the sender's channel
    event               \* tx_shutdown_event has been used

channelVars == <<queue, inputOpen, sent>>
serviceVars == <<servicing, service>>
timerVars == <<timer, expirations>>
senderVars == <<handle, senderAlive, responses>>
vars == <<pc, woken, interests, channelVars, taken, serviceVars, timerVars,
          senderVars, event>>

Finals == {"Response", "InternalServerError", "NotImplemented", "BadRequest"}

Init ==
    /\ pc = "asleep"
    /\ woken = TRUE
    /\ interests = {}
    /\ queue = << >>
    /\ inputOpen = TRUE
    /\ sent = 0
    /\ taken = 0
    /\ servicing = 0
    /\ service = "pending"
    /\ timer = "none"
    /\ expirations = 0
    /\ handle = TRUE
    /\ senderAlive = TRUE
    /\ responses = << >>
    /\ event = FALSE

\* RequestHandler::reset_continue_timer
ResetContinueTimer == timer' = IF HasContinueTimer THEN "armed" ELSE timer

\* RequestHandler::send_response: a handle without a sender is given up.
SendResponse(r, status) ==
    /\ responses' = IF handle /\ senderAlive
                    THEN Append(responses, [request |-> r, status |-> status])
                    ELSE responses
    /\ handle' = (handle /\ senderAlive)
    /\ UNCHANGED senderAlive

\* RequestHandler::shutdown
ShutdownHandler ==
    /\ timer' = "none"
    /\ handle' = FALSE
    /\ servicing' = 0
    /\ event' = TRUE

-----------------------------------------------------------------------------
(* RequestHandler::poll *)

StartPoll ==
    /\ pc = "asleep"
    /\ woken
    /\ pc' = "service"
    /\ woken' = FALSE
    /\ UNCHANGED <<interests, channelVars, taken, serviceVars, timerVars,
                   senderVars, event>>

\* poll_serviced_request without a request.
NothingServiced ==
    /\ pc = "service"
    /\ servicing = 0
    /\ pc' = "take"
    /\ UNCHANGED <<woken, interests, channelVars, taken, serviceVars, timerVars,
                   senderVars, event>>

\* Mutants: the request stays, or is cleared before its number is used.
ServiceReadyKeepsRequest ==
    /\ pc = "service"
    /\ servicing # 0 /\ service # "pending"
    /\ SendResponse(servicing, "Response")
    /\ timer' = "none"
    /\ interests' = interests \ {"timer"}
    /\ pc' = "take"
    /\ UNCHANGED <<woken, channelVars, taken, serviceVars, expirations,
                   event>>

ServiceReadyClearsFirst ==
    /\ pc = "service"
    /\ servicing # 0 /\ service # "pending"
    /\ SendResponse(0, "Response")
    /\ timer' = "none"
    /\ interests' = interests \ {"service", "timer"}
    /\ servicing' = 0
    /\ pc' = "take"
    /\ UNCHANGED <<woken, channelVars, taken, service, expirations,
                   event>>

\* poll_serviced_request when the service is done with the request: the future
\* and the timer are dropped, and the wakers they may hold.
ServiceReady ==
    /\ pc = "service"
    /\ servicing # 0 /\ service # "pending"
    /\ SendResponse(servicing,
            IF service = "ok" THEN "Response" ELSE "InternalServerError")
    /\ timer' = "none"
    /\ interests' = interests \ {"service", "timer"}
    /\ servicing' = 0
    /\ pc' = "take"
    /\ UNCHANGED <<woken, channelVars, taken, service, expirations,
                   event>>

\* poll_serviced_request when it is not: on to the continue timer.
ServiceNotReady ==
    /\ pc = "service"
    /\ servicing # 0 /\ service = "pending"
    /\ interests' = interests \cup {"service"}
    /\ pc' = "timer"
    /\ UNCHANGED <<woken, channelVars, taken, serviceVars, timerVars, senderVars,
                   event>>

\* Mutant: the new timer is not polled before the task sleeps.
SendContinueUnpolled ==
    /\ pc = "timer"
    /\ timer = "expired"
    /\ SendResponse(servicing, "Continue")
    /\ ResetContinueTimer
    /\ pc' = "asleep"
    /\ UNCHANGED <<woken, interests, channelVars, taken, serviceVars, expirations,
                   event>>

\* poll_continue_timer on a timer that has expired; the new one is polled next.
SendContinue ==
    /\ pc = "timer"
    /\ timer = "expired"
    /\ SendResponse(servicing, "Continue")
    /\ ResetContinueTimer
    /\ UNCHANGED <<pc, woken, interests, channelVars, taken, serviceVars,
                   expirations, event>>

\* poll_continue_timer on a timer that is running, or without a timer. The first
\* poll of a timer registers it, unless there are too many timers already.
TimerNotReady ==
    /\ pc = "timer"
    /\ timer # "expired"
    /\ pc' = "asleep"
    /\ \/ /\ timer = "armed"
          /\ interests' = interests \cup {"timer"}
          /\ UNCHANGED timer
       \/ /\ timer = "none" \/ "timer" \notin interests
          /\ timer' = "none"
          /\ UNCHANGED interests
    /\ UNCHANGED <<woken, channelVars, taken, serviceVars, expirations,
                   senderVars, event>>

\* The channel yields a request.
TakeRequest ==
    /\ pc = "take"
    /\ queue # << >>
    /\ queue' = Tail(queue)
    /\ taken' = taken + 1
    /\ pc' = "service"
    /\ UNCHANGED <<woken, interests, inputOpen, sent, expirations, event>>

\* process_request on a request with the scheme rtspu, or with content but no
\* content type: it is answered and never reaches the service.
RejectRequest ==
    /\ TakeRequest
    /\ \E status \in {"NotImplemented", "BadRequest"} :
            SendResponse(Head(queue), status)
    /\ UNCHANGED <<serviceVars, timer>>

\* process_request on any other request.
ServiceRequest ==
    /\ TakeRequest
    /\ ResetContinueTimer
    /\ servicing' = Head(queue)
    /\ service' = "pending"
    /\ UNCHANGED senderVars

\* Mutant: the poll returns NotReady without registering the task.
TakeNotReadyUnregistered ==
    /\ pc = "take"
    /\ queue = << >> /\ inputOpen
    /\ pc' = "asleep"
    /\ UNCHANGED <<woken, interests, channelVars, taken, serviceVars, timerVars,
                   senderVars, event>>

\* The channel is empty.
TakeNotReady ==
    /\ pc = "take"
    /\ queue = << >> /\ inputOpen
    /\ interests' = interests \cup {"queue"}
    /\ pc' = "asleep"
    /\ UNCHANGED <<woken, channelVars, taken, serviceVars, timerVars, senderVars,
                   event>>

\* Mutants: the end of the input is taken for the end of the requests, or is
\* not signalled.
TakeEndsEarly ==
    /\ pc = "take"
    /\ ~inputOpen
    /\ ShutdownHandler
    /\ pc' = "ended"
    /\ UNCHANGED <<woken, interests, channelVars, taken, service, expirations,
                   senderAlive, responses>>

TakeEndsSilently ==
    /\ pc = "take"
    /\ queue = << >> /\ ~inputOpen
    /\ handle' = FALSE
    /\ pc' = "ended"
    /\ UNCHANGED <<woken, interests, channelVars, taken, serviceVars, timerVars,
                   senderAlive, responses, event>>

\* The stream of requests has ended.
TakeEnds ==
    /\ pc = "take"
    /\ queue = << >> /\ ~inputOpen
    /\ ShutdownHandler
    /\ pc' = "ended"
    /\ UNCHANGED <<woken, interests, channelVars, taken, service, expirations,
                   senderAlive, responses>>

\* RequestHandler::drop: the executor drops the task, between two polls or
\* because the service panics in one.
DropTask ==
    /\ pc \in {"asleep", "service", "take"}
    /\ ShutdownHandler
    /\ pc' = "dropped"
    /\ UNCHANGED <<woken, interests, channelVars, taken, service, expirations,
                   senderAlive, responses>>

-----------------------------------------------------------------------------
(* The rest of the connection, the service and the clock. *)

\* What holds the task's waker notifies it and gives the waker up.
Wake(source) ==
    /\ woken' = (woken \/ source \in interests)
    /\ interests' = interests \ {source}

\* ForwardingReceiver::poll puts a request into the channel.
Submit ==
    /\ inputOpen /\ sent < NumRequests
    /\ pc \notin {"ended", "dropped"}
    /\ sent' = sent + 1
    /\ queue' = Append(queue, sent')
    /\ Wake("queue")
    /\ UNCHANGED <<pc, inputOpen, taken, serviceVars, timerVars, senderVars,
                   event>>

\* The forwarding receiver is dropped.
CloseInput ==
    /\ inputOpen
    /\ inputOpen' = FALSE
    /\ Wake("queue")
    /\ UNCHANGED <<pc, queue, sent, taken, serviceVars, timerVars, senderVars,
                   event>>

\* The service finishes the request it has been given.
ServiceFinishes(result) ==
    /\ servicing # 0 /\ service = "pending"
    /\ service' = result
    /\ Wake("service")
    /\ UNCHANGED <<pc, channelVars, taken, servicing, timerVars, senderVars,
                   event>>

\* The continue timer expires.
TimerExpires ==
    /\ timer = "armed" /\ expirations < MaxContinues
    /\ timer' = "expired"
    /\ expirations' = expirations + 1
    /\ Wake("timer")
    /\ UNCHANGED <<pc, channelVars, taken, serviceVars, senderVars, event>>

\* The connection drops its sender.
DropSender ==
    /\ senderAlive
    /\ senderAlive' = FALSE
    /\ UNCHANGED <<pc, woken, interests, channelVars, taken, serviceVars,
                   timerVars, handle, responses, event>>

-----------------------------------------------------------------------------
Poll ==
    \/ StartPoll
    \/ NothingServiced \/ ServiceReady \/ ServiceNotReady
    \/ SendContinue \/ TimerNotReady
    \/ RejectRequest \/ ServiceRequest \/ TakeNotReady \/ TakeEnds

Finishes == \E result \in {"ok", "err"} : ServiceFinishes(result)

Next ==
    \/ Poll \/ DropTask
    \/ Submit \/ CloseInput \/ Finishes \/ TimerExpires \/ DropSender

Spec == Init /\ [][Next]_vars

\* The executor polls the task when it is notified, and the service finishes.
Fairness == WF_vars(Poll) /\ WF_vars(Finishes)

FairSpec == Spec /\ Fairness

-----------------------------------------------------------------------------
(* Properties. *)

Answers == [request : 1 .. NumRequests, status : Finals \cup {"Continue"}]

\* The state of the handler task and everything that wakes it
\* stays within its types and bounds.
TypeOK ==
    /\ pc \in {"asleep", "service", "timer", "take", "ended", "dropped"}
    /\ woken \in BOOLEAN
    /\ interests \subseteq {"queue", "service", "timer"}
    /\ queue \in Seq(1 .. NumRequests)
    /\ inputOpen \in BOOLEAN
    /\ sent \in 0 .. NumRequests /\ taken \in 0 .. NumRequests
    /\ servicing \in 0 .. NumRequests
    /\ service \in {"pending", "ok", "err"}
    /\ timer \in {"none", "armed", "expired"}
    /\ expirations \in 0 .. MaxContinues
    /\ handle \in BOOLEAN /\ senderAlive \in BOOLEAN
    /\ responses \in Seq(Answers)
    /\ event \in BOOLEAN

\* "RTSP requires that all requests on a single connection are handled in the
\* order of their CSeq": responses go out in the order of the requests, each
\* request has at most one final response, and no Continue comes after it,
\* whenever timer, service and sender change in the middle of a poll.
AnswersInOrder ==
    \A i, j \in DOMAIN responses :
        i < j => \/ responses[i].request < responses[j].request
                 \/ /\ responses[i].request = responses[j].request
                    /\ responses[i].status = "Continue"

\* The request has been given its one final response.
Answered(r) ==
    \E i \in DOMAIN responses :
        responses[i].request = r /\ responses[i].status \in Finals

\* While the sender lives, every request the task is done with was answered.
DoneMeansAnswered ==
    senderAlive /\ pc # "dropped" =>
        \A r \in 1 .. taken : r # servicing => Answered(r)

\* There is something for the task to do.
HasWork ==
    \/ servicing # 0 /\ service # "pending"
    \/ servicing # 0 /\ timer = "expired"
    \/ servicing = 0 /\ (queue # << >> \/ ~inputOpen)

\* The task never sleeps through work: it has been notified of it.
WorkWakesTask == pc = "asleep" /\ HasWork => woken

\* "Shutdown occurs when all incoming requests have finished being serviced":
\* when a task that was not dropped signals its shutdown, every request that
\* was ever put into the channel has its final response.
EventAfterAllServed ==
    event /\ pc # "dropped" /\ senderAlive => \A r \in 1 .. sent : Answered(r)

\* Nothing is left unanswered while there is a sender: neither a request that
\* the task is done with, nor, at its shutdown, any that was put into the
\* channel.
NothingUnanswered == DoneMeansAnswered /\ EventAfterAllServed

\* A request in the service is never replaced or given up before the service
\* is done with it, as long as the task is not dropped.
ServiceRunsToEnd ==
    [][(servicing # 0 /\ servicing' # servicing)
            => (service # "pending" \/ pc' = "dropped")]_vars

\* Everything forwarded is handled in the end, and the shutdown event follows
\* the end of the input: the connection that waits for it can finish.
EndIsSignalled == ~inputOpen ~> (event /\ (pc = "dropped" \/ taken = sent))

\* A request that was sent is handled although nothing else happens.
EveryRequestTaken ==
    \A r \in 1 .. NumRequests : sent >= r ~> (taken >= r \/ pc = "dropped")

=============================================================================
