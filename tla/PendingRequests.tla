-------------------------- MODULE PendingRequests --------------------------
(***************************************************************************)
(* Requests this side sends, from ConnectionHandle::send_request to the    *)
(* response or the error its future ends with: the connection handle       *)
(* (protocol/connection/mod.rs), the SendRequest future (pending.rs) and   *)
(* the ResponseReceiver of the connection task (receiver.rs).              *)
(*                                                                         *)
(* Every request has a thread of its own that sends it and then polls its  *)
(* future; the connection task matches responses to requests. They share   *)
(* the sequence number (under a lock), an unbounded channel of updates     *)
(* that adds and removes pending requests, and one oneshot channel per     *)
(* request. A Continue response carries the receiver of the next oneshot,  *)
(* so the oneshots of a request make up one queue, mailbox, of which only  *)
(* the first message can be received and only a receiver that has been     *)
(* polled since it was installed holds the task's waker.                   *)
(***************************************************************************)
EXTENDS Naturals, Sequences, FiniteSets

CONSTANTS
    Requests,           \* the requests the threads want to send
    NoRequest,          \* no request
    Timers,             \* the timeouts RequestOptions sets: "Short", which a
                        \* Continue refreshes, and "Long", which it does not
    MaxContinues        \* bound on the Continue responses of a request

ASSUME RequestsAssumption == IsFiniteSet(Requests) /\ NoRequest \notin Requests

ASSUME TimersAssumption ==
    Timers \subseteq {"Short", "Long"} /\ MaxContinues \in Nat

\* Sequence numbers, from the random initial one: too few to wrap.
Numbers == 1 .. Cardinality(Requests) + 1

VARIABLES
    allowRequests,      \* Connection.allow_requests
    handleAlive,        \* some ConnectionHandle exists
    lock,               \* holder of the lock of sequence_number
    sequenceNumber,     \* ConnectionHandle.sequence_number
    step,               \* where the thread of a request is
    number,             \* SendRequest.sequence_number
    outcome,            \* what the future of the request ended with
    woken,              \* the task that polls the future has been notified
    interest,           \* its waker is in the oneshot it waits on
    expired,            \* timers of the request that have run out
    mailbox,            \* messages in the request's oneshots
    txGone,             \* the newest oneshot has no sender any more
    rx,                 \* "open", "closed" or "dropped" receiver
    updates,            \* the channel rx_pending_request
    pending,            \* ResponseReceiver.pending_requests
    conn,               \* where the connection task is
    senderAlive,        \* Connection.sender is Some
    outgoing,           \* requests in the sender's channel
    peer,               \* number -> what the peer may still answer
    stream              \* responses not yet read

threadVars == <<step, number, outcome, woken, interest, expired>>
oneshotVars == <<mailbox, txGone, rx>>
wireVars == <<outgoing, peer, stream>>
handleVars == <<allowRequests, handleAlive, lock, sequenceNumber>>
vars == <<handleVars, threadVars, oneshotVars, updates, pending, conn,
          senderAlive, wireVars>>

\* The future exists and its user may poll it.
Live(r) == step[r] \in {"asleep", "timers"}

\* The user still waits for the outcome of the request.
Waiting(r) == Live(r) /\ outcome[r] = "none"

\* ResponseReceiver exists: updates can be sent to it.
ReceiverAlive == conn # "gone"

\* The update channel has a sender: a handle or a future that was not dropped.
UpdatesHaveSender ==
    handleAlive \/ \E r \in Requests : step[r] \in {"locked", "asleep", "timers"}

Add(r) == [kind |-> "Add", number |-> sequenceNumber, request |-> r]
\* Mutant: the number of the request is not kept.
RemoveDefault(n) == [kind |-> "Remove", number |-> 0, request |-> NoRequest]

Remove(n) == [kind |-> "Remove", number |-> n, request |-> NoRequest]

\* UnboundedSender::unbounded_send, of which the result is ignored.
SendUpdate(u) ==
    updates' = IF ReceiverAlive THEN Append(updates, u) ELSE updates

Init ==
    /\ allowRequests = TRUE
    /\ handleAlive = TRUE
    /\ lock = NoRequest
    /\ sequenceNumber = 1
    /\ step = [r \in Requests |-> "unsent"]
    /\ number = [r \in Requests |-> 0]
    /\ outcome = [r \in Requests |-> "none"]
    /\ woken = [r \in Requests |-> FALSE]
    /\ interest = [r \in Requests |-> FALSE]
    /\ expired = [r \in Requests |-> {}]
    /\ mailbox = [r \in Requests |-> << >>]
    /\ txGone = [r \in Requests |-> FALSE]
    /\ rx = [r \in Requests |-> "open"]
    /\ updates = << >>
    /\ pending = [n \in Numbers |-> NoRequest]
    /\ conn = "updates"
    /\ senderAlive = TRUE
    /\ outgoing = << >>
    /\ peer = [n \in Numbers |-> 0]
    /\ stream = << >>

-----------------------------------------------------------------------------
(* ConnectionHandle::send_request_with_options *)

\* The request is not sent; no future of type SendRequest comes to be.
FailClosed(r) ==
    /\ step' = [step EXCEPT ![r] = "ended"]
    /\ outcome' = [outcome EXCEPT ![r] = "Closed"]
    /\ UNCHANGED <<number, woken, interest, expired>>

CheckAllowed(r) ==
    /\ handleAlive
    /\ step[r] = "unsent"
    /\ \/ ~allowRequests /\ FailClosed(r)
       \/ /\ allowRequests
          /\ step' = [step EXCEPT ![r] = "checked"]
          /\ UNCHANGED <<number, outcome, woken, interest, expired>>
    /\ UNCHANGED <<handleVars, oneshotVars, updates, pending, conn, senderAlive,
                   wireVars>>

\* Mutant: the number is read without the lock.
AddPendingUnlocked(r) ==
    /\ step[r] = "checked"
    /\ ReceiverAlive
    /\ updates' = Append(updates, Add(r))
    /\ lock' = r
    /\ step' = [step EXCEPT ![r] = "locked"]
    /\ number' = [number EXCEPT ![r] = sequenceNumber]
    /\ UNCHANGED <<outcome, woken, interest, expired, allowRequests, handleAlive,
                   sequenceNumber, oneshotVars, pending, conn, senderAlive,
                   wireVars>>

\* Take the lock and tell the response receiver what to expect.
AddPending(r) ==
    /\ step[r] = "checked"
    /\ lock = NoRequest
    /\ \/ /\ ReceiverAlive
          /\ updates' = Append(updates, Add(r))
          /\ lock' = r
          /\ step' = [step EXCEPT ![r] = "locked"]
          /\ number' = [number EXCEPT ![r] = sequenceNumber]
          /\ UNCHANGED <<outcome, woken, interest, expired>>
       \/ ~ReceiverAlive /\ FailClosed(r) /\ UNCHANGED <<lock, updates>>
    /\ UNCHANGED <<allowRequests, handleAlive, sequenceNumber, oneshotVars,
                   pending, conn, senderAlive, wireVars>>

\* Hand the message to the sender, move the number on and release the lock.
SendMessage(r) ==
    /\ step[r] = "locked"
    /\ lock' = NoRequest
    /\ \/ /\ senderAlive
          /\ outgoing' = Append(outgoing, number[r])
          /\ sequenceNumber' = sequenceNumber + 1
          /\ step' = [step EXCEPT ![r] = "asleep"]
          /\ woken' = [woken EXCEPT ![r] = TRUE]
          /\ UNCHANGED <<number, outcome, interest, expired, updates, rx>>
       \/ /\ ~senderAlive
          /\ SendUpdate(Remove(number[r]))
          /\ rx' = [rx EXCEPT ![r] = "dropped"]
          /\ FailClosed(r)
          /\ UNCHANGED <<sequenceNumber, outgoing>>
    /\ UNCHANGED <<allowRequests, handleAlive, mailbox, txGone, pending, conn,
                   senderAlive, peer, stream>>

\* The last handle is dropped; a send in progress borrows it.
DropHandle ==
    /\ handleAlive
    /\ \A r \in Requests : step[r] \notin {"checked", "locked"}
    /\ handleAlive' = FALSE
    /\ UNCHANGED <<allowRequests, lock, sequenceNumber, threadVars, oneshotVars,
                   updates, pending, conn, senderAlive, wireVars>>

-----------------------------------------------------------------------------
(* The SendRequest future *)

Resolve(r, result) == outcome' = [outcome EXCEPT ![r] = result]

\* Mutant: an empty oneshot counts as cancelled.
CanceledIfEmpty(r) == mailbox[r] = << >>

\* A oneshot receiver is polled that can never yield a message.
Canceled(r) == mailbox[r] = << >> /\ (txGone[r] \/ rx[r] = "closed")

\* SendRequest::poll_request on a final message, and on a oneshot that has
\* lost its sender, where expect panics.
PollRequestEnds(r) ==
    /\ Waiting(r) /\ step[r] = "asleep" /\ woken[r]
    /\ \/ mailbox[r] # << >> /\ Head(mailbox[r]) = "Response"
            /\ Resolve(r, "Response")
       \/ mailbox[r] # << >> /\ Head(mailbox[r]) = "None"
            /\ Resolve(r, "RequestCancelled")
       \/ Canceled(r) /\ Resolve(r, "Panicked")
    /\ mailbox' = [mailbox EXCEPT ![r] = << >>]
    /\ woken' = [woken EXCEPT ![r] = FALSE]
    /\ UNCHANGED <<handleVars, step, number, interest, expired, txGone, rx,
                   updates, pending, conn, senderAlive, wireVars>>

\* SendRequest::poll_request on a Continue: the new receiver is installed, not
\* polled, and the short timer starts again.
PollRequestContinues(r) ==
    /\ Waiting(r) /\ step[r] = "asleep" /\ woken[r]
    /\ mailbox[r] # << >> /\ Head(mailbox[r]) = "Continue"
    /\ mailbox' = [mailbox EXCEPT ![r] = Tail(@)]
    /\ interest' = [interest EXCEPT ![r] = FALSE]
    /\ expired' = [expired EXCEPT ![r] = @ \ {"Short"}]
    /\ step' = [step EXCEPT ![r] = "timers"]
    /\ woken' = [woken EXCEPT ![r] = FALSE]
    /\ UNCHANGED <<handleVars, number, outcome, txGone, rx, updates, pending,
                   conn, senderAlive, wireVars>>

\* SendRequest::poll_request without a message: the waker is registered.
PollRequestNotReady(r) ==
    /\ Waiting(r) /\ step[r] = "asleep" /\ woken[r]
    /\ mailbox[r] = << >> /\ ~Canceled(r)
    /\ interest' = [interest EXCEPT ![r] = TRUE]
    /\ step' = [step EXCEPT ![r] = "timers"]
    /\ woken' = [woken EXCEPT ![r] = FALSE]
    /\ UNCHANGED <<handleVars, number, outcome, expired, oneshotVars, updates,
                   pending, conn, senderAlive, wireVars>>

\* Mutant: the timers are not polled.
PollTimersSkipped(r) ==
    /\ step[r] = "timers"
    /\ step' = [step EXCEPT ![r] = "asleep"]
    /\ UNCHANGED <<handleVars, number, outcome, woken, interest, expired,
                   oneshotVars, updates, pending, conn, senderAlive, wireVars>>

\* SendRequest::poll_max_timer, poll_timer: a timer that ran out, or that the
\* timer wheel has no room for, cancels the request.
PollTimers(r) ==
    /\ step[r] = "timers"
    /\ step' = [step EXCEPT ![r] = "asleep"]
    /\ \/ /\ \/ "Long" \in expired[r] /\ Resolve(r, "TimedOutLong")
             \/ expired[r] = {"Short"} /\ Resolve(r, "TimedOutShort")
             \/ Timers # {} /\ Resolve(r, "RequestCancelled")
          /\ SendUpdate(Remove(number[r]))
          /\ rx' = [rx EXCEPT ![r] = "closed"]
       \/ expired[r] = {} /\ UNCHANGED <<outcome, updates, rx>>
    /\ UNCHANGED <<handleVars, number, woken, interest, expired, mailbox, txGone,
                   pending, conn, senderAlive, wireVars>>

\* A timer runs out: its waker was registered by the last poll, or is about to
\* be, in which case that poll sees it expired.
TimerExpires(r, timer) ==
    /\ Waiting(r)
    /\ timer \notin expired[r]
    /\ expired' = [expired EXCEPT ![r] = @ \cup {timer}]
    /\ woken' = [woken EXCEPT ![r] = TRUE]
    /\ UNCHANGED <<handleVars, step, number, outcome, interest, oneshotVars,
                   updates, pending, conn, senderAlive, wireVars>>

\* SendRequest::drop: after the outcome, or before it if the user gives up.
\* A message left in the oneshot makes poll_is_cancelled answer false.
DropFuture(r) ==
    /\ step[r] = "asleep"
    /\ step' = [step EXCEPT ![r] = "ended"]
    /\ outcome' = [outcome EXCEPT ![r] = IF @ = "none" THEN "Abandoned" ELSE @]
    /\ IF Canceled(r) THEN UNCHANGED updates ELSE SendUpdate(Remove(number[r]))
    /\ rx' = [rx EXCEPT ![r] = "dropped"]
    /\ woken' = [woken EXCEPT ![r] = FALSE]
    /\ interest' = [interest EXCEPT ![r] = FALSE]
    /\ expired' = [expired EXCEPT ![r] = {}]
    /\ mailbox' = [mailbox EXCEPT ![r] = << >>]
    /\ UNCHANGED <<handleVars, number, txGone, pending, conn, senderAlive,
                   wireVars>>

-----------------------------------------------------------------------------
(* The connection task: ResponseReceiver, and what Connection::poll does     *)
(* around it.                                                                *)

\* oneshot::Sender::send: put a message into the newest oneshot of a request
\* and wake the task if that is the oneshot it has polled.
Deliver(r, message) ==
    /\ mailbox' = [mailbox EXCEPT ![r] = Append(@, message)]
    /\ woken' = [woken EXCEPT ![r] = @ \/ (interest[r] /\ mailbox[r] = << >>)]
    /\ interest' = [interest EXCEPT ![r] = @ /\ mailbox[r] # << >>]

\* The newest oneshot's receiver is closed or gone.
DeliveryFails(r) == rx[r] = "dropped" \/ (rx[r] = "closed" /\ mailbox[r] = << >>)

\* ResponseReceiver::handle_pending_request_update, in the loop of its poll; a
\* request that is overwritten or removed loses its oneshot sender.
HandleUpdate ==
    /\ conn \in {"updates", "draining"}
    /\ updates # << >>
    /\ LET u == Head(updates)
           old == pending[u.number]
       IN  /\ pending' = [pending EXCEPT ![u.number] = u.request]
           /\ txGone' = [r \in Requests |-> txGone[r] \/ r = old]
    /\ updates' = Tail(updates)
    /\ UNCHANGED <<handleVars, threadVars, mailbox, rx, conn, senderAlive,
                   wireVars>>

\* Mutant: the stream is read with updates still in the channel.
UpdatesNotReadyEarly ==
    /\ conn = "updates" /\ conn' = "stream"
    /\ UNCHANGED <<handleVars, threadVars, oneshotVars, updates, pending,
                   senderAlive, wireVars>>

\* No update is left: go on to the stream, or on with dropping the receiver.
UpdatesNotReady ==
    /\ updates = << >>
    /\ \/ conn = "updates" /\ UpdatesHaveSender /\ conn' = "stream"
       \/ conn = "draining" /\ conn' = "cancelling"
    /\ UNCHANGED <<handleVars, threadVars, oneshotVars, updates, pending,
                   senderAlive, wireVars>>

\* The update stream has ended: Receiver::shutdown_response_receiver.
UpdatesEnded ==
    /\ conn = "updates"
    /\ updates = << >>
    /\ ~UpdatesHaveSender
    /\ conn' = "draining"
    /\ UNCHANGED <<handleVars, threadVars, oneshotVars, updates, pending,
                   senderAlive, wireVars>>

\* Mutant: the entry is taken out for a Continue and not put back.
HandleContinueForgets(n) ==
    /\ pending[n] # NoRequest
    /\ Deliver(pending[n], "Continue")
    /\ pending' = [pending EXCEPT ![n] = NoRequest]
    /\ UNCHANGED txGone

\* ResponseReceiver::handle_response on a Continue.
HandleContinue(n) ==
    LET r == pending[n] IN
    \/ /\ r # NoRequest /\ ~DeliveryFails(r)
       /\ Deliver(r, "Continue")
       /\ UNCHANGED <<pending, txGone>>
    \/ /\ r # NoRequest /\ DeliveryFails(r)
       /\ pending' = [pending EXCEPT ![n] = NoRequest]
       /\ txGone' = [txGone EXCEPT ![r] = TRUE]
       /\ UNCHANGED <<mailbox, woken, interest>>
    \/ r = NoRequest /\ UNCHANGED <<pending, txGone, mailbox, woken, interest>>

\* ResponseReceiver::handle_response on any other response.
HandleFinal(n) ==
    LET r == pending[n] IN
    \/ /\ r # NoRequest
       /\ pending' = [pending EXCEPT ![n] = NoRequest]
       /\ txGone' = [txGone EXCEPT ![r] = TRUE]
       /\ \/ ~DeliveryFails(r) /\ Deliver(r, "Response")
          \/ DeliveryFails(r) /\ UNCHANGED <<mailbox, woken, interest>>
    \/ r = NoRequest /\ UNCHANGED <<pending, txGone, mailbox, woken, interest>>

ReadResponse ==
    /\ conn = "stream"
    /\ stream # << >>
    /\ stream' = Tail(stream)
    /\ LET response == Head(stream) IN
       IF response.continue THEN HandleContinue(response.number)
                            ELSE HandleFinal(response.number)
    /\ UNCHANGED <<handleVars, step, number, outcome, expired, rx, updates, conn,
                   senderAlive, outgoing, peer>>

StreamNotReady ==
    /\ conn = "stream"
    /\ stream = << >>
    /\ conn' = "write"
    /\ UNCHANGED <<handleVars, threadVars, oneshotVars, updates, pending,
                   senderAlive, wireVars>>

\* The stream ends or fails, or the decoding timer expires: shutdown_receiving
\* drops the response receiver.
StreamEnds ==
    /\ conn = "stream"
    /\ conn' = "draining"
    /\ UNCHANGED <<handleVars, threadVars, oneshotVars, updates, pending,
                   senderAlive, wireVars>>

\* Connection::poll_sender: write what is queued, or fail and drop the sender;
\* then the end of Connection::poll, which decides about allow_requests.
PollSender ==
    /\ conn = "write"
    /\ conn' = "updates"
    /\ \/ /\ senderAlive
          /\ peer' = [n \in Numbers |->
                        IF \E i \in DOMAIN outgoing : outgoing[i] = n
                        THEN MaxContinues + 1 ELSE peer[n]]
          /\ UNCHANGED <<senderAlive, allowRequests>>
       \/ senderAlive' = FALSE /\ allowRequests' = FALSE /\ UNCHANGED peer
    /\ outgoing' = << >>
    /\ UNCHANGED <<handleAlive, lock, sequenceNumber, threadVars, oneshotVars,
                   updates, pending, stream>>

\* ResponseReceiver::remove_pending_requests
CancelPending ==
    /\ conn = "cancelling"
    /\ conn' = "closing"
    /\ LET cancelled == {r \in Requests : \E n \in Numbers : pending[n] = r}
           told == {r \in cancelled : ~DeliveryFails(r)}
       IN /\ mailbox' = [r \in Requests |->
                IF r \in told THEN Append(mailbox[r], "None") ELSE mailbox[r]]
          /\ woken' = [r \in Requests |-> woken[r] \/
                (r \in told /\ interest[r] /\ mailbox[r] = << >>)]
          /\ interest' = [r \in Requests |->
                interest[r] /\ ~(r \in told /\ mailbox[r] = << >>)]
          /\ txGone' = [r \in Requests |-> txGone[r] \/ r \in cancelled]
    /\ pending' = [n \in Numbers |-> NoRequest]
    /\ UNCHANGED <<handleVars, step, number, outcome, expired, rx, updates,
                   senderAlive, wireVars>>

\* The receiving half of the update channel is dropped with what is in it, and
\* the poll goes on to disallow requests.
DropUpdates ==
    /\ conn = "closing"
    /\ conn' = "gone"
    /\ LET lost == {updates[i].request : i \in DOMAIN updates} \ {NoRequest}
       IN  /\ txGone' = [r \in Requests |-> txGone[r] \/ r \in lost]
           /\ woken' = [r \in Requests |->
                          woken[r] \/ (r \in lost /\ interest[r])]
    /\ updates' = << >>
    /\ UNCHANGED <<handleVars, step, number, outcome, interest, expired, mailbox,
                   rx, pending, senderAlive, wireVars>>

DisallowRequests ==
    /\ conn = "gone"
    /\ allowRequests
    /\ allowRequests' = FALSE
    /\ UNCHANGED <<handleAlive, lock, sequenceNumber, threadVars, oneshotVars,
                   updates, pending, conn, senderAlive, wireVars>>

-----------------------------------------------------------------------------
\* The peer answers a request it has received: Continue any number of times up
\* to the bound, then at most one other response.
PeerAnswers(n) ==
    /\ peer[n] > 0
    /\ \/ /\ peer[n] > 1
          /\ peer' = [peer EXCEPT ![n] = @ - 1]
          /\ stream' = Append(stream, [number |-> n, continue |-> TRUE])
       \/ /\ peer' = [peer EXCEPT ![n] = 0]
          /\ stream' = Append(stream, [number |-> n, continue |-> FALSE])
    /\ UNCHANGED <<handleVars, threadVars, oneshotVars, updates, pending, conn,
                   senderAlive, outgoing>>

-----------------------------------------------------------------------------
PollFuture(r) ==
    \/ PollRequestEnds(r) \/ PollRequestContinues(r) \/ PollRequestNotReady(r)
    \/ PollTimers(r)

ThreadStep(r) ==
    \/ CheckAllowed(r) \/ AddPending(r) \/ SendMessage(r)
    \/ PollFuture(r) \/ DropFuture(r)
    \/ \E timer \in Timers : TimerExpires(r, timer)

ConnectionStep ==
    \/ HandleUpdate \/ UpdatesNotReady \/ UpdatesEnded
    \/ ReadResponse \/ StreamNotReady \/ StreamEnds
    \/ PollSender
    \/ CancelPending \/ DropUpdates \/ DisallowRequests

Next ==
    \/ \E r \in Requests : ThreadStep(r)
    \/ ConnectionStep
    \/ DropHandle
    \/ \E n \in Numbers : PeerAnswers(n)

Spec == Init /\ [][Next]_vars

\* The executor polls the connection and every notified future, a thread goes
\* on with a send it has begun, and time passes.
Fairness ==
    /\ WF_vars(ConnectionStep)
    /\ \A r \in Requests :
        /\ WF_vars(AddPending(r) \/ SendMessage(r))
        /\ WF_vars(PollFuture(r))
        /\ \A timer \in Timers : WF_vars(TimerExpires(r, timer))

FairSpec == Spec /\ Fairness

-----------------------------------------------------------------------------
(* Properties. *)

Outcomes == {"none", "Response", "RequestCancelled", "TimedOutLong",
             "TimedOutShort", "Closed", "Abandoned", "Panicked"}

\* The state of the threads, the connection task and the channels between them
\* stays within its types and bounds.
TypeOK ==
    /\ allowRequests \in BOOLEAN /\ handleAlive \in BOOLEAN
    /\ lock \in Requests \cup {NoRequest}
    /\ sequenceNumber \in Numbers
    /\ step \in [Requests ->
            {"unsent", "checked", "locked", "asleep", "timers", "ended"}]
    /\ number \in [Requests -> Numbers \cup {0}]
    /\ outcome \in [Requests -> Outcomes]
    /\ woken \in [Requests -> BOOLEAN] /\ interest \in [Requests -> BOOLEAN]
    /\ expired \in [Requests -> SUBSET {"Short", "Long"}]
    /\ mailbox \in [Requests -> Seq({"Continue", "None", "Response"})]
    /\ txGone \in [Requests -> BOOLEAN]
    /\ rx \in [Requests -> {"open", "closed", "dropped"}]
    /\ updates \in Seq([kind : {"Add", "Remove"}, number : Numbers,
                         request : Requests \cup {NoRequest}])
    /\ pending \in [Numbers -> Requests \cup {NoRequest}]
    /\ conn \in {"updates", "stream", "write", "draining", "cancelling",
                 "closing", "gone"}
    /\ senderAlive \in BOOLEAN
    /\ outgoing \in Seq(Numbers)
    /\ peer \in [Numbers -> 0 .. MaxContinues + 1]
    /\ stream \in Seq([number : Numbers, continue : BOOLEAN])

\* Two requests that wait for a response never share a sequence number, though
\* handles are cloned and a number is used again after a send that failed; no
\* pending request is overwritten when another is added (the debug_assert of
\* AddPendingRequest), though additions and removals arrive late; and a removal,
\* which a request may ask for twice or after its response, never takes out a
\* request that can still be answered.
UniqueNumbers ==
    /\ \A r, s \in Requests :
          r # s /\ Live(r) /\ Live(s) => number[r] # number[s]
    /\ (conn \in {"updates", "draining"} /\ updates # << >>
          /\ Head(updates).kind = "Add")
              => pending[Head(updates).number] = NoRequest
    /\ (conn \in {"updates", "draining"} /\ updates # << >>
          /\ Head(updates).kind = "Remove")
              => \A r \in Requests :
                    pending[Head(updates).number] = r => ~Waiting(r) \/ rx[r] # "open"

\* The debug_assert of ResponseReceiver::poll: once the update stream has
\* ended, every request has been answered or removed, also when the receiver
\* is being dropped.
PendingEmptyAtStreamEnd ==
    (conn \in {"updates", "draining"} /\ updates = << >> /\ ~UpdatesHaveSender)
        => \A n \in Numbers : pending[n] = NoRequest

\* A response is never ignored while its request waits for it: the request is
\* registered before its message can be answered, and nobody else's number is
\* in its place.
ResponseFindsRequest ==
    conn = "stream" /\ stream # << >> =>
        \A r \in Requests :
            Waiting(r) /\ rx[r] = "open" /\ ~txGone[r]
                /\ number[r] = Head(stream).number
                    => pending[number[r]] = r

\* Whoever waits can still be told: the sending half of its oneshot is with
\* the response receiver or on the way there, until it has been used; when the
\* receiver is gone nobody is left waiting on it.
NobodyStranded ==
    \A r \in Requests :
        Waiting(r) /\ ~txGone[r] =>
            \/ pending[number[r]] = r
            \/ \E i \in DOMAIN updates : updates[i].request = r

\* Every request that was sent ends with a response or an error, given that
\* its timers are set.
EveryRequestSettles ==
    \A r \in Requests : Waiting(r) ~> outcome[r] # "none"

\* A response that was matched to a request ends the request, timers or not.
MatchedResponseArrives ==
    \A r \in Requests :
        (Waiting(r) /\ \E i \in DOMAIN mailbox[r] : mailbox[r][i] = "Response")
            ~> outcome[r] # "none"

\* The expect of poll_request: the oneshot a future waits on never errors.
OneshotNeverErrors == \A r \in Requests : outcome[r] # "Panicked"

=============================================================================
