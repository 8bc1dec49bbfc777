----------------------- MODULE PendingRequestsProofs -----------------------
(***************************************************************************)
(* Proofs about the requests of this side, for every number of requests    *)
(* and of Continue responses: sequence numbers are unique, a response      *)
(* finds the request it answers, and nobody waits on a oneshot whose       *)
(* sending half was lost.                                                  *)
(*                                                                         *)
(* The argument is about who holds a number. The map of pending requests   *)
(* and the channel of updates are read as one queue, of which position 0   *)
(* is the map and the others are the updates in their order.               *)
(***************************************************************************)
EXTENDS PendingRequests, FiniteSetTheorems, TLAPS

Updates == [kind : {"Add", "Remove"}, number : Numbers,
            request : Requests \cup {NoRequest}]

-----------------------------------------------------------------------------
(* Sequence numbers. *)

\* The requests whose message was given to the sender.
Sent == {r \in Requests :
            step[r] \in {"asleep", "timers", "ended"} /\ outcome[r] # "Closed"}

\* A request has no outcome, and an open oneshot, before it is sent.
UnsentIsFresh ==
    \A r \in Requests :
        step[r] \in {"unsent", "checked", "locked"} =>
            outcome[r] = "none" /\ rx[r] = "open"

\* The future of a request exists only if it was sent.
LiveIsSent == \A r \in Requests : Live(r) => r \in Sent

\* Whoever sends holds the lock.
LockHolder == \A r \in Requests : step[r] = "locked" <=> lock = r

\* The holder of the lock has the current number, those before it the numbers
\* below, each its own.
NumbersTaken ==
    /\ \A r \in Requests : number[r] <= sequenceNumber
    /\ \A r \in Requests : step[r] = "locked" => number[r] = sequenceNumber
    /\ \A r \in Sent : number[r] \in 1 .. sequenceNumber - 1
    /\ \A r, s \in Sent : r # s => number[r] # number[s]

\* One number is used up per request that is sent.
NumbersCounted == Cardinality(Sent) = sequenceNumber - 1

NumberInv ==
    /\ TypeOK
    /\ UnsentIsFresh
    /\ LiveIsSent
    /\ LockHolder
    /\ NumbersTaken
    /\ NumbersCounted

-----------------------------------------------------------------------------
(* Who holds a number. *)

\* The request that position i of map p and channel u registers under n.
Holder(p, u, i, n) ==
    IF i = 0 THEN p[n]
    ELSE IF u[i].number = n THEN u[i].request ELSE NoRequest

\* Position k removes whoever is registered under n.
Removes(u, k, n) == u[k].number = n /\ u[k].request = NoRequest

Held(i, n) == Holder(pending, updates, i, n)

\* An update adds a request or has none.
UpdateKinds ==
    \A i \in 1 .. Len(updates) :
        updates[i].kind = "Remove" <=> updates[i].request = NoRequest

\* A request is registered under its own number, after its send has begun and
\* with the sending half of its oneshot.
HolderKnown ==
    \A i \in 0 .. Len(updates), n \in Numbers :
        LET r == Held(i, n) IN
        r # NoRequest =>
            /\ number[r] = n /\ ~txGone[r]
            /\ step[r] \notin {"unsent", "checked"}

\* A request that is not yet registered has its oneshot as a whole.
UnregisteredIsWhole ==
    \A r \in Requests : step[r] \in {"unsent", "checked"} => ~txGone[r]

\* A request is registered once.
HeldOnce ==
    \A i, j \in 0 .. Len(updates), n \in Numbers :
        Held(i, n) # NoRequest /\ Held(i, n) = Held(j, n) => i = j

\* A number is taken away from its holder before it is given to the next.
RemovedBetween ==
    \A i, j \in 0 .. Len(updates), n \in Numbers :
        i < j /\ Held(i, n) # NoRequest /\ Held(j, n) # NoRequest =>
            \E k \in i + 1 .. j - 1 : Removes(updates, k, n)

\* The user has no more use for the request.
Released(r) == step[r] = "ended" \/ rx[r] = "closed"

\* Who is released is removed.
RemovedAfter ==
    \A i \in 0 .. Len(updates), n \in Numbers :
        Held(i, n) # NoRequest /\ Released(Held(i, n)) =>
            \E k \in i + 1 .. Len(updates) : Removes(updates, k, n)

\* Who is removed was released.
ReleasedBefore ==
    \A i \in 0 .. Len(updates), k \in 1 .. Len(updates), n \in Numbers :
        i < k /\ Removes(updates, k, n) /\ Held(i, n) # NoRequest =>
            Released(Held(i, n))

\* The map is empty once its requests are cancelled, the channel once it is
\* dropped.
ReceiverEmptied ==
    /\ conn \in {"closing", "gone"} => \A n \in Numbers : pending[n] = NoRequest
    /\ conn = "gone" => updates = << >>

\* A request whose oneshot can be used is registered.
Reaches ==
    \A r \in Requests :
        step[r] \in {"locked", "asleep", "timers"} /\ ~txGone[r] =>
            \E i \in 0 .. Len(updates) : Held(i, number[r]) = r

MatchInv ==
    /\ NumberInv
    /\ UpdateKinds
    /\ HolderKnown
    /\ UnregisteredIsWhole
    /\ HeldOnce
    /\ RemovedBetween
    /\ RemovedAfter
    /\ ReleasedBefore
    /\ ReceiverEmptied
    /\ Reaches

-----------------------------------------------------------------------------
(* Responses. *)

\* Only a number that was sent is written, answered and read.
AnswersSent ==
    /\ \A i \in 1 .. Len(outgoing) : outgoing[i] < sequenceNumber
    /\ \A n \in Numbers : peer[n] > 0 => n < sequenceNumber
    /\ \A i \in 1 .. Len(stream) : stream[i].number < sequenceNumber

\* A request is registered before responses to it are read: after a message was
\* written all updates are handled first.
AddedBeforeAnswered ==
    conn \in {"stream", "write"} =>
        \A i \in 1 .. Len(updates) :
            updates[i].request # NoRequest =>
                /\ peer[updates[i].number] = 0
                /\ \A j \in 1 .. Len(stream) :
                        stream[j].number # updates[i].number

ResponseInv ==
    /\ MatchInv
    /\ AnswersSent
    /\ AddedBeforeAnswered

-----------------------------------------------------------------------------
(* Types and sequence numbers. *)

\* There are finitely many numbers, and 1 is one of them.
LEMMA NumbersType ==
    /\ Cardinality(Requests) \in Nat
    /\ Numbers \subseteq Nat \ {0}
    /\ 1 \in Numbers
<1>1. Cardinality(Requests) \in Nat
  BY RequestsAssumption, FS_CardinalityType
<1> QED BY <1>1 DEF Numbers

\* A thread that is sending or has sent has a number.
LEMMA HasNumber ==
    ASSUME NumberInv, NEW r \in Requests, step[r] \in {"locked", "asleep", "timers"}
    PROVE  number[r] \in Numbers
<1>1. CASE step[r] = "locked"
  BY <1>1 DEF NumberInv, NumbersTaken, TypeOK
<1>2. CASE Live(r)
  <2>1. number[r] \in 1 .. sequenceNumber - 1
    BY <1>2 DEF NumberInv, NumbersTaken, LiveIsSent
  <2> QED BY <2>1, NumbersType DEF NumberInv, TypeOK, Numbers
<1> QED BY <1>1, <1>2 DEF Live

\* Sending an update keeps the type of the channel.
LEMMA SendUpdateTypes ==
    ASSUME TypeOK, NEW n \in Numbers, SendUpdate(Remove(n))
    PROVE  updates' \in Seq(Updates)
<1>1. Remove(n) \in Updates /\ updates \in Seq(Updates)
  BY DEF Remove, Updates, TypeOK
<1>2. Append(updates, Remove(n)) \in Seq(Updates)
  BY <1>1
<1> QED BY <1>1, <1>2 DEF SendUpdate

\* A new connection is well typed.
LEMMA TypeInit == Init => TypeOK
<1> SUFFICES ASSUME Init PROVE TypeOK
  OBVIOUS
<1>1. /\ sequenceNumber \in Numbers
      /\ peer \in [Numbers -> 0 .. MaxContinues + 1]
      /\ number \in [Requests -> Numbers \cup {0}]
  BY NumbersType, TimersAssumption DEF Init
<1>2. /\ updates \in Seq(Updates) /\ outgoing \in Seq(Numbers)
      /\ stream \in Seq([number : Numbers, continue : BOOLEAN])
      /\ mailbox \in [Requests -> Seq({"Continue", "None", "Response"})]
  <2>1. << >> \in Seq({"Continue", "None", "Response"})
    OBVIOUS
  <2> QED BY <2>1 DEF Init
<1>3. /\ woken \in [Requests -> BOOLEAN] /\ interest \in [Requests -> BOOLEAN]
      /\ txGone \in [Requests -> BOOLEAN]
      /\ allowRequests \in BOOLEAN /\ handleAlive \in BOOLEAN
      /\ senderAlive \in BOOLEAN
  BY Zenon DEF Init
<1>4. /\ outcome \in [Requests -> Outcomes]
      /\ expired \in [Requests -> SUBSET {"Short", "Long"}]
      /\ rx \in [Requests -> {"open", "closed", "dropped"}]
      /\ step \in [Requests ->
            {"unsent", "checked", "locked", "asleep", "timers", "ended"}]
      /\ pending \in [Numbers -> Requests \cup {NoRequest}]
      /\ conn = "updates" /\ lock = NoRequest
  BY DEF Init, Outcomes
<1> QED BY <1>1, <1>2, <1>3, <1>4 DEF TypeOK, Updates

\* Every step of a thread and of its future keeps the types.
LEMMA TypeThread ==
    ASSUME NumberInv, NEW r \in Requests, ThreadStep(r), sequenceNumber' \in Numbers
    PROVE  TypeOK'
<1> USE DEF threadVars, oneshotVars, wireVars, handleVars
<1>0. TypeOK
  BY DEF NumberInv
<1>1. CASE CheckAllowed(r)
  BY <1>0, <1>1 DEF CheckAllowed, FailClosed, TypeOK, Outcomes
<1>2. CASE AddPending(r)
  <2>1. Add(r) \in Updates /\ updates \in Seq(Updates)
    BY <1>0 DEF Add, Updates, TypeOK
  <2>2. Append(updates, Add(r)) \in Seq(Updates)
    BY <2>1
  <2>3. updates' \in Seq(Updates)
    BY <1>2, <2>1, <2>2 DEF AddPending
  <2>4. number' \in [Requests -> Numbers \cup {0}] /\ lock' \in Requests \cup {NoRequest}
    <3>1. CASE ReceiverAlive
      <4>1. number' = [number EXCEPT ![r] = sequenceNumber] /\ lock' = r
        BY <1>2, <3>1 DEF AddPending
      <4>2. sequenceNumber \in Numbers /\ number \in [Requests -> Numbers \cup {0}]
        BY <1>0 DEF TypeOK
      <4> QED BY <4>1, <4>2
    <3>2. CASE ~ReceiverAlive
      BY <1>0, <1>2, <3>2 DEF AddPending, FailClosed, TypeOK
    <3> QED BY <3>1, <3>2
  <2>5. outcome' \in [Requests -> Outcomes] /\ step' \in [Requests ->
            {"unsent", "checked", "locked", "asleep", "timers", "ended"}]
    BY <1>0, <1>2 DEF AddPending, FailClosed, TypeOK, Outcomes
  <2>6. UNCHANGED <<woken, interest, expired>>
    BY <1>2 DEF AddPending, FailClosed
  <2> QED BY <1>0, <1>2, <2>3, <2>4, <2>5, <2>6 DEF AddPending, TypeOK, Updates
<1>3. CASE SendMessage(r)
  <2>1. number[r] \in Numbers
    BY <1>3, HasNumber DEF SendMessage
  <2>2. updates' \in Seq(Updates)
    BY <1>0, <1>3, <2>1, SendUpdateTypes DEF SendMessage, TypeOK, Updates
  <2>3. outgoing' \in Seq(Numbers)
    <3>1. outgoing \in Seq(Numbers)
      BY <1>0 DEF TypeOK
    <3>2. Append(outgoing, number[r]) \in Seq(Numbers)
      BY <2>1, <3>1
    <3> QED BY <1>3, <3>1, <3>2 DEF SendMessage
  <2>4. woken' \in [Requests -> BOOLEAN]
    BY <1>0, <1>3 DEF SendMessage, FailClosed, TypeOK
  <2> QED BY <1>0, <1>3, <2>2, <2>3, <2>4
          DEF SendMessage, FailClosed, TypeOK, Outcomes, Updates
<1>4. CASE PollRequestEnds(r)
  <2>1. mailbox' \in [Requests -> Seq({"Continue", "None", "Response"})]
    BY <1>0, <1>4 DEF PollRequestEnds, TypeOK
  <2>2. outcome' \in [Requests -> Outcomes]
    BY <1>0, <1>4 DEF PollRequestEnds, Resolve, TypeOK, Outcomes
  <2>3. woken' \in [Requests -> BOOLEAN]
    BY <1>0, <1>4 DEF PollRequestEnds, TypeOK
  <2> QED BY <1>0, <1>4, <2>1, <2>2, <2>3 DEF PollRequestEnds, TypeOK
<1>5. CASE PollRequestContinues(r)
  <2>1. mailbox' \in [Requests -> Seq({"Continue", "None", "Response"})]
    <3>1. mailbox[r] \in Seq({"Continue", "None", "Response"}) /\ mailbox[r] # << >>
      BY <1>0, <1>5 DEF PollRequestContinues, TypeOK
    <3>2. Tail(mailbox[r]) \in Seq({"Continue", "None", "Response"})
      BY <3>1
    <3> QED BY <1>0, <1>5, <3>2 DEF PollRequestContinues, TypeOK
  <2>2. expired' \in [Requests -> SUBSET {"Short", "Long"}]
    BY <1>0, <1>5 DEF PollRequestContinues, TypeOK
  <2>3. woken' \in [Requests -> BOOLEAN] /\ interest' \in [Requests -> BOOLEAN]
    BY <1>0, <1>5 DEF PollRequestContinues, TypeOK
  <2> QED BY <1>0, <1>5, <2>1, <2>2, <2>3 DEF PollRequestContinues, TypeOK
<1>6. CASE PollRequestNotReady(r)
  <2>1. woken' \in [Requests -> BOOLEAN] /\ interest' \in [Requests -> BOOLEAN]
    BY <1>0, <1>6 DEF PollRequestNotReady, TypeOK
  <2> QED BY <1>0, <1>6, <2>1 DEF PollRequestNotReady, TypeOK
<1>7. CASE PollTimers(r)
  <2>1. number[r] \in Numbers
    BY <1>7, HasNumber DEF PollTimers
  <2>2. updates' \in Seq(Updates)
    BY <1>0, <1>7, <2>1, SendUpdateTypes DEF PollTimers, TypeOK, Updates
  <2>3. outcome' \in [Requests -> Outcomes]
        /\ rx' \in [Requests -> {"open", "closed", "dropped"}]
    BY <1>0, <1>7 DEF PollTimers, Resolve, TypeOK, Outcomes
  <2> QED BY <1>0, <1>7, <2>2, <2>3 DEF PollTimers, TypeOK, Updates
<1>8. CASE DropFuture(r)
  <2>1. number[r] \in Numbers
    BY <1>8, HasNumber DEF DropFuture
  <2>2. updates' \in Seq(Updates)
    BY <1>0, <1>8, <2>1, SendUpdateTypes DEF DropFuture, TypeOK, Updates
  <2>3. outcome' \in [Requests -> Outcomes]
    BY <1>0, <1>8 DEF DropFuture, TypeOK, Outcomes
  <2>4. mailbox' \in [Requests -> Seq({"Continue", "None", "Response"})]
    BY <1>0, <1>8 DEF DropFuture, TypeOK
  <2>5. woken' \in [Requests -> BOOLEAN] /\ interest' \in [Requests -> BOOLEAN]
    BY <1>0, <1>8 DEF DropFuture, TypeOK
  <2>6. /\ expired' \in [Requests -> SUBSET {"Short", "Long"}]
        /\ rx' \in [Requests -> {"open", "closed", "dropped"}]
    BY <1>0, <1>8 DEF DropFuture, TypeOK
  <2> QED BY <1>0, <1>8, <2>2, <2>3, <2>4, <2>5, <2>6
          DEF DropFuture, TypeOK, Updates
<1>9. ASSUME NEW timer \in Timers, TimerExpires(r, timer)
      PROVE  TypeOK'
  <2>1. expired' \in [Requests -> SUBSET {"Short", "Long"}]
    BY <1>0, <1>9, TimersAssumption DEF TimerExpires, TypeOK
  <2>2. woken' \in [Requests -> BOOLEAN]
    BY <1>0, <1>9 DEF TimerExpires, TypeOK
  <2> QED BY <1>0, <1>9, <2>1, <2>2 DEF TimerExpires, TypeOK
<1> QED BY <1>1, <1>2, <1>3, <1>4, <1>5, <1>6, <1>7, <1>8, <1>9
        DEF ThreadStep, PollFuture

\* What oneshot::Sender::send does to the oneshots keeps their types.
LEMMA DeliverTypes ==
    ASSUME TypeOK, NEW r \in Requests,
           NEW message \in {"Continue", "None", "Response"},
           Deliver(r, message)
    PROVE  /\ mailbox' \in [Requests -> Seq({"Continue", "None", "Response"})]
           /\ woken' \in [Requests -> BOOLEAN] /\ interest' \in [Requests -> BOOLEAN]
<1>1. mailbox[r] \in Seq({"Continue", "None", "Response"})
  BY DEF TypeOK
<1>2. Append(mailbox[r], message) \in Seq({"Continue", "None", "Response"})
  BY <1>1
<1>3. mailbox' \in [Requests -> Seq({"Continue", "None", "Response"})]
  BY <1>2 DEF Deliver, TypeOK
<1>4. woken' \in [Requests -> BOOLEAN] /\ interest' \in [Requests -> BOOLEAN]
  BY DEF Deliver, TypeOK
<1> QED BY <1>3, <1>4

\* Every step of the connection task keeps the types.
LEMMA TypeConnection ==
    ASSUME TypeOK, ConnectionStep
    PROVE  TypeOK'
<1> USE DEF threadVars, oneshotVars, wireVars, handleVars
<1>1. CASE HandleUpdate
  <2> DEFINE u == Head(updates)
  <2>1. u \in Updates /\ Tail(updates) \in Seq(Updates)
    <3>1. updates \in Seq(Updates) /\ updates # << >>
      BY <1>1 DEF HandleUpdate, TypeOK, Updates
    <3> QED BY <3>1
  <2>2. u.number \in Numbers /\ u.request \in Requests \cup {NoRequest}
    BY <2>1 DEF Updates
  <2>3. /\ pending' = [pending EXCEPT ![u.number] = u.request]
        /\ updates' = Tail(updates)
        /\ txGone' = [r \in Requests |-> txGone[r] \/ r = pending[u.number]]
    BY <1>1 DEF HandleUpdate
  <2> HIDE DEF u
  <2>4. pending' \in [Numbers -> Requests \cup {NoRequest}]
    BY <2>2, <2>3 DEF TypeOK
  <2>5. txGone' \in [Requests -> BOOLEAN]
    BY <2>3 DEF TypeOK
  <2> QED BY <1>1, <2>1, <2>3, <2>4, <2>5 DEF HandleUpdate, TypeOK, Updates
<1>2. CASE UpdatesNotReady \/ UpdatesEnded \/ StreamNotReady \/ StreamEnds
  BY <1>2 DEF UpdatesNotReady, UpdatesEnded, StreamNotReady, StreamEnds, TypeOK
<1>3. CASE ReadResponse
  <2> DEFINE Responses == [number : Numbers, continue : BOOLEAN]
             response == Head(stream)
             n == response.number
  <2>1. response \in Responses /\ Tail(stream) \in Seq(Responses)
    <3>1. stream \in Seq(Responses) /\ stream # << >>
      BY <1>3 DEF ReadResponse, TypeOK
    <3> HIDE DEF Responses
    <3> QED BY <3>1
  <2>2. n \in Numbers /\ pending[n] \in Requests \cup {NoRequest}
    BY <2>1 DEF TypeOK
  <2>3. stream' = Tail(stream) /\ (HandleContinue(n) \/ HandleFinal(n))
    BY <1>3 DEF ReadResponse
  <2> HIDE DEF response, n
  <2>4. pending' \in [Numbers -> Requests \cup {NoRequest}]
    BY <2>2, <2>3 DEF HandleContinue, HandleFinal, TypeOK
  <2>5. txGone' \in [Requests -> BOOLEAN]
    BY <2>2, <2>3 DEF HandleContinue, HandleFinal, TypeOK
  <2>6. /\ mailbox' \in [Requests -> Seq({"Continue", "None", "Response"})]
        /\ woken' \in [Requests -> BOOLEAN] /\ interest' \in [Requests -> BOOLEAN]
    BY <2>2, <2>3, DeliverTypes DEF HandleContinue, HandleFinal, TypeOK
  <2> QED BY <1>3, <2>1, <2>3, <2>4, <2>5, <2>6 DEF ReadResponse, TypeOK
<1>4. CASE PollSender
  <2>1. peer' \in [Numbers -> 0 .. MaxContinues + 1]
    <3>1. MaxContinues + 1 \in 0 .. MaxContinues + 1
      BY TimersAssumption
    <3>2. peer \in [Numbers -> 0 .. MaxContinues + 1]
      BY DEF TypeOK
    <3> QED BY <1>4, <3>1, <3>2 DEF PollSender
  <2>2. outgoing' \in Seq(Numbers)
    BY <1>4 DEF PollSender
  <2>3. senderAlive' \in BOOLEAN /\ allowRequests' \in BOOLEAN
    BY <1>4, Zenon DEF PollSender, TypeOK
  <2> QED BY <1>4, <2>1, <2>2, <2>3 DEF PollSender, TypeOK
<1>5. CASE CancelPending
  <2>1. pending' \in [Numbers -> Requests \cup {NoRequest}]
    BY <1>5 DEF CancelPending
  <2>2. ASSUME NEW r \in Requests
        PROVE  /\ mailbox[r] \in Seq({"Continue", "None", "Response"})
               /\ Append(mailbox[r], "None") \in Seq({"Continue", "None", "Response"})
    <3>1. mailbox[r] \in Seq({"Continue", "None", "Response"})
      BY DEF TypeOK
    <3> QED BY <3>1
  <2>3. mailbox' \in [Requests -> Seq({"Continue", "None", "Response"})]
    BY <1>5, <2>2 DEF CancelPending
  <2>4. /\ woken' \in [Requests -> BOOLEAN] /\ interest' \in [Requests -> BOOLEAN]
        /\ txGone' \in [Requests -> BOOLEAN]
    BY <1>5 DEF CancelPending, TypeOK
  <2> QED BY <1>5, <2>1, <2>3, <2>4 DEF CancelPending, TypeOK
<1>6. CASE DropUpdates
  <2>1. woken' \in [Requests -> BOOLEAN] /\ txGone' \in [Requests -> BOOLEAN]
    BY <1>6 DEF DropUpdates, TypeOK
  <2>2. updates' \in Seq(Updates)
    BY <1>6 DEF DropUpdates
  <2> QED BY <1>6, <2>1, <2>2 DEF DropUpdates, TypeOK, Updates
<1>7. CASE DisallowRequests
  <2>1. allowRequests' \in BOOLEAN
    BY <1>7, Zenon DEF DisallowRequests
  <2> QED BY <1>7, <2>1 DEF DisallowRequests, TypeOK
<1> QED BY <1>1, <1>2, <1>3, <1>4, <1>5, <1>6, <1>7 DEF ConnectionStep

\* The peer and the last handle keep the types.
LEMMA TypeOthers ==
    ASSUME TypeOK, DropHandle \/ \E n \in Numbers : PeerAnswers(n)
    PROVE  TypeOK'
<1> USE DEF threadVars, oneshotVars, wireVars, handleVars
<1>1. CASE DropHandle
  <2>1. handleAlive' \in BOOLEAN
    BY <1>1, Zenon DEF DropHandle
  <2> QED BY <1>1, <2>1 DEF DropHandle, TypeOK
<1>2. ASSUME NEW n \in Numbers, PeerAnswers(n)
      PROVE  TypeOK'
  <2> DEFINE Responses == [number : Numbers, continue : BOOLEAN]
  <2>1. peer' \in [Numbers -> 0 .. MaxContinues + 1]
    <3>1. /\ peer \in [Numbers -> 0 .. MaxContinues + 1]
          /\ peer[n] \in 0 .. MaxContinues + 1
      BY DEF TypeOK
    <3>2. /\ 0 \in 0 .. MaxContinues + 1
          /\ peer[n] > 1 => peer[n] - 1 \in 0 .. MaxContinues + 1
      BY <3>1, TimersAssumption
    <3> HIDE DEF Responses
    <3> QED BY <1>2, <3>1, <3>2 DEF PeerAnswers
  <2>2. /\ Append(stream, [number |-> n, continue |-> TRUE]) \in Seq(Responses)
        /\ Append(stream, [number |-> n, continue |-> FALSE]) \in Seq(Responses)
    <3>1. stream \in Seq(Responses)
      BY DEF TypeOK
    <3>2. /\ [number |-> n, continue |-> TRUE] \in Responses
          /\ [number |-> n, continue |-> FALSE] \in Responses
      OBVIOUS
    <3> HIDE DEF Responses
    <3> QED BY <3>1, <3>2
  <2>3. stream' \in Seq(Responses)
    BY <1>2, <2>2 DEF PeerAnswers
  <2> QED BY <1>2, <2>1, <2>3 DEF PeerAnswers, TypeOK
<1> QED BY <1>1, <1>2

\* The facts about a request that the invariant of the numbers depends on.
numberVars == <<lock, sequenceNumber, number, step, outcome, rx>>

\* A step that neither sends nor begins to send.
LEMMA NumberFrame ==
    ASSUME NumberInv, TypeOK', UnsentIsFresh', LiveIsSent', Sent' = Sent,
           UNCHANGED <<lock, sequenceNumber, number>>,
           \A r \in Requests : step'[r] = "locked" <=> step[r] = "locked"
    PROVE  NumberInv'
BY DEF NumberInv, LockHolder, NumbersTaken, NumbersCounted

\* A step that changes neither where a thread is nor what it has got.
LEMMA NumberSame ==
    ASSUME NumberInv, TypeOK', UNCHANGED numberVars
    PROVE  NumberInv'
BY NumberFrame DEF numberVars, NumberInv, UnsentIsFresh, LiveIsSent, Live, Sent

\* A new connection has used no number.
LEMMA NumberInit == Init => NumberInv
<1> SUFFICES ASSUME Init PROVE NumberInv
  OBVIOUS
<1>1. Sent = {}
  BY DEF Init, Sent
<1>2. NumbersCounted
  BY <1>1, FS_EmptySet DEF Init, NumbersCounted
<1>3. UnsentIsFresh /\ LiveIsSent
  BY DEF Init, UnsentIsFresh, LiveIsSent, Live
<1>4. LockHolder
  BY RequestsAssumption DEF Init, LockHolder
<1>5. NumbersTaken
  BY <1>1 DEF Init, NumbersTaken
<1> QED BY <1>2, <1>3, <1>4, <1>5, TypeInit DEF NumberInv

\* The thread that gives its message to the sender takes the next number.
LEMMA NumberSend ==
    ASSUME NumberInv, NEW r \in Requests, SendMessage(r), senderAlive
    PROVE  NumberInv'
<1>1. /\ step[r] = "locked" /\ lock' = NoRequest
      /\ sequenceNumber' = sequenceNumber + 1
      /\ step' = [step EXCEPT ![r] = "asleep"]
      /\ UNCHANGED <<number, outcome, rx>>
  BY DEF SendMessage
<1>2. /\ TypeOK /\ UnsentIsFresh /\ LiveIsSent /\ LockHolder /\ NumbersTaken
      /\ NumbersCounted
  BY DEF NumberInv
<1>3. sequenceNumber \in Nat /\ number[r] = sequenceNumber /\ outcome[r] = "none"
      /\ sequenceNumber >= 1
  BY <1>1, <1>2, NumbersType DEF TypeOK, NumbersTaken, UnsentIsFresh
<1>4. r \notin Sent /\ Sent' = Sent \cup {r}
  BY <1>1, <1>2, <1>3 DEF Sent, TypeOK
<1>5. /\ IsFiniteSet(Sent) /\ IsFiniteSet(Sent')
      /\ Cardinality(Sent') <= Cardinality(Requests)
  <2>1. Sent \subseteq Requests /\ Sent' \subseteq Requests
    BY <1>4 DEF Sent
  <2> QED BY <2>1, RequestsAssumption, FS_Subset
<1>6. Cardinality(Sent') = Cardinality(Sent) + 1
  BY <1>4, <1>5, FS_AddElement
<1>7. NumbersCounted' /\ sequenceNumber' \in Numbers
  <2>1. Cardinality(Sent') = sequenceNumber
    BY <1>2, <1>3, <1>6 DEF NumbersCounted
  <2>2. sequenceNumber' \in Numbers
    BY <1>1, <1>3, <1>5, <2>1, NumbersType DEF Numbers
  <2> QED BY <1>1, <1>3, <2>1, <2>2 DEF NumbersCounted
<1>8. TypeOK'
  BY <1>7, TypeThread DEF ThreadStep
<1>9. UnsentIsFresh' /\ LiveIsSent'
  BY <1>1, <1>2, <1>4 DEF UnsentIsFresh, LiveIsSent, Live, TypeOK
<1>10. LockHolder'
  <2>1. \A s \in Requests : s # r => step[s] # "locked"
    BY <1>1, <1>2 DEF LockHolder
  <2> QED BY <1>1, <1>2, <2>1, RequestsAssumption DEF LockHolder, TypeOK
<1>11. NumbersTaken'
  <2>1. \A s \in Requests : s # r => step'[s] # "locked"
    BY <1>1, <1>2 DEF LockHolder, TypeOK
  <2>2. \A s \in Requests : step'[s] = "locked" => number'[s] = sequenceNumber'
    BY <1>1, <1>2, <2>1 DEF TypeOK
  <2>3. \A s \in Requests : number[s] \in Nat /\ number[s] <= sequenceNumber
    <3>1. \A s \in Requests : number[s] \in Numbers \cup {0}
      BY <1>2 DEF TypeOK
    <3>2. Numbers \cup {0} \subseteq Nat
      BY NumbersType
    <3>3. \A s \in Requests : number[s] <= sequenceNumber
      BY <1>2 DEF NumbersTaken
    <3> QED BY <3>1, <3>2, <3>3
  <2>4. \A s \in Sent : number[s] \in 1 .. sequenceNumber - 1
    BY <1>2 DEF NumbersTaken
  <2>5. \A s \in Sent' : number'[s] \in 1 .. sequenceNumber' - 1
    BY <1>1, <1>3, <1>4, <2>4
  <2>6. \A s, t \in Sent' : s # t => number'[s] # number'[t]
    <3>1. \A s \in Sent : number[s] # number[r]
      BY <1>3, <2>4
    <3>2. \A s, t \in Sent : s # t => number[s] # number[t]
      BY <1>2 DEF NumbersTaken
    <3> QED BY <1>1, <1>4, <3>1, <3>2
  <2>7. \A s \in Requests : number'[s] <= sequenceNumber'
    BY <1>1, <1>3, <2>3
  <2> QED BY <2>2, <2>5, <2>6, <2>7 DEF NumbersTaken
<1> QED BY <1>7, <1>8, <1>9, <1>10, <1>11 DEF NumberInv

\* Every step keeps the invariant about the numbers.
LEMMA NumberNext == NumberInv /\ [Next]_vars => NumberInv'
<1> SUFFICES ASSUME NumberInv, [Next]_vars PROVE NumberInv'
  OBVIOUS
<1> USE DEF threadVars, oneshotVars, wireVars, handleVars
<1>0. /\ TypeOK /\ UnsentIsFresh /\ LiveIsSent /\ LockHolder /\ NumbersTaken
      /\ NumbersCounted
  BY DEF NumberInv
<1>1. ASSUME NEW r \in Requests, ThreadStep(r) PROVE NumberInv'
  <2>1. CASE SendMessage(r) /\ senderAlive
    BY <2>1, NumberSend
  <2>2. CASE ~(SendMessage(r) /\ senderAlive)
    <3>1. sequenceNumber' = sequenceNumber
      BY <1>1, <2>2 DEF ThreadStep, PollFuture, CheckAllowed, AddPending, SendMessage,
         PollRequestEnds, PollRequestContinues, PollRequestNotReady, PollTimers,
         DropFuture, TimerExpires
    <3>2. TypeOK'
      BY <1>0, <1>1, <3>1, TypeThread DEF TypeOK
    <3>3. CASE CheckAllowed(r)
      <4>1. UnsentIsFresh' /\ LiveIsSent' /\ Sent' = Sent
        <5>1. CASE allowRequests
          <6>1. /\ step[r] = "unsent" /\ step' = [step EXCEPT ![r] = "checked"]
                /\ UNCHANGED <<outcome, rx>>
            BY <3>3, <5>1 DEF CheckAllowed
          <6> QED BY <1>0, <6>1 DEF UnsentIsFresh, LiveIsSent, Live, Sent, TypeOK
        <5>2. CASE ~allowRequests
          <6>1. /\ step[r] = "unsent" /\ step' = [step EXCEPT ![r] = "ended"]
                /\ outcome' = [outcome EXCEPT ![r] = "Closed"] /\ rx' = rx
            BY <3>3, <5>2 DEF CheckAllowed, FailClosed
          <6> QED BY <1>0, <6>1 DEF UnsentIsFresh, LiveIsSent, Live, Sent, TypeOK
        <5> QED BY <5>1, <5>2
      <4>2. \A s \in Requests : step'[s] = "locked" <=> step[s] = "locked"
        BY <1>0, <3>3 DEF CheckAllowed, FailClosed, TypeOK
      <4>3. UNCHANGED <<lock, sequenceNumber, number>>
        BY <3>3 DEF CheckAllowed, FailClosed
      <4> QED BY <3>2, <4>1, <4>2, <4>3, NumberFrame
    <3>4. CASE AddPending(r) /\ ~ReceiverAlive
      <4>1. UnsentIsFresh' /\ LiveIsSent' /\ Sent' = Sent
        BY <1>0, <3>4 DEF AddPending, FailClosed, UnsentIsFresh, LiveIsSent, Live,
           Sent, TypeOK
      <4>2. \A s \in Requests : step'[s] = "locked" <=> step[s] = "locked"
        BY <1>0, <3>4 DEF AddPending, FailClosed, TypeOK
      <4>3. UNCHANGED <<lock, sequenceNumber, number>>
        BY <3>4 DEF AddPending, FailClosed
      <4> QED BY <3>2, <4>1, <4>2, <4>3, NumberFrame
    <3>5. CASE AddPending(r) /\ ReceiverAlive
      <4>1. /\ step[r] = "checked" /\ lock = NoRequest /\ lock' = r
            /\ step' = [step EXCEPT ![r] = "locked"]
            /\ number' = [number EXCEPT ![r] = sequenceNumber]
            /\ UNCHANGED <<sequenceNumber, outcome, rx>>
        BY <3>5 DEF AddPending
      <4>2. UnsentIsFresh' /\ LiveIsSent' /\ Sent' = Sent /\ r \notin Sent
        BY <1>0, <4>1 DEF UnsentIsFresh, LiveIsSent, Live, Sent, TypeOK
      <4>3. LockHolder'
        BY <1>0, <4>1, RequestsAssumption DEF LockHolder, TypeOK
      <4>4. NumbersTaken'
        <5>1. /\ \A s \in Requests : step'[s] = "locked" => s = r
              /\ number'[r] = sequenceNumber /\ sequenceNumber \in Nat
              /\ \A s \in Requests \ {r} : number'[s] = number[s]
          BY <1>0, <4>1, RequestsAssumption, NumbersType DEF LockHolder, TypeOK
        <5>2. Sent \subseteq Requests \ {r}
          BY <4>2 DEF Sent
        <5> QED BY <1>0, <4>1, <4>2, <5>1, <5>2 DEF NumbersTaken
      <4> QED BY <1>0, <3>2, <4>1, <4>2, <4>3, <4>4 DEF NumberInv, NumbersCounted
    <3>6. CASE SendMessage(r) /\ ~senderAlive
      <4>1. /\ step[r] = "locked" /\ lock' = NoRequest
            /\ step' = [step EXCEPT ![r] = "ended"]
            /\ outcome' = [outcome EXCEPT ![r] = "Closed"]
            /\ rx' = [rx EXCEPT ![r] = "dropped"]
            /\ UNCHANGED <<sequenceNumber, number>>
        BY <3>6 DEF SendMessage, FailClosed
      <4>2. UnsentIsFresh' /\ LiveIsSent' /\ Sent' = Sent
        BY <1>0, <4>1 DEF UnsentIsFresh, LiveIsSent, Live, Sent, TypeOK
      <4>3. \A s \in Requests : step'[s] # "locked"
        BY <1>0, <4>1 DEF LockHolder, TypeOK
      <4>4. LockHolder' /\ NumbersTaken'
        BY <1>0, <4>1, <4>2, <4>3, RequestsAssumption DEF LockHolder, NumbersTaken
      <4> QED BY <1>0, <3>2, <4>1, <4>2, <4>4 DEF NumberInv, NumbersCounted
    <3>7. CASE PollFuture(r) \/ DropFuture(r)
      <4>1. /\ step[r] \in {"asleep", "timers"}
            /\ \E x \in {"asleep", "timers", "ended"} :
                    step' = [step EXCEPT ![r] = x]
            /\ \E y \in Outcomes \ {"Closed"} :
                    outcome' = [outcome EXCEPT ![r] = y]
            /\ \A s \in Requests \ {r} : rx'[s] = rx[s]
            /\ UNCHANGED <<lock, sequenceNumber, number>>
        <5>1. outcome[r] \in Outcomes \ {"Closed"} \/ ~Live(r)
          BY <1>0 DEF LiveIsSent, Sent, TypeOK
        <5>2. /\ step = [step EXCEPT ![r] = step[r]]
              /\ outcome = [outcome EXCEPT ![r] = outcome[r]]
          BY <1>0 DEF TypeOK
        <5>3. CASE PollRequestEnds(r)
          BY <1>0, <5>1, <5>2, <5>3 DEF PollRequestEnds, Resolve, Waiting, Live, Outcomes
        <5>4. CASE PollRequestContinues(r) \/ PollRequestNotReady(r)
          BY <1>0, <5>1, <5>2, <5>4
          DEF PollRequestContinues, PollRequestNotReady, Waiting, Live
        <5>5. CASE PollTimers(r)
          BY <1>0, <5>1, <5>2, <5>5 DEF PollTimers, Resolve, Live, Outcomes, TypeOK
        <5>6. CASE DropFuture(r)
          BY <1>0, <5>1, <5>2, <5>6 DEF DropFuture, Live, Outcomes, TypeOK
        <5> QED BY <3>7, <5>3, <5>4, <5>5, <5>6 DEF PollFuture
      <4>2. UnsentIsFresh' /\ LiveIsSent' /\ Sent' = Sent
        BY <1>0, <4>1 DEF UnsentIsFresh, LiveIsSent, Live, Sent, TypeOK
      <4>3. \A s \in Requests : step'[s] = "locked" <=> step[s] = "locked"
        BY <1>0, <4>1 DEF TypeOK
      <4> QED BY <3>2, <4>1, <4>2, <4>3, NumberFrame
    <3>8. ASSUME NEW timer \in Timers, TimerExpires(r, timer) PROVE NumberInv'
      BY <3>2, <3>8, NumberSame DEF TimerExpires, numberVars
    <3> QED BY <1>1, <2>2, <3>3, <3>4, <3>5, <3>6, <3>7, <3>8 DEF ThreadStep
  <2> QED BY <2>1, <2>2
<1>2. CASE ConnectionStep
  <2>1. UNCHANGED numberVars
    BY <1>2 DEF ConnectionStep, HandleUpdate, UpdatesNotReady, UpdatesEnded,
       ReadResponse, StreamNotReady, StreamEnds, PollSender, CancelPending,
       DropUpdates, DisallowRequests, numberVars
  <2> QED BY <1>0, <1>2, <2>1, TypeConnection, NumberSame
<1>3. CASE DropHandle \/ \E n \in Numbers : PeerAnswers(n)
  <2>1. UNCHANGED numberVars
    BY <1>3 DEF DropHandle, PeerAnswers, numberVars
  <2> QED BY <1>0, <1>3, <2>1, TypeOthers, NumberSame
<1>4. CASE UNCHANGED vars
  <2>1. TypeOK' /\ UNCHANGED numberVars
    BY <1>0, <1>4 DEF vars, TypeOK, numberVars
  <2> QED BY <2>1, NumberSame
<1> QED BY <1>1, <1>2, <1>3, <1>4 DEF Next

\* Sequence numbers are taken in order, one by one.
LEMMA NumberInvariant == Spec => []NumberInv
BY NumberInit, NumberNext, PTL DEF Spec

\* The state of threads, connection task and channels stays within its types,
\* for every set of requests; the sequence numbers do not run out, because each
\* request that is sent uses one.
THEOREM TypeCorrect == Spec => []TypeOK
<1>1. NumberInv => TypeOK
  BY DEF NumberInv
<1> QED BY <1>1, NumberInvariant, PTL

-----------------------------------------------------------------------------
(* The map and the channel as one queue. *)

\* An update at the end of the channel is a new position of its own.
LEMMA QueueAppend ==
    ASSUME NEW u \in Seq(Updates), NEW w \in Updates,
           NEW p \in [Numbers -> Requests \cup {NoRequest}]
    PROVE  /\ Len(Append(u, w)) = Len(u) + 1 /\ Len(u) \in Nat
           /\ Append(u, w)[Len(u) + 1] = w
           /\ \A i \in 1 .. Len(u) : Append(u, w)[i] = u[i]
           /\ \A i \in 0 .. Len(u), n \in Numbers :
                    Holder(p, Append(u, w), i, n) = Holder(p, u, i, n)
           /\ \A n \in Numbers :
                    Holder(p, Append(u, w), Len(u) + 1, n) =
                        IF w.number = n THEN w.request ELSE NoRequest
           /\ \A k \in 1 .. Len(u), n \in Numbers :
                    Removes(u, k, n) => Removes(Append(u, w), k, n)
<1> DEFINE a == Append(u, w)
<1>1. /\ Len(a) = Len(u) + 1 /\ Len(u) \in Nat
      /\ a[Len(u) + 1] = w
      /\ \A i \in 1 .. Len(u) : a[i] = u[i]
  OBVIOUS
<1> HIDE DEF a
<1>2. ASSUME NEW i \in 0 .. Len(u), NEW n \in Numbers
      PROVE  Holder(p, a, i, n) = Holder(p, u, i, n)
  <2>1. i = 0 \/ i \in 1 .. Len(u)
    BY <1>1
  <2> QED BY <1>1, <2>1 DEF Holder
<1>3. ASSUME NEW n \in Numbers
      PROVE  Holder(p, a, Len(u) + 1, n) =
                IF w.number = n THEN w.request ELSE NoRequest
  <2>1. Len(u) + 1 # 0
    BY <1>1
  <2> QED BY <1>1, <2>1 DEF Holder
<1>4. \A k \in 1 .. Len(u), n \in Numbers : Removes(u, k, n) => Removes(a, k, n)
  BY <1>1 DEF Removes
<1> QED BY <1>1, <1>2, <1>3, <1>4 DEF a

\* Where position i of number n was before the first update was handled: the
\* map keeps a holder to which the update is not.
Was(u, i, n) == IF i = 0 /\ u[1].number # n THEN 0 ELSE i + 1

\* Handling the first update moves the queue on by one position, and loses no
\* removal that is still to come.
LEMMA QueueTail ==
    ASSUME NEW u \in Seq(Updates), u # << >>,
           NEW p \in [Numbers -> Requests \cup {NoRequest}],
           NEW q \in [Numbers -> Requests \cup {NoRequest}],
           q = [p EXCEPT ![u[1].number] = u[1].request]
    PROVE  /\ Len(Tail(u)) = Len(u) - 1 /\ Len(u) \in Nat \ {0}
           /\ \A i \in 1 .. Len(u) - 1 : Tail(u)[i] = u[i + 1]
           /\ \A i \in 0 .. Len(u) - 1, n \in Numbers :
                /\ Was(u, i, n) \in 0 .. Len(u)
                /\ Was(u, i, n) <= i + 1
                /\ i > 0 => Was(u, i, n) = i + 1
                /\ Holder(q, Tail(u), i, n) = Holder(p, u, Was(u, i, n), n)
                /\ \A k \in Was(u, i, n) + 1 .. Len(u) :
                        Removes(u, k, n) =>
                            /\ k - 1 \in i + 1 .. Len(u) - 1
                            /\ Removes(Tail(u), k - 1, n)
<1> DEFINE t == Tail(u)
<1>1. /\ Len(t) = Len(u) - 1 /\ Len(u) \in Nat \ {0}
      /\ \A i \in 1 .. Len(u) - 1 : t[i] = u[i + 1]
      /\ u[1] \in Updates
  OBVIOUS
<1>2. u[1].number \in Numbers
  BY <1>1 DEF Updates
<1> HIDE DEF t
<1>3. ASSUME NEW i \in 0 .. Len(u) - 1, NEW n \in Numbers
      PROVE  /\ Was(u, i, n) \in 0 .. Len(u)
             /\ Was(u, i, n) <= i + 1
             /\ i > 0 => Was(u, i, n) = i + 1
  BY <1>1 DEF Was
<1>4. ASSUME NEW i \in 0 .. Len(u) - 1, NEW n \in Numbers
      PROVE  Holder(q, t, i, n) = Holder(p, u, Was(u, i, n), n)
  <2>1. CASE i = 0 /\ u[1].number # n
    <3>1. q[n] = p[n]
      BY <1>2, <2>1
    <3> QED BY <2>1, <3>1 DEF Was, Holder
  <2>2. CASE i = 0 /\ u[1].number = n
    <3>1. q[n] = u[1].request
      BY <1>2, <2>2
    <3> QED BY <2>2, <3>1 DEF Was, Holder
  <2>3. CASE i > 0
    <3>1. i \in 1 .. Len(u) - 1 /\ i # 0 /\ i + 1 # 0 /\ Was(u, i, n) = i + 1
      BY <1>1, <2>3 DEF Was
    <3>2. t[i] = u[i + 1]
      BY <1>1, <3>1
    <3> QED BY <3>1, <3>2 DEF Holder
  <2> QED BY <1>1, <2>1, <2>2, <2>3
<1>5. ASSUME NEW i \in 0 .. Len(u) - 1, NEW n \in Numbers,
             NEW k \in Was(u, i, n) + 1 .. Len(u), Removes(u, k, n)
      PROVE  k - 1 \in i + 1 .. Len(u) - 1 /\ Removes(t, k - 1, n)
  <2>1. k - 1 \in i + 1 .. Len(u) - 1
    <3>1. CASE i = 0 /\ u[1].number # n
      <4>1. k # 1
        BY <1>5, <3>1 DEF Removes
      <4>2. k \in 1 .. Len(u)
        BY <3>1 DEF Was
      <4> QED BY <1>1, <3>1, <4>1, <4>2
    <3>2. CASE ~(i = 0 /\ u[1].number # n)
      <4>1. k \in i + 2 .. Len(u)
        BY <1>1, <3>2 DEF Was
      <4> QED BY <1>1, <4>1
    <3> QED BY <3>1, <3>2
  <2>2. k - 1 \in 1 .. Len(u) - 1 /\ (k - 1) + 1 = k
    BY <1>1, <2>1
  <2>3. t[k - 1] = u[k]
    BY <1>1, <2>2
  <2> QED BY <1>5, <2>1, <2>3 DEF Removes
<1> QED BY <1>1, <1>3, <1>4, <1>5 DEF t

-----------------------------------------------------------------------------
(* Registration: every kind of step of the queue. *)

\* A new connection has registered nobody.
LEMMA MatchInit == Init => MatchInv
<1> SUFFICES ASSUME Init PROVE MatchInv
  OBVIOUS
<1>1. /\ updates = << >> /\ Len(updates) = 0 /\ 1 .. Len(updates) = {}
      /\ 0 .. Len(updates) = {0}
  BY DEF Init
<1>2. \A n \in Numbers : Held(0, n) = NoRequest
  BY DEF Init, Held, Holder
<1>3. UpdateKinds /\ HolderKnown /\ HeldOnce /\ RemovedBetween /\ RemovedAfter
      /\ ReleasedBefore
  BY <1>1, <1>2 DEF UpdateKinds, HolderKnown, HeldOnce, RemovedBetween, RemovedAfter,
     ReleasedBefore
<1>4. UnregisteredIsWhole /\ ReceiverEmptied /\ Reaches
  BY DEF Init, UnregisteredIsWhole, ReceiverEmptied, Reaches
<1> QED BY <1>3, <1>4, NumberInit DEF MatchInv

\* A request is held by nobody before its send begins.
LEMMA NotHeldBefore ==
    ASSUME MatchInv, NEW r \in Requests, step[r] \in {"unsent", "checked"}
    PROVE  \A i \in 0 .. Len(updates), n \in Numbers : Held(i, n) # r
BY RequestsAssumption DEF MatchInv, HolderKnown

\* The queue holds requests.
LEMMA HeldTypes ==
    ASSUME TypeOK, NEW i \in 0 .. Len(updates), NEW n \in Numbers
    PROVE  Held(i, n) \in Requests \cup {NoRequest}
<1>1. CASE i = 0
  BY <1>1 DEF Held, Holder, TypeOK
<1>2. CASE i # 0
  <2>1. updates \in Seq(Updates) /\ i \in 1 .. Len(updates)
    BY <1>2 DEF TypeOK, Updates
  <2>2. updates[i] \in Updates
    BY <2>1
  <2>3. updates[i].request \in Requests \cup {NoRequest}
    BY <2>2 DEF Updates
  <2> QED BY <1>2, <2>3 DEF Held, Holder
<1> QED BY <1>1, <1>2

\* The queue stays as it is, and who is released is not in it or was before,
\* and stays released.
LEMMA MatchSame ==
    ASSUME MatchInv, NumberInv', ReceiverEmptied',
           UNCHANGED <<pending, updates, txGone, number>>,
           \A r \in Requests :
                step'[r] \in {"unsent", "checked"} => step[r] \in {"unsent", "checked"},
           \A r \in Requests :
                step'[r] \in {"locked", "asleep", "timers"} =>
                    step[r] \in {"locked", "asleep", "timers"},
           \A r \in Requests :
                Released(r)' => \/ Released(r)
                                \/ \A i \in 0 .. Len(updates), n \in Numbers :
                                        Held(i, n) # r,
           \A r \in Requests : Released(r) => Released(r)'
    PROVE  MatchInv'
<1>1. \A i \in 0 .. Len(updates), n \in Numbers : Held(i, n)' = Held(i, n)
  BY DEF Held
<1>2. \A i \in 0 .. Len(updates), n \in Numbers :
          Held(i, n) # NoRequest => Held(i, n) \in Requests
  BY HeldTypes DEF MatchInv, NumberInv
<1>3. UpdateKinds' /\ HeldOnce' /\ RemovedBetween'
  BY <1>1 DEF MatchInv, UpdateKinds, HeldOnce, RemovedBetween
<1>4. HolderKnown'
  BY <1>1, <1>2 DEF MatchInv, HolderKnown
<1>5. RemovedAfter'
  BY <1>1, <1>2 DEF MatchInv, RemovedAfter
<1>6. UnregisteredIsWhole' /\ Reaches'
  BY DEF MatchInv, UnregisteredIsWhole, Reaches, Held
<1>7. ReleasedBefore'
  BY <1>1, <1>2 DEF MatchInv, ReleasedBefore
<1> QED BY <1>3, <1>4, <1>5, <1>6, <1>7 DEF MatchInv

\* Nobody else who is still registered has the number of a request in use.
LEMMA OthersReleased ==
    ASSUME MatchInv, NEW r \in Requests, step[r] \in {"locked", "asleep", "timers"},
           NEW s \in Requests, s # r, number[s] = number[r],
           step[s] \notin {"unsent", "checked"}
    PROVE  step[s] = "ended"
<1>0. TypeOK /\ NumberInv /\ LockHolder /\ NumbersTaken /\ LiveIsSent
  BY DEF MatchInv, NumberInv
<1>1. sequenceNumber \in Nat
  BY <1>0, NumbersType DEF TypeOK
<1>2. CASE step[s] = "locked"
  <2>1. step[r] # "locked"
    BY <1>0, <1>2 DEF LockHolder
  <2>2. number[r] \in 1 .. sequenceNumber - 1
    BY <1>0, <2>1 DEF LiveIsSent, Live, NumbersTaken
  <2>3. number[s] = sequenceNumber
    BY <1>0, <1>2 DEF NumbersTaken
  <2> QED BY <1>1, <2>2, <2>3
<1>3. CASE Live(s)
  <2>1. s \in Sent /\ number[s] \in 1 .. sequenceNumber - 1
    BY <1>0, <1>3 DEF LiveIsSent, NumbersTaken
  <2>2. CASE step[r] = "locked"
    <3>1. number[r] = sequenceNumber
      BY <1>0, <2>2 DEF NumbersTaken
    <3> QED BY <1>1, <2>1, <3>1
  <2>3. CASE Live(r)
    BY <1>0, <2>1, <2>3 DEF LiveIsSent, NumbersTaken
  <2> QED BY <2>2, <2>3 DEF Live
<1> QED BY <1>0, <1>2, <1>3 DEF TypeOK, Live

\* A request is released by an update that removes it.
LEMMA MatchRemove ==
    ASSUME MatchInv, NumberInv', NEW r \in Requests,
           step[r] \in {"locked", "asleep", "timers"},
           step'[r] \notin {"unsent", "checked"}, Released(r)',
           \A s \in Requests \ {r} : step'[s] = step[s] /\ rx'[s] = rx[s],
           ReceiverAlive, updates' = Append(updates, Remove(number[r])),
           UNCHANGED <<pending, txGone, number, conn>>
    PROVE  MatchInv'
<1> DEFINE w == Remove(number[r])
           last == Len(updates) + 1
<1>0. /\ TypeOK /\ NumberInv /\ updates \in Seq(Updates) /\ number[r] \in Numbers
      /\ pending \in [Numbers -> Requests \cup {NoRequest}]
  BY HasNumber DEF MatchInv, NumberInv, TypeOK, Updates
<1>1. w \in Updates /\ w.number = number[r] /\ w.request = NoRequest
      /\ w.kind = "Remove"
  BY <1>0 DEF Remove, Updates
<1>2. /\ Len(updates') = last /\ Len(updates) \in Nat /\ updates'[last] = w
      /\ \A i \in 1 .. Len(updates) : updates'[i] = updates[i]
      /\ \A i \in 0 .. Len(updates), n \in Numbers : Held(i, n)' = Held(i, n)
      /\ \A n \in Numbers : Holder(pending', updates', last, n) = NoRequest
      /\ \A k \in 1 .. Len(updates), n \in Numbers :
            Removes(updates, k, n) => Removes(updates', k, n)
      /\ Removes(updates', last, number[r])
  <2> HIDE DEF w
  <2>1. updates' = Append(updates, w)
    BY DEF w
  <2>2. /\ Len(updates') = last /\ Len(updates) \in Nat /\ updates'[last] = w
        /\ \A i \in 1 .. Len(updates) : updates'[i] = updates[i]
        /\ \A i \in 0 .. Len(updates), n \in Numbers :
                Holder(pending, updates', i, n) = Holder(pending, updates, i, n)
        /\ \A n \in Numbers : Holder(pending, updates', last, n) = NoRequest
        /\ \A k \in 1 .. Len(updates), n \in Numbers :
                Removes(updates, k, n) => Removes(updates', k, n)
    <3>1. /\ Len(updates') = last /\ Len(updates) \in Nat /\ updates'[last] = w
          /\ \A i \in 1 .. Len(updates) : updates'[i] = updates[i]
      BY <1>0, <1>1, <2>1
    <3>2. \A i \in 0 .. Len(updates), n \in Numbers :
              Holder(pending, updates', i, n) = Holder(pending, updates, i, n)
      BY <1>0, <1>1, <2>1, QueueAppend
    <3>3. \A n \in Numbers : Holder(pending, updates', last, n) =
              IF w.number = n THEN w.request ELSE NoRequest
      BY <1>0, <1>1, <2>1, QueueAppend
    <3>4. \A k \in 1 .. Len(updates), n \in Numbers :
              Removes(updates, k, n) => Removes(updates', k, n)
      BY <1>0, <1>1, <2>1, QueueAppend
    <3> QED BY <1>1, <3>1, <3>2, <3>3, <3>4
  <2>3. Removes(updates', last, number[r])
    BY <1>1, <2>2 DEF Removes
  <2>4. \A i \in 0 .. Len(updates), n \in Numbers : Held(i, n)' = Held(i, n)
    BY <2>2 DEF Held
  <2>5. \A n \in Numbers : Holder(pending', updates', last, n) = NoRequest
    BY <2>2
  <2> QED BY <2>2, <2>3, <2>4, <2>5
<1> HIDE DEF w
<1>3. \A i \in 0 .. last, n \in Numbers : Held(i, n)' # NoRequest =>
          i \in 0 .. Len(updates) /\ Held(i, n)' = Held(i, n) /\ Held(i, n) \in Requests
  <2> SUFFICES ASSUME NEW i \in 0 .. last, NEW n \in Numbers, Held(i, n)' # NoRequest
               PROVE  i \in 0 .. Len(updates) /\ Held(i, n)' = Held(i, n)
                      /\ Held(i, n) \in Requests
    OBVIOUS
  <2>1. i # last
    BY <1>2 DEF Held
  <2>2. i \in 0 .. Len(updates)
    BY <1>2, <2>1
  <2> QED BY <1>0, <1>2, <2>2, HeldTypes
<1>4. UpdateKinds'
  <2> SUFFICES ASSUME NEW i \in 1 .. last
               PROVE  updates'[i].kind = "Remove" <=> updates'[i].request = NoRequest
    BY <1>2 DEF UpdateKinds
  <2>1. CASE i = last
    BY <1>1, <1>2, <2>1
  <2>2. CASE i \in 1 .. Len(updates)
    BY <1>2, <2>2 DEF MatchInv, UpdateKinds
  <2> QED BY <1>2, <2>1, <2>2
<1>5. HolderKnown'
  <2> SUFFICES ASSUME NEW i \in 0 .. last, NEW n \in Numbers, Held(i, n)' # NoRequest
               PROVE  /\ number'[Held(i, n)'] = n /\ ~txGone'[Held(i, n)']
                      /\ step'[Held(i, n)'] \notin {"unsent", "checked"}
    BY <1>2 DEF HolderKnown
  <2> QED BY <1>3 DEF MatchInv, HolderKnown
<1>6. HeldOnce'
  <2> SUFFICES ASSUME NEW i \in 0 .. last, NEW j \in 0 .. last, NEW n \in Numbers,
                      Held(i, n)' # NoRequest, Held(i, n)' = Held(j, n)'
               PROVE  i = j
    BY <1>2 DEF HeldOnce
  <2> QED BY <1>3 DEF MatchInv, HeldOnce
<1>7. RemovedBetween'
  <2> SUFFICES ASSUME NEW i \in 0 .. last, NEW j \in 0 .. last, NEW n \in Numbers,
                      i < j, Held(i, n)' # NoRequest, Held(j, n)' # NoRequest
               PROVE  \E k \in i + 1 .. j - 1 : Removes(updates', k, n)
    BY <1>2 DEF RemovedBetween
  <2>1. i \in 0 .. Len(updates) /\ j \in 0 .. Len(updates)
    BY <1>3
  <2>2. PICK k \in i + 1 .. j - 1 : Removes(updates, k, n)
    BY <1>3, <2>1 DEF MatchInv, RemovedBetween
  <2>3. k \in 1 .. Len(updates)
    BY <1>2, <2>1
  <2> QED BY <1>2, <2>2, <2>3
<1>8. RemovedAfter'
  <2> SUFFICES ASSUME NEW i \in 0 .. last, NEW n \in Numbers,
                      Held(i, n)' # NoRequest, Released(Held(i, n))'
               PROVE  \E k \in i + 1 .. last : Removes(updates', k, n)
    BY <1>2 DEF RemovedAfter
  <2>1. /\ i \in 0 .. Len(updates) /\ Held(i, n)' = Held(i, n)
        /\ Held(i, n) \in Requests /\ Held(i, n) # NoRequest
    BY <1>3
  <2>2. CASE Held(i, n) = r
    <3>1. number[r] = n
      BY <2>1, <2>2 DEF MatchInv, HolderKnown
    <3>2. last \in i + 1 .. last
      BY <1>2, <2>1
    <3> QED BY <1>2, <3>1, <3>2
  <2>3. CASE Held(i, n) # r
    <3>1. Released(Held(i, n))
      BY <2>1, <2>3 DEF Released
    <3>2. PICK k \in i + 1 .. Len(updates) : Removes(updates, k, n)
      BY <2>1, <3>1 DEF MatchInv, RemovedAfter
    <3>3. k \in 1 .. Len(updates) /\ k \in i + 1 .. last
      BY <1>2, <2>1
    <3> QED BY <1>2, <3>2, <3>3
  <2> QED BY <2>2, <2>3
<1>9. UnregisteredIsWhole' /\ ReceiverEmptied'
  BY DEF MatchInv, UnregisteredIsWhole, ReceiverEmptied, ReceiverAlive
<1>10. Reaches'
  <2> SUFFICES ASSUME NEW s \in Requests,
                      step'[s] \in {"locked", "asleep", "timers"}, ~txGone'[s]
               PROVE  \E i \in 0 .. last : Held(i, number[s])' = s
    BY <1>2 DEF Reaches
  <2>1. step[s] \in {"locked", "asleep", "timers"}
    OBVIOUS
  <2>2. PICK i \in 0 .. Len(updates) : Held(i, number[s]) = s
    BY <2>1 DEF MatchInv, Reaches
  <2>3. i \in 0 .. last /\ number[s] \in Numbers
    BY <1>0, <1>2, <2>1, HasNumber
  <2> QED BY <1>2, <2>2, <2>3
<1>11. ReleasedBefore'
  <2> SUFFICES ASSUME NEW i \in 0 .. last, NEW k \in 1 .. last, NEW n \in Numbers,
                      i < k, Removes(updates', k, n), Held(i, n)' # NoRequest
               PROVE  Released(Held(i, n))'
    BY <1>2 DEF ReleasedBefore
  <2> DEFINE s == Held(i, n)
  <2>1. /\ i \in 0 .. Len(updates) /\ Held(i, n)' = s /\ s \in Requests
        /\ s # NoRequest
    BY <1>3
  <2>2. number[s] = n /\ step[s] \notin {"unsent", "checked"}
    BY <2>1 DEF MatchInv, HolderKnown
  <2>3. s # r => Released(s)
    <3>1. CASE k = last
      <4>1. n = number[r]
        BY <1>1, <1>2, <3>1 DEF Removes
      <4> HIDE DEF s
      <4> QED BY <2>1, <2>2, <4>1, OthersReleased DEF Released
    <3>2. CASE k \in 1 .. Len(updates)
      <4>1. Removes(updates, k, n)
        BY <1>2, <3>2 DEF Removes
      <4> QED BY <2>1, <3>2, <4>1 DEF MatchInv, ReleasedBefore
    <3> QED BY <1>2, <3>1, <3>2
  <2>4. step'[s] = "ended" \/ rx'[s] = "closed"
    <3> HIDE DEF s
    <3> QED BY <2>1, <2>3 DEF Released
  <2> QED BY <2>1, <2>4 DEF Released
<1> QED BY <1>4, <1>5, <1>6, <1>7, <1>8, <1>9, <1>10, <1>11 DEF MatchInv

\* Whoever was registered under the number the next request gets has failed to
\* send, and is removed by an update in the channel.
LEMMA NumberIsFree ==
    ASSUME MatchInv, lock = NoRequest, NEW i \in 0 .. Len(updates),
           Held(i, sequenceNumber) # NoRequest
    PROVE  \E k \in i + 1 .. Len(updates) : Removes(updates, k, sequenceNumber)
<1> DEFINE n == sequenceNumber
           r == Held(i, n)
<1>0. TypeOK /\ NumberInv /\ n \in Numbers
  BY DEF MatchInv, NumberInv, TypeOK
<1>1. r \in Requests
  BY <1>0, HeldTypes
<1>2. number[r] = n /\ step[r] \notin {"unsent", "checked"}
  BY <1>0 DEF MatchInv, HolderKnown
<1> HIDE DEF r
<1>3. step[r] # "locked"
  BY <1>0, <1>1, RequestsAssumption DEF NumberInv, LockHolder
<1>4. r \notin Sent
  <2>1. n \in Nat
    BY <1>0, NumbersType
  <2> QED BY <1>0, <1>2, <2>1 DEF NumberInv, NumbersTaken
<1>5. step[r] = "ended"
  <2>1. ~Live(r)
    BY <1>0, <1>1, <1>4 DEF NumberInv, LiveIsSent
  <2> QED BY <1>0, <1>1, <1>2, <1>3, <2>1 DEF TypeOK, Live
<1> QED BY <1>0, <1>5 DEF MatchInv, RemovedAfter, Released, r

\* A thread registers its request.
LEMMA MatchAdd ==
    ASSUME MatchInv, NumberInv', NEW r \in Requests, AddPending(r), ReceiverAlive
    PROVE  MatchInv'
<1> DEFINE w == Add(r)
           last == Len(updates) + 1
           seq == sequenceNumber
<1>0. /\ TypeOK /\ NumberInv /\ updates \in Seq(Updates) /\ seq \in Numbers
      /\ pending \in [Numbers -> Requests \cup {NoRequest}]
  BY DEF MatchInv, NumberInv, TypeOK, Updates
<1>1. /\ step[r] = "checked" /\ lock = NoRequest
      /\ step' = [step EXCEPT ![r] = "locked"]
      /\ number' = [number EXCEPT ![r] = seq]
      /\ UNCHANGED <<pending, txGone, rx, conn>>
  BY DEF AddPending, oneshotVars
<1>2. /\ w \in Updates /\ w.number = seq /\ w.request = r /\ w.kind = "Add"
      /\ r # NoRequest
  BY <1>0, RequestsAssumption DEF Add, Updates
<1>3. updates' = Append(updates, w)
  BY DEF AddPending
<1> HIDE DEF w
<1>4. /\ Len(updates') = last /\ Len(updates) \in Nat /\ updates'[last] = w
      /\ \A i \in 1 .. Len(updates) : updates'[i] = updates[i]
  BY <1>0, <1>2, <1>3
<1>5. \A i \in 0 .. Len(updates), n \in Numbers :
          Holder(pending, updates', i, n) = Holder(pending, updates, i, n)
  BY <1>0, <1>2, <1>3, QueueAppend
<1>6. \A n \in Numbers :
          Holder(pending, updates', last, n) = IF seq = n THEN r ELSE NoRequest
  <2>1. \A n \in Numbers : Holder(pending, updates', last, n) =
              IF w.number = n THEN w.request ELSE NoRequest
    BY <1>0, <1>2, <1>3, QueueAppend
  <2> QED BY <1>2, <2>1
<1>7. \A k \in 1 .. Len(updates), n \in Numbers :
          Removes(updates, k, n) => Removes(updates', k, n)
  BY <1>0, <1>2, <1>3, QueueAppend
<1>8. \A i \in 0 .. last, n \in Numbers :
          \/ i \in 0 .. Len(updates) /\ Held(i, n)' = Held(i, n)
             /\ Held(i, n) \in (Requests \ {r}) \cup {NoRequest}
          \/ i = last /\ n = seq /\ Held(i, n)' = r
          \/ Held(i, n)' = NoRequest
  <2> SUFFICES ASSUME NEW i \in 0 .. last, NEW n \in Numbers
               PROVE  \/ i \in 0 .. Len(updates) /\ Held(i, n)' = Held(i, n)
                         /\ Held(i, n) \in (Requests \ {r}) \cup {NoRequest}
                      \/ i = last /\ n = seq /\ Held(i, n)' = r
                      \/ Held(i, n)' = NoRequest
    OBVIOUS
  <2>1. CASE i = last
    BY <1>1, <1>6, <2>1 DEF Held
  <2>2. CASE i # last
    <3>1. i \in 0 .. Len(updates)
      BY <1>4, <2>2
    <3>2. Held(i, n) \in Requests \cup {NoRequest} /\ Held(i, n) # r
      BY <1>0, <1>1, <3>1, HeldTypes, NotHeldBefore
    <3>3. Held(i, n)' = Held(i, n)
      BY <1>1, <1>5, <3>1 DEF Held
    <3> QED BY <3>1, <3>2, <3>3
  <2> QED BY <2>1, <2>2
<1>9. UpdateKinds'
  <2> SUFFICES ASSUME NEW i \in 1 .. last
               PROVE  updates'[i].kind = "Remove" <=> updates'[i].request = NoRequest
    BY <1>4 DEF UpdateKinds
  <2>1. CASE i = last
    BY <1>2, <1>4, <2>1
  <2>2. CASE i \in 1 .. Len(updates)
    BY <1>4, <2>2 DEF MatchInv, UpdateKinds
  <2> QED BY <1>4, <2>1, <2>2
<1>10. HolderKnown'
  <2> SUFFICES ASSUME NEW i \in 0 .. last, NEW n \in Numbers, Held(i, n)' # NoRequest
               PROVE  /\ number'[Held(i, n)'] = n /\ ~txGone'[Held(i, n)']
                      /\ step'[Held(i, n)'] \notin {"unsent", "checked"}
    BY <1>4 DEF HolderKnown
  <2>1. CASE i = last /\ n = seq /\ Held(i, n)' = r
    BY <1>0, <1>1, <2>1 DEF MatchInv, UnregisteredIsWhole, TypeOK
  <2>2. CASE /\ i \in 0 .. Len(updates) /\ Held(i, n)' = Held(i, n)
             /\ Held(i, n) \in Requests \ {r}
    <3>1. /\ number[Held(i, n)] = n /\ ~txGone[Held(i, n)]
          /\ step[Held(i, n)] \notin {"unsent", "checked"}
      BY <2>2 DEF MatchInv, HolderKnown
    <3> QED BY <1>0, <1>1, <2>2, <3>1 DEF TypeOK
  <2> QED BY <1>8, <2>1, <2>2
<1>11. HeldOnce'
  <2> SUFFICES ASSUME NEW i \in 0 .. last, NEW j \in 0 .. last, NEW n \in Numbers,
                      Held(i, n)' # NoRequest, Held(i, n)' = Held(j, n)'
               PROVE  i = j
    BY <1>4 DEF HeldOnce
  <2> QED BY <1>8 DEF MatchInv, HeldOnce
<1>12. RemovedBetween'
  <2> SUFFICES ASSUME NEW i \in 0 .. last, NEW j \in 0 .. last, NEW n \in Numbers,
                      i < j, Held(i, n)' # NoRequest, Held(j, n)' # NoRequest
               PROVE  \E k \in i + 1 .. j - 1 : Removes(updates', k, n)
    BY <1>4 DEF RemovedBetween
  <2>1. i \in 0 .. Len(updates) /\ Held(i, n) # NoRequest
    <3>1. i # last
      BY <1>4
    <3> QED BY <1>8, <3>1
  <2>2. PICK k \in i + 1 .. j - 1 : Removes(updates, k, n)
    <3>1. CASE j \in 0 .. Len(updates) /\ Held(j, n) # NoRequest
      BY <2>1, <3>1 DEF MatchInv, RemovedBetween
    <3>2. CASE j = last /\ n = seq
      <4>1. \E k \in i + 1 .. Len(updates) : Removes(updates, k, n)
        BY <1>1, <2>1, <3>2, NumberIsFree
      <4>2. j - 1 = Len(updates)
        BY <1>4, <3>2
      <4> QED BY <4>1, <4>2
    <3> QED BY <1>8, <3>1, <3>2
  <2>3. k \in 1 .. Len(updates)
    BY <1>4, <2>1
  <2> QED BY <1>7, <2>2, <2>3
<1>13. RemovedAfter'
  <2> SUFFICES ASSUME NEW i \in 0 .. last, NEW n \in Numbers,
                      Held(i, n)' # NoRequest, Released(Held(i, n))'
               PROVE  \E k \in i + 1 .. last : Removes(updates', k, n)
    BY <1>4 DEF RemovedAfter
  <2>1. Held(i, n)' # r
    BY <1>0, <1>1 DEF Released, NumberInv, UnsentIsFresh, TypeOK
  <2>2. /\ i \in 0 .. Len(updates) /\ Held(i, n)' = Held(i, n)
        /\ Held(i, n) \in Requests \ {r} /\ Held(i, n) # NoRequest
    BY <1>8, <2>1
  <2>3. Released(Held(i, n))
    BY <1>0, <1>1, <2>2 DEF Released, TypeOK
  <2>4. PICK k \in i + 1 .. Len(updates) : Removes(updates, k, n)
    BY <2>2, <2>3 DEF MatchInv, RemovedAfter
  <2>5. k \in 1 .. Len(updates) /\ k \in i + 1 .. last
    BY <1>4, <2>2
  <2> QED BY <1>7, <2>4, <2>5
<1>14. UnregisteredIsWhole' /\ ReceiverEmptied'
  BY <1>0, <1>1 DEF MatchInv, UnregisteredIsWhole, ReceiverEmptied, ReceiverAlive, TypeOK
<1>15. Reaches'
  <2> SUFFICES ASSUME NEW s \in Requests,
                      step'[s] \in {"locked", "asleep", "timers"}, ~txGone'[s]
               PROVE  \E i \in 0 .. last : Held(i, number[s])' = s
    BY <1>4 DEF Reaches
  <2>1. CASE s = r
    <3>1. number'[s] = seq /\ last \in 0 .. last
      BY <1>0, <1>1, <1>4, <2>1 DEF TypeOK
    <3>2. Holder(pending', updates', last, number'[s]) = s
      BY <1>0, <1>1, <1>6, <2>1, <3>1
    <3> QED BY <3>1, <3>2 DEF Held
  <2>2. CASE s # r
    <3>1. step[s] \in {"locked", "asleep", "timers"} /\ number'[s] = number[s]
          /\ ~txGone[s]
      BY <1>0, <1>1, <2>2 DEF TypeOK
    <3>2. PICK i \in 0 .. Len(updates) : Held(i, number[s]) = s
      BY <3>1 DEF MatchInv, Reaches
    <3>3. i \in 0 .. last /\ number[s] \in Numbers
      BY <1>0, <1>4, <3>1, HasNumber
    <3> QED BY <1>1, <1>5, <3>1, <3>2, <3>3 DEF Held
  <2> QED BY <2>1, <2>2
<1>16. ReleasedBefore'
  <2> SUFFICES ASSUME NEW i \in 0 .. last, NEW k \in 1 .. last, NEW n \in Numbers,
                      i < k, Removes(updates', k, n), Held(i, n)' # NoRequest
               PROVE  Released(Held(i, n))'
    BY <1>4 DEF ReleasedBefore
  <2>1. k \in 1 .. Len(updates) /\ Removes(updates, k, n)
    <3>1. k # last
      BY <1>2, <1>4 DEF Removes
    <3>2. k \in 1 .. Len(updates)
      BY <1>4, <3>1
    <3> QED BY <1>4, <3>2 DEF Removes
  <2>2. /\ i \in 0 .. Len(updates) /\ Held(i, n)' = Held(i, n)
        /\ Held(i, n) \in Requests \ {r} /\ Held(i, n) # NoRequest
    BY <1>4, <1>8, <2>1
  <2>3. Released(Held(i, n))
    BY <2>1, <2>2 DEF MatchInv, ReleasedBefore
  <2> QED BY <1>0, <1>1, <2>2, <2>3 DEF Released, TypeOK
<1> QED BY <1>9, <1>10, <1>11, <1>12, <1>13, <1>14, <1>15, <1>16 DEF MatchInv

\* The response receiver handles an update.
LEMMA MatchHandle ==
    ASSUME MatchInv, NumberInv', HandleUpdate
    PROVE  MatchInv'
<1> DEFINE u == updates
           old == pending[u[1].number]
           len == Len(updates) - 1
<1>0. /\ TypeOK /\ u \in Seq(Updates) /\ u # << >> /\ Len(u) \in Nat \ {0}
      /\ pending \in [Numbers -> Requests \cup {NoRequest}]
      /\ u[1] \in Updates /\ u[1].number \in Numbers /\ Head(u) = u[1]
  <2>1. TypeOK /\ u \in Seq(Updates) /\ u # << >>
        /\ pending \in [Numbers -> Requests \cup {NoRequest}]
    BY DEF HandleUpdate, MatchInv, NumberInv, TypeOK, Updates
  <2>2. u[1] \in Updates /\ Len(u) \in Nat \ {0} /\ Head(u) = u[1]
    BY <2>1
  <2> QED BY <2>1, <2>2 DEF Updates
<1>1. /\ updates' = Tail(u)
      /\ pending' = [pending EXCEPT ![u[1].number] = u[1].request]
      /\ txGone' = [r \in Requests |-> txGone[r] \/ r = old]
      /\ UNCHANGED <<number, step, rx, conn>> /\ conn \in {"updates", "draining"}
  BY <1>0 DEF HandleUpdate, threadVars
<1>2. /\ Len(updates') = len /\ len \in Nat
      /\ \A i \in 1 .. len : updates'[i] = u[i + 1]
      /\ \A i \in 0 .. len, n \in Numbers :
            /\ Was(u, i, n) \in 0 .. Len(u)
            /\ Was(u, i, n) <= i + 1
            /\ i > 0 => Was(u, i, n) = i + 1
            /\ Holder(pending', updates', i, n) = Holder(pending, u, Was(u, i, n), n)
            /\ \A k \in Was(u, i, n) + 1 .. Len(u) :
                    Removes(u, k, n) =>
                        k - 1 \in i + 1 .. len /\ Removes(updates', k - 1, n)
  <2>1. len \in Nat
    BY <1>0
  <2>2. Len(Tail(u)) = len /\ \A i \in 1 .. len : Tail(u)[i] = u[i + 1]
    BY <1>0
  <2>3. \A i \in 0 .. len, n \in Numbers :
            /\ Was(u, i, n) \in 0 .. Len(u)
            /\ Was(u, i, n) <= i + 1
            /\ i > 0 => Was(u, i, n) = i + 1
            /\ Holder(pending', Tail(u), i, n) = Holder(pending, u, Was(u, i, n), n)
            /\ \A k \in Was(u, i, n) + 1 .. Len(u) :
                    Removes(u, k, n) =>
                        k - 1 \in i + 1 .. len /\ Removes(Tail(u), k - 1, n)
    <3>1. pending' \in [Numbers -> Requests \cup {NoRequest}]
      BY DEF NumberInv, TypeOK
    <3> QED BY <1>0, <1>1, <3>1, QueueTail, ZenonT(60)
  <2> QED BY <1>1, <2>1, <2>2, <2>3
<1>3. \A i \in 0 .. len, n \in Numbers :
          /\ Was(u, i, n) \in 0 .. Len(u)
          /\ Held(i, n)' = Held(Was(u, i, n), n)
          /\ Held(i, n)' \in Requests \cup {NoRequest}
  BY <1>0, <1>2, HeldTypes DEF Held
<1>4. UpdateKinds'
  <2> SUFFICES ASSUME NEW i \in 1 .. len
               PROVE  updates'[i].kind = "Remove" <=> updates'[i].request = NoRequest
    BY <1>2 DEF UpdateKinds
  <2>1. i + 1 \in 1 .. Len(u) /\ updates'[i] = u[i + 1]
    BY <1>0, <1>2
  <2> QED BY <2>1 DEF MatchInv, UpdateKinds
<1>5. ASSUME NEW i \in 0 .. len, NEW n \in Numbers, Held(i, n)' # NoRequest
      PROVE  Held(i, n)' # old
  <2>1. CASE old = NoRequest
    BY <1>5, <2>1
  <2>2. CASE old # NoRequest
    <3> DEFINE w == Was(u, i, n)
    <3>1. old = Held(0, u[1].number) /\ 0 \in 0 .. Len(u)
      BY <1>0 DEF Held, Holder
    <3>2. w \in 0 .. Len(u) /\ Held(i, n)' = Held(w, n)
      BY <1>3
    <3>3. SUFFICES ASSUME Held(w, n) = old PROVE FALSE
      BY <3>2
    <3>4. number[old] = n /\ number[old] = u[1].number
      BY <1>0, <2>2, <3>1, <3>2, <3>3 DEF MatchInv, HolderKnown
    <3>5. w # 0
      BY <1>0, <1>2, <3>4 DEF Was
    <3>6. w = 0
      BY <1>0, <2>2, <3>1, <3>2, <3>3, <3>4 DEF MatchInv, HeldOnce
    <3> QED BY <3>5, <3>6
  <2> QED BY <2>1, <2>2
<1>6. HolderKnown'
  <2> SUFFICES ASSUME NEW i \in 0 .. len, NEW n \in Numbers, Held(i, n)' # NoRequest
               PROVE  /\ number'[Held(i, n)'] = n /\ ~txGone'[Held(i, n)']
                      /\ step'[Held(i, n)'] \notin {"unsent", "checked"}
    BY <1>2 DEF HolderKnown
  <2> DEFINE r == Held(Was(u, i, n), n)
  <2>1. Was(u, i, n) \in 0 .. Len(u) /\ Held(i, n)' = r /\ r \in Requests /\ r # old
    BY <1>3, <1>5
  <2>2. number[r] = n /\ ~txGone[r] /\ step[r] \notin {"unsent", "checked"}
    BY <2>1 DEF MatchInv, HolderKnown
  <2> HIDE DEF r
  <2> QED BY <1>1, <2>1, <2>2
<1>7. HeldOnce'
  <2> SUFFICES ASSUME NEW i \in 0 .. len, NEW j \in 0 .. len, NEW n \in Numbers,
                      Held(i, n)' # NoRequest, Held(i, n)' = Held(j, n)'
               PROVE  i = j
    BY <1>2 DEF HeldOnce
  <2>1. Was(u, i, n) = Was(u, j, n)
    BY <1>3 DEF MatchInv, HeldOnce
  <2> QED BY <1>2, <2>1 DEF Was
<1>8. RemovedBetween'
  <2> SUFFICES ASSUME NEW i \in 0 .. len, NEW j \in 0 .. len, NEW n \in Numbers,
                      i < j, Held(i, n)' # NoRequest, Held(j, n)' # NoRequest
               PROVE  \E k \in i + 1 .. j - 1 : Removes(updates', k, n)
    BY <1>2 DEF RemovedBetween
  <2>1. /\ Was(u, i, n) \in 0 .. Len(u) /\ Was(u, j, n) \in 0 .. Len(u)
        /\ Was(u, i, n) <= i + 1 /\ Was(u, j, n) = j + 1
        /\ Was(u, i, n) < Was(u, j, n)
    BY <1>2
  <2>2. PICK k \in Was(u, i, n) + 1 .. Was(u, j, n) - 1 : Removes(u, k, n)
    BY <1>3, <2>1 DEF MatchInv, RemovedBetween
  <2>3. k \in Was(u, i, n) + 1 .. Len(u) /\ k <= j
    BY <1>2, <2>1
  <2>4. k - 1 \in i + 1 .. len /\ Removes(updates', k - 1, n)
    BY <1>2, <2>2, <2>3
  <2>5. k - 1 \in i + 1 .. j - 1
    BY <1>2, <2>1, <2>3, <2>4
  <2> QED BY <2>4, <2>5
<1>9. RemovedAfter'
  <2> SUFFICES ASSUME NEW i \in 0 .. len, NEW n \in Numbers,
                      Held(i, n)' # NoRequest, Released(Held(i, n))'
               PROVE  \E k \in i + 1 .. len : Removes(updates', k, n)
    BY <1>2 DEF RemovedAfter
  <2>1. Was(u, i, n) \in 0 .. Len(u) /\ Held(i, n)' = Held(Was(u, i, n), n)
    BY <1>3
  <2>2. Released(Held(Was(u, i, n), n))
    BY <1>1, <2>1 DEF Released
  <2>3. PICK k \in Was(u, i, n) + 1 .. Len(u) : Removes(u, k, n)
    BY <2>1, <2>2 DEF MatchInv, RemovedAfter
  <2> QED BY <1>2, <2>3
<1>10. UnregisteredIsWhole'
  <2>1. old # NoRequest => step[old] \notin {"unsent", "checked"}
    <3>1. old = Held(0, u[1].number) /\ 0 \in 0 .. Len(u)
      BY <1>0 DEF Held, Holder
    <3> QED BY <1>0, <3>1 DEF MatchInv, HolderKnown
  <2> QED BY <1>1, <2>1, RequestsAssumption DEF MatchInv, UnregisteredIsWhole
<1>11. ReceiverEmptied'
  BY <1>1 DEF ReceiverEmptied
<1>12. Reaches'
  <2> SUFFICES ASSUME NEW s \in Requests,
                      step'[s] \in {"locked", "asleep", "timers"}, ~txGone'[s]
               PROVE  \E i \in 0 .. len : Held(i, number[s])' = s
    BY <1>2 DEF Reaches
  <2> DEFINE n == number[s]
  <2>1. /\ step[s] \in {"locked", "asleep", "timers"} /\ ~txGone[s] /\ s # old
        /\ n \in Numbers /\ number' = number
    BY <1>1, HasNumber DEF MatchInv
  <2>2. PICK j \in 0 .. Len(u) : Held(j, n) = s
    BY <2>1 DEF MatchInv, Reaches
  <2> HIDE DEF n
  <2>3. \E i \in 0 .. len : Was(u, i, n) = j
    <3>1. CASE j = 0
      <4>1. u[1].number # n
        BY <1>0, <2>1, <2>2, <3>1 DEF Held, Holder
      <4>2. 0 \in 0 .. len /\ Was(u, 0, n) = 0
        BY <1>2, <4>1 DEF Was
      <4> QED BY <3>1, <4>2
    <3>2. CASE j = 1
      <4>1. u[1].number = n
        BY <2>1, <2>2, <3>2, RequestsAssumption DEF Held, Holder
      <4> QED BY <1>2, <3>2, <4>1 DEF Was
    <3>3. CASE j > 1
      <4>1. j - 1 \in 0 .. len /\ Was(u, j - 1, n) = j
        BY <1>0, <3>3 DEF Was
      <4> QED BY <4>1
    <3> QED BY <1>0, <3>1, <3>2, <3>3
  <2>4. PICK i \in 0 .. len : Was(u, i, n) = j
    BY <2>3
  <2>5. Holder(pending', updates', i, n) = s
    BY <1>2, <2>1, <2>2, <2>4 DEF Held
  <2> QED BY <2>1, <2>5 DEF Held, n
<1>13. ReleasedBefore'
  <2> SUFFICES ASSUME NEW i \in 0 .. len, NEW k \in 1 .. len, NEW n \in Numbers,
                      i < k, Removes(updates', k, n), Held(i, n)' # NoRequest
               PROVE  Released(Held(i, n))'
    BY <1>2 DEF ReleasedBefore
  <2> DEFINE w == Was(u, i, n)
  <2>1. w \in 0 .. Len(u) /\ Held(i, n)' = Held(w, n) /\ w <= i + 1
    BY <1>2, <1>3
  <2>2. k + 1 \in 1 .. Len(u) /\ Removes(u, k + 1, n)
    BY <1>0, <1>2 DEF Removes
  <2> HIDE DEF w
  <2>3. w < k + 1
    BY <1>2, <2>1
  <2>4. Released(Held(w, n))
    BY <2>1, <2>2, <2>3 DEF MatchInv, ReleasedBefore
  <2> QED BY <1>1, <2>1, <2>4 DEF Released
<1> QED BY <1>4, <1>6, <1>7, <1>8, <1>9, <1>10, <1>11, <1>12, <1>13 DEF MatchInv

\* The map loses entries, and with each the sending half of a oneshot; the
\* channel stays.
LEMMA MatchTake ==
    ASSUME MatchInv, NumberInv', ReceiverEmptied',
           UNCHANGED <<updates, number, step, rx>>,
           \A n \in Numbers : pending'[n] \in {pending[n], NoRequest},
           \A r \in Requests :
                txGone'[r] <=> \/ txGone[r]
                               \/ \E n \in Numbers :
                                    pending[n] = r /\ pending'[n] = NoRequest
    PROVE  MatchInv'
<1>0. TypeOK /\ Len(updates) \in Nat /\ 0 \in 0 .. Len(updates)
  <2>1. TypeOK /\ updates \in Seq(Updates)
    BY DEF MatchInv, NumberInv, TypeOK, Updates
  <2> QED BY <2>1
<1>1. \A n \in Numbers : Held(0, n) = pending[n] /\ Held(0, n)' = pending'[n]
  BY DEF Held, Holder
<1>2. \A i \in 1 .. Len(updates), n \in Numbers : Held(i, n)' = Held(i, n)
  BY DEF Held, Holder
<1>3. \A i \in 0 .. Len(updates), n \in Numbers :
          Held(i, n)' # NoRequest =>
              Held(i, n)' = Held(i, n) /\ Held(i, n) \in Requests
  <2> SUFFICES ASSUME NEW i \in 0 .. Len(updates), NEW n \in Numbers,
                      Held(i, n)' # NoRequest
               PROVE  Held(i, n)' = Held(i, n)
    BY <1>0, HeldTypes
  <2>1. CASE i = 0
    BY <2>1 DEF Held, Holder
  <2>2. CASE i \in 1 .. Len(updates)
    BY <1>2, <2>2
  <2> QED BY <1>0, <2>1, <2>2
<1>4. UpdateKinds' /\ ReceiverEmptied'
  BY DEF MatchInv, UpdateKinds
<1>5. HolderKnown'
  <2> SUFFICES ASSUME NEW i \in 0 .. Len(updates), NEW n \in Numbers,
                      Held(i, n)' # NoRequest
               PROVE  /\ number'[Held(i, n)'] = n /\ ~txGone'[Held(i, n)']
                      /\ step'[Held(i, n)'] \notin {"unsent", "checked"}
    BY DEF HolderKnown
  <2> DEFINE r == Held(i, n)
  <2>1. Held(i, n)' = r /\ r \in Requests /\ r # NoRequest
    BY <1>3
  <2>2. number[r] = n /\ ~txGone[r] /\ step[r] \notin {"unsent", "checked"}
    BY <2>1 DEF MatchInv, HolderKnown
  <2>3. ASSUME NEW m \in Numbers, pending[m] = r
        PROVE  pending'[m] = r
    <3>1. number[r] = m
      BY <1>0, <1>1, <2>1, <2>3 DEF MatchInv, HolderKnown
    <3>2. i = 0
      BY <1>0, <1>1, <2>1, <2>2, <2>3, <3>1 DEF MatchInv, HeldOnce
    <3> QED BY <2>1, <2>2, <3>1, <3>2 DEF Held, Holder
  <2> HIDE DEF r
  <2> QED BY <2>1, <2>2, <2>3
<1>6. HeldOnce' /\ RemovedBetween'
  BY <1>3 DEF MatchInv, HeldOnce, RemovedBetween
<1>7. RemovedAfter'
  <2> SUFFICES ASSUME NEW i \in 0 .. Len(updates), NEW n \in Numbers,
                      Held(i, n)' # NoRequest, Released(Held(i, n))'
               PROVE  \E k \in i + 1 .. Len(updates) : Removes(updates, k, n)
    BY DEF RemovedAfter
  <2>1. Held(i, n) # NoRequest /\ Released(Held(i, n))
    BY <1>3 DEF Released
  <2> QED BY <2>1 DEF MatchInv, RemovedAfter
<1>8. UnregisteredIsWhole'
  <2> SUFFICES ASSUME NEW r \in Requests, step[r] \in {"unsent", "checked"}
               PROVE  ~txGone'[r]
    BY DEF UnregisteredIsWhole
  <2>1. \A n \in Numbers : pending[n] # r
    BY <1>0, <1>1, NotHeldBefore
  <2> QED BY <2>1 DEF MatchInv, UnregisteredIsWhole
<1>9. Reaches'
  <2> SUFFICES ASSUME NEW s \in Requests,
                      step[s] \in {"locked", "asleep", "timers"}, ~txGone'[s]
               PROVE  \E i \in 0 .. Len(updates) : Held(i, number[s])' = s
    BY DEF Reaches
  <2>1. number[s] \in Numbers /\ ~txGone[s]
    BY HasNumber DEF MatchInv
  <2>2. PICK i \in 0 .. Len(updates) : Held(i, number[s]) = s
    BY <2>1 DEF MatchInv, Reaches
  <2>3. CASE i = 0
    <3>1. pending[number[s]] = s
      BY <1>1, <2>1, <2>2, <2>3
    <3>2. pending'[number[s]] = s
      BY <2>1, <3>1
    <3> QED BY <2>1, <2>3, <3>2 DEF Held, Holder
  <2>4. CASE i \in 1 .. Len(updates)
    BY <1>2, <2>1, <2>2, <2>4 DEF Held
  <2> QED BY <1>0, <2>3, <2>4
<1>10. ReleasedBefore'
  <2> SUFFICES ASSUME NEW i \in 0 .. Len(updates), NEW k \in 1 .. Len(updates),
                      NEW n \in Numbers,
                      i < k, Removes(updates, k, n), Held(i, n)' # NoRequest
               PROVE  Released(Held(i, n))'
    BY DEF ReleasedBefore
  <2>1. Held(i, n)' = Held(i, n) /\ Released(Held(i, n))
    BY <1>3 DEF MatchInv, ReleasedBefore
  <2> QED BY <2>1 DEF Released
<1> QED BY <1>4, <1>5, <1>6, <1>7, <1>8, <1>9, <1>10 DEF MatchInv

\* The channel is dropped with what is in it.
LEMMA MatchDrop ==
    ASSUME MatchInv, NumberInv', DropUpdates
    PROVE  MatchInv'
<1> DEFINE lost == {updates[i].request : i \in DOMAIN updates} \ {NoRequest}
<1>0. TypeOK /\ updates \in Seq(Updates) /\ DOMAIN updates = 1 .. Len(updates)
      /\ Len(updates) \in Nat
  <2>1. TypeOK /\ updates \in Seq(Updates)
    BY DEF MatchInv, NumberInv, TypeOK, Updates
  <2> QED BY <2>1
<1>1. /\ conn = "closing" /\ updates' = << >>
      /\ txGone' = [r \in Requests |-> txGone[r] \/ r \in lost]
      /\ UNCHANGED <<number, step, rx, pending>>
      /\ \A n \in Numbers : pending[n] = NoRequest
  BY DEF DropUpdates, MatchInv, ReceiverEmptied
<1>2. Len(updates') = 0 /\ 0 .. Len(updates') = {0} /\ 1 .. Len(updates') = {}
  BY <1>1
<1>3. \A n \in Numbers : Held(0, n) = NoRequest /\ Held(0, n)' = NoRequest
  BY <1>1 DEF Held, Holder
<1>4. UpdateKinds' /\ HolderKnown' /\ HeldOnce' /\ RemovedBetween' /\ RemovedAfter'
      /\ ReleasedBefore'
  BY <1>2, <1>3 DEF UpdateKinds, HolderKnown, HeldOnce, RemovedBetween, RemovedAfter,
     ReleasedBefore
<1>5. ReceiverEmptied'
  BY <1>1 DEF ReceiverEmptied
<1>6. ASSUME NEW i \in 1 .. Len(updates), updates[i].request \in Requests
      PROVE  /\ updates[i].number \in Numbers
             /\ Held(i, updates[i].number) = updates[i].request
  <2>1. updates[i] \in Updates
    BY <1>0
  <2>2. updates[i].number \in Numbers
    BY <2>1 DEF Updates
  <2> QED BY <2>2 DEF Held, Holder
<1>7. UnregisteredIsWhole'
  <2> SUFFICES ASSUME NEW r \in Requests, step[r] \in {"unsent", "checked"}
               PROVE  ~txGone'[r]
    BY <1>1 DEF UnregisteredIsWhole
  <2>1. r \notin lost
    <3>1. \A i \in 1 .. Len(updates) : updates[i].request # r
      BY <1>0, <1>6, NotHeldBefore
    <3> QED BY <1>0, <3>1
  <2> QED BY <1>1, <2>1 DEF MatchInv, UnregisteredIsWhole
<1>8. Reaches'
  <2> SUFFICES ASSUME NEW s \in Requests,
                      step[s] \in {"locked", "asleep", "timers"}, ~txGone'[s]
               PROVE  FALSE
    BY <1>1 DEF Reaches
  <2>1. number[s] \in Numbers /\ ~txGone[s] /\ s \notin lost
    BY <1>1, HasNumber DEF MatchInv
  <2>2. PICK i \in 0 .. Len(updates) : Held(i, number[s]) = s
    BY <2>1 DEF MatchInv, Reaches
  <2>3. i # 0
    BY <1>3, <2>1, <2>2, RequestsAssumption
  <2>4. i \in 1 .. Len(updates) /\ updates[i].request = s
    BY <1>0, <2>2, <2>3, RequestsAssumption DEF Held, Holder
  <2> QED BY <1>0, <2>1, <2>4, RequestsAssumption
<1> QED BY <1>4, <1>5, <1>7, <1>8 DEF MatchInv

\* A request without a use for its oneshot is not registered, or is released
\* already: SendRequest::drop need not remove it.
LEMMA CanceledIsReleased ==
    ASSUME MatchInv, NEW r \in Requests, Canceled(r)
    PROVE  \/ Released(r)
           \/ \A i \in 0 .. Len(updates), n \in Numbers : Held(i, n) # r
BY RequestsAssumption DEF Canceled, Released, MatchInv, HolderKnown

\* Without a receiver nobody is registered.
LEMMA GoneHoldsNobody ==
    ASSUME MatchInv, ~ReceiverAlive
    PROVE  \A i \in 0 .. Len(updates), n \in Numbers : Held(i, n) = NoRequest
<1>1. conn = "gone" /\ updates = << >> /\ \A n \in Numbers : pending[n] = NoRequest
  BY DEF ReceiverAlive, MatchInv, ReceiverEmptied
<1>2. Len(updates) = 0
  BY <1>1
<1> QED BY <1>1, <1>2 DEF Held, Holder

\* Every step of a thread keeps the invariant about registration.
LEMMA MatchThread ==
    ASSUME MatchInv, NumberInv', NEW r \in Requests, ThreadStep(r)
    PROVE  MatchInv'
<1> USE DEF threadVars, oneshotVars, wireVars, handleVars
<1>0. TypeOK /\ ReceiverEmptied /\ conn' = conn /\ pending' = pending
      /\ txGone' = txGone
  BY DEF MatchInv, NumberInv, ThreadStep, PollFuture, CheckAllowed, AddPending,
     SendMessage, PollRequestEnds, PollRequestContinues, PollRequestNotReady,
     PollTimers, DropFuture, TimerExpires
<1>1. CASE CheckAllowed(r)
  <2>1. /\ step[r] = "unsent"
        /\ \E x \in {"checked", "ended"} : step' = [step EXCEPT ![r] = x]
        /\ UNCHANGED <<pending, updates, txGone, number, rx, conn>>
    BY <1>1 DEF CheckAllowed, FailClosed
  <2>2. \A i \in 0 .. Len(updates), n \in Numbers : Held(i, n) # r
    BY <2>1, NotHeldBefore
  <2>3. ReceiverEmptied'
    BY <1>0, <2>1 DEF ReceiverEmptied
  <2>4. \A s \in Requests : /\ s # r => step'[s] = step[s]
                            /\ step'[r] \in {"checked", "ended"}
    BY <1>0, <2>1 DEF TypeOK
  <2> QED BY <2>1, <2>2, <2>3, <2>4, MatchSame DEF Released
<1>2. CASE AddPending(r)
  <2>1. CASE ReceiverAlive
    BY <1>2, <2>1, MatchAdd
  <2>2. CASE ~ReceiverAlive
    <3>1. /\ step[r] = "checked" /\ step' = [step EXCEPT ![r] = "ended"]
          /\ UNCHANGED <<pending, updates, txGone, number, rx, conn>>
      BY <1>2, <2>2 DEF AddPending, FailClosed
    <3>2. \A i \in 0 .. Len(updates), n \in Numbers : Held(i, n) # r
      BY <3>1, NotHeldBefore
    <3>3. ReceiverEmptied'
      BY <1>0, <3>1 DEF ReceiverEmptied
    <3>4. \A s \in Requests : /\ s # r => step'[s] = step[s]
                              /\ step'[r] = "ended"
      BY <1>0, <3>1 DEF TypeOK
    <3> QED BY <3>1, <3>2, <3>3, <3>4, MatchSame DEF Released
  <2> QED BY <2>1, <2>2
<1>3. ASSUME \/ SendMessage(r) /\ ~senderAlive
             \/ PollTimers(r) /\ rx'[r] = "closed"
             \/ DropFuture(r)
      PROVE  MatchInv'
  <2>1. /\ step[r] \in {"locked", "asleep", "timers"}
        /\ step'[r] \in {"asleep", "ended"}
        /\ \A s \in Requests \ {r} : step'[s] = step[s] /\ rx'[s] = rx[s]
        /\ number' = number /\ (step'[r] = "ended" \/ rx'[r] = "closed")
    BY <1>0, <1>3 DEF SendMessage, FailClosed, PollTimers, DropFuture, TypeOK
  <2>2. \/ ReceiverAlive /\ updates' = Append(updates, Remove(number[r]))
        \/ updates' = updates /\ (~ReceiverAlive \/ Canceled(r))
        \/ PollTimers(r) /\ updates' = updates /\ rx' = rx
    <3>1. SendUpdate(Remove(number[r])) =>
              \/ ReceiverAlive /\ updates' = Append(updates, Remove(number[r]))
              \/ ~ReceiverAlive /\ updates' = updates
      BY DEF SendUpdate
    <3>2. CASE SendMessage(r) /\ ~senderAlive
      BY <3>1, <3>2 DEF SendMessage
    <3>3. CASE PollTimers(r)
      BY <3>1, <3>3 DEF PollTimers
    <3>4. CASE DropFuture(r)
      BY <3>1, <3>4 DEF DropFuture
    <3> QED BY <1>3, <3>2, <3>3, <3>4
  <2>3. CASE ReceiverAlive /\ updates' = Append(updates, Remove(number[r]))
    BY <1>0, <2>1, <2>3, MatchRemove DEF Released
  <2>4. CASE updates' = updates
    <3>1. \/ Released(r)
          \/ \A i \in 0 .. Len(updates), n \in Numbers : Held(i, n) # r
      <4>1. CASE ~ReceiverAlive
        BY <4>1, GoneHoldsNobody, RequestsAssumption
      <4>2. CASE Canceled(r)
        BY <4>2, CanceledIsReleased
      <4>3. CASE PollTimers(r) /\ rx' = rx
        BY <1>3, <4>3 DEF Released, SendMessage, DropFuture, PollTimers
      <4>4. CASE ReceiverAlive /\ updates' = Append(updates, Remove(number[r]))
        <5>1. updates \in Seq(Updates)
          BY <1>0 DEF TypeOK, Updates
        <5>2. Len(updates') = Len(updates) + 1 /\ Len(updates) \in Nat
          BY <4>4, <5>1
        <5> QED BY <2>4, <5>2
      <4> QED BY <2>2, <4>1, <4>2, <4>3, <4>4
    <3>2. ReceiverEmptied'
      BY <1>0, <2>4 DEF ReceiverEmptied
    <3> QED BY <1>0, <2>1, <2>4, <3>1, <3>2, MatchSame DEF Released
  <2> QED BY <2>2, <2>3, <2>4
<1>4. ASSUME \/ SendMessage(r) /\ senderAlive
             \/ PollTimers(r) /\ rx' = rx /\ updates' = updates
             \/ PollRequestEnds(r) \/ PollRequestContinues(r) \/ PollRequestNotReady(r)
             \/ \E timer \in Timers : TimerExpires(r, timer)
      PROVE  MatchInv'
  <2>1. /\ UNCHANGED <<updates, rx, number>>
        /\ \/ step' = step
           \/ /\ step[r] \in {"locked", "asleep", "timers"}
              /\ \E x \in {"asleep", "timers"} : step' = [step EXCEPT ![r] = x]
    BY <1>4 DEF SendMessage, PollTimers, PollRequestEnds, PollRequestContinues,
       PollRequestNotReady, TimerExpires
  <2>2. \A s \in Requests :
            \/ step'[s] = step[s]
            \/ /\ step[s] \in {"locked", "asleep", "timers"}
               /\ step'[s] \in {"asleep", "timers"}
    BY <1>0, <2>1 DEF TypeOK
  <2>3. ReceiverEmptied'
    BY <1>0, <2>1 DEF ReceiverEmptied
  <2>4. \A s \in Requests : Released(s)' <=> Released(s)
    BY <2>1, <2>2 DEF Released
  <2> QED BY <1>0, <2>1, <2>2, <2>3, <2>4, MatchSame
<1>5. PollTimers(r) => rx'[r] = "closed" \/ (rx' = rx /\ updates' = updates)
  BY <1>0 DEF PollTimers, TypeOK
<1> QED BY <1>1, <1>2, <1>3, <1>4, <1>5 DEF ThreadStep, PollFuture

\* Every step of the connection task keeps the invariant about registration.
LEMMA MatchConnection ==
    ASSUME MatchInv, NumberInv', ConnectionStep
    PROVE  MatchInv'
<1> USE DEF threadVars, oneshotVars, wireVars, handleVars
<1>0. TypeOK /\ ReceiverEmptied
  BY DEF MatchInv, NumberInv
<1>1. CASE HandleUpdate
  BY <1>1, MatchHandle
<1>2. CASE \/ UpdatesNotReady \/ UpdatesEnded \/ StreamNotReady \/ StreamEnds
           \/ PollSender \/ DisallowRequests
  <2>1. UNCHANGED <<pending, updates, txGone, number, step, rx>>
    BY <1>2 DEF UpdatesNotReady, UpdatesEnded, StreamNotReady, StreamEnds,
       PollSender, DisallowRequests
  <2>2. ReceiverEmptied'
    BY <1>0, <1>2, <2>1 DEF UpdatesNotReady, UpdatesEnded, StreamNotReady,
       StreamEnds, PollSender, DisallowRequests, ReceiverEmptied
  <2> QED BY <2>1, <2>2, MatchSame DEF Released
<1>3. CASE ReadResponse
  <2> DEFINE n == Head(stream).number
  <2>1. n \in Numbers
    <3> DEFINE Responses == [number : Numbers, continue : BOOLEAN]
    <3>1. stream \in Seq(Responses) /\ stream # << >>
      BY <1>0, <1>3 DEF ReadResponse, TypeOK
    <3> HIDE DEF Responses
    <3>2. Head(stream) \in Responses
      BY <3>1
    <3> QED BY <3>2 DEF Responses
  <2>2. HandleContinue(n) \/ HandleFinal(n)
    BY <1>3 DEF ReadResponse
  <2>3. UNCHANGED <<updates, number, step, rx, conn>> /\ conn = "stream"
    BY <1>3 DEF ReadResponse
  <2> HIDE DEF n
  <2>4. \/ UNCHANGED <<pending, txGone>>
        \/ /\ pending[n] # NoRequest
           /\ pending' = [pending EXCEPT ![n] = NoRequest]
           /\ txGone' = [txGone EXCEPT ![pending[n]] = TRUE]
    BY <2>2 DEF HandleContinue, HandleFinal
  <2>5. ReceiverEmptied'
    BY <2>3 DEF ReceiverEmptied
  <2>6. CASE UNCHANGED <<pending, txGone>>
    BY <2>3, <2>5, <2>6, MatchSame DEF Released
  <2>7. CASE /\ pending[n] # NoRequest
             /\ pending' = [pending EXCEPT ![n] = NoRequest]
             /\ txGone' = [txGone EXCEPT ![pending[n]] = TRUE]
    <3>1. pending[n] \in Requests
      BY <1>0, <2>1, <2>7 DEF TypeOK
    <3>2. \A m \in Numbers : pending'[m] = IF m = n THEN NoRequest ELSE pending[m]
      BY <1>0, <2>7 DEF TypeOK
    <3>3. \A r \in Requests : txGone'[r] <=> txGone[r] \/ pending[n] = r
      BY <1>0, <2>7, <3>1 DEF TypeOK
    <3>4. \A m \in Numbers : pending'[m] \in {pending[m], NoRequest}
      BY <3>2
    <3>5. ASSUME NEW r \in Requests
          PROVE  pending[n] = r <=>
                    \E m \in Numbers : pending[m] = r /\ pending'[m] = NoRequest
      BY <2>1, <3>2, RequestsAssumption
    <3> QED BY <2>3, <2>5, <3>3, <3>4, <3>5, MatchTake
  <2> QED BY <2>4, <2>6, <2>7
<1>4. CASE CancelPending
  <2>1. /\ \A n \in Numbers : pending'[n] = NoRequest
        /\ UNCHANGED <<updates, number, step, rx>> /\ conn' = "closing"
        /\ \A r \in Requests :
              txGone'[r] <=> txGone[r] \/ \E n \in Numbers : pending[n] = r
    BY <1>4 DEF CancelPending
  <2>2. ReceiverEmptied'
    BY <2>1 DEF ReceiverEmptied
  <2> QED BY <2>1, <2>2, MatchTake
<1>5. CASE DropUpdates
  BY <1>5, MatchDrop
<1> QED BY <1>1, <1>2, <1>3, <1>4, <1>5 DEF ConnectionStep

\* Every step keeps the invariant about registration.
LEMMA MatchNext == MatchInv /\ [Next]_vars => MatchInv'
<1> SUFFICES ASSUME MatchInv, [Next]_vars PROVE MatchInv'
  OBVIOUS
<1> USE DEF threadVars, oneshotVars, wireVars, handleVars
<1>1. NumberInv'
  BY NumberNext DEF MatchInv
<1>2. ASSUME NEW r \in Requests, ThreadStep(r) PROVE MatchInv'
  BY <1>1, <1>2, MatchThread
<1>3. CASE ConnectionStep
  BY <1>1, <1>3, MatchConnection
<1>4. CASE \/ DropHandle
           \/ \E n \in Numbers : PeerAnswers(n)
           \/ UNCHANGED vars
  <2>1. UNCHANGED <<pending, updates, txGone, number, step, rx, conn>>
    BY <1>4 DEF DropHandle, PeerAnswers, vars
  <2>2. ReceiverEmptied'
    BY <2>1 DEF MatchInv, ReceiverEmptied
  <2> QED BY <1>1, <2>1, <2>2, MatchSame DEF Released
<1> QED BY <1>2, <1>3, <1>4 DEF Next

\* Requests are registered once, under their own numbers, and removed.
LEMMA MatchInvariant == Spec => []MatchInv
BY MatchInit, MatchNext, PTL DEF Spec

-----------------------------------------------------------------------------
(* Responses. *)

\* A new connection has sent and received nothing.
LEMMA ResponseInit == Init => ResponseInv
<1> SUFFICES ASSUME Init PROVE ResponseInv
  OBVIOUS
<1>1. Len(outgoing) = 0 /\ Len(stream) = 0
  BY DEF Init
<1>2. \A n \in Numbers : peer[n] = 0
  BY DEF Init
<1>3. AnswersSent
  BY <1>1, <1>2 DEF AnswersSent
<1>4. AddedBeforeAnswered
  BY DEF Init, AddedBeforeAnswered
<1> QED BY <1>3, <1>4, MatchInit DEF ResponseInv

\* A step that leaves the wire alone and adds nobody.
LEMMA ResponseSame ==
    ASSUME ResponseInv, MatchInv',
           UNCHANGED <<outgoing, peer, stream, sequenceNumber>>,
           conn' \in {"stream", "write"} =>
                conn \in {"stream", "write"} \/ updates' = << >>,
           \/ updates' = updates
           \/ updates' = << >>
           \/ \E n \in Numbers : updates' = Append(updates, Remove(n))
    PROVE  ResponseInv'
<1>1. AnswersSent'
  BY DEF ResponseInv, AnswersSent
<1>2. CASE updates' = << >>
  <2>1. 1 .. Len(updates') = {}
    BY <1>2
  <2> QED BY <1>1, <2>1 DEF ResponseInv, AddedBeforeAnswered
<1>3. CASE updates' = updates
  BY <1>1, <1>2, <1>3 DEF ResponseInv, AddedBeforeAnswered
<1>4. ASSUME NEW n \in Numbers, updates' = Append(updates, Remove(n))
      PROVE  ResponseInv'
  <2> DEFINE w == Remove(n)
  <2>1. updates \in Seq(Updates) /\ w \in Updates /\ w.request = NoRequest
    BY DEF ResponseInv, MatchInv, NumberInv, TypeOK, Updates, Remove
  <2> HIDE DEF w
  <2>2. /\ Len(updates') = Len(updates) + 1 /\ Len(updates) \in Nat
        /\ updates'[Len(updates) + 1] = w
        /\ \A i \in 1 .. Len(updates) : updates'[i] = updates[i]
    BY <1>4, <2>1 DEF w
  <2>3. \A i \in 1 .. Len(updates') : updates'[i].request # NoRequest =>
            i \in 1 .. Len(updates) /\ updates'[i] = updates[i]
    BY <2>1, <2>2
  <2>4. updates' # << >>
    BY <2>2
  <2>5. AddedBeforeAnswered'
    BY <2>3, <2>4 DEF ResponseInv, AddedBeforeAnswered
  <2> QED BY <1>1, <2>5 DEF ResponseInv
<1> QED BY <1>2, <1>3, <1>4

\* Every step keeps the invariant about responses.
LEMMA ResponseNext == ResponseInv /\ [Next]_vars => ResponseInv'
<1> SUFFICES ASSUME ResponseInv, [Next]_vars PROVE ResponseInv'
  OBVIOUS
<1> USE DEF threadVars, oneshotVars, wireVars, handleVars
<1> DEFINE Responses == [number : Numbers, continue : BOOLEAN]
<1>0. /\ MatchInv /\ MatchInv' /\ NumberInv /\ TypeOK
      /\ AnswersSent /\ AddedBeforeAnswered
  BY MatchNext DEF ResponseInv, MatchInv, NumberInv
<1>t. /\ updates \in Seq(Updates) /\ outgoing \in Seq(Numbers)
      /\ stream \in Seq(Responses) /\ sequenceNumber \in Numbers
      /\ sequenceNumber \in Nat
      /\ peer \in [Numbers -> 0 .. MaxContinues + 1]
      /\ \A n \in Numbers : peer[n] \in Nat
  <2>1. peer \in [Numbers -> 0 .. MaxContinues + 1]
    BY <1>0 DEF TypeOK
  <2>2. \A n \in Numbers : peer[n] \in Nat
    BY <2>1, TimersAssumption
  <2> QED BY <1>0, <2>1, <2>2, NumbersType DEF TypeOK, Updates
<1> HIDE DEF Responses
<1>1. ASSUME NEW r \in Requests, ThreadStep(r) PROVE ResponseInv'
  <2>1. CASE AddPending(r) /\ ReceiverAlive
    <3> DEFINE w == Add(r)
    <3>1. /\ w \in Updates /\ w.number = sequenceNumber
          /\ updates' = Append(updates, w)
          /\ UNCHANGED <<outgoing, peer, stream, sequenceNumber, conn>>
      BY <1>t, <2>1 DEF AddPending, Add, Updates
    <3> HIDE DEF w
    <3>2. /\ Len(updates') = Len(updates) + 1 /\ Len(updates) \in Nat
          /\ updates'[Len(updates) + 1] = w
          /\ \A i \in 1 .. Len(updates) : updates'[i] = updates[i]
      BY <1>t, <3>1
    <3>3. AnswersSent'
      BY <1>0, <3>1 DEF AnswersSent
    <3>4. ~(peer[sequenceNumber] > 0)
      BY <1>0, <1>t DEF AnswersSent
    <3>5. peer[sequenceNumber] = 0
      BY <1>t, <3>4
    <3>6. \A j \in 1 .. Len(stream) : stream[j].number # sequenceNumber
      BY <1>0, <1>t DEF AnswersSent
    <3>7. \A i \in 1 .. Len(updates') :
              \/ i \in 1 .. Len(updates) /\ updates'[i] = updates[i]
              \/ updates'[i].number = sequenceNumber
      BY <3>1, <3>2
    <3>8. AddedBeforeAnswered'
      BY <1>0, <3>1, <3>5, <3>6, <3>7 DEF AddedBeforeAnswered
    <3> QED BY <1>0, <3>3, <3>8 DEF ResponseInv
  <2>2. CASE SendMessage(r) /\ senderAlive
    <3>1. /\ outgoing' = Append(outgoing, number[r])
          /\ sequenceNumber' = sequenceNumber + 1
          /\ number[r] = sequenceNumber /\ number[r] \in Numbers
          /\ UNCHANGED <<peer, stream, updates, conn>>
      BY <1>0, <2>2, HasNumber DEF SendMessage, NumberInv, NumbersTaken
    <3>2. /\ Len(outgoing') = Len(outgoing) + 1 /\ Len(outgoing) \in Nat
          /\ outgoing'[Len(outgoing) + 1] = sequenceNumber
          /\ \A i \in 1 .. Len(outgoing) : outgoing'[i] = outgoing[i]
      BY <1>t, <3>1
    <3>3. /\ \A i \in 1 .. Len(outgoing) : outgoing[i] \in Nat
          /\ \A i \in 1 .. Len(stream) : stream[i].number \in Nat
      <4>1. \A i \in 1 .. Len(outgoing) : outgoing[i] \in Numbers
        BY <1>t
      <4>2. \A i \in 1 .. Len(stream) : stream[i] \in Responses
        BY <1>t
      <4>3. \A i \in 1 .. Len(stream) : stream[i].number \in Numbers
        BY <4>2 DEF Responses
      <4> QED BY <4>1, <4>3, NumbersType
    <3>4. \A i \in 1 .. Len(outgoing') : outgoing'[i] < sequenceNumber'
      <4>1. \A i \in 1 .. Len(outgoing') : i \in 1 .. Len(outgoing) \/ i = Len(outgoing) + 1
        BY <3>2
      <4>2. \A i \in 1 .. Len(outgoing) : outgoing[i] < sequenceNumber
        BY <1>0 DEF AnswersSent
      <4> QED BY <1>t, <3>1, <3>2, <3>3, <4>1, <4>2
    <3>5. \A n \in Numbers : peer'[n] > 0 => n < sequenceNumber'
      <4>1. \A n \in Numbers : n \in Nat
        BY NumbersType
      <4>2. \A n \in Numbers : peer[n] > 0 => n < sequenceNumber
        BY <1>0 DEF AnswersSent
      <4>3. peer' = peer /\ sequenceNumber' = sequenceNumber + 1 /\ sequenceNumber \in Nat
        BY <1>t, <3>1
      <4>4. \A n \in Numbers : n < sequenceNumber => n < sequenceNumber'
        BY <4>1, <4>3
      <4> QED BY <4>2, <4>3, <4>4
    <3>6. \A i \in 1 .. Len(stream') : stream'[i].number < sequenceNumber'
      BY <1>0, <1>t, <3>1, <3>3 DEF AnswersSent
    <3>7. AddedBeforeAnswered'
      BY <1>0, <3>1 DEF AddedBeforeAnswered
    <3> QED BY <1>0, <3>4, <3>5, <3>6, <3>7 DEF ResponseInv, AnswersSent
  <2>3. CASE ~(AddPending(r) /\ ReceiverAlive) /\ ~(SendMessage(r) /\ senderAlive)
    <3>1. UNCHANGED <<outgoing, peer, stream, sequenceNumber, conn>>
      BY <1>1, <2>3 DEF ThreadStep, PollFuture, CheckAllowed, AddPending, SendMessage,
         PollRequestEnds, PollRequestContinues, PollRequestNotReady, PollTimers,
         DropFuture, TimerExpires
    <3>2. \/ updates' = updates
          \/ /\ step[r] \in {"locked", "asleep", "timers"}
             /\ updates' = Append(updates, Remove(number[r]))
      BY <1>1, <2>3 DEF ThreadStep, PollFuture, CheckAllowed, AddPending, SendMessage,
         PollRequestEnds, PollRequestContinues, PollRequestNotReady, PollTimers,
         DropFuture, TimerExpires, SendUpdate
    <3> QED BY <1>0, <3>1, <3>2, HasNumber, ResponseSame
  <2> QED BY <2>1, <2>2, <2>3
<1>2. CASE HandleUpdate
  <2>1. AnswersSent'
    BY <1>0, <1>2 DEF HandleUpdate, AnswersSent
  <2>2. AddedBeforeAnswered'
    BY <1>2 DEF HandleUpdate, AddedBeforeAnswered
  <2> QED BY <1>0, <2>1, <2>2 DEF ResponseInv
<1>3. CASE UpdatesNotReady \/ UpdatesEnded \/ StreamNotReady \/ StreamEnds
  BY <1>0, <1>3, ResponseSame
  DEF UpdatesNotReady, UpdatesEnded, StreamNotReady, StreamEnds
<1>4. CASE CancelPending \/ DropUpdates \/ DisallowRequests
  BY <1>0, <1>4, ResponseSame DEF CancelPending, DropUpdates, DisallowRequests
<1>5. CASE ReadResponse
  <2>1. /\ Len(stream') = Len(stream) - 1 /\ Len(stream) \in Nat \ {0}
        /\ \A i \in 1 .. Len(stream) - 1 : stream'[i] = stream[i + 1]
        /\ UNCHANGED <<outgoing, peer, updates, sequenceNumber, conn>>
    <3>1. stream # << >> /\ stream' = Tail(stream)
          /\ UNCHANGED <<outgoing, peer, updates, sequenceNumber, conn>>
      BY <1>5 DEF ReadResponse
    <3> QED BY <1>t, <3>1
  <2>2. \A i \in 1 .. Len(stream') :
            i + 1 \in 1 .. Len(stream) /\ stream'[i] = stream[i + 1]
    BY <2>1
  <2>3. AnswersSent'
    BY <1>0, <2>1, <2>2 DEF AnswersSent
  <2>4. AddedBeforeAnswered'
    BY <1>0, <2>1, <2>2 DEF AddedBeforeAnswered
  <2> QED BY <1>0, <2>3, <2>4 DEF ResponseInv
<1>6. CASE PollSender
  <2>1. Len(outgoing') = 0 /\ UNCHANGED <<stream, sequenceNumber>> /\ conn' = "updates"
    BY <1>6 DEF PollSender
  <2>2. \A n \in Numbers :
            peer'[n] = peer[n] \/ \E i \in 1 .. Len(outgoing) : outgoing[i] = n
    <3>1. DOMAIN outgoing = 1 .. Len(outgoing)
      BY <1>t
    <3> QED BY <1>6, <3>1 DEF PollSender
  <2>3. AnswersSent'
    BY <1>0, <2>1, <2>2 DEF AnswersSent
  <2>4. AddedBeforeAnswered'
    BY <2>1 DEF AddedBeforeAnswered
  <2> QED BY <1>0, <2>3, <2>4 DEF ResponseInv
<1>7. CASE DropHandle \/ UNCHANGED vars
  BY <1>0, <1>7, ResponseSame DEF DropHandle, vars
<1>8. ASSUME NEW n \in Numbers, PeerAnswers(n) PROVE ResponseInv'
  <2>1. /\ peer[n] > 0 /\ UNCHANGED <<outgoing, updates, sequenceNumber, conn>>
        /\ \E w \in Responses : w.number = n /\ stream' = Append(stream, w)
        /\ \E x \in {peer[n] - 1, 0} : peer' = [peer EXCEPT ![n] = x]
    BY <1>8 DEF PeerAnswers, Responses
  <2>2. PICK w \in Responses : w.number = n /\ stream' = Append(stream, w)
    BY <2>1
  <2>3. /\ Len(stream') = Len(stream) + 1 /\ Len(stream) \in Nat
        /\ stream'[Len(stream) + 1] = w
        /\ \A i \in 1 .. Len(stream) : stream'[i] = stream[i]
    BY <1>t, <2>2
  <2>4. \A i \in 1 .. Len(stream') :
            \/ i \in 1 .. Len(stream) /\ stream'[i] = stream[i]
            \/ stream'[i].number = n
    BY <2>2, <2>3
  <2>5. n < sequenceNumber
    BY <1>0, <2>1 DEF AnswersSent
  <2>6. \A m \in Numbers : /\ peer'[m] > 0 => peer[m] > 0
                           /\ peer[m] = 0 => peer'[m] = 0
    <3>1. \A m \in Numbers : m # n => peer'[m] = peer[m]
      BY <1>t, <2>1
    <3>2. peer[n] > 0 /\ peer[n] \in Nat
      BY <1>t, <2>1
    <3> QED BY <3>1, <3>2
  <2>7. AnswersSent'
    BY <1>0, <2>1, <2>4, <2>5, <2>6 DEF AnswersSent
  <2>8. AddedBeforeAnswered'
    <3> SUFFICES ASSUME conn \in {"stream", "write"}, NEW i \in 1 .. Len(updates),
                        updates[i].request # NoRequest
                 PROVE  /\ peer'[updates[i].number] = 0
                        /\ \A j \in 1 .. Len(stream') :
                                stream'[j].number # updates[i].number
      BY <2>1 DEF AddedBeforeAnswered
    <3>1. updates[i].number \in Numbers
      <4>1. updates[i] \in Updates
        BY <1>t
      <4> QED BY <4>1 DEF Updates
    <3>2. /\ peer[updates[i].number] = 0
          /\ \A j \in 1 .. Len(stream) : stream[j].number # updates[i].number
      BY <1>0 DEF AddedBeforeAnswered
    <3>3. updates[i].number # n
      BY <1>t, <2>1, <3>2
    <3> QED BY <2>4, <2>6, <3>1, <3>2, <3>3
  <2> QED BY <1>0, <2>7, <2>8 DEF ResponseInv
<1> QED BY <1>1, <1>2, <1>3, <1>4, <1>5, <1>6, <1>7, <1>8 DEF Next, ConnectionStep

\* Responses are to requests that were sent and registered.
LEMMA ResponseInvariant == Spec => []ResponseInv
BY ResponseInit, ResponseNext, PTL DEF Spec

-----------------------------------------------------------------------------
(* The properties. *)

\* Cloned handles and reused numbers notwithstanding, no two futures share a
\* sequence number, the debug_assert of AddPendingRequest holds (an addition
\* never replaces a pending request), and RemovePendingRequest, late or sent
\* twice, never takes out a request that can still be answered.
THEOREM NumbersAreUnique == Spec => []UniqueNumbers
<1>1. ASSUME MatchInv PROVE UniqueNumbers
  <2>1. \A r, s \in Requests : r # s /\ Live(r) /\ Live(s) => number[r] # number[s]
    BY <1>1 DEF MatchInv, NumberInv, LiveIsSent, NumbersTaken
  <2>2. ASSUME updates # << >>, Head(updates).kind = "Add",
               pending[Head(updates).number] # NoRequest
        PROVE  FALSE
    <3> DEFINE n == updates[1].number
    <3>1. /\ updates \in Seq(Updates) /\ updates[1] \in Updates
          /\ Head(updates) = updates[1] /\ Len(updates) \in Nat \ {0}
      <4>1. updates \in Seq(Updates)
        BY <1>1 DEF MatchInv, NumberInv, TypeOK, Updates
      <4> QED BY <2>2, <4>1
    <3>2. n \in Numbers /\ 0 \in 0 .. Len(updates) /\ 1 \in 0 .. Len(updates)
          /\ 1 \in 1 .. Len(updates)
      BY <3>1 DEF Updates
    <3>3. updates[1].request # NoRequest
      BY <1>1, <2>2, <3>1, <3>2 DEF MatchInv, UpdateKinds
    <3>4. Held(0, n) # NoRequest /\ Held(1, n) # NoRequest
      BY <2>2, <3>1, <3>3 DEF Held, Holder
    <3>5. \E k \in 0 + 1 .. 1 - 1 : Removes(updates, k, n)
      BY <1>1, <3>2, <3>4 DEF MatchInv, RemovedBetween
    <3> QED BY <3>5
  <2>3. ASSUME updates # << >>, Head(updates).kind = "Remove", NEW r \in Requests,
               pending[Head(updates).number] = r
        PROVE  ~Waiting(r) \/ rx[r] # "open"
    <3> DEFINE n == updates[1].number
    <3>1. /\ updates \in Seq(Updates) /\ updates[1] \in Updates
          /\ Head(updates) = updates[1] /\ Len(updates) \in Nat \ {0}
      <4>1. updates \in Seq(Updates)
        BY <1>1 DEF MatchInv, NumberInv, TypeOK, Updates
      <4> QED BY <2>3, <4>1
    <3>2. n \in Numbers /\ 0 \in 0 .. Len(updates) /\ 1 \in 1 .. Len(updates) /\ 0 < 1
      BY <3>1 DEF Updates
    <3>3. Removes(updates, 1, n)
      BY <1>1, <2>3, <3>1, <3>2 DEF MatchInv, UpdateKinds, Removes
    <3>4. Held(0, n) = r /\ r # NoRequest
      BY <2>3, <3>1, RequestsAssumption DEF Held, Holder
    <3>5. Released(r)
      BY <1>1, <3>2, <3>3, <3>4 DEF MatchInv, ReleasedBefore
    <3> QED BY <3>5 DEF Released, Waiting, Live
  <2> QED BY <2>1, <2>2, <2>3 DEF UniqueNumbers
<1> QED BY <1>1, MatchInvariant, PTL

\* The debug_assert of ResponseReceiver::poll: when the update stream ends the
\* map of pending requests is empty, since every future that was dropped has
\* removed its request or found it gone.
THEOREM NothingPendingAtStreamEnd == Spec => []PendingEmptyAtStreamEnd
<1>1. ASSUME MatchInv PROVE PendingEmptyAtStreamEnd
  <2> SUFFICES ASSUME updates = << >>, ~UpdatesHaveSender, NEW n \in Numbers,
                      pending[n] # NoRequest
               PROVE  FALSE
    BY DEF PendingEmptyAtStreamEnd
  <2> DEFINE r == pending[n]
  <2>1. Len(updates) = 0 /\ 0 \in 0 .. Len(updates) /\ Held(0, n) = r
    BY DEF Held, Holder
  <2>2. r \in Requests /\ step[r] \notin {"unsent", "checked"}
    BY <1>1, <2>1 DEF MatchInv, NumberInv, TypeOK, HolderKnown
  <2>3. step[r] = "ended"
    BY <1>1, <2>2 DEF UpdatesHaveSender, MatchInv, NumberInv, TypeOK
  <2>4. \E k \in 0 + 1 .. Len(updates) : Removes(updates, k, n)
    BY <1>1, <2>1, <2>3 DEF MatchInv, RemovedAfter, Released
  <2> QED BY <2>1, <2>4
<1> QED BY <1>1, MatchInvariant, PTL

\* Whoever waits can still be told: the sending half of its oneshot is in the
\* map or in the channel until it has been used or dropped.
THEOREM NobodyIsStranded == Spec => []NobodyStranded
<1>1. ASSUME MatchInv PROVE NobodyStranded
  <2> SUFFICES ASSUME NEW r \in Requests, Waiting(r), ~txGone[r]
               PROVE  \/ pending[number[r]] = r
                      \/ \E i \in DOMAIN updates : updates[i].request = r
    BY DEF NobodyStranded
  <2>1. updates \in Seq(Updates)
    BY <1>1 DEF MatchInv, NumberInv, TypeOK, Updates
  <2>2. DOMAIN updates = 1 .. Len(updates) /\ Len(updates) \in Nat
    BY <2>1
  <2>3. PICK i \in 0 .. Len(updates) : Held(i, number[r]) = r
    BY <1>1 DEF MatchInv, Reaches, Waiting, Live
  <2> QED BY <2>2, <2>3, RequestsAssumption DEF Held, Holder
<1> QED BY <1>1, MatchInvariant, PTL

\* A response is never ignored while its request waits for it: poll handles
\* every update before it reads the stream, and a request is registered before
\* it is written.
THEOREM ResponsesFindRequests == Spec => []ResponseFindsRequest
<1>1. ASSUME ResponseInv PROVE ResponseFindsRequest
  <2> SUFFICES ASSUME conn = "stream", stream # << >>, NEW r \in Requests,
                      Waiting(r), ~txGone[r], number[r] = Head(stream).number
               PROVE  pending[number[r]] = r
    BY DEF ResponseFindsRequest
  <2>1. PICK i \in 0 .. Len(updates) : Held(i, number[r]) = r
    BY <1>1 DEF ResponseInv, MatchInv, Reaches, Waiting, Live
  <2>2. CASE i = 0
    BY <2>1, <2>2 DEF Held, Holder
  <2>3. CASE i # 0
    <3>1. i \in 1 .. Len(updates) /\ updates[i].request = r
          /\ updates[i].number = number[r] /\ r # NoRequest
      BY <2>1, <2>3, RequestsAssumption DEF Held, Holder
    <3>2. 1 \in 1 .. Len(stream) /\ stream[1].number = number[r]
      <4> DEFINE Responses == [number : Numbers, continue : BOOLEAN]
      <4>1. stream \in Seq(Responses)
        BY <1>1 DEF ResponseInv, MatchInv, NumberInv, TypeOK
      <4> HIDE DEF Responses
      <4> QED BY <4>1
    <3> QED BY <1>1, <3>1, <3>2 DEF ResponseInv, AddedBeforeAnswered
  <2> QED BY <2>2, <2>3
<1> QED BY <1>1, ResponseInvariant, PTL

============================================================================
