------------------------ MODULE RequestHandlerProofs ------------------------
(***************************************************************************)
(* Proofs about RequestHandler, for every number of requests and of timer  *)
(* expirations, with and without a continue timer.                         *)
(***************************************************************************)
EXTENDS RequestHandler, TLAPS

(***************************************************************************)
(* The invariant about the order of the answers.                           *)
(***************************************************************************)

\* The channel holds the requests that were sent and not taken, in order.
QueueInOrder ==
    /\ Len(queue) = sent - taken
    /\ \A i \in DOMAIN queue : queue[i] = taken + i

\* What is in service is the last request taken.
ServicesLast == servicing = 0 \/ servicing = taken

\* No answer is ahead of the requests taken, and the request in service has
\* had no answer but Continue.
NothingAhead ==
    \A i \in DOMAIN responses :
        /\ responses[i].request <= taken
        /\ responses[i].request = servicing => responses[i].status = "Continue"

\* The parts of the poll that know whether a request is in service.
PartsAgree ==
    /\ pc = "timer" => servicing # 0
    /\ pc \in {"take", "ended", "dropped"} => servicing = 0

OrderInv ==
    /\ TypeOK
    /\ QueueInOrder
    /\ ServicesLast
    /\ NothingAhead
    /\ PartsAgree
    /\ AnswersInOrder

(***************************************************************************)
(* The invariant about wakeups: where a poll that is over, or past the     *)
(* service, has left its wakers.                                           *)
(***************************************************************************)

WaitsForService == service = "pending" /\ "service" \in interests

WaitsForTimer == timer = "none" \/ (timer = "armed" /\ "timer" \in interests)

WaitsForRequest == queue = << >> /\ inputOpen /\ "queue" \in interests

WakerInv ==
    /\ OrderInv
    /\ pc = "timer" => woken \/ WaitsForService
    /\ pc = "asleep" => \/ woken
                        \/ servicing # 0 /\ WaitsForService /\ WaitsForTimer
                        \/ servicing = 0 /\ WaitsForRequest

(***************************************************************************)
(* The invariant about completeness of the answers.                        *)
(***************************************************************************)

\* The handle is kept for as long as there is a sender to reach with it.
KeepsHandle == senderAlive /\ pc \notin {"ended", "dropped"} => handle

\* The shutdown is signalled at the end only.
EventAtEnd ==
    /\ event => pc \in {"ended", "dropped"}
    /\ pc = "ended" => queue = << >> /\ ~inputOpen

AnswerInv ==
    /\ OrderInv
    /\ KeepsHandle
    /\ EventAtEnd
    /\ DoneMeansAnswered

-----------------------------------------------------------------------------
(* What send_response does to the answers. *)

\* Every answer is about one of the requests.
LEMMA AnswerTypes ==
    ASSUME NEW s \in Seq(Answers)
    PROVE  \A i \in DOMAIN s :
                /\ s[i] \in Answers
                /\ s[i].request \in 1 .. NumRequests
                /\ s[i].request \in Nat /\ s[i].request # 0
<1>1. SUFFICES ASSUME NEW i \in DOMAIN s
               PROVE  /\ s[i] \in Answers
                      /\ s[i].request \in 1 .. NumRequests
                      /\ s[i].request \in Nat /\ s[i].request # 0
  OBVIOUS
<1>2. s[i] \in Answers
  OBVIOUS
<1>3. s[i].request \in 1 .. NumRequests
  BY <1>2 DEF Answers
<1> QED BY <1>2, <1>3, BoundsAssumption

\* The answers stay, and at most the one that is sent comes after them.
LEMMA SendResponseAppends ==
    ASSUME TypeOK,
           NEW r \in 1 .. NumRequests,
           NEW status \in Finals \cup {"Continue"},
           SendResponse(r, status)
    PROVE  /\ responses' \in Seq(Answers)
           /\ handle' \in BOOLEAN
           /\ senderAlive' \in BOOLEAN
           /\ \A i \in DOMAIN responses' :
                \/ i \in DOMAIN responses /\ responses'[i] = responses[i]
                \/ /\ i = Len(responses) + 1
                   /\ responses'[i] = [request |-> r, status |-> status]
           /\ \A i \in DOMAIN responses :
                i \in DOMAIN responses' /\ responses'[i] = responses[i]
<1> DEFINE answer == [request |-> r, status |-> status]
<1>1. responses \in Seq(Answers) /\ handle \in BOOLEAN /\ senderAlive \in BOOLEAN
  BY DEF TypeOK
<1>2. answer \in Answers
  BY DEF Answers
<1>3. handle' \in BOOLEAN /\ senderAlive' \in BOOLEAN
  BY <1>1, Zenon DEF SendResponse
<1>4. CASE handle /\ senderAlive
  <2>1. responses' = Append(responses, answer)
    BY <1>4 DEF SendResponse
  <2> HIDE DEF answer
  <2>2. /\ responses' \in Seq(Answers)
        /\ DOMAIN responses' = 1 .. Len(responses) + 1
        /\ DOMAIN responses = 1 .. Len(responses)
        /\ Len(responses) \in Nat
    BY <1>1, <1>2, <2>1
  <2>3. /\ responses'[Len(responses) + 1] = answer
        /\ \A i \in 1 .. Len(responses) : responses'[i] = responses[i]
    BY <1>1, <1>2, <2>1
  <2> QED BY <1>3, <2>2, <2>3 DEF answer
<1>5. CASE ~(handle /\ senderAlive)
  BY <1>1, <1>3, <1>5 DEF SendResponse
<1> QED BY <1>4, <1>5

\* An answer that belongs behind all others keeps them in order.
LEMMA SendResponseInOrder ==
    ASSUME TypeOK, AnswersInOrder,
           NEW r \in 1 .. NumRequests,
           NEW status \in Finals \cup {"Continue"},
           SendResponse(r, status),
           \A i \in DOMAIN responses :
                \/ responses[i].request < r
                \/ responses[i].request = r /\ responses[i].status = "Continue"
    PROVE  AnswersInOrder'
<1>1. DOMAIN responses = 1 .. Len(responses) /\ Len(responses) \in Nat
  BY DEF TypeOK
<1>2. SUFFICES ASSUME NEW i \in DOMAIN responses', NEW j \in DOMAIN responses',
                      i < j
               PROVE  \/ responses'[i].request < responses'[j].request
                      \/ /\ responses'[i].request = responses'[j].request
                         /\ responses'[i].status = "Continue"
  BY DEF AnswersInOrder
<1>3. /\ \/ i \in DOMAIN responses /\ responses'[i] = responses[i]
         \/ i = Len(responses) + 1
      /\ \/ j \in DOMAIN responses /\ responses'[j] = responses[j]
         \/ /\ j = Len(responses) + 1
            /\ responses'[j] = [request |-> r, status |-> status]
  BY SendResponseAppends
<1>4. CASE j \in DOMAIN responses
  <2>1. i \in DOMAIN responses
    BY <1>1, <1>2, <1>3, <1>4
  <2> QED BY <1>1, <1>2, <1>3, <1>4, <2>1 DEF AnswersInOrder
<1>5. CASE j = Len(responses) + 1
  <2>1. i \in DOMAIN responses /\ responses'[i] = responses[i]
    BY <1>1, <1>2, <1>3, <1>5
  <2>2. responses'[j].request = r
    BY <1>1, <1>3, <1>5
  <2> QED BY <2>1, <2>2
<1> QED BY <1>3, <1>4, <1>5

-----------------------------------------------------------------------------
(* Types and order. *)

\* A step that touches neither the channel, the service nor the answers keeps
\* the order invariant if it keeps the types and moves on as the poll does.
LEMMA OrderFrame ==
    ASSUME OrderInv, TypeOK', PartsAgree',
           UNCHANGED <<queue, sent, taken, servicing, responses>>
    PROVE  OrderInv'
BY DEF OrderInv, QueueInOrder, ServicesLast, NothingAhead, AnswersInOrder

\* Notifying the task keeps its types.
LEMMA WakeTypes ==
    ASSUME TypeOK, NEW source, Wake(source)
    PROVE  woken' \in BOOLEAN /\ interests' \subseteq {"queue", "service", "timer"}
<1>1. woken' \in BOOLEAN
  BY Zenon DEF Wake, TypeOK
<1> QED BY <1>1 DEF Wake, TypeOK

\* A new handler satisfies the order invariant.
LEMMA OrderInit == Init => OrderInv
<1> SUFFICES ASSUME Init PROVE OrderInv
  OBVIOUS
<1>1. queue = << >> /\ responses = << >> /\ sent = 0 /\ taken = 0
  BY DEF Init
<1>2. TypeOK
  <2>1. queue \in Seq(1 .. NumRequests) /\ responses \in Seq(Answers)
    BY <1>1
  <2>2. sent \in 0 .. NumRequests /\ 0 \in 0 .. NumRequests /\ 0 \in 0 .. MaxContinues
    BY <1>1, BoundsAssumption
  <2> QED BY <1>1, <2>1, <2>2, Zenon DEF Init, TypeOK
<1>3. Len(queue) = 0 /\ DOMAIN queue = {} /\ DOMAIN responses = {}
  BY <1>1
<1> QED BY <1>1, <1>2, <1>3 DEF Init, OrderInv, QueueInOrder, ServicesLast,
           NothingAhead, PartsAgree, AnswersInOrder

\* The request at the head of the channel comes after all that were taken.
LEMMA HeadIsNext ==
    ASSUME OrderInv, queue # << >>
    PROVE  /\ Head(queue) = taken + 1
           /\ taken + 1 \in 1 .. NumRequests
           /\ Tail(queue) \in Seq(1 .. NumRequests)
           /\ Len(Tail(queue)) = sent - (taken + 1)
           /\ \A i \in DOMAIN Tail(queue) : Tail(queue)[i] = (taken + 1) + i
<1>1. /\ queue \in Seq(1 .. NumRequests) /\ Len(queue) \in Nat \ {0}
      /\ DOMAIN queue = 1 .. Len(queue)
      /\ sent \in Nat /\ taken \in Nat /\ sent <= NumRequests
      /\ NumRequests \in Nat
  BY BoundsAssumption DEF OrderInv, TypeOK
<1>2. Len(queue) = sent - taken /\ \A i \in DOMAIN queue : queue[i] = taken + i
  BY DEF OrderInv, QueueInOrder
<1>3. /\ Head(queue) = queue[1]
      /\ Tail(queue) \in Seq(1 .. NumRequests)
      /\ Len(Tail(queue)) = Len(queue) - 1
      /\ DOMAIN Tail(queue) = 1 .. Len(queue) - 1
      /\ \A i \in 1 .. Len(queue) - 1 : Tail(queue)[i] = queue[i + 1]
  BY <1>1
<1>4. Head(queue) = taken + 1 /\ taken + 1 \in 1 .. NumRequests
  BY <1>1, <1>2, <1>3
<1>5. Len(Tail(queue)) = sent - (taken + 1)
  BY <1>1, <1>2, <1>3
<1>6. ASSUME NEW i \in DOMAIN Tail(queue)
      PROVE  Tail(queue)[i] = (taken + 1) + i
  <2>1. i \in Nat /\ i + 1 \in DOMAIN queue /\ Tail(queue)[i] = queue[i + 1]
    BY <1>1, <1>3, <1>6
  <2>2. queue[i + 1] = taken + (i + 1)
    BY <1>2, <2>1
  <2> QED BY <1>1, <2>1, <2>2
<1> QED BY <1>3, <1>4, <1>5, <1>6

\* Every step of the handler and of its surroundings keeps the invariant.
LEMMA OrderNext == OrderInv /\ [Next]_vars => OrderInv'
<1> SUFFICES ASSUME OrderInv, [Next]_vars PROVE OrderInv'
  OBVIOUS
<1> USE BoundsAssumption
<1>0. TypeOK /\ PartsAgree /\ ServicesLast /\ NothingAhead /\ AnswersInOrder
  BY DEF OrderInv
<1>s. ASSUME servicing # 0
      PROVE  /\ servicing \in 1 .. NumRequests
             /\ servicing = taken
  BY <1>0, <1>s DEF TypeOK, ServicesLast
<1>1. CASE StartPoll
  <2>1. TypeOK' /\ PartsAgree'
    BY <1>0, <1>1 DEF StartPoll, TypeOK, PartsAgree, channelVars, serviceVars,
       timerVars, senderVars
  <2> QED BY <1>1, <2>1, OrderFrame DEF StartPoll, channelVars, serviceVars,
             senderVars
<1>2. CASE NothingServiced
  <2>1. TypeOK' /\ PartsAgree'
    BY <1>0, <1>2 DEF NothingServiced, TypeOK, PartsAgree, channelVars,
       serviceVars, timerVars, senderVars
  <2> QED BY <1>2, <2>1, OrderFrame DEF NothingServiced, channelVars,
             serviceVars, senderVars
<1>3. CASE ServiceReady
  <2> DEFINE status == IF service = "ok" THEN "Response" ELSE "InternalServerError"
  <2>1. /\ servicing \in 1 .. NumRequests /\ servicing = taken
        /\ SendResponse(servicing, status)
        /\ UNCHANGED <<queue, sent, taken>> /\ servicing' = 0
        /\ pc' = "take"
    BY <1>3, <1>s DEF ServiceReady, channelVars
  <2>2. status \in Finals \cup {"Continue"}
    BY DEF Finals
  <2> HIDE DEF status
  <2>3. TypeOK'
    BY <1>0, <1>3, <2>1, <2>2, SendResponseAppends
       DEF ServiceReady, TypeOK, channelVars
  <2>4. QueueInOrder' /\ ServicesLast' /\ PartsAgree'
    BY <2>1 DEF OrderInv, QueueInOrder, ServicesLast, PartsAgree
  <2>5. AnswersInOrder'
    <3>1. \A i \in DOMAIN responses :
              \/ responses[i].request < servicing
              \/ /\ responses[i].request = servicing
                 /\ responses[i].status = "Continue"
      <4>1. \A i \in DOMAIN responses : responses[i].request \in Nat
        BY <1>0, AnswerTypes DEF TypeOK
      <4> QED BY <1>0, <2>1, <4>1 DEF NothingAhead
    <3> QED BY <1>0, <2>1, <2>2, <3>1, SendResponseInOrder
  <2>6. NothingAhead'
    <3>1. \A i \in DOMAIN responses' : responses'[i].request <= taken
      BY <1>0, <2>1, <2>2, SendResponseAppends DEF NothingAhead, TypeOK
    <3>2. \A i \in DOMAIN responses' : responses'[i].request # 0
      BY <2>3, AnswerTypes DEF TypeOK
    <3> QED BY <2>1, <3>1, <3>2 DEF NothingAhead
  <2> QED BY <2>3, <2>4, <2>5, <2>6 DEF OrderInv
<1>4. CASE ServiceNotReady
  <2>1. TypeOK' /\ PartsAgree'
    BY <1>0, <1>4 DEF ServiceNotReady, TypeOK, PartsAgree, channelVars,
       serviceVars, timerVars, senderVars
  <2> QED BY <1>4, <2>1, OrderFrame DEF ServiceNotReady, channelVars,
             serviceVars, senderVars
<1>5. CASE SendContinue
  <2>1. /\ servicing \in 1 .. NumRequests /\ servicing = taken
        /\ SendResponse(servicing, "Continue")
        /\ UNCHANGED <<pc, queue, sent, taken, servicing>>
    BY <1>0, <1>5, <1>s DEF SendContinue, PartsAgree, channelVars, serviceVars
  <2>3. TypeOK'
    BY <1>0, <1>5, <2>1, SendResponseAppends
       DEF SendContinue, ResetContinueTimer, TypeOK, channelVars, serviceVars
  <2>4. QueueInOrder' /\ ServicesLast' /\ PartsAgree'
    BY <2>1 DEF OrderInv, QueueInOrder, ServicesLast, PartsAgree
  <2>5. AnswersInOrder'
    <3>1. \A i \in DOMAIN responses :
              \/ responses[i].request < servicing
              \/ /\ responses[i].request = servicing
                 /\ responses[i].status = "Continue"
      <4>1. \A i \in DOMAIN responses : responses[i].request \in Nat
        BY <1>0, AnswerTypes DEF TypeOK
      <4> QED BY <1>0, <2>1, <4>1 DEF NothingAhead
    <3> QED BY <1>0, <2>1, <3>1, SendResponseInOrder
  <2>6. NothingAhead'
    BY <1>0, <2>1, SendResponseAppends DEF NothingAhead, TypeOK
  <2> QED BY <2>3, <2>4, <2>5, <2>6 DEF OrderInv
<1>6. CASE TimerNotReady
  <2>1. TypeOK' /\ PartsAgree'
    BY <1>0, <1>6 DEF TimerNotReady, TypeOK, PartsAgree, channelVars,
       serviceVars, timerVars, senderVars
  <2> QED BY <1>6, <2>1, OrderFrame DEF TimerNotReady, channelVars,
             serviceVars, senderVars
<1>7. CASE RejectRequest
  <2>1. PICK status \in {"NotImplemented", "BadRequest"} :
              SendResponse(Head(queue), status)
    BY <1>7 DEF RejectRequest
  <2>2. /\ queue # << >> /\ queue' = Tail(queue) /\ taken' = taken + 1
        /\ UNCHANGED <<sent, servicing>> /\ pc = "take" /\ pc' = "service"
    BY <1>7 DEF RejectRequest, TakeRequest, serviceVars
  <2>3. status \in Finals \cup {"Continue"} /\ Head(queue) \in 1 .. NumRequests
        /\ Head(queue) = taken + 1 /\ servicing = 0
    BY <1>0, <2>2, HeadIsNext DEF Finals, PartsAgree
  <2>4. TypeOK'
    BY <1>0, <1>7, <2>1, <2>2, <2>3, HeadIsNext, SendResponseAppends
       DEF RejectRequest, TakeRequest, TypeOK, serviceVars
  <2>5. QueueInOrder' /\ ServicesLast' /\ PartsAgree'
    BY <2>2, <2>3, HeadIsNext DEF QueueInOrder, ServicesLast, PartsAgree
  <2>6. \A i \in DOMAIN responses : responses[i].request < Head(queue)
    <3>1. \A i \in DOMAIN responses : responses[i].request \in Nat
      BY <1>0, AnswerTypes DEF TypeOK
    <3> QED BY <1>0, <2>3, <3>1 DEF NothingAhead, TypeOK
  <2>7. AnswersInOrder'
    BY <1>0, <2>1, <2>3, <2>6, SendResponseInOrder
  <2>8. NothingAhead'
    <3>1. \A i \in DOMAIN responses' : responses'[i].request \in 1 .. NumRequests
      BY <2>4, AnswerTypes DEF TypeOK
    <3>2. \A i \in DOMAIN responses' : \/ responses'[i].request < Head(queue)
                                       \/ responses'[i].request = Head(queue)
      BY <1>0, <2>1, <2>3, <2>6, SendResponseAppends
    <3> QED BY <1>0, <2>2, <2>3, <3>1, <3>2 DEF NothingAhead, TypeOK
  <2> QED BY <2>4, <2>5, <2>7, <2>8 DEF OrderInv
<1>8. CASE ServiceRequest
  <2>1. /\ queue # << >> /\ queue' = Tail(queue) /\ taken' = taken + 1
        /\ UNCHANGED <<sent, responses>> /\ servicing' = Head(queue)
        /\ pc' = "service"
    BY <1>8 DEF ServiceRequest, TakeRequest, senderVars
  <2>2. TypeOK'
    BY <1>0, <1>8, <2>1, HeadIsNext
       DEF ServiceRequest, TakeRequest, ResetContinueTimer, TypeOK, senderVars
  <2>3. QueueInOrder' /\ ServicesLast' /\ PartsAgree'
    BY <2>1, HeadIsNext DEF QueueInOrder, ServicesLast, PartsAgree
  <2>4. NothingAhead'
    <3>1. \A i \in DOMAIN responses : responses[i].request \in Nat
      BY <1>0, AnswerTypes DEF TypeOK
    <3> QED BY <1>0, <2>1, <3>1, HeadIsNext DEF NothingAhead, TypeOK
  <2> QED BY <1>0, <2>1, <2>2, <2>3, <2>4 DEF OrderInv, AnswersInOrder
<1>9. CASE TakeNotReady
  <2>1. TypeOK' /\ PartsAgree'
    BY <1>0, <1>9 DEF TakeNotReady, TypeOK, PartsAgree, channelVars,
       serviceVars, timerVars, senderVars
  <2> QED BY <1>9, <2>1, OrderFrame DEF TakeNotReady, channelVars,
             serviceVars, senderVars
<1>10. CASE TakeEnds
  <2>1. TypeOK' /\ PartsAgree' /\ UNCHANGED servicing
    BY <1>0, <1>10 DEF TakeEnds, ShutdownHandler, TypeOK, PartsAgree, channelVars
  <2> QED BY <1>10, <2>1, OrderFrame DEF TakeEnds, channelVars
<1>11. CASE DropTask
  <2>0. pc' = "dropped" /\ servicing' = 0 /\ UNCHANGED <<queue, sent, taken, responses>>
    BY <1>11 DEF DropTask, ShutdownHandler, channelVars
  <2>1. TypeOK' /\ PartsAgree'
    <3>1. 0 \in 0 .. NumRequests
      OBVIOUS
    <3>2. TypeOK'
      BY <1>0, <1>11, <2>0, <3>1, Zenon DEF DropTask, ShutdownHandler, TypeOK, channelVars
    <3> QED BY <2>0, <3>2 DEF PartsAgree
  <2>2. NothingAhead'
    <3>1. \A i \in DOMAIN responses : responses[i].request # 0
      BY <1>0, AnswerTypes DEF TypeOK
    <3> QED BY <1>0, <2>0, <3>1 DEF NothingAhead
  <2> QED BY <2>0, <2>1, <2>2 DEF OrderInv, QueueInOrder, ServicesLast, AnswersInOrder
<1>12. CASE Submit
  <2>1. /\ sent' = sent + 1 /\ sent < NumRequests
        /\ queue' = Append(queue, sent + 1)
        /\ Wake("queue")
        /\ UNCHANGED <<pc, taken, servicing, responses>>
    BY <1>12 DEF Submit, serviceVars, senderVars
  <2>2. /\ queue \in Seq(1 .. NumRequests) /\ Len(queue) \in Nat
        /\ DOMAIN queue = 1 .. Len(queue)
        /\ sent + 1 \in 1 .. NumRequests /\ sent \in Nat /\ taken \in Nat
    BY <1>0, <2>1 DEF TypeOK
  <2>3. /\ queue' \in Seq(1 .. NumRequests)
        /\ Len(queue') = Len(queue) + 1
        /\ DOMAIN queue' = 1 .. Len(queue) + 1
        /\ queue'[Len(queue) + 1] = sent + 1
        /\ \A i \in 1 .. Len(queue) : queue'[i] = queue[i]
    BY <2>1, <2>2
  <2>4. TypeOK'
    BY <1>0, <1>12, <2>1, <2>2, <2>3, WakeTypes
       DEF Submit, TypeOK, serviceVars, timerVars, senderVars
  <2>5. QueueInOrder'
    BY <2>1, <2>2, <2>3 DEF OrderInv, QueueInOrder
  <2> QED BY <1>0, <2>1, <2>4, <2>5 DEF OrderInv, ServicesLast, NothingAhead,
             PartsAgree, AnswersInOrder
<1>13. CASE CloseInput
  <2>1. TypeOK' /\ PartsAgree'
    BY <1>0, <1>13, WakeTypes DEF CloseInput, TypeOK, PartsAgree, serviceVars,
       timerVars, senderVars
  <2> QED BY <1>13, <2>1, OrderFrame DEF CloseInput, serviceVars, senderVars
<1>14. CASE Finishes
  <2>1. PICK result \in {"ok", "err"} : ServiceFinishes(result)
    BY <1>14 DEF Finishes
  <2>2. TypeOK' /\ PartsAgree'
    BY <1>0, <2>1, WakeTypes DEF ServiceFinishes, TypeOK, PartsAgree,
       channelVars, timerVars, senderVars
  <2> QED BY <2>1, <2>2, OrderFrame DEF ServiceFinishes, channelVars, senderVars
<1>15. CASE TimerExpires
  <2>1. TypeOK' /\ PartsAgree'
    BY <1>0, <1>15, WakeTypes DEF TimerExpires, TypeOK, PartsAgree, channelVars,
       serviceVars, senderVars
  <2> QED BY <1>15, <2>1, OrderFrame DEF TimerExpires, channelVars, serviceVars,
             senderVars
<1>16. CASE DropSender
  <2>1. TypeOK' /\ PartsAgree'
    BY <1>0, <1>16 DEF DropSender, TypeOK, PartsAgree, channelVars, serviceVars,
       timerVars
  <2> QED BY <1>16, <2>1, OrderFrame DEF DropSender, channelVars, serviceVars
<1>17. CASE UNCHANGED vars
  <2>1. TypeOK' /\ PartsAgree'
    BY <1>0, <1>17 DEF vars, TypeOK, PartsAgree, channelVars, serviceVars,
       timerVars, senderVars
  <2> QED BY <1>17, <2>1, OrderFrame DEF vars, channelVars, serviceVars,
             senderVars
<1> QED BY <1>1, <1>2, <1>3, <1>4, <1>5, <1>6, <1>7, <1>8, <1>9, <1>10, <1>11,
           <1>12, <1>13, <1>14, <1>15, <1>16, <1>17 DEF Next, Poll

\* The order invariant always holds.
LEMMA OrderInvariant == Spec => []OrderInv
BY OrderInit, OrderNext, PTL DEF Spec

\* The handler keeps to its types; in particular every answer names a request.
THEOREM TypeCorrect == Spec => []TypeOK
<1>1. OrderInv => TypeOK
  BY DEF OrderInv
<1> QED BY <1>1, OrderInvariant, PTL

\* Responses go out in the order of the requests, with one final response each
\* and no Continue after it, whatever service, timer and sender do meanwhile.
THEOREM RespondsInOrder == Spec => []AnswersInOrder
<1>1. OrderInv => AnswersInOrder
  BY DEF OrderInv
<1> QED BY <1>1, OrderInvariant, PTL

\* A request leaves the service when the service is done with it, or with the
\* task: no other request is ever put in its place.
THEOREM ServiceIsNotCutShort == Spec => ServiceRunsToEnd
<1> DEFINE Goes == servicing # 0 /\ servicing' # servicing
           Done == service # "pending" \/ pc' = "dropped"
<1>1. ASSUME OrderInv, Next, Goes PROVE Done
  <2>1. pc = "take" => servicing = 0
    BY <1>1 DEF OrderInv, PartsAgree
  <2>2. CASE Poll
    BY <1>1, <2>1, <2>2 DEF Poll, StartPoll, NothingServiced, ServiceReady,
       ServiceNotReady, SendContinue, TimerNotReady, RejectRequest,
       ServiceRequest, TakeRequest, TakeNotReady, TakeEnds, serviceVars
  <2>3. CASE DropTask
    BY <2>3 DEF DropTask
  <2>4. CASE Submit \/ CloseInput \/ Finishes \/ TimerExpires \/ DropSender
    BY <1>1, <2>4 DEF Submit, CloseInput, Finishes, ServiceFinishes,
       TimerExpires, DropSender, serviceVars
  <2> QED BY <1>1, <2>2, <2>3, <2>4 DEF Next
<1>2. OrderInv /\ [Next]_vars => [Goes => Done]_vars
  BY <1>1
<1> QED BY <1>2, OrderInvariant, PTL DEF Spec, ServiceRunsToEnd

-----------------------------------------------------------------------------
(* Wakeups. *)

\* A wakeup is never taken back, reaches a task that is registered, and leaves
\* the other registrations alone.
LEMMA WakeReaches ==
    ASSUME NEW source, Wake(source)
    PROVE  /\ woken => woken'
           /\ source \in interests => woken'
           /\ \A other : other # source /\ other \in interests
                            => other \in interests'
<1>1. (woken => woken') /\ (source \in interests => woken')
  BY Zenon DEF Wake
<1> QED BY <1>1 DEF Wake

\* A new handler is about to be polled.
LEMMA WakerInit == Init => WakerInv
<1>1. Init => OrderInv
  BY OrderInit
<1>2. Init => woken /\ pc = "asleep"
  BY Zenon DEF Init
<1> QED BY <1>1, <1>2 DEF WakerInv

\* No step leaves the task asleep without a waker where it is needed.
LEMMA WakerNext == WakerInv /\ [Next]_vars => WakerInv'
<1> SUFFICES ASSUME WakerInv, [Next]_vars PROVE WakerInv'
  OBVIOUS
<1>0. OrderInv' /\ OrderInv /\ PartsAgree /\ TypeOK
  BY OrderNext DEF WakerInv, OrderInv
<1>a. ASSUME pc' \in {"service", "take", "ended", "dropped"} PROVE WakerInv'
  BY <1>0, <1>a DEF WakerInv
<1>1. CASE StartPoll \/ NothingServiced \/ ServiceReady
  BY <1>1, <1>a DEF StartPoll, NothingServiced, ServiceReady
<1>2. CASE ServiceNotReady
  <2>1. pc' = "timer" /\ WaitsForService'
    BY <1>2 DEF ServiceNotReady, WaitsForService, serviceVars
  <2> QED BY <1>0, <2>1 DEF WakerInv
<1>3. CASE SendContinue
  <2>1. pc = "timer" /\ UNCHANGED <<pc, woken, service, interests>>
    BY <1>3 DEF SendContinue, serviceVars
  <2>2. woken' \/ WaitsForService'
    BY <2>1, Zenon DEF WakerInv, WaitsForService
  <2> QED BY <1>0, <2>1, <2>2 DEF WakerInv
<1>4. CASE TimerNotReady
  <2>1. /\ pc = "timer" /\ pc' = "asleep" /\ UNCHANGED <<woken, servicing, service>>
        /\ interests \subseteq interests' /\ WaitsForTimer'
    BY <1>4 DEF TimerNotReady, serviceVars, WaitsForTimer
  <2>2. servicing' # 0
    BY <1>0, <2>1 DEF PartsAgree
  <2>3. woken' \/ WaitsForService'
    BY <2>1, Zenon DEF WakerInv, WaitsForService
  <2> QED BY <1>0, <2>1, <2>2, <2>3 DEF WakerInv
<1>5. CASE RejectRequest \/ ServiceRequest
  BY <1>5, <1>a DEF RejectRequest, ServiceRequest, TakeRequest
<1>6. CASE TakeNotReady
  <2>1. pc = "take" /\ pc' = "asleep" /\ UNCHANGED servicing /\ WaitsForRequest'
    BY <1>6 DEF TakeNotReady, channelVars, serviceVars, WaitsForRequest
  <2>2. servicing' = 0
    BY <1>0, <2>1 DEF PartsAgree
  <2> QED BY <1>0, <2>1, <2>2 DEF WakerInv
<1>7. CASE TakeEnds \/ DropTask
  BY <1>7, <1>a DEF TakeEnds, DropTask
<1>8. CASE Submit \/ CloseInput
  <2>1. Wake("queue") /\ UNCHANGED <<pc, servicing, service, timer>>
    BY <1>8 DEF Submit, CloseInput, serviceVars, timerVars
  <2>2. /\ woken => woken'
        /\ "queue" \in interests => woken'
        /\ "service" \in interests => "service" \in interests'
        /\ "timer" \in interests => "timer" \in interests'
    BY <2>1, WakeReaches
  <2>3. pc' = "timer" => woken' \/ WaitsForService'
    BY <2>1, <2>2 DEF WakerInv, WaitsForService
  <2>4. pc' = "asleep" => \/ woken'
                          \/ servicing' # 0 /\ WaitsForService' /\ WaitsForTimer'
    BY <2>1, <2>2 DEF WakerInv, WaitsForService, WaitsForTimer, WaitsForRequest
  <2> QED BY <1>0, <2>3, <2>4 DEF WakerInv
<1>9. CASE Finishes
  <2>1. /\ Wake("service") /\ servicing # 0
        /\ UNCHANGED <<pc, servicing>>
    BY <1>9 DEF Finishes, ServiceFinishes
  <2>2. (woken => woken') /\ ("service" \in interests => woken')
    BY <2>1, WakeReaches
  <2>3. pc' \in {"timer", "asleep"} => woken'
    BY <2>1, <2>2 DEF WakerInv, WaitsForService
  <2> QED BY <1>0, <2>3 DEF WakerInv
<1>10. CASE TimerExpires
  <2>1. /\ Wake("timer") /\ timer = "armed"
        /\ UNCHANGED <<pc, servicing, service, queue, inputOpen>>
    BY <1>10 DEF TimerExpires, channelVars, serviceVars
  <2>2. /\ woken => woken'
        /\ "timer" \in interests => woken'
        /\ "service" \in interests => "service" \in interests'
        /\ "queue" \in interests => "queue" \in interests'
    BY <2>1, WakeReaches
  <2>3. pc' = "timer" => woken' \/ WaitsForService'
    BY <2>1, <2>2 DEF WakerInv, WaitsForService
  <2>4. pc' = "asleep" => woken' \/ (servicing' = 0 /\ WaitsForRequest')
    BY <2>1, <2>2 DEF WakerInv, WaitsForService, WaitsForTimer, WaitsForRequest
  <2> QED BY <1>0, <2>3, <2>4 DEF WakerInv
<1>11. CASE DropSender \/ UNCHANGED vars
  <2>1. UNCHANGED <<pc, woken, interests, queue, inputOpen, servicing, service,
                    timer>>
    BY <1>11 DEF DropSender, vars, channelVars, serviceVars, timerVars
  <2> QED BY <1>0, <2>1 DEF WakerInv, WaitsForService, WaitsForTimer,
             WaitsForRequest
<1> QED BY <1>1, <1>2, <1>3, <1>4, <1>5, <1>6, <1>7, <1>8, <1>9, <1>10, <1>11
        DEF Next, Poll

\* A poll that ends leaves a waker with everything that can give the task work,
\* so whatever happens between the polls, or in the middle of one, the task
\* never sleeps while a request, the end of the requests, the service's answer
\* or an expired timer is there for it.
THEOREM NeverSleepsThroughWork == Spec => []WorkWakesTask
<1>1. WakerInv => WorkWakesTask
  BY DEF WakerInv, WorkWakesTask, HasWork, WaitsForService, WaitsForTimer,
     WaitsForRequest
<1> QED BY <1>1, WakerInit, WakerNext, PTL DEF Spec

-----------------------------------------------------------------------------
(* Completeness of the answers. *)

\* Answered, of any sequence of answers.
FinalIn(answers, r) ==
    \E i \in DOMAIN answers :
        answers[i].request = r /\ answers[i].status \in Finals

\* An answer stays, and a final one that reaches the sender answers its request.
LEMMA SendResponseAnswers ==
    ASSUME TypeOK,
           NEW r \in 1 .. NumRequests,
           NEW status \in Finals \cup {"Continue"},
           SendResponse(r, status)
    PROVE  /\ \A q : Answered(q) => Answered(q)'
           /\ handle /\ senderAlive /\ status \in Finals => FinalIn(responses', r)
           /\ UNCHANGED senderAlive
           /\ handle /\ senderAlive => handle'
<1>1. UNCHANGED senderAlive /\ (handle /\ senderAlive => handle')
  BY Zenon DEF SendResponse
<1>2. ASSUME NEW q, Answered(q) PROVE Answered(q)'
  <2>1. PICK i \in DOMAIN responses :
            responses[i].request = q /\ responses[i].status \in Finals
    BY <1>2 DEF Answered
  <2>2. i \in DOMAIN responses' /\ responses'[i] = responses[i]
    BY SendResponseAppends
  <2> QED BY <2>1, <2>2 DEF Answered
<1>3. ASSUME handle, senderAlive, status \in Finals PROVE FinalIn(responses', r)
  <2> DEFINE answer == [request |-> r, status |-> status]
  <2>1. responses' = Append(responses, answer)
    BY <1>3 DEF SendResponse
  <2>2. answer.request = r /\ answer.status = status
    OBVIOUS
  <2>3. responses \in Seq(Answers) /\ answer \in Answers
    BY DEF TypeOK, Answers
  <2> HIDE DEF answer
  <2>4. /\ Len(responses) + 1 \in DOMAIN responses'
        /\ responses'[Len(responses) + 1] = answer
    BY <2>1, <2>3
  <2> QED BY <1>3, <2>2, <2>4 DEF FinalIn
<1> QED BY <1>1, <1>2, <1>3

\* A new handler has no request to answer.
LEMMA AnswerInit == Init => AnswerInv
<1> SUFFICES ASSUME Init PROVE AnswerInv
  OBVIOUS
<1>1. OrderInv
  BY OrderInit
<1>2. KeepsHandle /\ EventAtEnd
  BY DEF Init, KeepsHandle, EventAtEnd
<1>3. DoneMeansAnswered
  BY DEF Init, DoneMeansAnswered
<1> QED BY <1>1, <1>2, <1>3 DEF AnswerInv

\* A step that keeps answers, requests and handle keeps the invariant, too.
LEMMA AnswerFrame ==
    ASSUME AnswerInv, OrderInv', EventAtEnd',
           senderAlive' => senderAlive,
           pc = "dropped" => pc' = "dropped",
           pc = "ended" => pc' \in {"ended", "dropped"},
           UNCHANGED <<taken, servicing, responses, handle>>
    PROVE  AnswerInv'
<1>1. KeepsHandle'
  BY DEF AnswerInv, KeepsHandle
<1>2. DoneMeansAnswered'
  BY DEF AnswerInv, DoneMeansAnswered, Answered
<1> QED BY <1>1, <1>2 DEF AnswerInv

\* No step leaves a request behind without its answer.
LEMMA AnswerNext == AnswerInv /\ [Next]_vars => AnswerInv'
<1> SUFFICES ASSUME AnswerInv, [Next]_vars PROVE AnswerInv'
  OBVIOUS
<1> USE BoundsAssumption
<1>0. /\ OrderInv' /\ OrderInv /\ TypeOK /\ PartsAgree /\ ServicesLast
      /\ KeepsHandle /\ EventAtEnd /\ DoneMeansAnswered
      /\ taken \in Nat /\ servicing \in Nat
  BY OrderNext DEF AnswerInv, OrderInv, TypeOK
<1>1. CASE \/ StartPoll \/ NothingServiced \/ ServiceNotReady \/ TimerNotReady
           \/ TakeNotReady
  <2>1. /\ pc \in {"asleep", "service", "timer", "take"}
        /\ pc' \in {"asleep", "service", "timer", "take"}
        /\ UNCHANGED <<taken, servicing, responses, handle, senderAlive, event>>
    BY <1>1 DEF StartPoll, NothingServiced, ServiceNotReady, TimerNotReady,
       TakeNotReady, serviceVars, senderVars
  <2>2. EventAtEnd'
    BY <1>0, <2>1 DEF EventAtEnd
  <2> QED BY <1>0, <2>1, <2>2, AnswerFrame
<1>2. CASE ServiceReady
  <2> DEFINE status == IF service = "ok" THEN "Response" ELSE "InternalServerError"
  <2>1. /\ servicing # 0 /\ SendResponse(servicing, status)
        /\ pc = "service" /\ pc' = "take" /\ UNCHANGED <<taken, event>>
        /\ servicing' = 0
    BY <1>2 DEF ServiceReady
  <2>2. servicing \in 1 .. NumRequests /\ status \in Finals
    BY <1>0, <2>1 DEF TypeOK, Finals
  <2> HIDE DEF status
  <2>3. /\ \A q : Answered(q) => Answered(q)'
        /\ handle /\ senderAlive => FinalIn(responses', servicing)
        /\ UNCHANGED senderAlive
        /\ handle /\ senderAlive => handle'
    BY <1>0, <2>1, <2>2, SendResponseAnswers
  <2>4. KeepsHandle' /\ EventAtEnd'
    BY <1>0, <2>1, <2>3 DEF KeepsHandle, EventAtEnd
  <2>5. ASSUME senderAlive', NEW q \in 1 .. taken PROVE Answered(q)'
    <3>1. CASE q = servicing
      BY <1>0, <2>1, <2>3, <2>5, <3>1 DEF KeepsHandle, FinalIn, Answered
    <3>2. CASE q # servicing
      BY <1>0, <2>1, <2>3, <2>5, <3>2 DEF DoneMeansAnswered
    <3> QED BY <3>1, <3>2
  <2>6. DoneMeansAnswered'
    BY <2>1, <2>5 DEF DoneMeansAnswered
  <2> QED BY <1>0, <2>4, <2>6 DEF AnswerInv
<1>3. CASE SendContinue
  <2>1. /\ SendResponse(servicing, "Continue") /\ pc = "timer"
        /\ UNCHANGED <<pc, taken, servicing, event>>
    BY <1>3 DEF SendContinue, serviceVars
  <2>2. servicing \in 1 .. NumRequests
    BY <1>0, <2>1 DEF TypeOK, PartsAgree
  <2>3. /\ \A q : Answered(q) => Answered(q)'
        /\ UNCHANGED senderAlive
        /\ handle /\ senderAlive => handle'
    BY <1>0, <2>1, <2>2, SendResponseAnswers
  <2>4. KeepsHandle' /\ EventAtEnd'
    BY <1>0, <2>1, <2>3 DEF KeepsHandle, EventAtEnd
  <2>5. DoneMeansAnswered'
    BY <1>0, <2>1, <2>3 DEF DoneMeansAnswered
  <2> QED BY <1>0, <2>4, <2>5 DEF AnswerInv
<1>4. CASE RejectRequest
  <2>1. PICK status \in {"NotImplemented", "BadRequest"} :
              SendResponse(Head(queue), status)
    BY <1>4 DEF RejectRequest
  <2>2. /\ queue # << >> /\ pc = "take" /\ pc' = "service" /\ taken' = taken + 1
        /\ UNCHANGED <<servicing, event>>
    BY <1>4 DEF RejectRequest, TakeRequest, serviceVars
  <2>3. /\ Head(queue) \in 1 .. NumRequests /\ Head(queue) = taken + 1
        /\ status \in Finals
    BY <1>0, <2>2, HeadIsNext DEF Finals
  <2>4. /\ \A q : Answered(q) => Answered(q)'
        /\ handle /\ senderAlive => FinalIn(responses', taken + 1)
        /\ UNCHANGED senderAlive
        /\ handle /\ senderAlive => handle'
    <3>1. handle /\ senderAlive => FinalIn(responses', Head(queue))
      BY <1>0, <2>1, <2>3, SendResponseAnswers
    <3> QED BY <1>0, <2>1, <2>3, <3>1, SendResponseAnswers
  <2>5. KeepsHandle' /\ EventAtEnd'
    BY <1>0, <2>2, <2>4 DEF KeepsHandle, EventAtEnd
  <2>6. ASSUME senderAlive', NEW q \in 1 .. taken', q # servicing
        PROVE  Answered(q)'
    <3>1. CASE q = taken + 1
      BY <1>0, <2>2, <2>4, <2>6, <3>1 DEF KeepsHandle, FinalIn, Answered
    <3>2. CASE q \in 1 .. taken
      BY <1>0, <2>2, <2>4, <2>6, <3>2 DEF DoneMeansAnswered
    <3> QED BY <1>0, <2>2, <3>1, <3>2
  <2>7. DoneMeansAnswered'
    BY <2>2, <2>6 DEF DoneMeansAnswered
  <2> QED BY <1>0, <2>5, <2>7 DEF AnswerInv
<1>5. CASE ServiceRequest
  <2>1. /\ queue # << >> /\ pc = "take" /\ pc' = "service" /\ taken' = taken + 1
        /\ servicing' = Head(queue)
        /\ UNCHANGED <<handle, senderAlive, responses, event>>
    BY <1>5 DEF ServiceRequest, TakeRequest, senderVars
  <2>2. servicing = 0 /\ servicing' = taken + 1
    BY <1>0, <2>1, HeadIsNext DEF PartsAgree
  <2>3. KeepsHandle' /\ EventAtEnd'
    BY <1>0, <2>1 DEF KeepsHandle, EventAtEnd
  <2>4. DoneMeansAnswered'
    BY <1>0, <2>1, <2>2 DEF DoneMeansAnswered, Answered
  <2> QED BY <1>0, <2>3, <2>4 DEF AnswerInv
<1>6. CASE TakeEnds
  <2>1. /\ pc = "take" /\ pc' = "ended" /\ servicing' = 0
        /\ queue = << >> /\ ~inputOpen /\ UNCHANGED <<queue, inputOpen>>
        /\ UNCHANGED <<taken, senderAlive, responses>>
    BY <1>6 DEF TakeEnds, ShutdownHandler, channelVars
  <2>2. KeepsHandle' /\ EventAtEnd'
    BY <2>1 DEF KeepsHandle, EventAtEnd
  <2>3. DoneMeansAnswered'
    BY <1>0, <2>1 DEF DoneMeansAnswered, Answered, PartsAgree
  <2> QED BY <1>0, <2>2, <2>3 DEF AnswerInv
<1>7. CASE DropTask
  <2>1. pc' = "dropped"
    BY <1>7 DEF DropTask
  <2> QED BY <1>0, <2>1 DEF AnswerInv, KeepsHandle, EventAtEnd, DoneMeansAnswered
<1>8. CASE Submit \/ CloseInput
  <2>1. /\ pc = "ended" => queue' = queue /\ ~inputOpen'
        /\ UNCHANGED <<pc, taken, servicing, responses, handle, senderAlive, event>>
    BY <1>8 DEF Submit, CloseInput, serviceVars, senderVars
  <2>2. EventAtEnd'
    BY <1>0, <2>1 DEF EventAtEnd
  <2> QED BY <1>0, <2>1, <2>2, AnswerFrame
<1>9. CASE Finishes \/ TimerExpires \/ DropSender \/ UNCHANGED vars
  <2>1. /\ UNCHANGED <<pc, queue, inputOpen, taken, servicing, responses, handle,
                       event>>
        /\ senderAlive' => senderAlive
    BY <1>9 DEF Finishes, ServiceFinishes, TimerExpires, DropSender, vars,
       channelVars, serviceVars, senderVars
  <2>2. EventAtEnd'
    BY <1>0, <2>1 DEF EventAtEnd
  <2> QED BY <1>0, <2>1, <2>2, AnswerFrame
<1> QED BY <1>1, <1>2, <1>3, <1>4, <1>5, <1>6, <1>7, <1>8, <1>9 DEF Next, Poll

\* The invariant about the answers always holds.
LEMMA AnswerInvariant == Spec => []AnswerInv
BY AnswerInit, AnswerNext, PTL DEF Spec

\* As long as the sender lives, the handler is never done with a request that
\* it has not given its final response: not when the timer expires, the
\* service fails, the request is refused or the input ends in the middle.
THEOREM EveryDoneRequestAnswered == Spec => []DoneMeansAnswered
<1>1. AnswerInv => DoneMeansAnswered
  BY DEF AnswerInv
<1> QED BY <1>1, AnswerInvariant, PTL

\* A handler that ends by itself has answered everything that was ever put
\* into its channel before it signals the shutdown.
THEOREM ShutdownAfterAllServed == Spec => []EventAfterAllServed
<1>1. ASSUME AnswerInv PROVE EventAfterAllServed
  <2>1. SUFFICES ASSUME event, pc # "dropped", senderAlive, NEW r \in 1 .. sent
                 PROVE  Answered(r)
    BY DEF EventAfterAllServed
  <2>2. pc = "ended" /\ queue = << >> /\ servicing = 0
    BY <1>1, <2>1 DEF AnswerInv, EventAtEnd, OrderInv, PartsAgree
  <2>3. sent = taken /\ sent \in Nat
    BY <1>1, <2>2, BoundsAssumption DEF AnswerInv, OrderInv, QueueInOrder, TypeOK
  <2> QED BY <1>1, <2>1, <2>2, <2>3 DEF AnswerInv, DoneMeansAnswered
<1> QED BY <1>1, AnswerInvariant, PTL

\* Nothing is left unanswered while there is a sender, during a handler's life
\* and at its end (send_response, shutdown).
THEOREM LeavesNothingUnanswered == Spec => []NothingUnanswered
<1>1. DoneMeansAnswered /\ EventAfterAllServed => NothingUnanswered
  BY DEF NothingUnanswered
<1> QED BY <1>1, EveryDoneRequestAnswered, ShutdownAfterAllServed, PTL

=============================================================================
