---------------------- MODULE ForwardingReceiverProofs ----------------------
(***************************************************************************)
(* Proofs about ForwardingReceiver, for every MaxCSeq, every buffer size   *)
(* and every sequence of arrivals.                                         *)
(***************************************************************************)
EXTENDS ForwardingReceiver, FiniteSetTheorems, TLAPS

(***************************************************************************)
(* The inductive invariant. Its parts are named for what they are about;   *)
(* the properties of ForwardingReceiver are among them or follow.          *)
(***************************************************************************)

\* What holds of the buffer besides its window and its capacity.
BufferShape ==
    /\ pc = Forwarding => forwardingAlive
    /\ ~forwardingAlive => buffered = {}
    /\ forwardingAlive /\ Expected = NoCSeq => buffered = {} /\ forwarded = << >>
    /\ IsFiniteSet(buffered)

\* The expected number follows the last one forwarded.
ExpectedFollowsForwarded ==
    forwardingAlive /\ forwarded # << >>
        => Expected = WrappingIncrement(forwarded[Len(forwarded)])

OrderInv ==
    /\ TypeOK
    /\ BufferShape
    /\ ExpectedFollowsForwarded
    /\ InOrder
    /\ BufferedWithinWindow
    /\ BufferWithinCapacity

\* Where the wakers are left.
ParkedMeansFull == parked => handlerAlive /\ queue # << >>

InterestMeansEmpty == streamInterest => stream = << >>

\* A poll that has stopped reading, or is over, has either left its waker with
\* the stream, or something else will wake the task, or the buffer is full.
Attended ==
    handlerAlive /\ pc \in {Asleep, Forwarding} =>
        \/ woken \/ streamInterest \/ queue # << >> \/ servicing # NoCSeq
        \/ forwardingAlive /\ IsFull /\ (pc = Asleep => ~HasRequestsReady)

WakerInv ==
    /\ TypeOK
    /\ ParkedMeansFull
    /\ InterestMeansEmpty
    /\ Attended
    /\ ReadyRequestHasWaker

-----------------------------------------------------------------------------
\* Incrementing a sequence number, without the modulus of the code.
LEMMA WrappingIncrementCases ==
    ASSUME NEW c \in CSeqs
    PROVE  /\ WrappingIncrement(c) = IF c = MaxCSeq THEN 0 ELSE c + 1
           /\ WrappingIncrement(c) \in CSeqs
<1>1. CASE c = MaxCSeq
  BY <1>1, MaxCSeqAssumption DEF WrappingIncrement, CSeqs
<1>2. CASE c # MaxCSeq
  <2>1. c + 1 \in Nat /\ c + 1 < MaxCSeq + 1 /\ MaxCSeq + 1 \in Nat
    BY <1>2, MaxCSeqAssumption DEF CSeqs
  <2>2. (c + 1) % (MaxCSeq + 1) = c + 1
    BY <2>1
  <2> QED BY <1>2, <2>1, <2>2, MaxCSeqAssumption DEF WrappingIncrement, CSeqs
<1> QED BY <1>1, <1>2

\* An increment is one step in the reference notion of distance.
LEMMA IncrementIsOneStep ==
    ASSUME NEW c \in CSeqs
    PROVE  Distance(WrappingIncrement(c), c) = 1
BY WrappingIncrementCases, MaxCSeqAssumption DEF Distance, CSeqs

\* A request that was in the window and is not the expected one is still in
\* the window when the expected number moves on, across the wrap too.
LEMMA WindowAfterIncrement ==
    ASSUME NEW c \in CSeqs, NEW e \in CSeqs, c # e,
           CSeqSub(c, e) <= RequestBufferSize
    PROVE  CSeqSub(c, WrappingIncrement(e)) <= RequestBufferSize
BY WrappingIncrementCases, MaxCSeqAssumption, RequestBufferSizeAssumption
   DEF CSeqSub, CSeqs

\* The code's difference is at most one short of the true one.
LEMMA SubUnderestimatesByOne ==
    ASSUME NEW c \in CSeqs, NEW e \in CSeqs
    PROVE  CSeqSub(c, e) \in Int /\ Distance(c, e) <= CSeqSub(c, e) + 1
BY MaxCSeqAssumption DEF CSeqSub, Distance, CSeqs

\* The absence of a number is not a number.
LEMMA NoCSeqIsNoCSeq == NoCSeq \notin CSeqs
BY MaxCSeqAssumption DEF NoCSeq, CSeqs

-----------------------------------------------------------------------------
(* Type correctness. *)

\* A new receiver is well typed.
LEMMA TypeInit == Init => TypeOK
<1> SUFFICES ASSUME Init PROVE TypeOK
  OBVIOUS
<1>1. wire \in Seq(OptionalCSeqs) /\ handlerAlive \in BOOLEAN
  BY ArrivalsAssumption DEF Init
<1>2. /\ stream \in Seq(OptionalCSeqs) /\ errors \in Seq(ErrorStatuses)
      /\ queue \in Seq(CSeqs) /\ forwarded \in Seq(CSeqs)
  BY DEF Init
<1> QED BY <1>1, <1>2 DEF Init, TypeOK, OptionalCSeqs

\* Every step of the request path keeps the types.
LEMMA TypeNext == TypeOK /\ [Next]_vars => TypeOK'
<1> SUFFICES ASSUME TypeOK, [Next]_vars PROVE TypeOK'
  OBVIOUS
<1> USE MaxCSeqAssumption DEF TypeOK
<1>1. CASE Arrive
  <2>1. woken' \in BOOLEAN
    BY <1>1, Zenon DEF Arrive, Notify
  <2>2. wire' \in Seq(OptionalCSeqs) /\ stream' \in Seq(OptionalCSeqs)
    BY <1>1 DEF Arrive
  <2> QED BY <1>1, <2>1, <2>2 DEF Arrive, bufferVars, handlerVars
<1>2. CASE StartPoll
  BY <1>2 DEF StartPoll, streamVars, bufferVars, handlerVars
<1>3. CASE StreamBlocked
  BY <1>3 DEF StreamBlocked, StopReading, bufferVars, handlerVars
<1>4. CASE StreamNotReady
  BY <1>4 DEF StreamNotReady, StopReading, bufferVars, handlerVars
<1>5. CASE ReadRequest
  <2>1. Head(stream) \in OptionalCSeqs /\ Tail(stream) \in Seq(OptionalCSeqs)
    BY <1>5 DEF ReadRequest
  <2>2. CASE Buffer(Head(stream))
    <3>1. Head(stream) \in CSeqs
      BY <2>1, <2>2 DEF Buffer, OptionalCSeqs
    <3>2. incoming' \in OptionalCSeqs
      BY <2>2, <3>1 DEF Buffer, IncomingOrDefault, OptionalCSeqs
    <3> QED BY <1>5, <2>1, <2>2, <3>1, <3>2 DEF ReadRequest, Buffer, handlerVars
  <2>3. CASE Refuse(Head(stream))
    <3>1. \E status \in ErrorStatuses : errors' = Append(errors, status)
      BY <2>3 DEF Refuse, ErrorStatuses
    <3>2. errors' \in Seq(ErrorStatuses)
      BY <3>1
    <3> QED BY <1>5, <2>1, <2>3, <3>2 DEF ReadRequest, Refuse, handlerVars
  <2>4. CASE Ignore
    BY <1>5, <2>1, <2>4 DEF ReadRequest, Ignore, handlerVars
  <2> QED BY <1>5, <2>2, <2>3, <2>4 DEF ReadRequest
<1>6. CASE Forward
  <2>1. cur \in CSeqs /\ cur' \in CSeqs
    BY <1>6, WrappingIncrementCases DEF Forward
  <2> QED BY <1>6, <2>1 DEF Forward, OptionalCSeqs, streamVars, handlerVars
<1>7. CASE ForwardBlocked
  BY <1>7 DEF ForwardBlocked, streamVars, handlerVars
<1>8. CASE ForwardDone
  BY <1>8 DEF ForwardDone, streamVars, handlerVars
<1>9. CASE ForwardGone
  BY <1>9 DEF ForwardGone, streamVars, handlerVars
<1>10. CASE HandlerTake
  <2>1. woken' \in BOOLEAN
    BY <1>10, Zenon DEF HandlerTake, Notify
  <2>2. servicing' \in OptionalCSeqs /\ queue' \in Seq(CSeqs)
    BY <1>10 DEF HandlerTake, OptionalCSeqs
  <2> QED BY <1>10, <2>1, <2>2 DEF HandlerTake, streamVars, bufferVars
<1>11. CASE HandlerRespond
  BY <1>11 DEF HandlerRespond, OptionalCSeqs, streamVars, bufferVars
<1>12. CASE HandlerDrop
  <2>1. woken' \in BOOLEAN
    BY <1>12, Zenon DEF HandlerDrop, Notify
  <2>2. servicing' \in OptionalCSeqs /\ queue' \in Seq(CSeqs)
    BY <1>12 DEF HandlerDrop, OptionalCSeqs
  <2> QED BY <1>12, <2>1, <2>2 DEF HandlerDrop, streamVars, bufferVars
<1>13. CASE UNCHANGED vars
  BY <1>13 DEF vars, streamVars, bufferVars, handlerVars
<1> QED
  BY <1>1, <1>2, <1>3, <1>4, <1>5, <1>6, <1>7, <1>8, <1>9, <1>10, <1>11,
     <1>12, <1>13 DEF Next, ConnectionStep

\* The fields of the receiver, the channel and the handler keep their types:
\* in particular what reaches the channel always has a sequence number.
THEOREM TypeCorrect == Spec => []TypeOK
BY TypeInit, TypeNext, PTL DEF Spec

-----------------------------------------------------------------------------
(* Order, window and capacity. *)

\* A new receiver satisfies the order invariant.
LEMMA OrderInit == Init => OrderInv
<1> SUFFICES ASSUME Init PROVE OrderInv
  OBVIOUS
<1>1. TypeOK
  BY TypeInit
<1>2. IsFiniteSet(buffered) /\ Cardinality(buffered) = 0
  BY FS_EmptySet DEF Init
<1>3. BufferShape /\ ExpectedFollowsForwarded /\ InOrder /\ BufferedWithinWindow
  BY <1>2 DEF Init, BufferShape, ExpectedFollowsForwarded, InOrder,
     BufferedWithinWindow, Expected, Asleep, Forwarding
<1>4. BufferWithinCapacity
  BY <1>2, RequestBufferSizeAssumption DEF BufferWithinCapacity
<1> QED BY <1>1, <1>3, <1>4 DEF OrderInv

\* A step that keeps the buffer, the history and the expected number keeps
\* everything but the types.
LEMMA OrderFrame ==
    ASSUME OrderInv, TypeOK',
           UNCHANGED <<forwardingAlive, buffered, forwarded, Expected>>,
           pc' = Forwarding => forwardingAlive
    PROVE  OrderInv'
<1>1. BufferShape'
  BY DEF OrderInv, BufferShape
<1>2. ExpectedFollowsForwarded'
  BY DEF OrderInv, ExpectedFollowsForwarded
<1>3. InOrder'
  BY DEF OrderInv, InOrder
<1>4. BufferedWithinWindow'
  BY DEF OrderInv, BufferedWithinWindow
<1>5. BufferWithinCapacity'
  BY DEF OrderInv, BufferWithinCapacity
<1> QED BY <1>1, <1>2, <1>3, <1>4, <1>5 DEF OrderInv

\* Buffering a request, as handle_request does, keeps the order invariant.
LEMMA OrderBuffer ==
    ASSUME OrderInv, TypeOK', ReadRequest, forwardingAlive, Buffer(Head(stream))
    PROVE  OrderInv'
<1> DEFINE c == Head(stream)
<1>1. /\ pc = Reading /\ pc' = Reading /\ Expected = incoming
      /\ Expected' = incoming' /\ c \in CSeqs /\ ~IsFull
  BY DEF ReadRequest, Buffer, OrderInv, TypeOK, OptionalCSeqs, Expected,
     Reading, Forwarding
<1>2. UNCHANGED <<forwardingAlive, forwarded>>
  BY DEF ReadRequest
<1>3. incoming' \in CSeqs /\ (incoming # NoCSeq => incoming' = incoming)
  BY <1>1, NoCSeqIsNoCSeq DEF Buffer, IncomingOrDefault, OrderInv, TypeOK,
     OptionalCSeqs
<1>4. IsFiniteSet(buffered) /\ Cardinality(buffered) \in Nat
  BY FS_CardinalityType DEF OrderInv, BufferShape
<1>5. IsFiniteSet(buffered') /\ Cardinality(buffered') = Cardinality(buffered) + 1
  BY <1>4, FS_AddElement DEF Buffer
<1>6. BufferShape'
  BY <1>1, <1>2, <1>3, <1>5, NoCSeqIsNoCSeq
     DEF BufferShape, Reading, Forwarding
<1>7. ExpectedFollowsForwarded'
  BY <1>1, <1>2, <1>3 DEF OrderInv, BufferShape, ExpectedFollowsForwarded
<1>8. InOrder'
  BY <1>2 DEF OrderInv, InOrder
<1>9. BufferedWithinWindow'
  <2>1. CSeqSub(c, incoming') <= RequestBufferSize
    <3>1. CSeqSub(c, incoming') \in Int
      BY <1>1, <1>3, SubUnderestimatesByOne
    <3>2. incoming' = IncomingOrDefault(c) /\ ~TooFarAhead(c)
      BY DEF Buffer
    <3>3. ~(CSeqSub(c, incoming') > RequestBufferSize)
      BY <3>2 DEF TooFarAhead
    <3> QED BY <3>1, <3>3, RequestBufferSizeAssumption
  <2>2. ASSUME NEW d \in buffered
        PROVE  CSeqSub(d, incoming') <= RequestBufferSize
    <3>1. incoming # NoCSeq
      BY <1>1 DEF OrderInv, BufferShape
    <3> QED BY <1>1, <1>3, <3>1 DEF OrderInv, BufferedWithinWindow
  <2> QED BY <1>1, <2>1, <2>2 DEF BufferedWithinWindow, Buffer
<1>10. BufferWithinCapacity'
  BY <1>1, <1>4, <1>5, RequestBufferSizeAssumption
     DEF BufferWithinCapacity, IsFull
<1> QED BY <1>6, <1>7, <1>8, <1>9, <1>10 DEF OrderInv

\* Forwarding the expected request keeps the order invariant.
LEMMA OrderForward ==
    ASSUME OrderInv, TypeOK', Forward
    PROVE  OrderInv'
<1>1. /\ pc = Forwarding /\ pc' = Forwarding /\ Expected = cur
      /\ Expected' = cur' /\ cur \in CSeqs /\ forwardingAlive
      /\ forwardingAlive' = forwardingAlive
  BY DEF Forward, OrderInv, TypeOK, BufferShape, Expected
<1>2. cur' = WrappingIncrement(cur) /\ cur' \in CSeqs
  BY <1>1, WrappingIncrementCases DEF Forward
<1>3. /\ IsFiniteSet(buffered) /\ Cardinality(buffered) \in Nat
      /\ IsFiniteSet(buffered') /\ Cardinality(buffered') = Cardinality(buffered) - 1
  BY FS_CardinalityType, FS_RemoveElement DEF OrderInv, BufferShape, Forward
<1>4. /\ forwarded \in Seq(CSeqs) /\ Len(forwarded') = Len(forwarded) + 1
      /\ forwarded'[Len(forwarded')] = cur /\ forwarded' # << >>
      /\ \A i \in 1 .. Len(forwarded) : forwarded'[i] = forwarded[i]
  <2>1. forwarded \in Seq(CSeqs) /\ forwarded' = Append(forwarded, cur)
    BY DEF OrderInv, TypeOK, Forward
  <2> QED BY <1>1, <2>1
<1>5. BufferShape'
  BY <1>1, <1>2, <1>3, NoCSeqIsNoCSeq DEF BufferShape
<1>6. ExpectedFollowsForwarded'
  BY <1>1, <1>2, <1>4 DEF ExpectedFollowsForwarded
<1>7. InOrder'
  <2> SUFFICES ASSUME NEW i \in 1 .. Len(forwarded') - 1
               PROVE  Distance(forwarded'[i + 1], forwarded'[i]) = 1
    BY DEF InOrder
  <2>1. CASE i < Len(forwarded)
    <3>1. i \in 1 .. Len(forwarded) - 1 /\ i + 1 \in 1 .. Len(forwarded)
      BY <1>4, <2>1
    <3> QED BY <1>4, <3>1 DEF OrderInv, InOrder
  <2>2. CASE i = Len(forwarded)
    <3>1. forwarded # << >> /\ forwarded[i] \in CSeqs
      BY <1>4, <2>2
    <3>2. cur = WrappingIncrement(forwarded[i])
      BY <1>1, <2>2, <3>1 DEF OrderInv, ExpectedFollowsForwarded
    <3>3. forwarded'[i + 1] = cur /\ forwarded'[i] = forwarded[i]
      BY <1>4, <2>2
    <3> QED BY <3>1, <3>2, <3>3, IncrementIsOneStep
  <2> QED BY <1>4, <2>1, <2>2
<1>8. BufferedWithinWindow'
  <2> SUFFICES ASSUME NEW c \in buffered'
               PROVE  CSeqSub(c, cur') <= RequestBufferSize
    BY <1>1 DEF BufferedWithinWindow
  <2>1. c \in buffered /\ c # cur /\ c \in CSeqs
    BY DEF Forward, OrderInv, TypeOK
  <2>2. CSeqSub(c, cur) <= RequestBufferSize
    BY <1>1, <2>1 DEF OrderInv, BufferedWithinWindow
  <2> QED BY <1>1, <1>2, <2>1, <2>2, WindowAfterIncrement
<1>9. BufferWithinCapacity'
  BY <1>3, RequestBufferSizeAssumption DEF OrderInv, BufferWithinCapacity
<1> QED BY <1>5, <1>6, <1>7, <1>8, <1>9 DEF OrderInv

\* Every step of the request path keeps the order invariant.
LEMMA OrderNext == OrderInv /\ [Next]_vars => OrderInv'
<1> SUFFICES ASSUME OrderInv, [Next]_vars PROVE OrderInv'
  OBVIOUS
<1>0. TypeOK'
  BY TypeNext DEF OrderInv
<1>1. CASE Arrive
  BY <1>0, <1>1, OrderFrame DEF Arrive, bufferVars, Expected, OrderInv, BufferShape
<1>2. CASE StartPoll
  BY <1>0, <1>2, OrderFrame
     DEF StartPoll, bufferVars, Expected, Asleep, Reading, Forwarding
<1>3. CASE StreamBlocked \/ StreamNotReady
  BY <1>0, <1>3, OrderFrame DEF StreamBlocked, StreamNotReady, StopReading,
     bufferVars, Expected, Asleep, Reading, Forwarding
<1>4. CASE ReadRequest
  <2>1. CASE forwardingAlive /\ Buffer(Head(stream))
    BY <1>0, <1>4, <2>1, OrderBuffer
  <2>2. CASE Refuse(Head(stream)) \/ Ignore
    BY <1>0, <1>4, <2>2, OrderFrame
       DEF ReadRequest, Refuse, Ignore, Expected, OrderInv, BufferShape
  <2> QED BY <1>4, <2>1, <2>2 DEF ReadRequest
<1>5. CASE Forward
  BY <1>0, <1>5, OrderForward
<1>6. CASE ForwardBlocked \/ ForwardDone
  BY <1>0, <1>6, OrderFrame
     DEF ForwardBlocked, ForwardDone, Expected, Asleep, Forwarding
<1>7. CASE ForwardGone
  <2>1. BufferShape'
    BY <1>7, FS_EmptySet DEF ForwardGone, BufferShape, Asleep, Forwarding
  <2>2. ExpectedFollowsForwarded'
    BY <1>7 DEF ForwardGone, ExpectedFollowsForwarded
  <2>3. InOrder' /\ BufferedWithinWindow'
    BY <1>7 DEF ForwardGone, OrderInv, InOrder, BufferedWithinWindow
  <2>4. BufferWithinCapacity'
    BY <1>7, FS_EmptySet, RequestBufferSizeAssumption
       DEF ForwardGone, BufferWithinCapacity
  <2> QED BY <1>0, <2>1, <2>2, <2>3, <2>4 DEF OrderInv
<1>8. CASE HandlerTake \/ HandlerRespond \/ HandlerDrop
  BY <1>0, <1>8, OrderFrame DEF HandlerTake, HandlerRespond, HandlerDrop,
     bufferVars, Expected, OrderInv, BufferShape
<1>9. CASE UNCHANGED vars
  BY <1>0, <1>9, OrderFrame DEF vars, bufferVars, Expected, OrderInv, BufferShape
<1> QED
  BY <1>1, <1>2, <1>3, <1>4, <1>5, <1>6, <1>7, <1>8, <1>9
     DEF Next, ConnectionStep

\* The order invariant always holds.
LEMMA OrderInvariant == Spec => []OrderInv
BY OrderInit, OrderNext, PTL DEF Spec

\* For every buffer size, every MaxCSeq and whatever the peer sends, the
\* request handler is given consecutive sequence numbers.
THEOREM ForwardsInOrder == Spec => []InOrder
<1>1. OrderInv => InOrder
  BY DEF OrderInv
<1> QED BY <1>1, OrderInvariant, PTL

\* No buffered request is ever behind its turn or out of the window.
THEOREM KeepsToWindow == Spec => []BufferedWithinWindow
<1>1. OrderInv => BufferedWithinWindow
  BY DEF OrderInv
<1> QED BY <1>1, OrderInvariant, PTL

\* The debug_assert of handle_request never fires.
THEOREM KeepsToCapacity == Spec => []BufferWithinCapacity
<1>1. OrderInv => BufferWithinCapacity
  BY DEF OrderInv
<1> QED BY <1>1, OrderInvariant, PTL

\* The reorder buffer keeps to its window and to its capacity at once, however
\* the expected number moves on (ForwardingReceiver::handle_request and poll).
THEOREM KeepsToBounds == Spec => []BufferBounded
<1>1. BufferedWithinWindow /\ BufferWithinCapacity => BufferBounded
  BY DEF BufferBounded
<1> QED BY <1>1, KeepsToWindow, KeepsToCapacity, PTL

-----------------------------------------------------------------------------
(* Wakeups. *)

\* A spawned task is notified, so that the waker invariant holds.
LEMMA WakerInit == Init => WakerInv
BY TypeInit DEF Init, WakerInv, ParkedMeansFull, InterestMeansEmpty, Attended,
   ReadyRequestHasWaker

\* Every step of the request path keeps the waker invariant.
LEMMA WakerNext == WakerInv /\ [Next]_vars => WakerInv'
<1> SUFFICES ASSUME WakerInv, [Next]_vars PROVE WakerInv'
  OBVIOUS
<1>0. TypeOK /\ TypeOK'
  BY TypeNext DEF WakerInv
<1>1. ParkedMeansFull'
  <2>1. CASE Forward
    <3>1. queue' = Append(queue, cur) /\ queue \in Seq(CSeqs) /\ cur \in CSeqs
      BY <1>0, <2>1 DEF Forward, TypeOK
    <3>2. queue' # << >>
      BY <3>1
    <3> QED BY <2>1, <3>2 DEF Forward, ParkedMeansFull, handlerVars
  <2>2. CASE ~Forward
    BY <2>2 DEF WakerInv, ParkedMeansFull, Next, ConnectionStep, vars,
       streamVars, bufferVars, handlerVars, Arrive, StartPoll, StreamBlocked,
       StreamNotReady, StopReading, ReadRequest, ForwardBlocked, ForwardDone,
       ForwardGone, HandlerTake, HandlerRespond, HandlerDrop
  <2> QED BY <2>1, <2>2
<1>2. InterestMeansEmpty'
  BY DEF WakerInv, InterestMeansEmpty, Next, ConnectionStep, vars,
     streamVars, Arrive, StartPoll, StreamBlocked, StreamNotReady, StopReading,
     ReadRequest, Forward, ForwardBlocked, ForwardDone, ForwardGone,
     HandlerTake, HandlerRespond, HandlerDrop
<1>3. Attended'
  <2> USE DEF Attended, IsFull, HasRequestsReady
  <2>1. CASE Arrive
    <3>1. streamInterest => woken'
      BY <2>1, Zenon DEF Arrive, Notify
    <3>2. woken => woken'
      BY <2>1, Zenon DEF Arrive, Notify
    <3> QED BY <2>1, <3>1, <3>2 DEF Arrive, WakerInv, bufferVars, handlerVars
  <2>2. CASE StartPoll
    BY <2>2 DEF StartPoll, Asleep, Reading, Forwarding
  <2>3. CASE StreamBlocked
    BY <2>3 DEF StreamBlocked, StopReading, bufferVars, Asleep, Forwarding
  <2>4. CASE StreamNotReady
    BY <2>4 DEF StreamNotReady
  <2>5. CASE ReadRequest
    BY <2>5 DEF ReadRequest, Asleep, Reading, Forwarding
  <2>6. CASE Forward
    <3>1. queue' = Append(queue, cur) /\ queue \in Seq(CSeqs) /\ cur \in CSeqs
      BY <1>0, <2>6 DEF Forward, TypeOK
    <3>2. queue' # << >>
      BY <3>1
    <3> QED BY <3>2
  <2>7. CASE ForwardBlocked
    BY <2>7 DEF ForwardBlocked, WakerInv, ParkedMeansFull
  <2>8. CASE ForwardDone
    BY <2>8 DEF ForwardDone, WakerInv, streamVars, handlerVars
  <2>9. CASE ForwardGone
    BY <2>9 DEF ForwardGone, handlerVars
  <2>10. CASE HandlerTake
    <3>1. servicing' # NoCSeq
      BY <1>0, <2>10, NoCSeqIsNoCSeq DEF HandlerTake, TypeOK
    <3> QED BY <3>1
  <2>11. CASE HandlerRespond
    BY <2>11 DEF HandlerRespond
  <2>12. CASE HandlerDrop
    BY <2>12 DEF HandlerDrop
  <2>13. CASE UNCHANGED vars
    BY <2>13 DEF WakerInv, vars, streamVars, bufferVars, handlerVars
  <2> QED
    BY <2>1, <2>2, <2>3, <2>4, <2>5, <2>6, <2>7, <2>8, <2>9, <2>10, <2>11,
       <2>12, <2>13 DEF Next, ConnectionStep
<1>4. ReadyRequestHasWaker'
  <2> USE DEF ReadyRequestHasWaker, HasRequestsReady
  <2>1. CASE Arrive
    <3>1. woken => woken'
      BY <2>1, Zenon DEF Arrive, Notify
    <3> QED BY <2>1, <3>1 DEF Arrive, WakerInv, bufferVars, handlerVars
  <2>2. CASE StartPoll \/ ReadRequest \/ Forward
    BY <2>2 DEF StartPoll, ReadRequest, Forward, Asleep, Reading, Forwarding
  <2>3. CASE StreamBlocked \/ StreamNotReady
    BY <2>3 DEF StreamBlocked, StreamNotReady, StopReading, bufferVars, Asleep,
       Forwarding
  <2>4. CASE ForwardBlocked
    BY <2>4 DEF ForwardBlocked, WakerInv, ParkedMeansFull, handlerVars
  <2>5. CASE ForwardDone
    BY <2>5 DEF ForwardDone
  <2>6. CASE ForwardGone
    BY <2>6 DEF ForwardGone
  <2>7. CASE HandlerTake \/ HandlerDrop
    <3>1. (woken \/ parked) => woken'
      BY <2>7, Zenon DEF HandlerTake, HandlerDrop, Notify
    <3>2. UNCHANGED <<pc, forwardingAlive, incoming, buffered>>
      BY <2>7 DEF HandlerTake, HandlerDrop, bufferVars
    <3> QED BY <3>1, <3>2 DEF WakerInv
  <2>8. CASE HandlerRespond
    BY <2>8 DEF HandlerRespond
  <2>9. CASE UNCHANGED vars
    BY <2>9 DEF WakerInv, vars, bufferVars, handlerVars
  <2> QED
    BY <2>1, <2>2, <2>3, <2>4, <2>5, <2>6, <2>7, <2>8, <2>9
       DEF Next, ConnectionStep
<1> QED BY <1>0, <1>1, <1>2, <1>3, <1>4 DEF WakerInv

\* The waker invariant always holds.
LEMMA WakerInvariant == Spec => []WakerInv
BY WakerInit, WakerNext, PTL DEF Spec

\* A request whose turn it is never waits without a wakeup to come.
THEOREM ReadyRequestsAreAttended == Spec => []ReadyRequestHasWaker
<1>1. WakerInv => ReadyRequestHasWaker
  BY DEF WakerInv
<1> QED BY <1>1, WakerInvariant, PTL

\* Unread messages never wait without a wakeup to come, unless the buffer is
\* wedged: the only way reading can stop for good while the handler lives.
THEOREM UnreadMessagesAreAttended == Spec => []UnreadMessageHasWaker
<1>1. WakerInv => UnreadMessageHasWaker
  BY DEF WakerInv, Attended, InterestMeansEmpty, UnreadMessageHasWaker, Wedged
<1> QED BY <1>1, WakerInvariant, PTL

\* The task never sleeps on a ready request or an unread message unless the
\* handler will wake it, or the buffer is wedged (Receiver::poll).
THEOREM WorkIsAttended == Spec => []SleepsOnlyAttended
<1>1. ReadyRequestHasWaker /\ UnreadMessageHasWaker => SleepsOnlyAttended
  BY DEF SleepsOnlyAttended
<1> QED BY <1>1, ReadyRequestsAreAttended, UnreadMessagesAreAttended, PTL

-----------------------------------------------------------------------------
(* The receiver implements OrderedDelivery. *)

\* A new receiver has nothing held back or delivered.
LEMMA RefinesInit == Init => Ordered!Init
BY DEF Init, Ordered!Init, Ordered!NoCSeq, NoCSeq, Expected, Asleep, Forwarding

\* Every step of the request path delivers, accepts, closes or stutters.
LEMMA RefinesNext ==
    ASSUME OrderInv, OrderInv', [Next]_vars
    PROVE  [Ordered!Next]_(Ordered!vars)
<1>1. ASSUME UNCHANGED <<forwardingAlive, buffered, forwarded, Expected>>
      PROVE  UNCHANGED Ordered!vars
  BY <1>1 DEF Ordered!vars
<1>2. CASE ReadRequest /\ forwardingAlive /\ Buffer(Head(stream))
  <2> DEFINE c == Head(stream)
  <2>1. /\ c \in CSeqs /\ c \notin buffered /\ buffered' = buffered \cup {c}
        /\ UNCHANGED <<forwardingAlive, forwarded>>
        /\ Expected = incoming /\ Expected' = incoming'
        /\ incoming' = IncomingOrDefault(c) /\ ~TooFarAhead(c)
        /\ incoming \in OptionalCSeqs
    BY <1>2 DEF ReadRequest, Buffer, OrderInv, TypeOK, OptionalCSeqs, Expected,
       Reading, Forwarding
  <2>2. incoming # NoCSeq => Distance(c, incoming) <= RequestBufferSize + 1
    <3> SUFFICES ASSUME incoming # NoCSeq
                 PROVE  Distance(c, incoming) <= RequestBufferSize + 1
      OBVIOUS
    <3>1. incoming \in CSeqs /\ ~(CSeqSub(c, incoming) > RequestBufferSize)
      BY <2>1 DEF TooFarAhead, IncomingOrDefault, OptionalCSeqs
    <3>2. Distance(c, incoming) \in Int
      BY <2>1, <3>1, MaxCSeqAssumption DEF Distance, CSeqs
    <3> QED
      BY <2>1, <3>1, <3>2, SubUnderestimatesByOne, RequestBufferSizeAssumption
  <2>3. Ordered!Accept(c)
    BY <1>2, <2>1, <2>2 DEF Ordered!Accept, IncomingOrDefault, Ordered!NoCSeq,
       NoCSeq, Ordered!Distance, Distance
  <2> QED BY <2>1, <2>3 DEF Ordered!Next, Ordered!CSeqs, CSeqs
<1>3. CASE Forward
  <2>1. /\ forwardingAlive /\ forwardingAlive' /\ Expected = cur
        /\ Expected' = cur'
    BY <1>3 DEF Forward, Expected, OrderInv, BufferShape
  <2>2. Ordered!Deliver
    BY <1>3, <2>1 DEF Forward, Ordered!Deliver, Ordered!WrappingIncrement,
       WrappingIncrement
  <2> QED BY <2>2 DEF Ordered!Next
<1>4. CASE ForwardGone
  <2>1. Ordered!Close
    BY <1>4 DEF ForwardGone, Ordered!Close, Ordered!NoCSeq, NoCSeq, OrderInv,
       BufferShape
  <2> QED BY <2>1 DEF Ordered!Next
<1>5. CASE Arrive \/ HandlerTake \/ HandlerRespond \/ HandlerDrop
  BY <1>1, <1>5 DEF Arrive, HandlerTake, HandlerRespond, HandlerDrop,
     bufferVars, Expected
<1>6. CASE StartPoll \/ StreamBlocked \/ StreamNotReady
  BY <1>1, <1>6 DEF StartPoll, StreamBlocked, StreamNotReady, StopReading,
     bufferVars, Expected, Asleep, Reading, Forwarding
<1>7. CASE ReadRequest /\ (Refuse(Head(stream)) \/ Ignore)
  BY <1>1, <1>7 DEF ReadRequest, Refuse, Ignore, Expected
<1>8. CASE ForwardBlocked \/ ForwardDone
  BY <1>1, <1>8 DEF ForwardBlocked, ForwardDone, Expected, Asleep, Forwarding
<1>9. CASE UNCHANGED vars
  BY <1>1, <1>9 DEF vars, bufferVars, Expected
<1> QED
  BY <1>2, <1>3, <1>4, <1>5, <1>6, <1>7, <1>8, <1>9
     DEF Next, ConnectionStep, ReadRequest

\* The request path implements OrderedDelivery, for every buffer size: what
\* the handler sees is what the abstract specification allows.
THEOREM Refinement == Spec => ImplementsOrderedDelivery
<1>1. OrderInv /\ OrderInv' /\ [Next]_vars => [Ordered!Next]_(Ordered!vars)
  BY RefinesNext
<1> QED
  BY <1>1, RefinesInit, OrderInvariant, PTL
     DEF Spec, Ordered!Spec, ImplementsOrderedDelivery

=============================================================================
