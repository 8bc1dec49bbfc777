----------------------------- MODULE CodecProofs -----------------------------
(***************************************************************************)
(* Whatever bytes arrive, in whatever chunks, and whatever the limits of   *)
(* the decoders are:                                                       *)
(*                                                                         *)
(*   - a message that has arrived in part is under the decoding timer;     *)
(*   - for one message the timer starts again a bounded number of times;   *)
(*   - what comes out does not depend on the chunks.                       *)
(*                                                                         *)
(* For the timer it does not matter what the decoders make of the bytes,   *)
(* only which events a call of decode sends, and whether it leaves a       *)
(* decoder inside of a message.  The other two rest on what every part of  *)
(* a message makes of a text and of a longer one (Part), from there on     *)
(* what decode makes of them (Chunk), by induction on what is left to      *)
(* decode, and then the codec (CallChunk).                                 *)
(***************************************************************************)
EXTENDS Codec, HeadersProofs

(* An error has a name, so that receiving ends with it.                    *)
NamesError(step) == step.tag = "Error" => step.error # "no"

LEMMA FailureNames ==
    ASSUME NEW e, e # "no"
    PROVE  NamesError(Failure(e))
BY DEF NamesError, Failure

LEMMA OthersNameNoError ==
    /\ NamesError(Incomplete)
    /\ \A d, rest : NamesError(Complete(d, rest))
    /\ \A n : NamesError([tag |-> "Complete", length |-> n])
BY DEF NamesError, Incomplete, Complete

(* The headers and the body, of requests and responses alike.              *)
LEMMA HeaderErrors ==
    ASSUME NEW d, NEW buf
    PROVE  NamesError(DecodeHeader(d, buf))
<1>1. NamesError(DecodeBlankLine(d, buf))
  BY FailureNames, OthersNameNoError DEF DecodeBlankLine
<1>2. NamesError(DecodeHeaderName(d, buf))
  BY FailureNames, OthersNameNoError DEF DecodeHeaderName
<1>3. ASSUME NEW name, NEW rest PROVE NamesError(DecodeHeaderLine(d, name, rest))
  <2> DEFINE value == DecodeHeaderValue(d, rest)
             n == TrimHeaderName(name)
             v == TrimHeaderValue(SubSeq(rest, 1, value.length))
             left == SubSeq(rest, value.length + 3, Len(rest))
  <2>1. NamesError(value)
    BY FailureNames, OthersNameNoError DEF DecodeHeaderValue
  <2>2. NamesError(AddHeader(d, n, v, left))
    BY FailureNames, OthersNameNoError DEF AddHeader
  <2>3. DecodeHeaderLine(d, name, rest)
            = IF value.tag # "Complete" THEN value ELSE AddHeader(d, n, v, left)
    BY DEF DecodeHeaderLine, Once
  <2> HIDE DEF value, n, v, left
  <2> QED
    BY <2>1, <2>2, <2>3
<1> DEFINE name == DecodeHeaderName(d, buf)
           line == DecodeHeaderLine(d, SubSeq(buf, 1, name.length),
                                    SubSeq(buf, name.length + 2, Len(buf)))
<1>4. NamesError(line)
  BY <1>3
<1>5. DecodeHeader(d, buf) =
          IF CRLFAt(buf, 1) THEN DecodeBlankLine(d, buf)
          ELSE IF name.tag # "Complete" THEN name
          ELSE IF Len(d.headers) >= d.config.count THEN Failure("TooManyHeaders")
          ELSE line
  BY DEF DecodeHeader, Once
<1> HIDE DEF line
<1> QED
  BY <1>1, <1>2, <1>4, <1>5, FailureNames

LEMMA WordErrors ==
    ASSUME NEW buf, NEW max, NEW e, e # "no"
    PROVE  NamesError(DecodeWord(buf, max, e))
BY FailureNames, OthersNameNoError DEF DecodeWord

LEMMA VersionErrors ==
    ASSUME NEW d, NEW buf, NEW ending, NEW next
    PROVE  NamesError(DecodeVersion(d, buf, ending, next))
BY FailureNames, OthersNameNoError DEF DecodeVersion

LEMMA BodyErrors ==
    ASSUME NEW d, NEW buf
    PROVE  NamesError(DecodeBody(d, buf))
BY OthersNameNoError DEF DecodeBody

(* Every part of a request.                                                *)
LEMMA RequestStepErrors ==
    ASSUME NEW d, NEW buf
    PROVE  NamesError(RequestStep(d, buf))
<1>1. NamesError(DecodeMethod(d, buf))
  <2> DEFINE word == DecodeWord(buf, d.config.method, "MethodTooLong")
             method == MethodFromText(SubSeq(buf, 1, word.length))
             done == Complete([d EXCEPT !.state = "URI", !.method = method.value],
                              SubSeq(buf, word.length + 2, Len(buf)))
  <2>1. NamesError(word)
    BY WordErrors
  <2>2. DecodeMethod(d, buf) = IF word.tag # "Complete" THEN word
                               ELSE IF method.tag = "Err" THEN Failure("Method") ELSE done
    BY DEF DecodeMethod, Once
  <2>3. NamesError(done)
    BY OthersNameNoError
  <2> HIDE DEF word, method, done
  <2> QED
    BY <2>1, <2>2, <2>3, FailureNames
<1>2. NamesError(DecodeURI(d, buf))
  <2> DEFINE word == DecodeWord(buf, d.config.uri, "URITooLong")
             text == SubSeq(buf, 1, word.length)
             done == Complete([d EXCEPT !.state = "Version", !.uri = text],
                              SubSeq(buf, word.length + 2, Len(buf)))
  <2>1. NamesError(word)
    BY WordErrors
  <2>2. DecodeURI(d, buf) = IF word.tag # "Complete" THEN word
                            ELSE IF ~IsURIText(text) THEN Failure("URI") ELSE done
    BY DEF DecodeURI, Once
  <2>3. NamesError(done)
    BY OthersNameNoError
  <2> HIDE DEF word, text, done
  <2> QED
    BY <2>1, <2>2, <2>3, FailureNames
<1>3. NamesError(RequestDecodeVersion(d, buf))
  BY VersionErrors DEF RequestDecodeVersion
<1> QED
  BY <1>1, <1>2, <1>3, HeaderErrors, BodyErrors DEF RequestStep

(* Every part of a response.                                               *)
LEMMA ResponseStepErrors ==
    ASSUME NEW d, NEW buf
    PROVE  NamesError(ResponseStep(d, buf))
<1>1. NamesError(DecodeStatusCode(d, buf))
  BY FailureNames, OthersNameNoError DEF DecodeStatusCode
<1>2. NamesError(DecodeReasonPhrase(d, buf))
  BY FailureNames, OthersNameNoError DEF DecodeReasonPhrase
<1>3. NamesError(ResponseDecodeVersion(d, buf))
  BY VersionErrors DEF ResponseDecodeVersion
<1> QED
  BY <1>1, <1>2, <1>3, HeaderErrors, BodyErrors
  DEF ResponseStep, ResponseDecodeHeader, ResponseDecodeBody

-----------------------------------------------------------------------------
(* What Decoder::decode of a request returns: after a message the decoder   *)
(* is in its first state again.                                            *)
LEMMA RequestResults ==
    ASSUME NEW d, NEW buf
    PROVE  LET r == RequestDecode(d, buf)
           IN  /\ r.tag \in {"Complete", "Incomplete", "Error"}
               /\ r.tag = "Complete" => r.d.state = "Method"
               /\ NamesError(r)
<1> DEFINE at == Parts("request", d, buf)
           step == RequestStep(at.d, at.rest)
           fresh == [RequestDecoder EXCEPT !.length = at.d.length]
           kept == [tag |-> "Error", error |-> "kept", d |-> at.d, rest |-> at.rest]
           done == [tag |-> "Complete", message |-> RequestOf(at.d), rest |-> at.rest, d |-> fresh]
           stopped == Stopped(at.d, step, at.rest)
<1>1. fresh.state = "Method"
  BY DEF RequestDecoder
<1>2. NamesError(step)
  BY RequestStepErrors
<1>3. RequestDecode(d, buf) = IF at.d.state = "Error" THEN kept
                              ELSE IF at.d.state = "End" THEN done ELSE stopped
  <2> HIDE DEF fresh, stopped
  <2>1. RequestDecode(d, buf) =
            CASE at.d.state = "Error" -> kept
              [] at.d.state = "End" -> done
              [] OTHER -> stopped
    BY DEF RequestDecode, Once, stopped, fresh
  <2> HIDE DEF at
  <2> QED
    BY <2>1
<1>4. /\ stopped.tag \in {"Incomplete", "Error"}
      /\ NamesError(stopped)
  <2> HIDE DEF step, at
  <2> QED
    BY <1>2 DEF Stopped, NamesError
<1>5. done.tag = "Complete" /\ done.d = fresh /\ NamesError(done)
  <2> HIDE DEF fresh, at
  <2> QED
    BY DEF NamesError
<1>6. kept.tag = "Error" /\ NamesError(kept)
  <2> HIDE DEF at
  <2> QED
    BY DEF NamesError
<1> HIDE DEF at, step, fresh, kept, done, stopped
<1> QED
  BY <1>1, <1>3, <1>4, <1>5, <1>6

(* What Decoder::decode of a response returns: after a message the decoder   *)
(* is in its first state again.                                            *)
LEMMA ResponseResults ==
    ASSUME NEW d, NEW buf
    PROVE  LET r == ResponseDecode(d, buf)
           IN  /\ r.tag \in {"Complete", "Incomplete", "Error"}
               /\ r.tag = "Complete" => r.d.state = "Version"
               /\ NamesError(r)
<1> DEFINE at == Parts("response", d, buf)
           step == ResponseStep(at.d, at.rest)
           fresh == [ResponseDecoder EXCEPT !.length = at.d.length]
           kept == [tag |-> "Error", error |-> "kept", d |-> at.d, rest |-> at.rest]
           done == [tag |-> "Complete", message |-> ResponseOf(at.d), rest |-> at.rest, d |-> fresh]
           stopped == Stopped(at.d, step, at.rest)
<1>1. fresh.state = "Version"
  BY DEF ResponseDecoder
<1>2. NamesError(step)
  BY ResponseStepErrors
<1>3. ResponseDecode(d, buf) = IF at.d.state = "Error" THEN kept
                              ELSE IF at.d.state = "End" THEN done ELSE stopped
  <2> HIDE DEF fresh, stopped
  <2>1. ResponseDecode(d, buf) =
            CASE at.d.state = "Error" -> kept
              [] at.d.state = "End" -> done
              [] OTHER -> stopped
    BY DEF ResponseDecode, Once, stopped, fresh
  <2> HIDE DEF at
  <2> QED
    BY <2>1
<1>4. /\ stopped.tag \in {"Incomplete", "Error"}
      /\ NamesError(stopped)
  <2> HIDE DEF step, at
  <2> QED
    BY <1>2 DEF Stopped, NamesError
<1>5. done.tag = "Complete" /\ done.d = fresh /\ NamesError(done)
  <2> HIDE DEF fresh, at
  <2> QED
    BY DEF NamesError
<1>6. kept.tag = "Error" /\ NamesError(kept)
  <2> HIDE DEF at
  <2> QED
    BY DEF NamesError
<1> HIDE DEF at, step, fresh, kept, done, stopped
<1> QED
  BY <1>1, <1>3, <1>4, <1>5, <1>6

-----------------------------------------------------------------------------
(* The codec as the receiver holds it; between messages it is at rest.     *)
IsCodec(c) == c = [request |-> c.request, response |-> c.response]
AtRest(c) == c.request.state = "Method" /\ c.response.state = "Version"

(* What a call of decode on the codec c gives.  One of the decoders at     *)
(* most is left inside of a message, and none after a message.  A call     *)
(* that needs more bytes sends nothing that stops the timer, and it starts *)
(* it unless the codec was inside of a message already or nothing is left. *)
GoodCall(c, call) ==
    /\ call.result.tag \in {"Complete", "Incomplete", "Error"} /\ NamesError(call.result)
    /\ call.codec.request.state = "Method" \/ call.codec.response.state = "Version"
    /\ call.result.tag = "Complete" => AtRest(call.codec)
    /\ call.events \in Seq(EventNames)
    /\ call.result.tag = "Incomplete" =>
          \/ call.events = <<"DecodingStarted">>
          \/ call.events = <<>> /\ ~AtRest(c)
          \/ call.events = <<>> /\ call.codec = c /\ call.rest = <<>>

(* The events of a call.                                                   *)
LEMMA EventLists ==
    /\ {<<>>, <<"DecodingStarted">>, <<"DecodingEnded">>} \subseteq Seq(EventNames)
    /\ <<>> \o <<>> = <<>> /\ <<>> \o <<"DecodingEnded">> = <<"DecodingEnded">>
    /\ <<"DecodingStarted">> \o <<>> = <<"DecodingStarted">>
    /\ <<"DecodingStarted">> \o <<"DecodingEnded">> \in Seq(EventNames)
<1>1. <<>> \in Seq(EventNames) /\ <<"DecodingStarted">> \in Seq(EventNames)
  BY DEF EventNames
<1>2. <<"DecodingEnded">> \in Seq(EventNames)
  BY DEF EventNames
<1>3. <<"DecodingStarted">> \o <<"DecodingEnded">> \in Seq(EventNames)
  BY <1>1, <1>2
<1>4. <<>> \o <<>> = <<>> /\ <<>> \o <<"DecodingEnded">> = <<"DecodingEnded">>
  OBVIOUS
<1>5. <<"DecodingStarted">> \o <<>> = <<"DecodingStarted">>
  OBVIOUS
<1> QED
  BY <1>1, <1>2, <1>3, <1>4, <1>5

LEMMA RequestCall ==
    ASSUME NEW c, IsCodec(c), c.response.state = "Version", NEW buf,
           NEW before \in {<<>>, <<"DecodingStarted">>},
           before = <<>> => ~AtRest(c)
    PROVE  GoodCall(c, DecodeRequest(c, buf, before))
<1> DEFINE r == RequestDecode(c.request, buf)
           call == DecodeRequest(c, buf, before)
<1>1. /\ call.result = r
      /\ call.codec = [c EXCEPT !.request = r.d]
      /\ call.events = before \o Finished(r.tag)
  <2>1. call = [result |-> r, rest |-> r.rest, codec |-> [c EXCEPT !.request = r.d],
                events |-> before \o Finished(r.tag)]
    BY DEF DecodeRequest, Once
  <2> HIDE DEF r, call
  <2> QED
    BY <2>1
<1>2. /\ r.tag \in {"Complete", "Incomplete", "Error"}
      /\ r.tag = "Complete" => r.d.state = "Method"
      /\ NamesError(r)
  BY RequestResults
<1> HIDE DEF r, call
<1>3. call.codec.request = r.d /\ call.codec.response = c.response
  BY <1>1 DEF IsCodec
<1>4. /\ call.events \in Seq(EventNames)
      /\ r.tag = "Incomplete" => call.events = before
  BY <1>1, <1>2, EventLists, ZenonT(60) DEF Finished
<1>5. GoodCall(c, call)
  BY <1>1, <1>2, <1>3, <1>4 DEF GoodCall, AtRest
<1> QED
  BY <1>5 DEF call

LEMMA ResponseCall ==
    ASSUME NEW c, IsCodec(c), c.request.state = "Method", NEW buf,
           NEW before \in {<<>>, <<"DecodingStarted">>},
           before = <<>> => ~AtRest(c)
    PROVE  GoodCall(c, DecodeResponse(c, buf, before))
<1> DEFINE r == ResponseDecode(c.response, buf)
           call == DecodeResponse(c, buf, before)
<1>1. /\ call.result = r
      /\ call.codec = [c EXCEPT !.response = r.d]
      /\ call.events = before \o Finished(r.tag)
  <2>1. call = [result |-> r, rest |-> r.rest, codec |-> [c EXCEPT !.response = r.d],
                events |-> before \o Finished(r.tag)]
    BY DEF DecodeResponse, Once
  <2> HIDE DEF r, call
  <2> QED
    BY <2>1
<1>2. /\ r.tag \in {"Complete", "Incomplete", "Error"}
      /\ r.tag = "Complete" => r.d.state = "Version"
      /\ NamesError(r)
  BY ResponseResults
<1> HIDE DEF r, call
<1>3. call.codec.response = r.d /\ call.codec.request = c.request
  BY <1>1 DEF IsCodec
<1>4. /\ call.events \in Seq(EventNames)
      /\ r.tag = "Incomplete" => call.events = before
  BY <1>1, <1>2, EventLists, ZenonT(60) DEF Finished
<1>5. GoodCall(c, call)
  BY <1>1, <1>2, <1>3, <1>4 DEF GoodCall, AtRest
<1> QED
  BY <1>5 DEF call

(* Decoder::decode of the codec: the decoder that is inside of a message   *)
(* goes on, or a new message starts with the first bytes after the line    *)
(* breaks.                                                                 *)
LEMMA CodecCall ==
    ASSUME NEW c, IsCodec(c), c.request.state = "Method" \/ c.response.state = "Version",
           NEW buf
    PROVE  GoodCall(c, CodecDecode(c, buf))
<1>1. CASE c.request.state # "Method"
  <2>1. CodecDecode(c, buf) = DecodeRequest(c, buf, <<>>)
    BY <1>1 DEF CodecDecode
  <2>2. GoodCall(c, DecodeRequest(c, buf, <<>>))
    BY <1>1, RequestCall DEF AtRest
  <2> QED
    BY <2>1, <2>2
<1>2. CASE c.request.state = "Method" /\ c.response.state # "Version"
  <2>1. CodecDecode(c, buf) = DecodeResponse(c, buf, <<>>)
    BY <1>2 DEF CodecDecode
  <2>2. GoodCall(c, DecodeResponse(c, buf, <<>>))
    BY <1>2, ResponseCall DEF AtRest
  <2> QED
    BY <2>1, <2>2
<1>3. CASE AtRest(c)
  <2> DEFINE text == StripNewlines(buf)
             started == IF text = <<>> THEN <<>> ELSE <<"DecodingStarted">>
             short == [result |-> Incomplete, rest |-> text, codec |-> c, events |-> started]
  <2>1. CodecDecode(c, buf) = StartDecode(c, text)
    <3>1. Once(StripNewlines(buf), LAMBDA stripped : StartDecode(c, stripped))
              = StartDecode(c, text)
      BY DEF Once
    <3> QED
      BY <1>3, <3>1 DEF CodecDecode, AtRest
  <2>2. StartDecode(c, text) =
            IF Len(text) < MinimumInfoLineSize THEN short
            ELSE IF SubSeq(text, 1, 5) = SubSeq(Rtsp20, 1, 5)
            THEN DecodeResponse(c, text, started) ELSE DecodeRequest(c, text, started)
    BY DEF StartDecode
  <2> HIDE DEF text
  <2>3. GoodCall(c, short)
    <3>1. started \in Seq(EventNames)
      BY EventLists
    <3>2. \/ started = <<"DecodingStarted">>
          \/ started = <<>> /\ text = <<>>
      OBVIOUS
    <3> HIDE DEF started
    <3> QED
      BY <1>3, <3>1, <3>2 DEF GoodCall, NamesError, Incomplete, AtRest
  <2>4. ASSUME ~(Len(text) < MinimumInfoLineSize)
        PROVE  /\ GoodCall(c, DecodeResponse(c, text, started))
               /\ GoodCall(c, DecodeRequest(c, text, started))
    <3>1. started = <<"DecodingStarted">>
      BY <2>4 DEF MinimumInfoLineSize
    <3>2. started # <<>> /\ started \in {<<>>, <<"DecodingStarted">>}
      BY <3>1
    <3> HIDE DEF started
    <3> QED
      BY <1>3, <3>2, RequestCall, ResponseCall DEF AtRest
  <2> HIDE DEF started, short
  <2> QED
    BY <2>1, <2>2, <2>3, <2>4
<1> QED
  BY <1>1, <1>2, <1>3 DEF AtRest

-----------------------------------------------------------------------------
(* How the events in the channel and the timer go together.                *)

(* A start at the end of the channel makes the timer due.                  *)
LEMMA StartMakesDue ==
    ASSUME NEW t, NEW queue \in Seq(EventNames)
    PROVE  Due(t, queue \o <<"DecodingStarted">>)
<1> DEFINE q == queue \o <<"DecodingStarted">>
           n == Len(queue) + 1
<1>1. Len(q) = n /\ q[n] = "DecodingStarted" /\ n \in 1 .. Len(q)
  OBVIOUS
<1>2. n + 1 .. Len(q) = {}
  BY <1>1
<1> HIDE DEF q, n
<1>3. Due(t, q)
  BY <1>1, <1>2 DEF Due
<1> QED
  BY <1>3 DEF q

(* Handling the first event keeps the timer due (handle_codec_event).      *)
LEMMA HandlingKeepsDue ==
    ASSUME NEW t, NEW queue \in Seq(EventNames), queue # <<>>, Due(t, queue)
    PROVE  Due(HandleCodecEvent(t, Head(queue)), Tail(queue))
<1> DEFINE q == Tail(queue)
           u == HandleCodecEvent(t, Head(queue))
<1>1. /\ Len(queue) \in Nat /\ Len(queue) > 0 /\ Len(q) = Len(queue) - 1
      /\ \A i \in 1 .. Len(q) : q[i] = queue[i + 1]
      /\ Head(queue) = queue[1] /\ queue[1] \in EventNames
  OBVIOUS
<1>2. /\ queue[1] = "DecodingStarted" => u = "running"
      /\ queue[1] \notin {"DecodingStarted", "DecodingEnded"} => u = t
  BY <1>1 DEF HandleCodecEvent
<1> HIDE DEF q, u
<1>3. CASE t # "none" /\ \A i \in 1 .. Len(queue) : queue[i] # "DecodingEnded"
  <2>1. u # "none"
    BY <1>1, <1>2, <1>3
  <2>2. \A i \in 1 .. Len(q) : q[i] # "DecodingEnded"
    BY <1>1, <1>3
  <2>3. Due(u, q)
    BY <2>1, <2>2 DEF Due
  <2> QED
    BY <2>3 DEF u, q
<1>4. ASSUME NEW i \in 1 .. Len(queue), queue[i] = "DecodingStarted",
             \A j \in i + 1 .. Len(queue) : queue[j] # "DecodingEnded"
      PROVE  Due(u, q)
  <2>1. CASE i = 1
    <3>1. u = "running"
      BY <1>2, <1>4, <2>1
    <3>2. \A k \in 1 .. Len(q) : q[k] # "DecodingEnded"
      BY <1>1, <1>4, <2>1
    <3> QED
      BY <3>1, <3>2 DEF Due
  <2>2. CASE i # 1
    <3>1. i - 1 \in 1 .. Len(q) /\ q[i - 1] = "DecodingStarted"
      BY <1>1, <1>4, <2>2
    <3>2. \A j \in i - 1 + 1 .. Len(q) : q[j] # "DecodingEnded"
      BY <1>1, <1>4, <2>2
    <3> QED
      BY <3>1, <3>2 DEF Due
  <2> QED
    BY <2>1, <2>2
<1>5. CASE \E i \in 1 .. Len(queue) :
               /\ queue[i] = "DecodingStarted"
               /\ \A j \in i + 1 .. Len(queue) : queue[j] # "DecodingEnded"
  BY <1>4, <1>5 DEF u, q
<1> QED
  BY <1>3, <1>5 DEF Due

(* Without events of decoding in the channel, a timer that is due is there. *)
LEMMA DueMeansTimer ==
    ASSUME NEW t, NEW queue, Due(t, queue),
           \A i \in 1 .. Len(queue) : queue[i] \in {"EncodingStarted", "EncodingEnded"}
    PROVE  t # "none"
BY DEF Due

(* The timer may expire and the events of an encoding come on top.         *)
LEMMA OthersKeepDue ==
    /\ \A queue : Due("running", queue) => Due("expired", queue)
    /\ \A t : t # "none" => Due(t, <<"EncodingStarted", "EncodingEnded">>)
<1>1. ASSUME NEW queue, Due("running", queue) PROVE Due("expired", queue)
  BY <1>1 DEF Due
<1>2. ASSUME NEW t, t # "none" PROVE Due(t, <<"EncodingStarted", "EncodingEnded">>)
  BY <1>2 DEF Due
<1> QED
  BY <1>1, <1>2

-----------------------------------------------------------------------------
(* A call of decode, whatever it gives.                                    *)
LEMMA DecodeTimerInv ==
    ASSUME TimerInv, Decode
    PROVE  TimerInv'
<1> DEFINE c == [request |-> request, response |-> response]
           call == CodecDecode(c, buffer)
<1>1. /\ Running /\ phase = "stream" /\ readable
      /\ \/ DecodeComplete(call) \/ DecodeIncomplete(call)
         \/ DecodeEOF(call) \/ DecodeFails(call)
  BY DEF Decode, DecodeCalls
<1>2. GoodCall(c, call)
  BY CodecCall DEF TimerInv, IsCodec
<1>3. AtRest(c) <=> ~InMessage
  BY DEF AtRest, InMessage
<1>4. c.request = request /\ c.response = response
  OBVIOUS
<1> HIDE DEF call, c
<1>5. /\ request' = call.codec.request /\ response' = call.codec.response
      /\ buffer' = call.rest /\ events' = events \o call.events
      /\ phase' = "stream" /\ timer' = timer
  BY <1>1 DEF DecodeComplete, DecodeIncomplete, DecodeEOF, DecodeFails, ApplyDecode
<1>6. events \in Seq(EventNames) /\ events' \in Seq(EventNames)
  BY <1>2, <1>5 DEF TimerInv, GoodCall
<1>7. request'.state = "Method" \/ response'.state = "Version"
  BY <1>2, <1>5 DEF GoodCall
<1>8. (Running /\ Partial)' => Due(timer, events)'
  <2>1. CASE DecodeComplete(call)
    <3>1. ~InMessage' /\ readable'
      BY <1>1, <1>2, <1>5, <2>1 DEF DecodeComplete, GoodCall, AtRest, InMessage
    <3> QED
      BY <3>1 DEF Partial
  <2>2. CASE DecodeIncomplete(call)
    <3>1. call.result.tag = "Incomplete" /\ ended' = ended
      BY <2>2 DEF DecodeIncomplete
    <3>2. CASE call.events = <<"DecodingStarted">>
      BY <1>5, <1>6, <3>2, StartMakesDue
    <3>3. CASE call.events = <<>>
      <4>1. events' = events
        BY <1>5, <1>6, <3>3
      <4>2. ~AtRest(c) \/ (call.codec = c /\ call.rest = <<>>)
        BY <1>2, <3>1, <3>3 DEF GoodCall
      <4>3. CASE InMessage
        BY <1>1, <1>5, <4>1, <4>3 DEF TimerInv, Partial
      <4>4. CASE ~InMessage
        <5>1. request' = request /\ response' = response /\ buffer' = <<>>
          BY <1>3, <1>4, <1>5, <4>2, <4>4
        <5> QED
          BY <4>4, <5>1 DEF Partial, InMessage
      <4> QED
        BY <4>3, <4>4
    <3> QED
      BY <1>2, <3>1, <3>2, <3>3 DEF GoodCall
  <2>3. CASE DecodeEOF(call)
    BY <2>3 DEF DecodeEOF, Running
  <2>4. CASE DecodeFails(call)
    <3>1. ended' # "no"
      BY <1>2, <2>4 DEF DecodeFails, GoodCall, NamesError
    <3> QED
      BY <3>1 DEF Running
  <2> QED
    BY <1>1, <2>1, <2>2, <2>3, <2>4
<1> QED
  BY <1>5, <1>6, <1>7, <1>8 DEF TimerInv

(* One step of the receiver, the peer, the sender or the clock.            *)
LEMMA TimerStepInv == TimerInv /\ [Next]_vars => TimerInv'
<1> SUFFICES ASSUME TimerInv, [Next]_vars PROVE TimerInv'
  OBVIOUS
<1>1. CASE StartPoll \/ PollFull \/ StreamNotReady
  <2>1. /\ UNCHANGED <<request, response, buffer, readable, ended, timer, events>>
        /\ phase' \in {"stream", "events"}
    BY <1>1 DEF StartPoll, PollFull, StreamNotReady, streamVars, codecVars
  <2> QED
    BY <2>1 DEF TimerInv, Running, Partial, InMessage
<1>2. CASE MakeRoom \/ UNCHANGED vars
  <2>1. UNCHANGED <<request, response, buffer, readable, ended, timer, events, phase>>
    BY <1>2 DEF MakeRoom, streamVars, codecVars, vars
  <2> QED
    BY <2>1 DEF TimerInv, Running, Partial, InMessage
<1>3. ASSUME ReadEnd \/ \E n \in 1 .. Len(input) : ReadChunk(n) PROVE TimerInv'
  <2>1. UNCHANGED <<request, response, ended, timer, events, phase>> /\ readable' = TRUE
    BY <1>3 DEF ReadEnd, ReadChunk, codecVars
  <2>2. Partial' => Partial
    BY <2>1 DEF Partial, InMessage
  <2> QED
    BY <2>1, <2>2 DEF TimerInv, Running
<1>4. CASE Decode
  BY <1>4, DecodeTimerInv
<1>5. CASE PollCodecEvent
  <2>1. /\ UNCHANGED <<request, response, buffer, readable, ended, phase>>
        /\ phase = "events" /\ events # <<>> /\ events' = Tail(events)
        /\ timer' = HandleCodecEvent(timer, Head(events))
    BY <1>5 DEF PollCodecEvent, streamVars
  <2>2. events \in Seq(EventNames) /\ events' \in Seq(EventNames)
    BY <2>1 DEF TimerInv
  <2>3. Due(timer, events) => Due(timer, events)'
    BY <2>1, <2>2, HandlingKeepsDue
  <2> QED
    BY <2>1, <2>2, <2>3 DEF TimerInv, Running, Partial, InMessage
<1>6. CASE CodecEventsNotReady
  <2>1. /\ UNCHANGED <<request, response, buffer, readable, ended, timer, events>>
        /\ phase' = "timer" /\ events = <<>>
    BY <1>6 DEF CodecEventsNotReady, streamVars, codecVars
  <2> QED
    BY <2>1 DEF TimerInv, Running, Partial, InMessage
<1>7. CASE PollTimerReady
  <2>1. UNCHANGED <<request, response, events>> /\ ended' # "no"
    BY <1>7 DEF PollTimerReady, codecVars
  <2> QED
    BY <2>1 DEF TimerInv, Running
<1>8. CASE PollTimerNotReady
  <2>1. /\ UNCHANGED <<request, response, buffer, readable, ended, timer, events>>
        /\ Running /\ phase = "timer" /\ phase' = "idle"
    BY <1>8 DEF PollTimerNotReady, streamVars, codecVars
  <2>2. events = <<>>
    BY <2>1 DEF TimerInv
  <2> QED
    BY <2>1, <2>2 DEF TimerInv, Running, Partial, InMessage
<1>9. CASE TimerExpires
  <2>1. /\ UNCHANGED <<request, response, buffer, readable, ended, events, phase>>
        /\ timer = "running" /\ timer' = "expired"
    BY <1>9 DEF TimerExpires, streamVars, codecVars
  <2>2. Due(timer, events) => Due(timer, events)'
    BY <2>1, OthersKeepDue
  <2> QED
    BY <2>1, <2>2 DEF TimerInv, Running, Partial, InMessage
<1>10. CASE Encode
  <2>1. /\ UNCHANGED <<request, response, buffer, readable, ended, timer, phase>>
        /\ Running /\ phase = "idle" /\ events = <<>>
        /\ events' = <<"EncodingStarted", "EncodingEnded">>
    BY <1>10 DEF Encode, streamVars
  <2>2. events' \in Seq(EventNames)
    BY <2>1 DEF EventNames
  <2>3. Due(timer, events) => Due(timer, events)'
    BY <2>1, DueMeansTimer, OthersKeepDue
  <2>4. \A i \in 1 .. Len(events') : events'[i] \in {"EncodingStarted", "EncodingEnded"}
    BY <2>1
  <2> QED
    BY <2>1, <2>2, <2>3, <2>4 DEF TimerInv, Running, Partial, InMessage
<1> QED
  BY <1>1, <1>2, <1>3, <1>4, <1>5, <1>6, <1>7, <1>8, <1>9, <1>10 DEF Next

(* Between two polls of the receiver, a message that has arrived in part   *)
(* is under the decoding timer, whatever the bytes are, however they are   *)
(* cut and whatever the limits of the decoders (codec/mod.rs, decode;      *)
(* receiver.rs, handle_codec_event and poll_codec_events).                 *)
THEOREM HalfMessagesAreTimed == Spec => []PartialHasTimer
<1>1. Init => TimerInv
  <2> SUFFICES ASSUME Init PROVE TimerInv
    OBVIOUS
  <2>1. events = <<>> /\ buffer = <<>> /\ request.state = "Method" /\ response.state = "Version"
    BY DEF Init, RequestDecoder, ResponseDecoder
  <2> QED
    BY <2>1, EventLists DEF TimerInv, Partial, InMessage
<1>2. TimerInv => PartialHasTimer
  BY DueMeansTimer DEF TimerInv, PartialHasTimer
<1> QED
  BY <1>1, <1>2, TimerStepInv, PTL DEF Spec

-----------------------------------------------------------------------------
(* The loop of Decoder::decode and induction over it.                      *)

(* The limits in the configurations of the two decoders.                   *)
LEMMA Configs ==
    /\ RequestConfig.count = HeaderMaxCount /\ RequestConfig.name = HeaderNameMaxLength
    /\ RequestConfig.value = HeaderValueMaxLength /\ RequestConfig.body = BodyMaxLength
    /\ RequestConfig.method = MethodMaxLength /\ RequestConfig.uri = URIMaxLength
    /\ ResponseConfig.count = HeaderMaxCount /\ ResponseConfig.name = HeaderNameMaxLength
    /\ ResponseConfig.value = HeaderValueMaxLength /\ ResponseConfig.body = BodyMaxLength
    /\ ResponseConfig.phrase = ReasonPhraseMaxLength
BY DEF RequestConfig, ResponseConfig

(* The two decoders, by the kind of their messages.                        *)
Kinds == {"request", "response"}

(* One turn of the loop in Decoder::decode.                                *)
Turn(kind, at) ==
    IF ~at.more \/ at.d.state \in {"Error", "End"} THEN at
    ELSE IF Step(kind, at.d, at.rest).tag = "Complete"
    THEN [d |-> Step(kind, at.d, at.rest).d, rest |-> Step(kind, at.d, at.rest).rest,
          more |-> TRUE]
    ELSE [at EXCEPT !.more = FALSE]

(* How often the loop turns at most, where it begins, and the run of its   *)
(* turns.                                                                  *)
LastTurn == HeaderMaxCount + 5
Start(d, buf) == [d |-> d, rest |-> buf, more |-> TRUE]
IsRun(kind, f, m, d, buf) ==
    f = [n \in 0 .. m |-> IF n = 0 THEN Start(d, buf) ELSE Turn(kind, f[n - 1])]

(* There is a run of any length.                                           *)
LEMMA RunExists ==
    ASSUME NEW kind, NEW d, NEW buf, NEW m \in Nat
    PROVE  \E f : IsRun(kind, f, m, d, buf)
<1> DEFINE S == {k \in Nat : \E f : IsRun(kind, f, k, d, buf)}
<1>1. 0 \in S
  <2> DEFINE f == [n \in 0 .. 0 |-> Start(d, buf)]
  <2>1. IsRun(kind, f, 0, d, buf)
    BY DEF IsRun
  <2> QED
    BY <2>1
<1>2. ASSUME NEW k \in Nat, k \in S PROVE k + 1 \in S
  <2>1. PICK f : IsRun(kind, f, k, d, buf)
    BY <1>2
  <2> DEFINE g == [n \in 0 .. k + 1 |-> IF n = k + 1 THEN Turn(kind, f[k]) ELSE f[n]]
  <2>2. \A n \in 0 .. k : f[n] = IF n = 0 THEN Start(d, buf) ELSE Turn(kind, f[n - 1])
    BY <2>1 DEF IsRun
  <2>3. \A n \in 0 .. k + 1 : g[n] = IF n = 0 THEN Start(d, buf) ELSE Turn(kind, g[n - 1])
    BY <2>2
  <2>4. IsRun(kind, g, k + 1, d, buf)
    BY <2>3 DEF IsRun
  <2> QED
    BY <2>4
<1> QED
  BY <1>1, <1>2, SetInduction

(* The loop of the model is such a run.                                    *)
LEMMA PartsIsRun ==
    ASSUME NEW kind, NEW d, NEW buf
    PROVE  \E f : IsRun(kind, f, LastTurn, d, buf) /\ Parts(kind, d, buf) = f[LastTurn]
<1>0. LastTurn \in Nat
  BY DecodersAssumption DEF LastTurn
<1> DEFINE turn(at) ==
          IF ~at.more \/ at.d.state \in {"Error", "End"} THEN at
          ELSE Once(Step(kind, at.d, at.rest), LAMBDA step :
              IF step.tag = "Complete" THEN [d |-> step.d, rest |-> step.rest, more |-> TRUE]
              ELSE [at EXCEPT !.more = FALSE])
           rec(f) == [n \in 0 .. HeaderMaxCount + 5 |->
                         IF n = 0 THEN [d |-> d, rest |-> buf, more |-> TRUE]
                         ELSE Once(f[n - 1], turn)]
           after == CHOOSE f : f = rec(f)
<1>1. Parts(kind, d, buf) = after[HeaderMaxCount + 5]
  BY DEF Parts
<1>2. ASSUME NEW at PROVE turn(at) = Turn(kind, at) /\ Once(at, turn) = turn(at)
  <2> DEFINE s == Step(kind, at.d, at.rest)
             result(step) ==
                IF step.tag = "Complete" THEN [d |-> step.d, rest |-> step.rest, more |-> TRUE]
                ELSE [at EXCEPT !.more = FALSE]
  <2>1. Once(s, result) = result(s)
    <3> HIDE DEF s, result
    <3> QED
      BY DEF Once
  <2>2. turn(at) = Turn(kind, at)
    BY <2>1 DEF Turn
  <2>3. Once(at, turn) = turn(at)
    <3> HIDE DEF turn
    <3> QED
      BY DEF Once
  <2> QED
    BY <2>2, <2>3
<1> HIDE DEF turn
<1>3. ASSUME NEW f PROVE (f = rec(f)) <=> IsRun(kind, f, LastTurn, d, buf)
  BY <1>2 DEF IsRun, Start, LastTurn
<1>4. PICK f : f = rec(f)
  BY <1>0, <1>3, RunExists
<1>5. after = rec(after)
  BY <1>4
<1> HIDE DEF rec, after
<1> QED
  BY <1>1, <1>3, <1>5 DEF LastTurn

-----------------------------------------------------------------------------
(* Texts and what more bytes change in them.                               *)

(* The first of some positions is the least one, and 0 if there is none.   *)
LEMMA FirstIsLeast ==
    ASSUME NEW n \in Int, NEW A \in SUBSET (1 .. n)
    PROVE  /\ First(A) \in Nat
           /\ A = {} => First(A) = 0
           /\ A # {} => First(A) \in A /\ First(A) > 0 /\ \A j \in A : First(A) <= j
<1>1. CASE A = {}
  BY <1>1 DEF First
<1>2. CASE A # {}
  <2> DEFINE R == OpToRel(<, Nat)
  <2>1. IsWellFoundedOn(R, Nat)
    BY NatLessThanWellFounded
  <2>2. \A y, x \in Nat : y < x => <<y, x>> \in R
    BY DEF OpToRel
  <2> HIDE DEF R
  <2>3. A \subseteq Nat
    OBVIOUS
  <2>4. \E x \in A : \A y \in A : ~(<<y, x>> \in R)
    BY <1>2, <2>1, <2>3, WFMin
  <2>5. \E x \in A : \A y \in A : x <= y
    <3>1. PICK x \in A : \A y \in A : ~(<<y, x>> \in R)
      BY <2>4
    <3>2. ASSUME NEW y \in A PROVE x <= y
      <4>1. x \in Nat /\ y \in Nat
        BY <2>3
      <4>2. ~(y < x)
        BY <2>2, <3>1, <4>1
      <4> QED
        BY <4>1, <4>2
    <3> QED
      BY <3>2
  <2>6. Min(A) \in A /\ \A y \in A : Min(A) <= y
    BY <2>5 DEF Min
  <2>7. First(A) = Min(A)
    BY <1>2 DEF First
  <2>8. First(A) \in A /\ \A j \in A : First(A) <= j
    BY <2>6, <2>7
  <2>9. First(A) \in 1 .. n
    BY <2>8
  <2> QED
    BY <1>2, <2>8, <2>9
<1> QED
  BY <1>1, <1>2

(* A least position is the first.                                          *)
LEMMA FirstIs ==
    ASSUME NEW n \in Int, NEW A \in SUBSET (1 .. n), NEW k \in A, \A j \in A : k <= j
    PROVE  First(A) = k
<1>1. A # {}
  OBVIOUS
<1>2. First(A) \in A /\ First(A) <= k /\ k <= First(A)
  BY <1>1, FirstIsLeast
<1>3. First(A) \in 1 .. n /\ k \in 1 .. n
  BY <1>2
<1> QED
  BY <1>2, <1>3

(* Bytes are taken off the front of a longer text as of the text itself.   *)
LEMMA SplitAt ==
    ASSUME NEW b \in Text, NEW x \in Text, NEW n \in Nat, n <= Len(b)
    PROVE  /\ ~(n > Len(b \o x)) /\ Len(b) \in Nat
           /\ SubSeq(b \o x, 1, n) = SubSeq(b, 1, n)
           /\ SubSeq(b \o x, n + 1, Len(b \o x)) = SubSeq(b, n + 1, Len(b)) \o x
           /\ SubSeq(b, n + 1, Len(b)) \in Text /\ Len(SubSeq(b, n + 1, Len(b))) = Len(b) - n
<1>1. ~(n > Len(b \o x)) /\ Len(b) \in Nat
  BY DEF Text
<1>2. SubSeq(b \o x, 1, n) = SubSeq(b, 1, n)
  BY DEF Text
<1>3. SubSeq(b \o x, n + 1, Len(b \o x)) = SubSeq(b, n + 1, Len(b)) \o x
  <2> DEFINE m == n + 1
  <2>1. m \in Nat /\ m >= 1 /\ m <= Len(b) + 1
    BY <1>1
  <2> HIDE DEF m
  <2>2. SubSeq(b \o x, m, Len(b \o x)) = SubSeq(b, m, Len(b)) \o x
    BY <2>1, Extended
  <2> QED
    BY <2>2 DEF m
<1>4. SubSeq(b, n + 1, Len(b)) \in Text /\ Len(SubSeq(b, n + 1, Len(b))) = Len(b) - n
  BY DEF Text
<1> QED
  BY <1>1, <1>2, <1>3, <1>4

-----------------------------------------------------------------------------
(* Each part of a message, with more bytes after it.                       *)

(* How far a decoder is. Every part that is decoded lowers the rank: the   *)
(* state goes on, or it stays and there is one more header.                *)
FirstState(kind) == IF kind = "request" THEN "Method" ELSE "Version"
Offset(kind, state) ==
    IF state = FirstState(kind) THEN 5
    ELSE IF state \in {"URI", "StatusCode"} THEN 4
    ELSE IF state \in {"Version", "ReasonPhrase"} THEN 3
    ELSE IF state = "Header" THEN 2 ELSE IF state = "Body" THEN 1 ELSE 0
States(kind) == IF kind = "request" THEN {"Method", "URI", "Version", "Header", "Body", "End"}
                ELSE {"Version", "StatusCode", "ReasonPhrase", "Header", "Body", "End"}

(* The configuration of a decoder.                                         *)
Limits(kind) == IF kind = "request" THEN RequestConfig ELSE ResponseConfig

(* A decoder that has not failed.                                          *)
IsDecoder(kind, d) ==
    /\ {"state", "length", "config", "headers"} \subseteq DOMAIN d
    /\ d.state \in States(kind) /\ d.config = Limits(kind)
    /\ d.length \in Nat
    /\ \E S : d.headers \in Seq(S)
    /\ Len(d.headers) <= HeaderMaxCount

(* What every part lowers.                                                 *)
Rank(kind, d) == HeaderMaxCount - Len(d.headers) + Offset(kind, d.state)

(* The exception of ChunkIndependent: the text ends between the two bytes  *)
(* of the line break after a value or a phrase at its limit.               *)
Cut(error, buf) ==
    /\ buf[Len(buf)] = CR
    /\ \/ /\ error = "HeaderValueTooLong"
          /\ Len(buf) > HeaderValueMaxLength + 1
          /\ buf[Len(buf) - HeaderValueMaxLength - 1] = ":"
       \/ error = "ReasonPhraseTooLong" /\ Len(buf) = ReasonPhraseMaxLength + 2

(* A part was decoded: the decoder goes on, with less to do and no more    *)
(* bytes than before.                                                      *)
Advances(kind, d, buf, next, rest) ==
    /\ IsDecoder(kind, next) /\ Rank(kind, next) < Rank(kind, d)
    /\ next.state # FirstState(kind)
    /\ rest \in Text /\ Len(rest) <= Len(buf)
    /\ d.state = FirstState(kind) => Len(rest) < Len(buf)

(* What decoding a part makes of a text (step) tells what it makes of a    *)
(* longer one (more): the same part with the added bytes left over, or the *)
(* same error; only when there were too few bytes may the longer text give *)
(* something else. The first word of a message is refused once it is       *)
(* longer than InfoLineBound.                                              *)
Part(kind, d, buf, x, step, more) ==
    \/ \E next, rest :
          /\ step = Complete(next, rest) /\ more = Complete(next, rest \o x)
          /\ Advances(kind, d, buf, next, rest)
    \/ step = Incomplete /\ (d.state = FirstState(kind) => Len(buf) < InfoLineBound)
    \/ \E e : step = Failure(e) /\ (more = step \/ Cut(e, buf) \/ HeaderNameMaxLength = 0)

(* The limits of the decoders are those of the constants, which are        *)
(* natural numbers.                                                        *)
LEMMA LimitsOf ==
    ASSUME NEW kind \in Kinds
    PROVE  /\ Limits(kind).count = HeaderMaxCount /\ Limits(kind).name = HeaderNameMaxLength
           /\ Limits(kind).value = HeaderValueMaxLength /\ Limits(kind).body = BodyMaxLength
           /\ {HeaderMaxCount, HeaderNameMaxLength, HeaderValueMaxLength, BodyMaxLength,
               MethodMaxLength, URIMaxLength, ReasonPhraseMaxLength} \subseteq Nat
BY Configs, DecodersAssumption DEF Limits, Kinds

(* Setting the state and other fields.                                     *)
LEMMA Moved ==
    ASSUME NEW kind \in Kinds, NEW d, IsDecoder(kind, d), NEW next,
           DOMAIN next = DOMAIN d, next.config = d.config, next.headers = d.headers,
           next.length \in Nat, next.state \in States(kind),
           Offset(kind, next.state) < Offset(kind, d.state)
    PROVE  /\ IsDecoder(kind, next) /\ Rank(kind, next) < Rank(kind, d)
           /\ next.state # FirstState(kind)
<1>1. IsDecoder(kind, next)
  BY DEF IsDecoder
<1>2. next.state # FirstState(kind)
  BY DEF Offset
<1>3. Len(d.headers) \in Nat
  BY DEF IsDecoder
<1>4. Rank(kind, next) < Rank(kind, d)
  <2>1. HeaderMaxCount \in Nat
    BY DecodersAssumption
  <2>2. Offset(kind, next.state) \in Nat /\ Offset(kind, d.state) \in Nat
    BY DEF Offset
  <2>3. Rank(kind, next) = HeaderMaxCount - Len(d.headers) + Offset(kind, next.state)
    BY DEF Rank
  <2> DEFINE h == Len(d.headers)
             o == Offset(kind, d.state)
             p == Offset(kind, next.state)
  <2> HIDE DEF h, o, p
  <2>4. HeaderMaxCount - h + p < HeaderMaxCount - h + o
    BY <1>3, <2>1, <2>2 DEF h, o, p
  <2> QED
    BY <2>3, <2>4 DEF Rank, h, o, p
<1> QED
  BY <1>1, <1>2, <1>4

(* decode_body.                                                            *)
LEMMA BodyPart ==
    ASSUME NEW kind \in Kinds, NEW d, IsDecoder(kind, d), d.state = "Body",
           NEW buf \in Text, NEW x \in Text
    PROVE  Part(kind, d, buf, x, DecodeBody(d, buf), DecodeBody(d, buf \o x))
<1>1. CASE d.length > Len(buf)
  BY <1>1 DEF DecodeBody, Part, FirstState, Kinds
<1>2. CASE ~(d.length > Len(buf))
  <2> DEFINE n == d.length
             next == [d EXCEPT !.state = "End", !.body = SubSeq(buf, 1, n)]
             rest == SubSeq(buf, n + 1, Len(buf))
  <2>1. n \in Nat /\ n <= Len(buf) /\ Len(buf) \in Nat
    BY <1>2 DEF IsDecoder, Text
  <2>2. DecodeBody(d, buf) = Complete(next, rest)
    BY <1>2 DEF DecodeBody
  <2>3. /\ ~(n > Len(buf \o x)) /\ SubSeq(buf \o x, 1, n) = SubSeq(buf, 1, n)
        /\ SubSeq(buf \o x, n + 1, Len(buf \o x)) = rest \o x
        /\ rest \in Text /\ Len(rest) = Len(buf) - n
    <3> HIDE DEF n
    <3> QED
      BY <2>1, SplitAt
  <2>4. DecodeBody(d, buf \o x) = Complete(next, rest \o x)
    <3> HIDE DEF rest
    <3> QED
      BY <2>3 DEF DecodeBody
  <2>5. /\ IsDecoder(kind, next) /\ Rank(kind, next) < Rank(kind, d)
        /\ next.state # FirstState(kind)
    <3>1. /\ DOMAIN next = DOMAIN d /\ next.config = d.config /\ next.headers = d.headers
          /\ next.length = d.length /\ next.state = "End"
      BY DEF IsDecoder
    <3>2. "End" \in States(kind) /\ Offset(kind, "End") < Offset(kind, d.state)
      BY DEF States, Offset, FirstState, Kinds
    <3> HIDE DEF next
    <3> QED
      BY <2>1, <3>1, <3>2, Moved
  <2>6. d.state # FirstState(kind)
    BY DEF FirstState
  <2>7. Len(rest) <= Len(buf)
    <3> HIDE DEF rest, n
    <3> QED
      BY <2>1, <2>3
  <2> HIDE DEF next, rest
  <2> QED
    BY <2>2, <2>3, <2>4, <2>5, <2>6, <2>7 DEF Part, Advances
<1> QED
  BY <1>1, <1>2

(* The same for the position where the rest starts.                        *)
LEMMA SplitFrom ==
    ASSUME NEW b \in Text, NEW x \in Text, NEW m \in Nat, m >= 1, m <= Len(b) + 1
    PROVE  /\ SubSeq(b \o x, m, Len(b \o x)) = SubSeq(b, m, Len(b)) \o x
           /\ SubSeq(b, m, Len(b)) \in Text /\ Len(SubSeq(b, m, Len(b))) = Len(b) + 1 - m
<1>1. SubSeq(b \o x, m, Len(b \o x)) = SubSeq(b, m, Len(b)) \o x
  BY Extended
<1>2. SubSeq(b, m, Len(b)) \in Text /\ Len(SubSeq(b, m, Len(b))) = Len(b) + 1 - m
  BY DEF Text
<1> QED
  BY <1>1, <1>2

(* The search for a separator within a limit: found in both texts at the   *)
(* same place, missing in both beyond the limit, or the text is too short  *)
(* to tell.                                                                *)
LEMMA SeparatorPart ==
    ASSUME NEW buf \in Text, NEW x \in Text, NEW max \in Nat, NEW sep
    PROVE  LET F(b) == First({k \in 1 .. Shorter(max + 1, Len(b)) : b[k] = sep})
           IN  \/ F(buf) \in 1 .. Len(buf) /\ buf[F(buf)] = sep /\ F(buf \o x) = F(buf)
               \/ F(buf) = 0 /\ ~(Len(buf) >= max + 1)
               \/ /\ F(buf) = 0 /\ F(buf \o x) = 0
                  /\ Len(buf) >= max + 1 /\ Len(buf \o x) >= max + 1
<1> DEFINE A == {k \in 1 .. Shorter(max + 1, Len(buf)) : buf[k] = sep}
           B == {k \in 1 .. Shorter(max + 1, Len(buf \o x)) : (buf \o x)[k] = sep}
<1>1. /\ Len(buf) \in Nat /\ Len(x) \in Nat /\ Len(buf \o x) = Len(buf) + Len(x)
      /\ \A k \in 1 .. Len(buf) : (buf \o x)[k] = buf[k]
  BY Extended
<1>2. /\ A \in SUBSET (1 .. Len(buf)) /\ B \in SUBSET (1 .. Len(buf \o x))
      /\ \A k \in 1 .. Len(buf) : k \in A <=> k \in B
      /\ \A k \in A : buf[k] = sep
  BY <1>1 DEF Shorter
<1>3. Len(buf) >= max + 1 => \A k \in B : k <= Len(buf)
  BY <1>1 DEF Shorter
<1>4. Len(buf) \in Int /\ Len(buf \o x) \in Int
  BY <1>1
<1> HIDE DEF A, B
<1>5. CASE A # {}
  <2>1. First(A) \in A /\ First(A) > 0 /\ (\A j \in A : First(A) <= j) /\ First(A) \in Nat
    BY <1>2, <1>4, <1>5, FirstIsLeast
  <2>2. First(A) \in 1 .. Len(buf) /\ buf[First(A)] = sep
    BY <1>2, <2>1
  <2>3. First(A) \in B
    BY <1>2, <2>1, <2>2
  <2>4. ASSUME NEW j \in B PROVE First(A) <= j
    <3>1. CASE j <= Len(buf)
      BY <1>1, <1>2, <2>1, <3>1
    <3>2. CASE ~(j <= Len(buf))
      BY <1>1, <1>2, <2>2, <3>2
    <3> QED
      BY <3>1, <3>2
  <2>5. First(B) = First(A)
    BY <1>2, <1>4, <2>3, <2>4, FirstIs
  <2> QED
    BY <2>2, <2>5 DEF A, B
<1>6. CASE A = {}
  <2>1. First(A) = 0
    BY <1>6 DEF First
  <2>2. CASE Len(buf) >= max + 1
    <3>1. B = {}
      BY <1>1, <1>2, <1>3, <1>6, <2>2
    <3>2. First(B) = 0
      BY <3>1 DEF First
    <3>3. Len(buf \o x) >= max + 1
      BY <1>1, <2>2
    <3> QED
      BY <2>1, <2>2, <3>2, <3>3 DEF A, B
  <2>3. CASE ~(Len(buf) >= max + 1)
    BY <2>1, <2>3 DEF A
  <2> QED
    BY <2>2, <2>3
<1> QED
  BY <1>5, <1>6

(* A word that ends in a blank.                                            *)
LEMMA WordPart ==
    ASSUME NEW buf \in Text, NEW x \in Text, NEW max \in Nat, NEW e
    PROVE  \/ \E n \in Nat : /\ n + 1 <= Len(buf)
                             /\ DecodeWord(buf, max, e) = [tag |-> "Complete", length |-> n]
                             /\ DecodeWord(buf \o x, max, e) = [tag |-> "Complete", length |-> n]
           \/ DecodeWord(buf, max, e) = Incomplete /\ Len(buf) <= max
           \/ /\ DecodeWord(buf, max, e) = Failure(e)
              /\ DecodeWord(buf \o x, max, e) = Failure(e)
<1> DEFINE space(b) == First({k \in 1 .. Shorter(max + 1, Len(b)) : b[k] = SP})
<1>1. ASSUME NEW b
      PROVE  DecodeWord(b, max, e) =
                IF space(b) > 0 THEN [tag |-> "Complete", length |-> space(b) - 1]
                ELSE IF Len(b) >= max + 1 THEN Failure(e) ELSE Incomplete
  BY DEF DecodeWord
<1>2. \/ space(buf) \in 1 .. Len(buf) /\ space(buf \o x) = space(buf)
      \/ space(buf) = 0 /\ ~(Len(buf) >= max + 1)
      \/ /\ space(buf) = 0 /\ space(buf \o x) = 0
         /\ Len(buf) >= max + 1 /\ Len(buf \o x) >= max + 1
  BY SeparatorPart
<1>3. Len(buf) \in Nat
  BY DEF Text
<1> HIDE DEF space
<1>4. CASE space(buf) \in 1 .. Len(buf) /\ space(buf \o x) = space(buf)
  <2> DEFINE n == space(buf) - 1
  <2>1. n \in Nat /\ n + 1 <= Len(buf)
    BY <1>3, <1>4
  <2>2. /\ DecodeWord(buf, max, e) = [tag |-> "Complete", length |-> n]
        /\ DecodeWord(buf \o x, max, e) = [tag |-> "Complete", length |-> n]
    BY <1>1, <1>4
  <2> HIDE DEF n
  <2> QED
    BY <2>1, <2>2
<1>5. CASE space(buf) = 0 /\ ~(Len(buf) >= max + 1)
  BY <1>1, <1>3, <1>5
<1>6. CASE /\ space(buf) = 0 /\ space(buf \o x) = 0
           /\ Len(buf) >= max + 1 /\ Len(buf \o x) >= max + 1
  <2>1. DecodeWord(buf, max, e) = Failure(e)
    BY <1>1, <1>6
  <2>2. DecodeWord(buf \o x, max, e) = Failure(e)
    <3> DEFINE all == buf \o x
    <3>1. space(all) = 0 /\ Len(all) >= max + 1
      BY <1>6
    <3> HIDE DEF all
    <3>2. DecodeWord(all, max, e) = Failure(e)
      BY <1>1, <3>1
    <3> QED
      BY <3>2 DEF all
  <2> QED
    BY <1>6, <2>1, <2>2
<1> QED
  BY <1>2, <1>4, <1>5, <1>6

(* What is left after a word and its blank.                                *)
LEMMA AfterWord ==
    ASSUME NEW buf \in Text, NEW x \in Text, NEW n \in Nat, n + 1 <= Len(buf)
    PROVE  /\ SubSeq(buf \o x, 1, n) = SubSeq(buf, 1, n)
           /\ SubSeq(buf \o x, n + 2, Len(buf \o x)) = SubSeq(buf, n + 2, Len(buf)) \o x
           /\ SubSeq(buf, n + 2, Len(buf)) \in Text
           /\ Len(SubSeq(buf, n + 2, Len(buf))) = Len(buf) - (n + 1)
           /\ Len(SubSeq(buf, n + 2, Len(buf))) < Len(buf) /\ Len(buf) \in Nat
<1>1. Len(buf) \in Nat /\ n <= Len(buf)
  BY DEF Text
<1>2. SubSeq(buf \o x, 1, n) = SubSeq(buf, 1, n)
  BY <1>1, SplitAt
<1> DEFINE m == n + 2
<1>3. m \in Nat /\ m >= 1 /\ m <= Len(buf) + 1 /\ Len(buf) + 1 - m = Len(buf) - (n + 1)
  BY <1>1
<1>4. /\ SubSeq(buf \o x, m, Len(buf \o x)) = SubSeq(buf, m, Len(buf)) \o x
      /\ SubSeq(buf, m, Len(buf)) \in Text
      /\ Len(SubSeq(buf, m, Len(buf))) = Len(buf) + 1 - m
  <2> HIDE DEF m
  <2> QED
    BY <1>3, SplitFrom
<1> DEFINE r == SubSeq(buf, m, Len(buf))
<1>5. Len(r) = Len(buf) - (n + 1) /\ Len(r) < Len(buf)
  <2>1. Len(r) = Len(buf) + 1 - m
    BY <1>4
  <2> HIDE DEF r, m
  <2> QED
    BY <1>1, <1>3, <2>1
<1> QED
  BY <1>1, <1>2, <1>4, <1>5

(* decode_method, the first word of a request.                             *)
LEMMA MethodPart ==
    ASSUME NEW d, IsDecoder("request", d), d.state = "Method", NEW buf \in Text, NEW x \in Text
    PROVE  Part("request", d, buf, x, DecodeMethod(d, buf), DecodeMethod(d, buf \o x))
<1> DEFINE word(b) == DecodeWord(b, MethodMaxLength, "MethodTooLong")
           method(b) == MethodFromText(SubSeq(b, 1, word(b).length))
           next(b) == [d EXCEPT !.state = "URI", !.method = method(b).value]
           rest(b) == SubSeq(b, word(b).length + 2, Len(b))
<1>1. d.config.method = MethodMaxLength /\ MethodMaxLength \in Nat
  BY Configs, DecodersAssumption DEF IsDecoder, Limits
<1>2. ASSUME NEW b
      PROVE  DecodeMethod(d, b) = IF word(b).tag # "Complete" THEN word(b)
                                  ELSE IF method(b).tag = "Err" THEN Failure("Method")
                                  ELSE Complete(next(b), rest(b))
  BY <1>1 DEF DecodeMethod, Once
<1>3. /\ IsDecoder("request", next(buf)) /\ Rank("request", next(buf)) < Rank("request", d)
      /\ next(buf).state # FirstState("request")
  <2>1. /\ DOMAIN next(buf) = DOMAIN d /\ next(buf).config = d.config
        /\ next(buf).headers = d.headers /\ next(buf).length = d.length
        /\ next(buf).state = "URI" /\ d.length \in Nat
    BY DEF IsDecoder
  <2>2. "URI" \in States("request") /\ Offset("request", "URI") < Offset("request", d.state)
        /\ "request" \in Kinds
    BY DEF States, Offset, FirstState, Kinds
  <2> HIDE DEF next
  <2> QED
    BY <2>1, <2>2, Moved
<1>4. ASSUME NEW n \in Nat, n + 1 <= Len(buf),
             word(buf) = [tag |-> "Complete", length |-> n],
             word(buf \o x) = [tag |-> "Complete", length |-> n]
      PROVE  Part("request", d, buf, x, DecodeMethod(d, buf), DecodeMethod(d, buf \o x))
  <2>1. /\ word(buf).tag = "Complete" /\ word(buf).length = n
        /\ word(buf \o x).tag = "Complete" /\ word(buf \o x).length = n
    BY <1>4
  <2> HIDE DEF word
  <2>2. /\ SubSeq(buf \o x, 1, n) = SubSeq(buf, 1, n)
        /\ SubSeq(buf \o x, n + 2, Len(buf \o x)) = SubSeq(buf, n + 2, Len(buf)) \o x
        /\ SubSeq(buf, n + 2, Len(buf)) \in Text
        /\ Len(SubSeq(buf, n + 2, Len(buf))) < Len(buf) /\ Len(buf) \in Nat
    BY <1>4, AfterWord
  <2>3. method(buf \o x) = method(buf) /\ rest(buf \o x) = rest(buf) \o x
    BY <2>1, <2>2
  <2>4. next(buf \o x) = next(buf)
    BY <2>3
  <2>5. rest(buf) \in Text /\ Len(rest(buf)) < Len(buf) /\ Len(rest(buf)) \in Nat
    BY <2>1, <2>2 DEF Text
  <2> HIDE DEF method, next, rest
  <2>6. CASE method(buf).tag = "Err"
    BY <1>2, <2>1, <2>3, <2>6 DEF Part
  <2>7. CASE method(buf).tag # "Err"
    <3>1. /\ DecodeMethod(d, buf) = Complete(next(buf), rest(buf))
          /\ DecodeMethod(d, buf \o x) = Complete(next(buf), rest(buf) \o x)
      BY <1>2, <2>1, <2>3, <2>4, <2>7
    <3>2. Len(rest(buf)) <= Len(buf)
      BY <2>2, <2>5
    <3> QED
      BY <1>3, <2>5, <3>1, <3>2 DEF Part, Advances
  <2> QED
    BY <2>6, <2>7
<1>5. CASE word(buf) = Incomplete /\ Len(buf) <= MethodMaxLength
  <2>1. Len(buf) < InfoLineBound
    BY <1>1, <1>5 DEF InfoLineBound, Text
  <2>2. word(buf).tag # "Complete"
    BY <1>5 DEF Incomplete
  <2> QED
    BY <1>2, <1>5, <2>1, <2>2 DEF Part
<1>6. CASE word(buf) = Failure("MethodTooLong") /\ word(buf \o x) = Failure("MethodTooLong")
  <2>1. word(buf).tag # "Complete" /\ word(buf \o x).tag # "Complete"
    BY <1>6 DEF Failure
  <2> QED
    BY <1>2, <1>6, <2>1 DEF Part
<1> QED
  BY <1>1, <1>4, <1>5, <1>6, WordPart

(* decode_uri.                                                             *)
LEMMA URIPart ==
    ASSUME NEW d, IsDecoder("request", d), d.state = "URI", NEW buf \in Text, NEW x \in Text
    PROVE  Part("request", d, buf, x, DecodeURI(d, buf), DecodeURI(d, buf \o x))
<1> DEFINE word(b) == DecodeWord(b, URIMaxLength, "URITooLong")
           uri(b) == SubSeq(b, 1, word(b).length)
           next(b) == [d EXCEPT !.state = "Version", !.uri = uri(b)]
           rest(b) == SubSeq(b, word(b).length + 2, Len(b))
<1>1. d.config.uri = URIMaxLength /\ URIMaxLength \in Nat
  BY Configs, DecodersAssumption DEF IsDecoder, Limits
<1>2. ASSUME NEW b
      PROVE  DecodeURI(d, b) = IF word(b).tag # "Complete" THEN word(b)
                                  ELSE IF ~IsURIText(uri(b)) THEN Failure("URI")
                                  ELSE Complete(next(b), rest(b))
  BY <1>1 DEF DecodeURI, Once
<1>3. /\ IsDecoder("request", next(buf)) /\ Rank("request", next(buf)) < Rank("request", d)
      /\ next(buf).state # FirstState("request")
  <2>1. /\ DOMAIN next(buf) = DOMAIN d /\ next(buf).config = d.config
        /\ next(buf).headers = d.headers /\ next(buf).length = d.length
        /\ next(buf).state = "Version" /\ d.length \in Nat
    BY DEF IsDecoder
  <2>2. "Version" \in States("request") /\ Offset("request", "Version") < Offset("request", d.state)
        /\ "request" \in Kinds
    BY DEF States, Offset, FirstState, Kinds
  <2> HIDE DEF next
  <2> QED
    BY <2>1, <2>2, Moved
<1>4. ASSUME NEW n \in Nat, n + 1 <= Len(buf),
             word(buf) = [tag |-> "Complete", length |-> n],
             word(buf \o x) = [tag |-> "Complete", length |-> n]
      PROVE  Part("request", d, buf, x, DecodeURI(d, buf), DecodeURI(d, buf \o x))
  <2>1. /\ word(buf).tag = "Complete" /\ word(buf).length = n
        /\ word(buf \o x).tag = "Complete" /\ word(buf \o x).length = n
    BY <1>4
  <2> HIDE DEF word
  <2>2. /\ SubSeq(buf \o x, 1, n) = SubSeq(buf, 1, n)
        /\ SubSeq(buf \o x, n + 2, Len(buf \o x)) = SubSeq(buf, n + 2, Len(buf)) \o x
        /\ SubSeq(buf, n + 2, Len(buf)) \in Text
        /\ Len(SubSeq(buf, n + 2, Len(buf))) < Len(buf) /\ Len(buf) \in Nat
    BY <1>4, AfterWord
  <2>3. uri(buf \o x) = uri(buf) /\ rest(buf \o x) = rest(buf) \o x
    BY <2>1, <2>2
  <2>4. next(buf \o x) = next(buf)
    BY <2>3
  <2>5. rest(buf) \in Text /\ Len(rest(buf)) < Len(buf) /\ Len(rest(buf)) \in Nat
    BY <2>1, <2>2 DEF Text
  <2> HIDE DEF uri, next, rest
  <2>6. CASE ~IsURIText(uri(buf))
    BY <1>2, <2>1, <2>3, <2>6 DEF Part
  <2>7. CASE IsURIText(uri(buf))
    <3>1. /\ DecodeURI(d, buf) = Complete(next(buf), rest(buf))
          /\ DecodeURI(d, buf \o x) = Complete(next(buf), rest(buf) \o x)
      BY <1>2, <2>1, <2>3, <2>4, <2>7
    <3>2. Len(rest(buf)) <= Len(buf)
      BY <2>2, <2>5
    <3> QED
      BY <1>3, <2>5, <3>1, <3>2 DEF Part, Advances
  <2> QED
    BY <2>6, <2>7
<1>5. CASE word(buf) = Incomplete /\ Len(buf) <= URIMaxLength
  <2>1. d.state # FirstState("request")
    BY DEF FirstState
  <2>2. word(buf).tag # "Complete"
    BY <1>5 DEF Incomplete
  <2> QED
    BY <1>2, <1>5, <2>1, <2>2 DEF Part
<1>6. CASE word(buf) = Failure("URITooLong") /\ word(buf \o x) = Failure("URITooLong")
  <2>1. word(buf).tag # "Complete" /\ word(buf \o x).tag # "Complete"
    BY <1>6 DEF Failure
  <2> QED
    BY <1>2, <1>6, <2>1 DEF Part
<1> QED
  BY <1>1, <1>4, <1>5, <1>6, WordPart

(* The version is followed by a line break in a request and by a blank in  *)
(* a response.                                                             *)
VersionStep(kind, d, buf) ==
    IF kind = "request" THEN RequestDecodeVersion(d, buf) ELSE ResponseDecodeVersion(d, buf)

(* decode_version, of requests and of responses.                           *)
LEMMA VersionPart ==
    ASSUME NEW kind \in Kinds, NEW d, IsDecoder(kind, d), d.state = "Version",
           NEW buf \in Text, NEW x \in Text
    PROVE  Part(kind, d, buf, x, VersionStep(kind, d, buf), VersionStep(kind, d, buf \o x))
<1> DEFINE ending == IF kind = "request" THEN <<CR, LF>> ELSE <<SP>>
           to == IF kind = "request" THEN "Header" ELSE "StatusCode"
           size == IF kind = "request" THEN 10 ELSE 9
           version(b) == VersionTryDecode(SubSeq(b, 1, 8))
           next == [d EXCEPT !.state = to]
           rest(b) == SubSeq(b, size + 1, Len(b))
<1>1. 8 + Len(ending) = size
  BY DEF Kinds
<1>2. ASSUME NEW b
      PROVE  VersionStep(kind, d, b) =
                IF Len(b) < size THEN Incomplete
                ELSE IF SubSeq(b, 9, size) # ending THEN Failure("Version")
                ELSE IF ~IsOk(version(b)) THEN Failure("Version")
                ELSE IF version(b).value # "Rtsp2_0" THEN Failure("UnsupportedVersion")
                ELSE Complete(next, rest(b))
  <2>1. VersionStep(kind, d, b) = DecodeVersion(d, b, ending, to)
    BY DEF VersionStep, RequestDecodeVersion, ResponseDecodeVersion
  <2> HIDE DEF ending, size, to
  <2>2. DecodeVersion(d, b, ending, to) =
                IF Len(b) < size THEN Incomplete
                ELSE IF SubSeq(b, 9, size) # ending THEN Failure("Version")
                ELSE IF ~IsOk(version(b)) THEN Failure("Version")
                ELSE IF version(b).value # "Rtsp2_0" THEN Failure("UnsupportedVersion")
                ELSE Complete(next, rest(b))
    BY <1>1 DEF DecodeVersion
  <2> QED
    BY <2>1, <2>2
<1>3. /\ IsDecoder(kind, next) /\ Rank(kind, next) < Rank(kind, d)
      /\ next.state # FirstState(kind)
  <2>1. /\ DOMAIN next = DOMAIN d /\ next.config = d.config
        /\ next.headers = d.headers /\ next.length = d.length
        /\ next.state = to /\ d.length \in Nat
    BY DEF IsDecoder
  <2>2. to \in States(kind) /\ Offset(kind, to) < Offset(kind, d.state)
    BY DEF States, Offset, FirstState, Kinds
  <2> HIDE DEF next
  <2> QED
    BY <2>1, <2>2, Moved
<1>4. size \in {9, 10}
  OBVIOUS
<1>5. Len(buf) \in Nat
  BY DEF Text
<1> HIDE DEF size, ending, to, next
<1>6. CASE Len(buf) < size
  <2>1. d.state = FirstState(kind) => Len(buf) < InfoLineBound
    <3>1. CASE kind = "request"
      BY <3>1 DEF FirstState
    <3>2. CASE kind # "request"
      <4>1. size = 9
        BY <3>2 DEF size
      <4>2. 9 <= InfoLineBound /\ InfoLineBound \in Int
        BY DecodersAssumption DEF InfoLineBound
      <4> QED
        BY <1>5, <1>6, <4>1, <4>2
    <3> QED
      BY <3>1, <3>2
  <2> QED
    BY <1>2, <1>6, <2>1 DEF Part
<1>7. CASE ~(Len(buf) < size)
  <2>1. /\ ~(Len(buf \o x) < size)
        /\ SubSeq(buf \o x, 9, size) = SubSeq(buf, 9, size)
        /\ SubSeq(buf \o x, 1, 8) = SubSeq(buf, 1, 8)
    <3>1. size \in Nat /\ size <= Len(buf) /\ 8 <= Len(buf)
      BY <1>4, <1>5, <1>7
    <3>2. ~(Len(buf \o x) < size)
      BY <3>1, SplitAt, Extended
    <3>3. SubSeq(buf \o x, 9, size) = SubSeq(buf, 9, size)
      BY <3>1 DEF Text
    <3>4. SubSeq(buf \o x, 1, 8) = SubSeq(buf, 1, 8)
      BY <3>1, SplitAt
    <3> QED
      BY <3>2, <3>3, <3>4
  <2>2. /\ rest(buf \o x) = rest(buf) \o x /\ rest(buf) \in Text
        /\ Len(rest(buf)) = Len(buf) - size
    <3>1. size \in Nat /\ size <= Len(buf)
      BY <1>4, <1>5, <1>7
    <3> QED
      BY <3>1, SplitAt
  <2>3. version(buf \o x) = version(buf)
    BY <2>1
  <2> HIDE DEF version, rest
  <2>4. CASE VersionStep(kind, d, buf) = Complete(next, rest(buf))
             /\ VersionStep(kind, d, buf \o x) = Complete(next, rest(buf) \o x)
    <3>1. Len(rest(buf)) < Len(buf) /\ Len(rest(buf)) <= Len(buf)
      BY <1>4, <1>5, <2>2
    <3> QED
      BY <1>3, <2>2, <2>4, <3>1 DEF Part, Advances
  <2>5. CASE \E e : VersionStep(kind, d, buf) = Failure(e)
                     /\ VersionStep(kind, d, buf \o x) = Failure(e)
    BY <2>5 DEF Part
  <2>6. CASE \/ SubSeq(buf, 9, size) # ending \/ ~IsOk(version(buf))
             \/ version(buf).value # "Rtsp2_0"
    <3>1. PICK e : VersionStep(kind, d, buf) = Failure(e)
      BY <1>2, <1>7, <2>6
    <3>2. VersionStep(kind, d, buf \o x) = VersionStep(kind, d, buf)
      BY <1>2, <1>7, <2>1, <2>3, <2>6
    <3> QED
      BY <2>5, <3>1, <3>2
  <2>7. CASE /\ SubSeq(buf, 9, size) = ending /\ IsOk(version(buf))
             /\ version(buf).value = "Rtsp2_0"
    BY <1>2, <1>7, <2>1, <2>2, <2>3, <2>4, <2>7
  <2> QED
    BY <2>6, <2>7
<1> QED
  BY <1>6, <1>7

(* decode_status_code.                                                     *)
LEMMA StatusCodePart ==
    ASSUME NEW d, IsDecoder("response", d), d.state = "StatusCode",
           NEW buf \in Text, NEW x \in Text
    PROVE  Part("response", d, buf, x, DecodeStatusCode(d, buf), DecodeStatusCode(d, buf \o x))
<1> DEFINE code(b) == [i \in 1 .. 3 |-> ByteValue(b[i])]
           status(b) == StatusCodeTryFromBytes(code(b))
           next(b) == [d EXCEPT !.state = "ReasonPhrase", !.status = status(b).value]
           rest(b) == SubSeq(b, 5, Len(b))
<1>1. ASSUME NEW b
      PROVE  DecodeStatusCode(d, b) =
                IF Len(b) < 4 THEN Incomplete
                ELSE IF b[4] # SP \/ status(b).tag = "Err" THEN Failure("StatusCode")
                ELSE Complete(next(b), rest(b))
  BY DEF DecodeStatusCode
<1>2. /\ IsDecoder("response", next(buf)) /\ Rank("response", next(buf)) < Rank("response", d)
      /\ next(buf).state # FirstState("response")
  <2>1. /\ DOMAIN next(buf) = DOMAIN d /\ next(buf).config = d.config
        /\ next(buf).headers = d.headers /\ next(buf).length = d.length
        /\ next(buf).state = "ReasonPhrase" /\ d.length \in Nat
    BY DEF IsDecoder
  <2>2. /\ "ReasonPhrase" \in States("response") /\ "response" \in Kinds
        /\ Offset("response", "ReasonPhrase") < Offset("response", d.state)
    BY DEF States, Offset, FirstState, Kinds
  <2> HIDE DEF next
  <2> QED
    BY <2>1, <2>2, Moved
<1>3. Len(buf) \in Nat /\ d.state # FirstState("response")
  BY DEF Text, FirstState
<1>4. CASE Len(buf) < 4
  BY <1>1, <1>3, <1>4 DEF Part
<1>5. CASE ~(Len(buf) < 4)
  <2>1. 4 <= Len(buf)
    BY <1>3, <1>5
  <2>2. /\ ~(Len(buf \o x) < 4)
        /\ \A k \in 1 .. 4 : (buf \o x)[k] = buf[k]
    <3>1. Len(buf \o x) = Len(buf) + Len(x) /\ Len(x) \in Nat
      BY Extended
    <3>2. ~(Len(buf \o x) < 4)
      BY <1>3, <2>1, <3>1
    <3>3. ASSUME NEW k \in 1 .. 4 PROVE (buf \o x)[k] = buf[k]
      <4>1. k \in 1 .. Len(buf)
        BY <1>3, <2>1
      <4> QED
        BY <4>1, Extended
    <3> QED
      BY <3>2, <3>3
  <2>3. code(buf \o x) = code(buf)
    BY <2>2
  <2>4. rest(buf \o x) = rest(buf) \o x /\ rest(buf) \in Text /\ Len(rest(buf)) = Len(buf) - 4
    <3>1. 5 <= Len(buf) + 1 /\ Len(buf) + 1 - 5 = Len(buf) - 4
      BY <1>3, <2>1
    <3>2. /\ rest(buf \o x) = rest(buf) \o x /\ rest(buf) \in Text
          /\ Len(rest(buf)) = Len(buf) + 1 - 5
      BY <3>1, SplitFrom, SMTT(30)
    <3> HIDE DEF rest
    <3> QED
      BY <3>1, <3>2
  <2>5. (buf \o x)[4] = buf[4]
    BY <2>2
  <2>6. status(buf \o x) = status(buf)
    BY <2>3
  <2>7. next(buf \o x) = next(buf)
    BY <2>6
  <2> HIDE DEF code, status, next, rest
  <2>8. CASE buf[4] # SP \/ status(buf).tag = "Err"
    <3>1. DecodeStatusCode(d, buf) = Failure("StatusCode")
      BY <1>1, <1>5, <2>8
    <3>2. DecodeStatusCode(d, buf \o x) = Failure("StatusCode")
      BY <1>1, <2>2, <2>5, <2>6, <2>8
    <3> QED
      BY <3>1, <3>2 DEF Part
  <2>9. CASE ~(buf[4] # SP \/ status(buf).tag = "Err")
    <3>1. DecodeStatusCode(d, buf) = Complete(next(buf), rest(buf))
      BY <1>1, <1>5, <2>9
    <3>2. DecodeStatusCode(d, buf \o x) = Complete(next(buf), rest(buf) \o x)
      BY <1>1, <2>2, <2>4, <2>5, <2>6, <2>7, <2>9
    <3>3. Len(rest(buf)) <= Len(buf)
      BY <1>3, <2>4
    <3> QED
      BY <1>2, <1>3, <2>4, <3>1, <3>2, <3>3 DEF Part, Advances
  <2> QED
    BY <2>8, <2>9
<1> QED
  BY <1>4, <1>5

(* decode_reason_phrase. One longer than the limit is refused at once when *)
(* the text ends with CR.                                                  *)
LEMMA ReasonPhrasePart ==
    ASSUME NEW d, IsDecoder("response", d), d.state = "ReasonPhrase",
           NEW buf \in Text, NEW x \in Text
    PROVE  Part("response", d, buf, x, DecodeReasonPhrase(d, buf), DecodeReasonPhrase(d, buf \o x))
<1> DEFINE max == ReasonPhraseMaxLength + 2
           A(b) == {k \in 1 .. Shorter(max, Len(b) - 1) : CRLFAt(b, k)}
           phrase(b) == ReasonPhraseTryFrom(SubSeq(b, 1, First(A(b)) - 1))
           next(b) == [d EXCEPT !.state = "Header", !.phrase = phrase(b).value]
           rest(b) == SubSeq(b, First(A(b)) + 2, Len(b))
           all == buf \o x
<1>1. d.config.phrase + 2 = max /\ max \in Nat /\ ReasonPhraseMaxLength \in Nat
  BY Configs, DecodersAssumption DEF IsDecoder, Limits
<1>2. ASSUME NEW b
      PROVE  DecodeReasonPhrase(d, b) =
                IF First(A(b)) = 0
                THEN IF Len(b) >= max THEN Failure("ReasonPhraseTooLong") ELSE Incomplete
                ELSE IF ~IsOk(phrase(b)) THEN Failure("ReasonPhrase")
                ELSE Complete(next(b), rest(b))
  <2> HIDE DEF max
  <2> QED
    BY <1>1 DEF DecodeReasonPhrase
<1>3. /\ IsDecoder("response", next(buf)) /\ Rank("response", next(buf)) < Rank("response", d)
      /\ next(buf).state # FirstState("response")
  <2>1. /\ DOMAIN next(buf) = DOMAIN d /\ next(buf).config = d.config
        /\ next(buf).headers = d.headers /\ next(buf).length = d.length
        /\ next(buf).state = "Header" /\ d.length \in Nat
    BY DEF IsDecoder
  <2>2. /\ "Header" \in States("response") /\ "response" \in Kinds
        /\ Offset("response", "Header") < Offset("response", d.state)
    BY DEF States, Offset, FirstState, Kinds
  <2> HIDE DEF next
  <2> QED
    BY <2>1, <2>2, Moved
<1>4. d.state # FirstState("response")
  BY DEF FirstState
<1>5. /\ Len(buf) \in Nat /\ Len(x) \in Nat /\ Len(all) = Len(buf) + Len(x)
      /\ \A k \in 1 .. Len(buf) : all[k] = buf[k]
      /\ \A k \in 1 .. Len(buf) - 1 : CRLFAt(all, k) <=> CRLFAt(buf, k)
  BY Extended
<1> HIDE DEF max, all
<1>6. /\ A(buf) \in SUBSET (1 .. Len(buf) - 1) /\ A(all) \in SUBSET (1 .. Len(all) - 1)
      /\ \A k \in 1 .. Len(buf) - 1 : k \in A(buf) <=> k \in A(all)
      /\ \A k \in A(all) : CRLFAt(all, k) /\ k <= max
  BY <1>1, <1>5 DEF Shorter
<1>7. Len(buf) - 1 \in Int /\ Len(all) - 1 \in Int
  BY <1>5
<1>8. CASE A(buf) # {}
  <2> HIDE DEF A
  <2> DEFINE k == First(A(buf))
  <2>1. k \in A(buf) /\ k > 0 /\ (\A j \in A(buf) : k <= j) /\ k \in Nat
    BY <1>6, <1>7, <1>8, FirstIsLeast
  <2> HIDE DEF k
  <2>2. k \in 1 .. Len(buf) - 1
    BY <1>6, <2>1
  <2>3. k \in A(all)
    BY <1>6, <2>1, <2>2
  <2>4. ASSUME NEW j \in A(all) PROVE k <= j
    <3>1. CASE j <= Len(buf) - 1
      BY <1>5, <1>6, <2>1, <3>1
    <3>2. CASE ~(j <= Len(buf) - 1)
      BY <1>5, <1>6, <2>2, <3>2
    <3> QED
      BY <3>1, <3>2
  <2>5. First(A(all)) = k
    BY <1>6, <1>7, <2>3, <2>4, FirstIs
  <2>6. First(A(buf)) = k /\ k # 0 /\ k - 1 \in Nat /\ k - 1 <= Len(buf)
    BY <1>5, <2>2 DEF k
  <2>7. SubSeq(all, 1, k - 1) = SubSeq(buf, 1, k - 1)
    <3> DEFINE n == k - 1
    <3>1. n \in Nat /\ n <= Len(buf)
      BY <2>6
    <3> HIDE DEF n
    <3>2. SubSeq(all, 1, n) = SubSeq(buf, 1, n)
      BY <3>1, SplitAt DEF all
    <3> QED
      BY <3>2 DEF n
  <2>8. /\ SubSeq(all, k + 2, Len(all)) = SubSeq(buf, k + 2, Len(buf)) \o x
        /\ SubSeq(buf, k + 2, Len(buf)) \in Text
        /\ Len(SubSeq(buf, k + 2, Len(buf))) < Len(buf)
        /\ Len(SubSeq(buf, k + 2, Len(buf))) \in Nat
    <3>1. k \in Nat /\ k + 1 <= Len(buf)
      BY <1>5, <2>2
    <3> QED
      <4>1. /\ SubSeq(all, k + 2, Len(all)) = SubSeq(buf, k + 2, Len(buf)) \o x
            /\ SubSeq(buf, k + 2, Len(buf)) \in Text
            /\ Len(SubSeq(buf, k + 2, Len(buf))) < Len(buf)
        BY <3>1, AfterWord DEF all
      <4>2. \A s \in Text : Len(s) \in Nat
        BY DEF Text
      <4> QED
        BY <4>1, <4>2
  <2>9. phrase(all) = phrase(buf) /\ rest(all) = rest(buf) \o x
    BY <2>5, <2>6, <2>7, <2>8
  <2>10. next(all) = next(buf)
    BY <2>9
  <2>11. rest(buf) \in Text /\ Len(rest(buf)) < Len(buf) /\ Len(rest(buf)) \in Nat
    BY <2>6, <2>8
  <2> HIDE DEF phrase, next, rest
  <2>12. CASE ~IsOk(phrase(buf))
    <3>1. /\ DecodeReasonPhrase(d, buf) = Failure("ReasonPhrase")
          /\ DecodeReasonPhrase(d, all) = Failure("ReasonPhrase")
      BY <1>2, <2>5, <2>6, <2>9, <2>12
    <3> QED
      BY <3>1 DEF Part, all
  <2>13. CASE IsOk(phrase(buf))
    <3>1. /\ DecodeReasonPhrase(d, buf) = Complete(next(buf), rest(buf))
          /\ DecodeReasonPhrase(d, all) = Complete(next(buf), rest(buf) \o x)
      BY <1>2, <2>5, <2>6, <2>9, <2>10, <2>13
    <3>2. Len(rest(buf)) <= Len(buf)
      BY <1>5, <2>11
    <3> QED
      BY <1>3, <1>4, <2>11, <3>1, <3>2 DEF Part, Advances, all
  <2> QED
    BY <2>12, <2>13
<1>9. CASE A(buf) = {}
  <2>1. First(A(buf)) = 0
    BY <1>9 DEF First
  <2>2. CASE ~(Len(buf) >= max)
    <3>1. DecodeReasonPhrase(d, buf) = Incomplete
      BY <1>2, <2>1, <2>2
    <3> QED
      BY <1>4, <3>1 DEF Part
  <2>3. CASE Len(buf) >= max
    <3>1. DecodeReasonPhrase(d, buf) = Failure("ReasonPhraseTooLong")
      BY <1>2, <2>1, <2>3
    <3>2. CASE A(all) = {}
      <4>1. First(A(all)) = 0
        BY <3>2 DEF First
      <4>2. Len(all) >= max
        BY <1>1, <1>5, <2>3
      <4>3. DecodeReasonPhrase(d, all) = Failure("ReasonPhraseTooLong")
        BY <1>2, <4>1, <4>2
      <4> QED
        BY <3>1, <4>3 DEF Part, all
    <3>3. ASSUME NEW k \in A(all) PROVE Cut("ReasonPhraseTooLong", buf)
      <4>1. k \notin 1 .. Len(buf) - 1 /\ k <= max /\ k \in 1 .. Len(all) - 1
        BY <1>6, <1>9
      <4>2. k = Len(buf) /\ Len(buf) = max
        BY <1>1, <1>5, <2>3, <4>1
      <4>3. all[k] = CR
        BY <1>6 DEF CRLFAt
      <4>4. buf[Len(buf)] = CR
        BY <1>5, <4>1, <4>2, <4>3
      <4> QED
        BY <4>2, <4>4 DEF Cut, max
    <3> QED
      BY <3>1, <3>2, <3>3 DEF Part
  <2> QED
    BY <2>2, <2>3
<1> QED
  BY <1>8, <1>9

(* decode_header_name.                                                     *)
LEMMA NamePart ==
    ASSUME NEW kind \in Kinds, NEW d, IsDecoder(kind, d), NEW buf \in Text, NEW x \in Text
    PROVE  \/ \E n \in Nat :
                /\ n + 1 <= Len(buf) /\ buf[n + 1] = ":"
                /\ DecodeHeaderName(d, buf) = [tag |-> "Complete", length |-> n]
                /\ DecodeHeaderName(d, buf \o x) = [tag |-> "Complete", length |-> n]
           \/ DecodeHeaderName(d, buf) = Incomplete
           \/ /\ DecodeHeaderName(d, buf) = Failure("HeaderNameTooLong")
              /\ DecodeHeaderName(d, buf \o x) = Failure("HeaderNameTooLong")
              /\ Len(buf) >= HeaderNameMaxLength + 1
<1> DEFINE max == HeaderNameMaxLength
           colon(b) == First({k \in 1 .. Shorter(max + 1, Len(b)) : b[k] = ":"})
<1>1. ASSUME NEW b
      PROVE  DecodeHeaderName(d, b) =
                IF colon(b) > 0 THEN [tag |-> "Complete", length |-> colon(b) - 1]
                ELSE IF Len(b) >= max + 1 THEN Failure("HeaderNameTooLong") ELSE Incomplete
  <2>1. d.config.name = max
    BY LimitsOf DEF IsDecoder
  <2> QED
    BY <2>1 DEF DecodeHeaderName
<1>2. max \in Nat
  BY DecodersAssumption
<1>3. \/ colon(buf) \in 1 .. Len(buf) /\ buf[colon(buf)] = ":" /\ colon(buf \o x) = colon(buf)
      \/ colon(buf) = 0 /\ ~(Len(buf) >= max + 1)
      \/ /\ colon(buf) = 0 /\ colon(buf \o x) = 0
         /\ Len(buf) >= max + 1 /\ Len(buf \o x) >= max + 1
  BY <1>2, SeparatorPart
<1>4. Len(buf) \in Nat
  BY DEF Text
<1> HIDE DEF colon
<1>5. CASE colon(buf) \in 1 .. Len(buf) /\ buf[colon(buf)] = ":" /\ colon(buf \o x) = colon(buf)
  <2> DEFINE n == colon(buf) - 1
  <2>1. n \in Nat /\ n + 1 <= Len(buf) /\ n + 1 = colon(buf)
    BY <1>4, <1>5
  <2>2. /\ DecodeHeaderName(d, buf) = [tag |-> "Complete", length |-> n]
        /\ DecodeHeaderName(d, buf \o x) = [tag |-> "Complete", length |-> n]
    BY <1>1, <1>5
  <2> HIDE DEF n
  <2> QED
    BY <1>5, <2>1, <2>2
<1>6. CASE colon(buf) = 0 /\ ~(Len(buf) >= max + 1)
  BY <1>1, <1>6
<1>7. CASE /\ colon(buf) = 0 /\ colon(buf \o x) = 0
           /\ Len(buf) >= max + 1 /\ Len(buf \o x) >= max + 1
  <2>1. DecodeHeaderName(d, buf) = Failure("HeaderNameTooLong")
    BY <1>1, <1>7
  <2>2. DecodeHeaderName(d, buf \o x) = Failure("HeaderNameTooLong")
    <3> DEFINE all == buf \o x
    <3>1. colon(all) = 0 /\ Len(all) >= max + 1
      BY <1>7
    <3> HIDE DEF all
    <3>2. DecodeHeaderName(d, all) = Failure("HeaderNameTooLong")
      BY <1>1, <3>1
    <3> QED
      BY <3>2 DEF all
  <2> QED
    BY <1>7, <2>1, <2>2
<1> QED
  BY <1>3, <1>5, <1>6, <1>7

(* decode_header_value. One of exactly the greatest length is refused when *)
(* the text ends with CR.                                                  *)
LEMMA ValuePart ==
    ASSUME NEW kind \in Kinds, NEW d, IsDecoder(kind, d), NEW buf \in Text, NEW x \in Text
    PROVE  \/ \E n \in Nat :
                /\ n + 3 <= Len(buf)
                /\ DecodeHeaderValue(d, buf) = [tag |-> "Complete", length |-> n]
                /\ DecodeHeaderValue(d, buf \o x) = [tag |-> "Complete", length |-> n]
           \/ DecodeHeaderValue(d, buf) = Incomplete
           \/ /\ DecodeHeaderValue(d, buf) = Failure("HeaderValueTooLong")
              /\ \/ DecodeHeaderValue(d, buf \o x) = Failure("HeaderValueTooLong")
                 \/ Len(buf) = HeaderValueMaxLength + 1 /\ buf[Len(buf)] = CR
<1> DEFINE max == HeaderValueMaxLength + 1
           Ends(b, k) == CRLFAt(b, k) /\ ~(k + 2 <= Len(b) /\ b[k + 2] \in Blank)
           A(b) == {k \in 1 .. Shorter(max, Len(b) - 1) : Ends(b, k)}
           all == buf \o x
<1>1. max \in Nat /\ d.config.value + 1 = max
  BY LimitsOf DEF IsDecoder
<1>2. ASSUME NEW b
      PROVE  DecodeHeaderValue(d, b) =
                CASE First(A(b)) > 0 /\ First(A(b)) + 2 <= Len(b) ->
                        [tag |-> "Complete", length |-> First(A(b)) - 1]
                  [] First(A(b)) > 0 /\ First(A(b)) + 2 > Len(b) -> Incomplete
                  [] First(A(b)) = 0 /\ Len(b) >= max -> Failure("HeaderValueTooLong")
                  [] OTHER -> Incomplete
  <2> HIDE DEF max
  <2> QED
    BY <1>1 DEF DecodeHeaderValue
<1>3. /\ Len(buf) \in Nat /\ Len(x) \in Nat /\ Len(all) = Len(buf) + Len(x)
      /\ \A k \in 1 .. Len(buf) : all[k] = buf[k]
      /\ \A k \in 1 .. Len(buf) - 1 : CRLFAt(all, k) <=> CRLFAt(buf, k)
  BY Extended
<1> HIDE DEF max, all
<1>4. /\ \A k \in 1 .. Len(buf) - 2 : Ends(buf, k) <=> Ends(all, k)
      /\ \A k \in 1 .. Len(buf) - 1 : Ends(all, k) => Ends(buf, k)
  <2>1. ASSUME NEW k \in 1 .. Len(buf) - 2 PROVE Ends(buf, k) <=> Ends(all, k)
    <3>1. k \in 1 .. Len(buf) - 1 /\ k + 2 \in 1 .. Len(buf)
      BY <1>3
    <3>2. all[k + 2] = buf[k + 2] /\ (CRLFAt(all, k) <=> CRLFAt(buf, k))
      BY <1>3, <3>1
    <3>3. k + 2 <= Len(buf) /\ k + 2 <= Len(all)
      BY <1>3, <3>1
    <3> QED
      BY <3>2, <3>3
  <2>2. ASSUME NEW k \in 1 .. Len(buf) - 1, Ends(all, k) PROVE Ends(buf, k)
    <3>1. CASE k \in 1 .. Len(buf) - 2
      BY <2>1, <2>2, <3>1
    <3>2. CASE k \notin 1 .. Len(buf) - 2
      <4>1. ~(k + 2 <= Len(buf))
        BY <1>3, <2>2, <3>2
      <4>2. CRLFAt(buf, k)
        BY <1>3, <2>2
      <4> QED
        BY <4>1, <4>2
    <3> QED
      BY <3>1, <3>2
  <2> QED
    BY <2>1, <2>2
<1>5. ASSUME NEW k, Ends(all, k) PROVE all[k] = CR
  BY <1>5 DEF CRLFAt
<1> HIDE DEF Ends
<1>6. /\ A(buf) \in SUBSET (1 .. Len(buf) - 1) /\ A(all) \in SUBSET (1 .. Len(all) - 1)
      /\ \A k \in A(all) : Ends(all, k) /\ k <= max
      /\ \A k \in 1 .. Len(buf) - 2 : k \in A(buf) <=> k \in A(all)
      /\ \A k \in 1 .. Len(buf) - 1 : k \in A(all) => k \in A(buf)
  BY <1>1, <1>3, <1>4 DEF Shorter
<1>7. Len(buf) - 1 \in Int /\ Len(all) - 1 \in Int
  BY <1>3
<1>8. CASE A(buf) # {}
  <2> HIDE DEF A
  <2> DEFINE k == First(A(buf))
  <2>1. k \in A(buf) /\ k > 0 /\ (\A j \in A(buf) : k <= j) /\ k \in Nat
    BY <1>6, <1>7, <1>8, FirstIsLeast
  <2> HIDE DEF k
  <2>2. k \in 1 .. Len(buf) - 1 /\ First(A(buf)) = k
    BY <1>6, <2>1 DEF k
  <2>3. CASE k + 2 > Len(buf)
    <3>1. DecodeHeaderValue(d, buf) = Incomplete
      BY <1>2, <1>3, <2>1, <2>2, <2>3
    <3> QED
      BY <3>1
  <2>4. CASE k + 2 <= Len(buf)
    <3>1. k \in 1 .. Len(buf) - 2
      BY <1>3, <2>2, <2>4
    <3>2. k \in A(all)
      BY <1>6, <2>1, <3>1
    <3>3. ASSUME NEW j \in A(all) PROVE k <= j
      <4>1. CASE j <= Len(buf) - 1
        BY <1>3, <1>6, <2>1, <4>1
      <4>2. CASE ~(j <= Len(buf) - 1)
        BY <1>3, <1>6, <2>2, <4>2
      <4> QED
        BY <4>1, <4>2
    <3>4. First(A(all)) = k
      BY <1>6, <1>7, <3>2, <3>3, FirstIs
    <3> DEFINE n == k - 1
    <3>5. n \in Nat /\ n + 3 <= Len(buf) /\ k + 2 <= Len(all)
      BY <1>3, <2>2, <2>4
    <3>6. /\ DecodeHeaderValue(d, buf) = [tag |-> "Complete", length |-> n]
          /\ DecodeHeaderValue(d, all) = [tag |-> "Complete", length |-> n]
      BY <1>2, <2>1, <2>2, <2>4, <3>4, <3>5
    <3> HIDE DEF n
    <3> QED
      BY <3>5, <3>6 DEF all
  <2> QED
    BY <1>3, <2>2, <2>3, <2>4
<1>9. CASE A(buf) = {}
  <2>1. First(A(buf)) = 0
    BY <1>9 DEF First
  <2> HIDE DEF A
  <2>2. CASE ~(Len(buf) >= max)
    <3>1. DecodeHeaderValue(d, buf) = Incomplete
      BY <1>2, <2>1, <2>2
    <3> QED
      BY <3>1
  <2>3. CASE Len(buf) >= max
    <3>1. DecodeHeaderValue(d, buf) = Failure("HeaderValueTooLong")
      BY <1>2, <2>1, <2>3
    <3>2. CASE A(all) = {}
      <4>1. First(A(all)) = 0
        BY <3>2 DEF First
      <4>2. Len(all) >= max
        BY <1>1, <1>3, <2>3
      <4>3. DecodeHeaderValue(d, all) = Failure("HeaderValueTooLong")
        BY <1>2, <4>1, <4>2
      <4> QED
        BY <3>1, <4>3 DEF all
    <3>3. ASSUME NEW k \in A(all) PROVE Len(buf) = max /\ buf[Len(buf)] = CR
      <4>1. k \notin 1 .. Len(buf) - 1 /\ k <= max /\ k \in 1 .. Len(all) - 1
        BY <1>6, <1>9
      <4>2. k = Len(buf) /\ Len(buf) = max
        BY <1>1, <1>3, <2>3, <4>1
      <4>3. all[k] = CR
        BY <1>5, <1>6
      <4> QED
        BY <1>3, <4>1, <4>2, <4>3
    <3> QED
      BY <3>1, <3>2, <3>3 DEF max
  <2> QED
    BY <2>2, <2>3
<1> QED
  BY <1>8, <1>9

(* The blank line after the headers, where Content-Length decides about    *)
(* the body.                                                               *)
LEMMA BlankLinePart ==
    ASSUME NEW kind \in Kinds, NEW d, IsDecoder(kind, d), d.state = "Header",
           NEW buf \in Text, NEW x \in Text, CRLFAt(buf, 1)
    PROVE  Part(kind, d, buf, x, DecodeBlankLine(d, buf), DecodeBlankLine(d, buf \o x))
<1> DEFINE length == ContentLengthDecode(GetAll(d.headers, <<"L">>))
           next(n) == [d EXCEPT !.state = "Body", !.length = n]
           rest(b) == SubSeq(b, 3, Len(b))
           all == buf \o x
<1>1. ASSUME NEW b
      PROVE  \/ \E e \in {"InvalidContentLength", "BodyTooLong"} :
                    DecodeBlankLine(d, b) = Failure(e) /\ DecodeBlankLine(d, buf) = Failure(e)
             \/ \E n \in Nat :
                    /\ DecodeBlankLine(d, b) = Complete(next(n), rest(b))
                    /\ DecodeBlankLine(d, buf) = Complete(next(n), rest(buf))
  <2>1. d.config.body \in Nat
    BY LimitsOf DEF IsDecoder
  <2>2. ASSUME NEW c
        PROVE  DecodeBlankLine(d, c) =
                  CASE ~IsOk(length) -> Failure("InvalidContentLength")
                    [] IsOk(length) /\ ~length.value.some -> Complete(next(0), rest(c))
                    [] IsPresent(length) /\ length.value.value \notin 0 .. d.config.body ->
                          Failure("BodyTooLong")
                    [] OTHER -> Complete(next(length.value.value), rest(c))
    BY DEF DecodeBlankLine
  <2> DEFINE n == length.value.value
  <2> HIDE DEF next, rest, length
  <2>3. CASE ~IsOk(length)
    <3>1. ASSUME NEW c PROVE DecodeBlankLine(d, c) = Failure("InvalidContentLength")
      BY <2>2, <2>3 DEF IsPresent
    <3> QED
      BY <3>1
  <2>4. CASE IsOk(length) /\ ~length.value.some
    <3>1. ASSUME NEW c PROVE DecodeBlankLine(d, c) = Complete(next(0), rest(c))
      BY <2>2, <2>4 DEF IsPresent
    <3> QED
      BY <3>1
  <2>5. CASE IsOk(length) /\ length.value.some /\ n \notin 0 .. d.config.body
    <3>1. ASSUME NEW c PROVE DecodeBlankLine(d, c) = Failure("BodyTooLong")
      BY <2>2, <2>5 DEF IsPresent
    <3> QED
      BY <3>1
  <2>6. CASE IsOk(length) /\ length.value.some /\ n \in 0 .. d.config.body
    <3>1. ASSUME NEW c PROVE DecodeBlankLine(d, c) = Complete(next(n), rest(c))
      BY <2>2, <2>6 DEF IsPresent
    <3>2. n \in Nat
      BY <2>1, <2>6
    <3> HIDE DEF n
    <3> QED
      BY <3>1, <3>2
  <2> QED
    BY <2>3, <2>4, <2>5, <2>6
<1>2. ASSUME NEW n \in Nat
      PROVE  /\ IsDecoder(kind, next(n)) /\ Rank(kind, next(n)) < Rank(kind, d)
             /\ next(n).state # FirstState(kind)
  <2>1. /\ DOMAIN next(n) = DOMAIN d /\ next(n).config = d.config
        /\ next(n).headers = d.headers /\ next(n).length = n
        /\ next(n).state = "Body"
    BY DEF IsDecoder
  <2>2. "Body" \in States(kind) /\ Offset(kind, "Body") < Offset(kind, d.state)
    BY DEF States, Offset, FirstState, Kinds
  <2> HIDE DEF next
  <2> QED
    BY <2>1, <2>2, Moved
<1>3. Len(buf) \in Nat /\ 1 < Len(buf)
  BY DEF CRLFAt, Text
<1>4. /\ rest(all) = rest(buf) \o x /\ rest(buf) \in Text /\ Len(rest(buf)) <= Len(buf)
  <2>1. 3 <= Len(buf) + 1
    BY <1>3
  <2>2. /\ rest(all) = rest(buf) \o x /\ rest(buf) \in Text
        /\ Len(rest(buf)) = Len(buf) + 1 - 3
    <3> DEFINE k == 3
    <3>1. k \in Nat /\ k >= 1 /\ k <= Len(buf) + 1
      BY <2>1
    <3> HIDE DEF k
    <3>2. /\ SubSeq(all, k, Len(all)) = SubSeq(buf, k, Len(buf)) \o x
          /\ SubSeq(buf, k, Len(buf)) \in Text
          /\ Len(SubSeq(buf, k, Len(buf))) = Len(buf) + 1 - k
      BY <3>1, SplitFrom
    <3> QED
      BY <3>2 DEF k
  <2> HIDE DEF rest
  <2> QED
    BY <1>3, <2>2
<1>5. d.state # FirstState(kind)
  BY DEF FirstState
<1> HIDE DEF next, rest, all
<1>6. ASSUME NEW n \in Nat, DecodeBlankLine(d, all) = Complete(next(n), rest(all)),
             DecodeBlankLine(d, buf) = Complete(next(n), rest(buf))
      PROVE  Part(kind, d, buf, x, DecodeBlankLine(d, buf), DecodeBlankLine(d, all))
  BY <1>2, <1>4, <1>5, <1>6 DEF Part, Advances
<1>7. ASSUME NEW e, DecodeBlankLine(d, all) = Failure(e), DecodeBlankLine(d, buf) = Failure(e)
      PROVE  Part(kind, d, buf, x, DecodeBlankLine(d, buf), DecodeBlankLine(d, all))
  BY <1>7 DEF Part
<1> QED
  BY <1>1, <1>6, <1>7 DEF all

(* One more header in the decoder.                                         *)
LEMMA Appended ==
    ASSUME NEW kind \in Kinds, NEW d, IsDecoder(kind, d), d.state = "Header", NEW next, NEW e,
           DOMAIN next = DOMAIN d, next.config = d.config, next.length = d.length,
           next.state = d.state, next.headers = Append(d.headers, e),
           ~(Len(d.headers) >= HeaderMaxCount)
    PROVE  /\ IsDecoder(kind, next) /\ Rank(kind, next) < Rank(kind, d)
           /\ next.state # FirstState(kind)
<1>1. PICK S : d.headers \in Seq(S)
  BY DEF IsDecoder
<1>2. d.headers \in Seq(S \cup {e})
  BY <1>1
<1>3. next.headers \in Seq(S \cup {e}) /\ Len(next.headers) = Len(d.headers) + 1
  BY <1>2
<1>4. HeaderMaxCount \in Nat /\ Len(d.headers) \in Nat
  BY <1>1, DecodersAssumption
<1>5. IsDecoder(kind, next)
  BY <1>3, <1>4 DEF IsDecoder
<1>6. next.state # FirstState(kind)
  BY DEF FirstState
<1>7. Offset(kind, d.state) = 2
  BY DEF Offset, FirstState
<1>8. Rank(kind, next) < Rank(kind, d)
  BY <1>3, <1>4, <1>7 DEF Rank
<1> QED
  BY <1>5, <1>6, <1>8

(* A header line, once its name is there.                                  *)
LEMMA HeaderLinePart ==
    ASSUME NEW kind \in Kinds, NEW d, IsDecoder(kind, d), d.state = "Header",
           ~(Len(d.headers) >= HeaderMaxCount),
           NEW buf \in Text, NEW x \in Text, NEW n \in Nat, n + 1 <= Len(buf), buf[n + 1] = ":"
    PROVE  Part(kind, d, buf, x,
                DecodeHeaderLine(d, SubSeq(buf, 1, n), SubSeq(buf, n + 2, Len(buf))),
                DecodeHeaderLine(d, SubSeq(buf \o x, 1, n),
                                 SubSeq(buf \o x, n + 2, Len(buf \o x))))
<1> DEFINE name == SubSeq(buf, 1, n)
           r == SubSeq(buf, n + 2, Len(buf))
<1>1. /\ SubSeq(buf \o x, 1, n) = name /\ SubSeq(buf \o x, n + 2, Len(buf \o x)) = r \o x
      /\ r \in Text /\ Len(r) = Len(buf) - (n + 1) /\ Len(buf) \in Nat
  BY AfterWord
<1> DEFINE value(s) == DecodeHeaderValue(d, s)
           v(s) == TrimHeaderValue(SubSeq(s, 1, value(s).length))
           left(s) == SubSeq(s, value(s).length + 3, Len(s))
           line(s) == DecodeHeaderLine(d, name, s)
<1>2. ASSUME NEW s
      PROVE  line(s) = IF value(s).tag # "Complete" THEN value(s)
                       ELSE AddHeader(d, TrimHeaderName(name), v(s), left(s))
  <2> HIDE DEF name
  <2> QED
    BY DEF DecodeHeaderLine, Once
<1>3. Len(r) > 0 => r[Len(r)] = buf[Len(buf)]
  <2> DEFINE k == n + 2
             m == Len(buf)
  <2>1. k \in Nat /\ m \in Nat /\ k >= 1 /\ k <= m + 1 /\ r = SubSeq(buf, k, m) /\ Len(r) = m + 1 - k
    BY <1>1
  <2>2. \A i \in 1 .. m + 1 - k : SubSeq(buf, k, m)[i] = buf[k + i - 1]
    <3> HIDE DEF k
    <3> QED
      BY <2>1 DEF Text
  <2> HIDE DEF k, m, r
  <2>3. SUFFICES ASSUME Len(r) > 0 PROVE r[Len(r)] = buf[m]
    BY DEF m
  <2>4. m + 1 - k \in 1 .. m + 1 - k /\ k + (m + 1 - k) - 1 = m
    BY <2>1, <2>3
  <2> QED
    BY <2>1, <2>2, <2>4
<1> HIDE DEF name, r
<1>4. Part(kind, d, buf, x, line(r), line(r \o x))
  <2>1. ASSUME NEW m \in Nat, m + 3 <= Len(r), value(r) = [tag |-> "Complete", length |-> m],
               value(r \o x) = [tag |-> "Complete", length |-> m]
        PROVE  Part(kind, d, buf, x, line(r), line(r \o x))
    <3>1. /\ value(r).tag = "Complete" /\ value(r).length = m
          /\ value(r \o x).tag = "Complete" /\ value(r \o x).length = m
      BY <2>1
    <3> HIDE DEF value
    <3>2. Len(r) \in Nat /\ m <= Len(r) /\ m + 3 <= Len(r) + 1
      BY <1>1, <2>1 DEF Text
    <3>3. SubSeq(r \o x, 1, m) = SubSeq(r, 1, m)
      BY <1>1, <3>2, SplitAt
    <3>4. /\ SubSeq(r \o x, m + 3, Len(r \o x)) = SubSeq(r, m + 3, Len(r)) \o x
          /\ SubSeq(r, m + 3, Len(r)) \in Text
          /\ Len(SubSeq(r, m + 3, Len(r))) = Len(r) + 1 - (m + 3)
      <4> DEFINE k == m + 3
      <4>1. k \in Nat /\ k >= 1 /\ k <= Len(r) + 1
        BY <3>2
      <4> HIDE DEF k
      <4>2. /\ SubSeq(r \o x, k, Len(r \o x)) = SubSeq(r, k, Len(r)) \o x
            /\ SubSeq(r, k, Len(r)) \in Text
            /\ Len(SubSeq(r, k, Len(r))) = Len(r) + 1 - k
        BY <1>1, <4>1, SplitFrom
      <4> QED
        BY <4>2 DEF k
    <3>5. v(r \o x) = v(r) /\ left(r \o x) = left(r) \o x /\ left(r) \in Text
          /\ Len(left(r)) = Len(r) + 1 - (m + 3)
      BY <3>1, <3>3, <3>4
    <3> HIDE DEF v, left
    <3>6. Len(left(r)) <= Len(buf)
      BY <1>1, <3>2, <3>5
    <3> DEFINE nm == TrimHeaderName(name)
               e == <<nm, v(r)>>
               next == [d EXCEPT !.headers = HeaderAppend(@, nm, v(r))]
    <3>7. /\ IsDecoder(kind, next) /\ Rank(kind, next) < Rank(kind, d)
          /\ next.state # FirstState(kind)
      <4> HIDE DEF nm
      <4>1. /\ DOMAIN next = DOMAIN d /\ next.config = d.config /\ next.length = d.length
            /\ next.state = d.state /\ next.headers = Append(d.headers, e)
        BY DEF IsDecoder, HeaderAppend
      <4> HIDE DEF next, e
      <4> QED
        BY <4>1, Appended
    <3>8. ASSUME NEW s
          PROVE  \/ \E f : AddHeader(d, nm, v(r), s) = Failure(f)
                           /\ AddHeader(d, nm, v(r), left(r)) = Failure(f)
                 \/ AddHeader(d, nm, v(r), s) = Complete(next, s)
                    /\ AddHeader(d, nm, v(r), left(r)) = Complete(next, left(r))
      <4> HIDE DEF nm
      <4> QED
        BY DEF AddHeader
    <3>9. line(r) = AddHeader(d, nm, v(r), left(r))
      BY <1>2, <3>1
    <3>10. line(r \o x) = AddHeader(d, nm, v(r), left(r) \o x)
      BY <1>2, <3>1, <3>5
    <3>11. d.state # FirstState(kind)
      BY DEF FirstState
    <3> HIDE DEF nm, e, next, line
    <3>12. CASE line(r \o x) = Complete(next, left(r) \o x) /\ line(r) = Complete(next, left(r))
      BY <3>5, <3>6, <3>7, <3>11, <3>12 DEF Part, Advances
    <3>13. ASSUME NEW f, line(r \o x) = Failure(f), line(r) = Failure(f)
           PROVE  Part(kind, d, buf, x, line(r), line(r \o x))
      BY <3>13 DEF Part
    <3> QED
      BY <3>8, <3>9, <3>10, <3>12, <3>13
  <2>2. CASE value(r) = Incomplete
    <3>1. value(r).tag # "Complete" /\ d.state # FirstState(kind)
      BY <2>2 DEF Incomplete, FirstState
    <3>2. line(r) = Incomplete
      BY <1>2, <2>2, <3>1
    <3> HIDE DEF line
    <3> QED
      BY <3>1, <3>2 DEF Part
  <2>3. CASE /\ value(r) = Failure("HeaderValueTooLong")
             /\ value(r \o x) = Failure("HeaderValueTooLong")
    <3>1. value(r).tag # "Complete" /\ value(r \o x).tag # "Complete"
      BY <2>3 DEF Failure
    <3>2. line(r) = Failure("HeaderValueTooLong") /\ line(r \o x) = Failure("HeaderValueTooLong")
      BY <1>2, <2>3, <3>1
    <3> HIDE DEF line
    <3> QED
      BY <3>2 DEF Part
  <2>4. CASE /\ value(r) = Failure("HeaderValueTooLong")
             /\ Len(r) = HeaderValueMaxLength + 1 /\ r[Len(r)] = CR
    <3>1. value(r).tag # "Complete"
      BY <2>4 DEF Failure
    <3>2. line(r) = Failure("HeaderValueTooLong")
      BY <1>2, <2>4, <3>1
    <3>3. HeaderValueMaxLength \in Nat
      BY DecodersAssumption
    <3>4. Len(buf) = n + 1 + HeaderValueMaxLength + 1
      <4>1. Len(r) = HeaderValueMaxLength + 1 /\ Len(r) = Len(buf) - (n + 1) /\ Len(buf) \in Nat
        BY <1>1, <2>4
      <4> DEFINE l == Len(buf)
                 q == Len(r)
      <4> HIDE DEF l, q
      <4>2. l \in Nat /\ q = HeaderValueMaxLength + 1 /\ q = l - (n + 1)
        BY <4>1 DEF l, q
      <4> QED
        BY <3>3, <4>2 DEF l
    <3>5. /\ Len(buf) > HeaderValueMaxLength + 1
          /\ Len(buf) - HeaderValueMaxLength - 1 = n + 1
      BY <3>3, <3>4
    <3>6. buf[Len(buf)] = CR
      <4>1. Len(r) > 0
        BY <2>4, <3>3
      <4> QED
        BY <1>3, <2>4, <4>1
    <3>7. Cut("HeaderValueTooLong", buf)
      BY <3>5, <3>6 DEF Cut
    <3> HIDE DEF line
    <3> QED
      BY <3>2, <3>7 DEF Part
  <2> QED
    BY <1>1, <2>1, <2>2, <2>3, <2>4, ValuePart
<1>5. /\ DecodeHeaderLine(d, SubSeq(buf, 1, n), SubSeq(buf, n + 2, Len(buf))) = line(r)
      /\ DecodeHeaderLine(d, SubSeq(buf \o x, 1, n), SubSeq(buf \o x, n + 2, Len(buf \o x)))
            = line(r \o x)
  <2>1. SubSeq(buf, 1, n) = name /\ SubSeq(buf, n + 2, Len(buf)) = r
    BY DEF name, r
  <2> QED
    BY <1>1, <2>1
<1> HIDE DEF line
<1> QED
  BY <1>4, <1>5

(* decode_header: the blank line, or a name and a value within the limits. *)
(* With a limit of 0 for names, a CR that ends the text before the blank   *)
(* line is refused as a name that is too long.                             *)
LEMMA HeaderPart ==
    ASSUME NEW kind \in Kinds, NEW d, IsDecoder(kind, d), d.state = "Header",
           NEW buf \in Text, NEW x \in Text
    PROVE  Part(kind, d, buf, x, DecodeHeader(d, buf), DecodeHeader(d, buf \o x))
<1> DEFINE name(b) == DecodeHeaderName(d, b)
           line(b) == DecodeHeaderLine(d, SubSeq(b, 1, name(b).length),
                                       SubSeq(b, name(b).length + 2, Len(b)))
           all == buf \o x
<1>1. ASSUME NEW b
      PROVE  DecodeHeader(d, b) =
                IF CRLFAt(b, 1) THEN DecodeBlankLine(d, b)
                ELSE IF name(b).tag # "Complete" THEN name(b)
                ELSE IF Len(d.headers) >= HeaderMaxCount THEN Failure("TooManyHeaders")
                ELSE line(b)
  <2>1. d.config.count = HeaderMaxCount
    BY LimitsOf DEF IsDecoder
  <2> QED
    BY <2>1 DEF DecodeHeader, Once
<1>2. /\ Len(buf) \in Nat /\ Len(x) \in Nat /\ Len(all) = Len(buf) + Len(x)
      /\ \A k \in 1 .. Len(buf) : all[k] = buf[k]
      /\ \A k \in 1 .. Len(buf) - 1 : CRLFAt(all, k) <=> CRLFAt(buf, k)
  BY Extended
<1>3. d.state # FirstState(kind)
  BY DEF FirstState
<1>4. \/ \E n \in Nat :
            /\ n + 1 <= Len(buf) /\ buf[n + 1] = ":"
            /\ name(buf) = [tag |-> "Complete", length |-> n]
            /\ name(all) = [tag |-> "Complete", length |-> n]
      \/ name(buf) = Incomplete
      \/ /\ name(buf) = Failure("HeaderNameTooLong")
         /\ name(all) = Failure("HeaderNameTooLong")
         /\ Len(buf) >= HeaderNameMaxLength + 1
  BY NamePart
<1> HIDE DEF all
<1>5. CASE CRLFAt(buf, 1)
  <2>1. 1 \in 1 .. Len(buf) - 1
    BY <1>2, <1>5 DEF CRLFAt
  <2>2. CRLFAt(all, 1)
    BY <1>2, <1>5, <2>1
  <2>3. DecodeHeader(d, buf) = DecodeBlankLine(d, buf) /\ DecodeHeader(d, all) = DecodeBlankLine(d, all)
    BY <1>1, <1>5, <2>2
  <2> QED
    BY <1>5, <2>3, BlankLinePart DEF all
<1>6. CASE ~CRLFAt(buf, 1)
  <2>1. CASE name(buf) = Incomplete
    <3>1. name(buf).tag # "Complete"
      BY <2>1 DEF Incomplete
    <3>2. DecodeHeader(d, buf) = Incomplete
      BY <1>1, <1>6, <2>1, <3>1
    <3> QED
      BY <1>3, <3>2 DEF Part
  <2>2. ASSUME CRLFAt(all, 1) PROVE Len(buf) <= 1 /\ (Len(buf) = 1 => buf[1] = CR)
    <3>1. ~(1 \in 1 .. Len(buf) - 1)
      BY <1>2, <1>6, <2>2
    <3>2. all[1] = CR
      BY <2>2 DEF CRLFAt
    <3> QED
      BY <1>2, <3>1, <3>2
  <2>3. CASE /\ name(buf) = Failure("HeaderNameTooLong")
             /\ name(all) = Failure("HeaderNameTooLong")
             /\ Len(buf) >= HeaderNameMaxLength + 1
    <3>1. HeaderNameMaxLength \in Nat
      BY DecodersAssumption
    <3>2. name(buf).tag # "Complete" /\ name(all).tag # "Complete"
      BY <2>3 DEF Failure
    <3>3. DecodeHeader(d, buf) = Failure("HeaderNameTooLong")
      BY <1>1, <1>6, <2>3, <3>2
    <3>4. HeaderNameMaxLength > 0 => DecodeHeader(d, all) = Failure("HeaderNameTooLong")
      <4>1. HeaderNameMaxLength > 0 => ~CRLFAt(all, 1)
        BY <1>2, <2>2, <2>3, <3>1
      <4> QED
        BY <1>1, <2>3, <3>2, <4>1
    <3>5. HeaderNameMaxLength = 0 \/ HeaderNameMaxLength > 0
      BY <3>1
    <3> QED
      BY <3>3, <3>4, <3>5 DEF Part, all
  <2>4. ASSUME NEW n \in Nat, n + 1 <= Len(buf), buf[n + 1] = ":",
               name(buf) = [tag |-> "Complete", length |-> n],
               name(all) = [tag |-> "Complete", length |-> n]
        PROVE  Part(kind, d, buf, x, DecodeHeader(d, buf), DecodeHeader(d, all))
    <3>1. ~CRLFAt(all, 1)
      <4>1. SUFFICES ASSUME CRLFAt(all, 1) PROVE FALSE
        OBVIOUS
      <4>2. Len(buf) <= 1 /\ (Len(buf) = 1 => buf[1] = CR)
        BY <2>2, <4>1
      <4>3. n = 0 /\ Len(buf) = 1
        <5> DEFINE l == Len(buf)
        <5> HIDE DEF l
        <5>1. l \in Nat /\ l <= 1 /\ n + 1 <= l
          BY <1>2, <2>4, <4>2 DEF l
        <5>2. n = 0 /\ l = 1
          BY <5>1
        <5> QED
          BY <5>2 DEF l
      <4>4. buf[1] = ":"
        BY <2>4, <4>3
      <4> QED
        BY <4>2, <4>3, <4>4 DEF CR
    <3>2. /\ name(buf).tag = "Complete" /\ name(buf).length = n
          /\ name(all).tag = "Complete" /\ name(all).length = n
      BY <2>4
    <3> HIDE DEF name
    <3>3. CASE Len(d.headers) >= HeaderMaxCount
      <4>1. /\ DecodeHeader(d, buf) = Failure("TooManyHeaders")
            /\ DecodeHeader(d, all) = Failure("TooManyHeaders")
        BY <1>1, <1>6, <3>1, <3>2, <3>3
      <4> QED
        BY <4>1 DEF Part
    <3>4. CASE ~(Len(d.headers) >= HeaderMaxCount)
      <4>1. DecodeHeader(d, buf) = line(buf) /\ DecodeHeader(d, all) = line(all)
        BY <1>1, <1>6, <3>1, <3>2, <3>4
      <4>2. Part(kind, d, buf, x, line(buf), line(all))
        <5>1. Part(kind, d, buf, x,
                   DecodeHeaderLine(d, SubSeq(buf, 1, n), SubSeq(buf, n + 2, Len(buf))),
                   DecodeHeaderLine(d, SubSeq(all, 1, n), SubSeq(all, n + 2, Len(all))))
          BY <2>4, <3>4, HeaderLinePart DEF all
        <5> QED
          BY <3>2, <5>1
      <4> HIDE DEF line
      <4> QED
        BY <4>1, <4>2
    <3> QED
      BY <3>3, <3>4
  <2> QED
    BY <1>4, <2>1, <2>3, <2>4 DEF all
<1> QED
  BY <1>5, <1>6

(* Every part of a message.                                                *)
LEMMA StepPart ==
    ASSUME NEW kind \in Kinds, NEW d, IsDecoder(kind, d), d.state # "End",
           NEW buf \in Text, NEW x \in Text
    PROVE  Part(kind, d, buf, x, Step(kind, d, buf), Step(kind, d, buf \o x))
<1>1. CASE d.state = "Header"
  <2>1. \A b : Step(kind, d, b) = DecodeHeader(d, b)
    BY <1>1 DEF Step, RequestStep, ResponseStep, ResponseDecodeHeader
  <2> QED
    BY <1>1, <2>1, HeaderPart
<1>2. CASE d.state = "Body"
  <2>1. \A b : Step(kind, d, b) = DecodeBody(d, b)
    BY <1>2 DEF Step, RequestStep, ResponseStep, ResponseDecodeBody
  <2> QED
    BY <1>2, <2>1, BodyPart
<1>3. CASE d.state = "Version"
  <2>1. \A b : Step(kind, d, b) = VersionStep(kind, d, b)
    BY <1>3 DEF Step, RequestStep, ResponseStep, VersionStep
  <2> QED
    BY <1>3, <2>1, VersionPart
<1>4. CASE kind = "request" /\ d.state = "Method"
  <2>1. \A b : Step(kind, d, b) = DecodeMethod(d, b)
    BY <1>4 DEF Step, RequestStep
  <2> QED
    BY <1>4, <2>1, MethodPart
<1>5. CASE kind = "request" /\ d.state = "URI"
  <2>1. \A b : Step(kind, d, b) = DecodeURI(d, b)
    BY <1>5 DEF Step, RequestStep
  <2> QED
    BY <1>5, <2>1, URIPart
<1>6. CASE kind = "response" /\ d.state = "StatusCode"
  <2>1. \A b : Step(kind, d, b) = DecodeStatusCode(d, b)
    BY <1>6 DEF Step, ResponseStep
  <2> QED
    BY <1>6, <2>1, StatusCodePart
<1>7. CASE kind = "response" /\ d.state = "ReasonPhrase"
  <2>1. \A b : Step(kind, d, b) = DecodeReasonPhrase(d, b)
    BY <1>7 DEF Step, ResponseStep
  <2> QED
    BY <1>7, <2>1, ReasonPhrasePart
<1> QED
  BY <1>1, <1>2, <1>3, <1>4, <1>5, <1>6, <1>7 DEF IsDecoder, States, Kinds

-----------------------------------------------------------------------------
(* The whole loop, with more bytes after the text.                         *)

(* Where the loop stops.                                                   *)
HasStopped(at) == ~at.more \/ at.d.state \in {"Error", "End"}

(* Turn by turn.                                                           *)
LEMMA RunTurns ==
    ASSUME NEW kind, NEW f, NEW m \in Nat, NEW d, NEW buf, IsRun(kind, f, m, d, buf)
    PROVE  /\ f[0] = Start(d, buf)
           /\ \A n \in Nat : n + 1 <= m => f[n + 1] = Turn(kind, f[n])
<1>1. \A n \in 0 .. m : f[n] = IF n = 0 THEN Start(d, buf) ELSE Turn(kind, f[n - 1])
  BY DEF IsRun
<1>2. ASSUME NEW n \in Nat, n + 1 <= m PROVE f[n + 1] = Turn(kind, f[n])
  <2>1. n + 1 \in 0 .. m /\ n + 1 # 0 /\ (n + 1) - 1 = n
    BY <1>2
  <2> QED
    BY <1>1, <2>1
<1> QED
  BY <1>1, <1>2

(* A loop that has stopped stays where it is, by induction on the turns    *)
(* after that.                                                             *)
LEMMA StopStays ==
    ASSUME NEW kind, NEW f, NEW m \in Nat, NEW d, NEW buf, IsRun(kind, f, m, d, buf),
           NEW k \in Nat, k <= m, HasStopped(f[k])
    PROVE  f[m] = f[k]
<1> DEFINE S == {n \in Nat : k + n <= m => f[k + n] = f[k]}
<1>1. 0 \in S
  OBVIOUS
<1>2. ASSUME NEW n \in Nat, n \in S PROVE n + 1 \in S
  <2>1. SUFFICES ASSUME k + (n + 1) <= m PROVE f[k + (n + 1)] = f[k]
    OBVIOUS
  <2>2. k + n \in Nat /\ (k + n) + 1 <= m /\ k + (n + 1) = (k + n) + 1 /\ k + n <= m
    BY <2>1
  <2>3. f[k + n] = f[k]
    BY <1>2, <2>2
  <2>4. f[(k + n) + 1] = Turn(kind, f[k])
    <3> DEFINE i == k + n
    <3>1. i \in Nat /\ i + 1 <= m /\ f[i] = f[k]
      BY <2>2, <2>3
    <3> HIDE DEF i, S
    <3>2. f[i + 1] = Turn(kind, f[i])
      BY <3>1, RunTurns
    <3> QED
      BY <3>1, <3>2 DEF i
  <2>5. Turn(kind, f[k]) = f[k]
    BY DEF Turn, HasStopped
  <2> QED
    BY <2>2, <2>4, <2>5
<1> HIDE DEF S
<1>3. m - k \in Nat /\ k + (m - k) = m
  OBVIOUS
<1>4. m - k \in S
  BY <1>1, <1>2, <1>3, SetInduction
<1> QED
  BY <1>3, <1>4 DEF S

(* The rank is at most the bound of the model's loop.                      *)
LEMMA RankBounds ==
    ASSUME NEW kind \in Kinds, NEW d, IsDecoder(kind, d)
    PROVE  /\ Rank(kind, d) \in Nat /\ Rank(kind, d) <= LastTurn /\ LastTurn \in Nat
           /\ Rank(kind, d) = 0 => d.state = "End"
           /\ d.state = "End" \/ d.state \notin {"Error", "End"}
<1>1. HeaderMaxCount \in Nat /\ Len(d.headers) \in Nat /\ Len(d.headers) <= HeaderMaxCount
  BY DecodersAssumption DEF IsDecoder
<1>2. Offset(kind, d.state) \in 0 .. 5 /\ (Offset(kind, d.state) = 0 => d.state = "End")
  BY DEF Offset, IsDecoder, States, FirstState, Kinds
<1> DEFINE h == Len(d.headers)
           o == Offset(kind, d.state)
<1> HIDE DEF h, o
<1>3. /\ Rank(kind, d) = HeaderMaxCount - h + o /\ h \in Nat /\ h <= HeaderMaxCount
      /\ o \in 0 .. 5 /\ (o = 0 => d.state = "End")
  BY <1>1, <1>2 DEF Rank, h, o
<1>4. d.state \notin {"Error"}
  BY DEF IsDecoder, States
<1> QED
  BY <1>1, <1>3, <1>4 DEF LastTurn

(* The bound of the model's loop is no restriction: it has stopped by      *)
(* then, by induction on the turns, each of which lowers the rank.         *)
LEMMA RunStops ==
    ASSUME NEW kind \in Kinds, NEW f, NEW d, NEW buf \in Text, IsDecoder(kind, d),
           IsRun(kind, f, LastTurn, d, buf)
    PROVE  HasStopped(f[LastTurn])
<1>0. LastTurn \in Nat
  BY RankBounds
<1> DEFINE Going(n) == /\ IsDecoder(kind, f[n].d) /\ f[n].rest \in Text /\ f[n].more = TRUE
                       /\ Rank(kind, f[n].d) + n <= LastTurn
           S == {n \in Nat : n <= LastTurn => HasStopped(f[n]) \/ Going(n)}
<1>1. 0 \in S
  <2>1. f[0] = Start(d, buf)
    BY <1>0, RunTurns
  <2>2. f[0].d = d /\ f[0].rest = buf /\ f[0].more = TRUE
    BY <2>1 DEF Start
  <2> QED
    BY <2>2, RankBounds
<1>2. ASSUME NEW n \in Nat, n \in S PROVE n + 1 \in S
  <2>0. n + 1 \in Nat
    OBVIOUS
  <2>1. SUFFICES ASSUME n + 1 <= LastTurn PROVE HasStopped(f[n + 1]) \/ Going(n + 1)
    <3> HIDE DEF Going
    <3> QED
      BY <2>0
  <2>2. f[n + 1] = Turn(kind, f[n])
    BY <1>0, <2>1, RunTurns
  <2>3. CASE HasStopped(f[n])
    <3>1. Turn(kind, f[n]) = f[n]
      BY <2>3 DEF Turn, HasStopped
    <3> QED
      BY <2>2, <2>3, <3>1
  <2>4. CASE ~HasStopped(f[n])
    <3>1. Going(n)
      BY <1>0, <1>2, <2>1, <2>4
    <3> DEFINE at == f[n]
               step == Step(kind, at.d, at.rest)
    <3>2. at.d.state # "End"
      BY <2>4 DEF HasStopped
    <3>3. Part(kind, at.d, at.rest, <<>>, step, Step(kind, at.d, at.rest \o <<>>))
      <4>1. <<>> \in Text
        BY DEF Text
      <4> HIDE DEF at
      <4>2. IsDecoder(kind, at.d) /\ at.rest \in Text
        BY <3>1 DEF at
      <4> QED
        BY <3>2, <4>1, <4>2, StepPart
    <3>4. CASE step.tag = "Complete"
      <4>1. PICK next, rest : step = Complete(next, rest) /\ Advances(kind, at.d, at.rest, next, rest)
        <5> HIDE DEF step, at
        <5>1. step # Incomplete /\ \A e : step # Failure(e)
          BY <3>4 DEF Incomplete, Failure
        <5> QED
          BY <3>3, <5>1 DEF Part
      <4>2. step.d = next /\ step.rest = rest
        BY <4>1 DEF Complete
      <4>3. f[n + 1] = [d |-> next, rest |-> rest, more |-> TRUE]
        BY <2>2, <2>4, <3>4, <4>2 DEF Turn, HasStopped
      <4>4. f[n + 1].d = next /\ f[n + 1].rest = rest /\ f[n + 1].more = TRUE
        BY <4>3
      <4>5. IsDecoder(kind, next) /\ rest \in Text /\ Rank(kind, next) < Rank(kind, at.d)
        BY <4>1 DEF Advances
      <4>6. Rank(kind, next) \in Nat /\ Rank(kind, at.d) \in Nat
        BY <3>1, <4>5, RankBounds
      <4>7. Rank(kind, next) + (n + 1) <= LastTurn
        <5> DEFINE p == Rank(kind, next)
                   q == Rank(kind, at.d)
        <5>1. p < q /\ q + n <= LastTurn /\ p \in Nat /\ q \in Nat
          BY <3>1, <4>5, <4>6
        <5> HIDE DEF p, q
        <5>2. p + (n + 1) <= LastTurn
          BY <1>0, <5>1
        <5> QED
          BY <5>2 DEF p
      <4> QED
        BY <4>4, <4>5, <4>7
    <3>5. CASE step.tag # "Complete"
      <4>1. f[n + 1] = [at EXCEPT !.more = FALSE]
        BY <2>2, <2>4, <3>5 DEF Turn, HasStopped
      <4> QED
        BY <3>1, <4>1 DEF HasStopped
    <3> QED
      BY <3>4, <3>5
  <2> QED
    BY <2>3, <2>4
<1> HIDE DEF S
<1>3. LastTurn \in S
  BY <1>0, <1>1, <1>2, SetInduction
<1>4. CASE Going(LastTurn)
  <2> DEFINE p == Rank(kind, f[LastTurn].d)
  <2>1. p + LastTurn <= LastTurn /\ p \in Nat
    BY <1>4, RankBounds
  <2> HIDE DEF p
  <2>2. p = 0
    BY <1>0, <2>1
  <2>3. f[LastTurn].d.state = "End"
    BY <1>4, <2>2, RankBounds DEF p
  <2> QED
    BY <2>3 DEF HasStopped
<1>5. HasStopped(f[LastTurn]) \/ Going(LastTurn)
  <2> HIDE DEF Going
  <2> QED
    BY <1>0, <1>3 DEF S
<1> QED
  BY <1>4, <1>5

(* A part that is decoded may be left out of the loop.                     *)
LEMMA PartsStep ==
    ASSUME NEW kind \in Kinds, NEW d, NEW buf \in Text, IsDecoder(kind, d), d.state # "End",
           NEW next, NEW rest, Step(kind, d, buf) = Complete(next, rest)
    PROVE  Parts(kind, d, buf) = Parts(kind, next, rest)
<1>1. PICK f : IsRun(kind, f, LastTurn, d, buf) /\ Parts(kind, d, buf) = f[LastTurn]
  BY PartsIsRun
<1>2. PICK h : IsRun(kind, h, LastTurn, next, rest) /\ Parts(kind, next, rest) = h[LastTurn]
  BY PartsIsRun
<1>3. LastTurn \in Nat /\ LastTurn >= 1
  BY DecodersAssumption DEF LastTurn
<1>4. /\ f[0] = Start(d, buf) /\ h[0] = Start(next, rest)
      /\ \A n \in Nat : n + 1 <= LastTurn => f[n + 1] = Turn(kind, f[n]) /\ h[n + 1] = Turn(kind, h[n])
  BY <1>1, <1>2, <1>3, RunTurns
<1>5. f[1] = Start(next, rest)
  <2>1. f[0].d = d /\ f[0].rest = buf /\ f[0].more = TRUE
    BY <1>4 DEF Start
  <2>2. ~HasStopped(f[0])
    BY <2>1, RankBounds DEF HasStopped
  <2>3. f[0 + 1] = Turn(kind, f[0])
    BY <1>3, <1>4
  <2>4. /\ Step(kind, d, buf).tag = "Complete" /\ Step(kind, d, buf).d = next
        /\ Step(kind, d, buf).rest = rest
    BY DEF Complete
  <2>5. Turn(kind, f[0]) = Start(next, rest)
    BY <2>1, <2>2, <2>4 DEF Turn, HasStopped, Start
  <2> QED
    BY <2>3, <2>5
<1> DEFINE S == {n \in Nat : n + 1 <= LastTurn => f[n + 1] = h[n]}
<1>6. 0 \in S
  BY <1>4, <1>5
<1>7. ASSUME NEW n \in Nat, n \in S PROVE n + 1 \in S
  <2>1. SUFFICES ASSUME (n + 1) + 1 <= LastTurn PROVE f[(n + 1) + 1] = h[n + 1]
    OBVIOUS
  <2>2. n + 1 <= LastTurn /\ f[n + 1] = h[n]
    BY <1>3, <1>7, <2>1
  <2> DEFINE i == n + 1
  <2>3. i \in Nat /\ i + 1 <= LastTurn
    BY <2>1
  <2>4. f[i + 1] = Turn(kind, f[i])
    <3> HIDE DEF i, S
    <3> QED
      BY <1>4, <2>3
  <2>5. h[n + 1] = Turn(kind, h[n])
    BY <1>4, <2>2
  <2> QED
    BY <2>2, <2>4, <2>5
<1> DEFINE k == LastTurn - 1
<1>8. k \in Nat /\ k + 1 = LastTurn
  BY <1>3
<1> HIDE DEF S
<1>9. k \in S
  BY <1>6, <1>7, <1>8, SetInduction
<1> HIDE DEF k
<1>10. k + 1 <= LastTurn
  BY <1>3, <1>8
<1>11. f[k + 1] = h[k]
  BY <1>9, <1>10 DEF S
<1>12. HasStopped(f[LastTurn])
  BY <1>1, RunStops
<1>13. HasStopped(h[k])
  BY <1>8, <1>11, <1>12
<1>14. h[k + 1] = Turn(kind, h[k])
  BY <1>4, <1>8, <1>10
<1>15. Turn(kind, h[k]) = h[k]
  BY <1>13 DEF Turn, HasStopped
<1> QED
  BY <1>1, <1>2, <1>8, <1>11, <1>14, <1>15

(* After the last part there is nothing to do.                             *)
LEMMA PartsEnd ==
    ASSUME NEW kind \in Kinds, NEW d, NEW buf, d.state = "End"
    PROVE  Parts(kind, d, buf) = Start(d, buf)
<1>1. PICK f : IsRun(kind, f, LastTurn, d, buf) /\ Parts(kind, d, buf) = f[LastTurn]
  BY PartsIsRun
<1>3. LastTurn \in Nat /\ LastTurn >= 0
  BY DecodersAssumption DEF LastTurn
<1>4. f[0] = Start(d, buf)
  BY <1>1, <1>3, RunTurns
<1>5. HasStopped(f[0])
  BY <1>4 DEF Start, HasStopped
<1>6. f[LastTurn] = f[0]
  <2> DEFINE z == 0
  <2>1. z \in Nat /\ z <= LastTurn /\ HasStopped(f[z])
    BY <1>3, <1>5
  <2> HIDE DEF z
  <2>2. f[LastTurn] = f[z]
    BY <1>1, <1>3, <2>1, StopStays
  <2> QED
    BY <2>2 DEF z
<1> QED
  BY <1>1, <1>4, <1>6

(* A part that cannot be decoded leaves the decoder and the text.          *)
LEMMA PartsStop ==
    ASSUME NEW kind \in Kinds, NEW d, NEW buf, d.state \notin {"Error", "End"},
           Step(kind, d, buf).tag # "Complete"
    PROVE  Parts(kind, d, buf).d = d /\ Parts(kind, d, buf).rest = buf
<1>1. PICK f : IsRun(kind, f, LastTurn, d, buf) /\ Parts(kind, d, buf) = f[LastTurn]
  BY PartsIsRun
<1>3. LastTurn \in Nat /\ LastTurn >= 1
  BY DecodersAssumption DEF LastTurn
<1>4. f[0] = Start(d, buf) /\ f[0 + 1] = Turn(kind, f[0])
  BY <1>1, <1>3, RunTurns
<1>5. f[1].d = d /\ f[1].rest = buf /\ f[1].more = FALSE
  <2>1. f[0].d = d /\ f[0].rest = buf /\ f[0].more = TRUE /\ DOMAIN f[0] = {"d", "rest", "more"}
    BY <1>4 DEF Start
  <2>2. Turn(kind, f[0]) = [f[0] EXCEPT !.more = FALSE]
    BY <2>1 DEF Turn
  <2> QED
    BY <1>4, <2>1, <2>2
<1>6. f[LastTurn] = f[1]
  <2> DEFINE z == 1
  <2>1. z \in Nat /\ z <= LastTurn /\ HasStopped(f[z])
    BY <1>3, <1>5 DEF HasStopped
  <2> HIDE DEF z
  <2>2. f[LastTurn] = f[z]
    BY <1>1, <1>3, <2>1, StopStays
  <2> QED
    BY <2>2 DEF z
<1> QED
  BY <1>1, <1>5, <1>6

(* Decoder::decode of both kinds.                                          *)
DecodeOf(kind, d, buf) == IF kind = "request" THEN RequestDecode(d, buf) ELSE ResponseDecode(d, buf)

(* A new decoder, a decoder that is done, and what decode returns for      *)
(* where the loop stopped.                                                 *)
NewDecoder(kind) == IF kind = "request" THEN RequestDecoder ELSE ResponseDecoder
Done(kind, d, buf) ==
    [tag |-> "Complete", message |-> IF kind = "request" THEN RequestOf(d) ELSE ResponseOf(d),
     rest |-> buf, d |-> [NewDecoder(kind) EXCEPT !.length = d.length]]
Result(kind, at) ==
    CASE at.d.state = "Error" ->
            [tag |-> "Error", error |-> "kept", d |-> at.d, rest |-> at.rest]
      [] at.d.state = "End" -> Done(kind, at.d, at.rest)
      [] OTHER -> Stopped(at.d, Step(kind, at.d, at.rest), at.rest)

(* decode, by the kind of the message.                                     *)
LEMMA DecodeResult ==
    ASSUME NEW kind \in Kinds, NEW d, NEW buf
    PROVE  DecodeOf(kind, d, buf) = Result(kind, Parts(kind, d, buf))
<1>1. RequestDecode(d, buf) = Result("request", Parts("request", d, buf))
  <2> DEFINE at == Parts("request", d, buf)
             result(a) == CASE a.d.state = "Error" ->
                [tag |-> "Error", error |-> "kept", d |-> a.d, rest |-> a.rest]
          [] a.d.state = "End" ->
                [tag |-> "Complete", message |-> RequestOf(a.d), rest |-> a.rest,
                 d |-> [RequestDecoder EXCEPT !.length = a.d.length]]
          [] OTHER -> Stopped(a.d, RequestStep(a.d, a.rest), a.rest)
  <2>1. RequestDecode(d, buf) = Once(at, result)
    BY DEF RequestDecode
  <2>2. Once(at, result) = result(at)
    <3> HIDE DEF at, result
    <3> QED
      BY DEF Once
  <2>3. result(at) = Result("request", at)
    <3> HIDE DEF at
    <3> QED
      BY DEF Result, Done, NewDecoder, Step
  <2> QED
    BY <2>1, <2>2, <2>3
<1>2. ResponseDecode(d, buf) = Result("response", Parts("response", d, buf))
  <2> DEFINE at == Parts("response", d, buf)
             result(a) == CASE a.d.state = "Error" ->
                [tag |-> "Error", error |-> "kept", d |-> a.d, rest |-> a.rest]
          [] a.d.state = "End" ->
                [tag |-> "Complete", message |-> ResponseOf(a.d), rest |-> a.rest,
                 d |-> [ResponseDecoder EXCEPT !.length = a.d.length]]
          [] OTHER -> Stopped(a.d, ResponseStep(a.d, a.rest), a.rest)
  <2>1. ResponseDecode(d, buf) = Once(at, result)
    BY DEF ResponseDecode
  <2>2. Once(at, result) = result(at)
    <3> HIDE DEF at, result
    <3> QED
      BY DEF Once
  <2>3. result(at) = Result("response", at)
    <3> HIDE DEF at
    <3> QED
      BY DEF Result, Done, NewDecoder, Step
  <2> QED
    BY <2>1, <2>2, <2>3
<1> QED
  BY <1>1, <1>2 DEF DecodeOf, Kinds

(* Decoder::decode, part by part.                                          *)
LEMMA Unfold ==
    ASSUME NEW kind \in Kinds, NEW d, NEW buf \in Text, IsDecoder(kind, d)
    PROVE  /\ d.state = "End" => DecodeOf(kind, d, buf) = Done(kind, d, buf)
           /\ d.state # "End" /\ Step(kind, d, buf).tag # "Complete" =>
                 DecodeOf(kind, d, buf) = Stopped(d, Step(kind, d, buf), buf)
           /\ \A next, rest : d.state # "End" /\ Step(kind, d, buf) = Complete(next, rest) =>
                 DecodeOf(kind, d, buf) = DecodeOf(kind, next, rest)
<1>1. ASSUME d.state = "End" PROVE DecodeOf(kind, d, buf) = Done(kind, d, buf)
  <2>1. Parts(kind, d, buf) = Start(d, buf)
    BY <1>1, PartsEnd
  <2>2. Result(kind, Start(d, buf)) = Done(kind, d, buf)
    BY <1>1 DEF Result, Start
  <2> QED
    BY <2>1, <2>2, DecodeResult
<1>2. ASSUME d.state # "End", Step(kind, d, buf).tag # "Complete"
      PROVE  DecodeOf(kind, d, buf) = Stopped(d, Step(kind, d, buf), buf)
  <2>1. d.state \notin {"Error", "End"}
    BY <1>2, RankBounds
  <2> DEFINE at == Parts(kind, d, buf)
  <2>3. at.d = d /\ at.rest = buf
    BY <1>2, <2>1, PartsStop
  <2> HIDE DEF at
  <2>4. Result(kind, at) = Stopped(d, Step(kind, d, buf), buf)
    BY <2>1, <2>3 DEF Result
  <2> QED
    BY <2>4, DecodeResult DEF at
<1>3. ASSUME NEW next, NEW rest, d.state # "End", Step(kind, d, buf) = Complete(next, rest)
      PROVE  DecodeOf(kind, d, buf) = DecodeOf(kind, next, rest)
  BY <1>3, PartsStep, DecodeResult
<1> QED
  BY <1>1, <1>2, <1>3

(* What decode makes of a text, r, tells what it makes of a longer one, w. *)
Chunk(kind, d, buf, x, r, w) ==
    /\ r.tag \in {"Complete", "Incomplete", "Error"}
    /\ r.rest \in Text /\ Len(r.rest) <= Len(buf)
    /\ r.tag = "Complete" =>
          /\ w.tag = "Complete" /\ w.message = r.message /\ w.d = r.d /\ w.rest = r.rest \o x
          /\ IsDecoder(kind, r.d) /\ r.d.state = FirstState(kind)
          /\ d.state = FirstState(kind) => Len(r.rest) < Len(buf)
    /\ r.tag = "Incomplete" =>
          /\ w = DecodeOf(kind, r.d, r.rest \o x) /\ r = DecodeOf(kind, r.d, r.rest)
          /\ IsDecoder(kind, r.d) /\ r.d.state # "End"
          /\ r.d.state = FirstState(kind) => r.d = d /\ r.rest = buf /\ Len(buf) < InfoLineBound
    /\ r.tag = "Error" =>
          \/ w.tag = "Error" /\ w.error = r.error
          \/ Cut(r.error, r.rest) \/ HeaderNameMaxLength = 0

(* The decoder after a message.                                            *)
LEMMA NewIsDecoder ==
    ASSUME NEW kind \in Kinds, NEW n \in Nat
    PROVE  LET d == [NewDecoder(kind) EXCEPT !.length = n]
           IN  IsDecoder(kind, d) /\ d.state = FirstState(kind)
<1>1. HeaderMaxCount \in Nat
  BY DecodersAssumption
<1>2. CASE kind = "request"
  <2> DEFINE d == [RequestDecoder EXCEPT !.length = n]
  <2>1. /\ {"state", "length", "config", "headers"} \subseteq DOMAIN d
        /\ d.state = "Method" /\ d.config = RequestConfig /\ d.length = n /\ d.headers = <<>>
    BY DEF RequestDecoder
  <2> HIDE DEF d
  <2>2. IsDecoder(kind, d) /\ d.state = FirstState(kind)
    BY <1>1, <1>2, <2>1 DEF IsDecoder, States, Limits, FirstState
  <2> QED
    BY <1>2, <2>2 DEF NewDecoder, d
<1>3. CASE kind = "response"
  <2> DEFINE d == [ResponseDecoder EXCEPT !.length = n]
  <2>1. /\ {"state", "length", "config", "headers"} \subseteq DOMAIN d
        /\ d.state = "Version" /\ d.config = ResponseConfig /\ d.length = n /\ d.headers = <<>>
    BY DEF ResponseDecoder
  <2> HIDE DEF d
  <2>2. IsDecoder(kind, d) /\ d.state = FirstState(kind)
    BY <1>1, <1>3, <2>1 DEF IsDecoder, States, Limits, FirstState
  <2> QED
    BY <1>3, <2>2 DEF NewDecoder, d
<1> QED
  BY <1>2, <1>3 DEF Kinds

(* A decoder that has all parts needs no bytes.                            *)
LEMMA ChunkAtEnd ==
    ASSUME NEW kind \in Kinds, NEW d, NEW buf \in Text, NEW x \in Text, IsDecoder(kind, d),
           d.state = "End"
    PROVE  Chunk(kind, d, buf, x, DecodeOf(kind, d, buf), DecodeOf(kind, d, buf \o x))
<1> DEFINE r == DecodeOf(kind, d, buf)
           w == DecodeOf(kind, d, buf \o x)
<1>1. buf \o x \in Text
  BY Extended
<1>2. r = Done(kind, d, buf) /\ w = Done(kind, d, buf \o x)
  <2>1. r = Done(kind, d, buf)
    BY Unfold
  <2>2. w = Done(kind, d, buf \o x)
    BY <1>1, Unfold
  <2> QED
    BY <2>1, <2>2
<1>3. /\ r.tag = "Complete" /\ w.tag = "Complete" /\ r.rest = buf /\ w.rest = buf \o x
      /\ r.message = w.message /\ r.d = w.d
  BY <1>2 DEF Done
<1>4. IsDecoder(kind, r.d) /\ r.d.state = FirstState(kind)
  <2>1. d.length \in Nat
    BY DEF IsDecoder
  <2>2. r.d = [NewDecoder(kind) EXCEPT !.length = d.length]
    BY <1>2 DEF Done
  <2> DEFINE n == d.length
  <2> HIDE DEF n, r
  <2> QED
    BY <2>1, <2>2, NewIsDecoder DEF n
<1>5. d.state # FirstState(kind)
  BY DEF FirstState
<1> HIDE DEF r, w
<1>6. Len(buf) \in Nat
  BY DEF Text
<1>7. Chunk(kind, d, buf, x, r, w)
  BY <1>3, <1>4, <1>5, <1>6 DEF Chunk
<1> QED
  BY <1>7 DEF r, w

(* The induction step: if later parts do not depend on the chunks, neither *)
(* does this one.                                                          *)
LEMMA ChunkStep ==
    ASSUME NEW kind \in Kinds, NEW d, NEW buf \in Text, NEW x \in Text, IsDecoder(kind, d),
           d.state # "End",
           \A next, rest :
               IsDecoder(kind, next) /\ Rank(kind, next) < Rank(kind, d) /\ rest \in Text =>
                  Chunk(kind, next, rest, x, DecodeOf(kind, next, rest), DecodeOf(kind, next, rest \o x))
    PROVE  Chunk(kind, d, buf, x, DecodeOf(kind, d, buf), DecodeOf(kind, d, buf \o x))
<1> DEFINE r == DecodeOf(kind, d, buf)
           w == DecodeOf(kind, d, buf \o x)
           all == buf \o x
           step == Step(kind, d, buf)
           more == Step(kind, d, all)
<1>1. all \in Text /\ Len(buf) \in Nat
  BY Extended
<1>2. Part(kind, d, buf, x, step, more)
  BY StepPart
<1> HIDE DEF all
<1>3. ASSUME NEW next, NEW rest, step = Complete(next, rest), more = Complete(next, rest \o x),
             Advances(kind, d, buf, next, rest)
      PROVE  Chunk(kind, d, buf, x, r, w)
  <2>1. r = DecodeOf(kind, next, rest)
    BY <1>3, Unfold
  <2>2. w = DecodeOf(kind, next, rest \o x)
    BY <1>1, <1>3, Unfold DEF all
  <2>3. /\ IsDecoder(kind, next) /\ Rank(kind, next) < Rank(kind, d) /\ rest \in Text
        /\ next.state # FirstState(kind) /\ Len(rest) <= Len(buf)
        /\ d.state = FirstState(kind) => Len(rest) < Len(buf)
    BY <1>3 DEF Advances
  <2>4. Chunk(kind, next, rest, x, r, w)
    BY <2>1, <2>2, <2>3
  <2> HIDE DEF r, w
  <2>5. r.rest \in Text /\ Len(r.rest) \in Nat /\ Len(rest) \in Nat /\ Len(r.rest) <= Len(rest)
    BY <2>3, <2>4 DEF Chunk, Text
  <2> DEFINE a == Len(r.rest)
             b == Len(rest)
             c == Len(buf)
  <2>6. a \in Nat /\ b \in Nat /\ c \in Nat /\ a <= b /\ b <= c /\ (d.state = FirstState(kind) => b < c)
    BY <1>1, <2>3, <2>5
  <2> HIDE DEF a, b, c
  <2>7. a <= c /\ (d.state = FirstState(kind) => a < c)
    BY <2>6
  <2>8. r.tag = "Incomplete" => r.d.state # FirstState(kind)
    BY <2>3, <2>4 DEF Chunk
  <2> QED
    BY <2>4, <2>7, <2>8 DEF Chunk, a, c
<1>4. ASSUME step = Incomplete, d.state = FirstState(kind) => Len(buf) < InfoLineBound
      PROVE  Chunk(kind, d, buf, x, r, w)
  <2>1. step.tag = "Incomplete"
    BY <1>4 DEF Incomplete
  <2>2. r = [tag |-> "Incomplete", d |-> d, rest |-> buf]
    BY <2>1, Unfold DEF Stopped
  <2>3. r.tag = "Incomplete" /\ r.d = d /\ r.rest = buf
    BY <2>2
  <2>4. w = DecodeOf(kind, r.d, r.rest \o x) /\ r = DecodeOf(kind, r.d, r.rest)
    BY <2>3
  <2> HIDE DEF r, w
  <2> QED
    BY <1>1, <1>4, <2>3, <2>4 DEF Chunk
<1>5. ASSUME NEW e, step = Failure(e), more = step \/ Cut(e, buf) \/ HeaderNameMaxLength = 0
      PROVE  Chunk(kind, d, buf, x, r, w)
  <2>1. step.tag = "Error" /\ step.error = e
    BY <1>5 DEF Failure
  <2>2. r = [tag |-> "Error", error |-> e, d |-> [d EXCEPT !.state = "Error"], rest |-> buf]
    BY <2>1, Unfold DEF Stopped
  <2>3. r.tag = "Error" /\ r.error = e /\ r.rest = buf
    BY <2>2
  <2>4. more = step => w.tag = "Error" /\ w.error = e
    <3>1. SUFFICES ASSUME more = step PROVE w.tag = "Error" /\ w.error = e
      OBVIOUS
    <3>2. more.tag = "Error" /\ more.error = e
      BY <2>1, <3>1
    <3>3. DecodeOf(kind, d, all) = Stopped(d, more, all)
      BY <1>1, <3>2, Unfold
    <3>4. w = [tag |-> "Error", error |-> e, d |-> [d EXCEPT !.state = "Error"], rest |-> all]
      BY <3>2, <3>3 DEF Stopped, all
    <3> QED
      BY <3>4
  <2> HIDE DEF r, w
  <2> QED
    BY <1>1, <1>5, <2>3, <2>4 DEF Chunk
<1> HIDE DEF r, w, step, more
<1>6. Chunk(kind, d, buf, x, r, w)
  BY <1>2, <1>3, <1>4, <1>5 DEF Part
<1> QED
  BY <1>6 DEF r, w

(* Decoder::decode of a request or a response does not depend on the       *)
(* chunks, by induction on the rank.                                       *)
LEMMA DecodeChunk ==
    ASSUME NEW kind \in Kinds, NEW d, NEW buf \in Text, NEW x \in Text, IsDecoder(kind, d)
    PROVE  Chunk(kind, d, buf, x, DecodeOf(kind, d, buf), DecodeOf(kind, d, buf \o x))
<1> DEFINE Holds(next, rest) ==
               Chunk(kind, next, rest, x, DecodeOf(kind, next, rest), DecodeOf(kind, next, rest \o x))
           S == {n \in Nat : \A next, rest :
                    IsDecoder(kind, next) /\ Rank(kind, next) <= n /\ rest \in Text => Holds(next, rest)}
<1>1. 0 \in S
  <2>1. SUFFICES ASSUME NEW next, NEW rest, IsDecoder(kind, next), Rank(kind, next) <= 0, rest \in Text
                 PROVE  Holds(next, rest)
    <3> HIDE DEF Holds
    <3> QED
      OBVIOUS
  <2>2. next.state = "End"
    BY <2>1, RankBounds
  <2> QED
    BY <2>1, <2>2, ChunkAtEnd
<1>2. ASSUME NEW n \in Nat, n \in S PROVE n + 1 \in S
  <2> HIDE DEF Holds
  <2>1. SUFFICES ASSUME NEW next, NEW rest, IsDecoder(kind, next), Rank(kind, next) <= n + 1, rest \in Text
                 PROVE  Holds(next, rest)
    OBVIOUS
  <2>2. CASE next.state = "End"
    BY <2>1, <2>2, ChunkAtEnd DEF Holds
  <2>3. CASE next.state # "End"
    <3>1. ASSUME NEW c, NEW t, IsDecoder(kind, c), Rank(kind, c) < Rank(kind, next), t \in Text
          PROVE  Holds(c, t)
      <4> DEFINE p == Rank(kind, c)
                 q == Rank(kind, next)
      <4>1. p \in Nat /\ q \in Nat /\ p < q /\ q <= n + 1
        BY <2>1, <3>1, RankBounds
      <4> HIDE DEF p, q
      <4>2. p <= n
        BY <4>1
      <4> QED
        BY <1>2, <3>1, <4>2 DEF p
    <3> QED
      BY <2>1, <2>3, <3>1, ChunkStep DEF Holds
  <2> QED
    BY <2>2, <2>3
<1> HIDE DEF S
<1>3. Rank(kind, d) \in S /\ Rank(kind, d) \in Nat
  BY <1>1, <1>2, SetInduction, RankBounds
<1>4. Rank(kind, d) <= Rank(kind, d)
  BY <1>3
<1> QED
  BY <1>3, <1>4 DEF S

-----------------------------------------------------------------------------
(* Leading line breaks.                                                    *)

(* Where a text starts once the leading line breaks are left out.          *)
Starts(text) == {k \in 1 .. Len(text) + 1 : k % 2 = 1 /\ ~CRLFAt(text, k)}

(* Odd positions, counted from another odd position.                       *)
LEMMA Parity ==
    ASSUME NEW p \in Nat, NEW q \in Nat, p % 2 = 1
    PROVE  /\ q % 2 = 1 => (p + q - 1) % 2 = 1
           /\ q % 2 = 1 /\ p <= q => (q - p + 1) % 2 = 1
OBVIOUS

(* Where the line breaks at the front end.                                 *)
LEMMA StripStart ==
    ASSUME NEW text \in Text
    PROVE  LET p == First(Starts(text))
           IN  /\ p \in 1 .. Len(text) + 1 /\ p % 2 = 1 /\ ~CRLFAt(text, p)
               /\ \A j \in 1 .. Len(text) + 1 : j < p /\ j % 2 = 1 => CRLFAt(text, j)
               /\ StripNewlines(text) = SubSeq(text, p, Len(text))
<1>1. Len(text) \in Nat
  BY DEF Text
<1>2. Starts(text) # {}
  <2>1. CASE (Len(text) + 1) % 2 = 1
    <3>1. Len(text) + 1 \in Starts(text)
      BY <1>1, <2>1 DEF Starts, CRLFAt
    <3> QED
      BY <3>1
  <2>2. CASE Len(text) % 2 = 1
    <3>1. Len(text) >= 1
      BY <1>1, <2>2
    <3>2. Len(text) \in Starts(text)
      BY <1>1, <2>2, <3>1 DEF Starts, CRLFAt
    <3> QED
      BY <3>2
  <2> QED
    BY <1>1, <2>1, <2>2
<1>3. Starts(text) \in SUBSET (1 .. Len(text) + 1) /\ Len(text) + 1 \in Int
  BY <1>1 DEF Starts
<1> DEFINE p == First(Starts(text))
<1>4. p \in Starts(text) /\ \A j \in Starts(text) : p <= j
  <2> DEFINE n == Len(text) + 1
             A == Starts(text)
  <2>1. A # {} /\ A \in SUBSET (1 .. n) /\ n \in Int
    BY <1>2, <1>3
  <2> HIDE DEF n, A
  <2>2. First(A) \in A /\ \A j \in A : First(A) <= j
    BY <2>1, FirstIsLeast
  <2> QED
    BY <2>2 DEF A
<1>5. StripNewlines(text) = SubSeq(text, p, Len(text))
  BY DEF StripNewlines, Starts
<1> HIDE DEF p
<1>6. p \in 1 .. Len(text) + 1 /\ p % 2 = 1 /\ ~CRLFAt(text, p)
  BY <1>4 DEF Starts
<1>7. ASSUME NEW j \in 1 .. Len(text) + 1, j < p, j % 2 = 1 PROVE CRLFAt(text, j)
  <2>1. j \notin Starts(text)
    BY <1>1, <1>4, <1>6, <1>7
  <2> QED
    BY <1>7, <2>1 DEF Starts
<1> QED
  BY <1>5, <1>6, <1>7 DEF p

(* The converse.                                                           *)
LEMMA StripIs ==
    ASSUME NEW text \in Text, NEW p \in 1 .. Len(text) + 1, p % 2 = 1, ~CRLFAt(text, p),
           \A j \in 1 .. Len(text) + 1 : j < p /\ j % 2 = 1 => CRLFAt(text, j)
    PROVE  StripNewlines(text) = SubSeq(text, p, Len(text))
<1> DEFINE n == Len(text) + 1
           A == Starts(text)
<1>1. Len(text) \in Nat /\ n \in Int /\ A \in SUBSET (1 .. n)
  BY DEF Text, Starts
<1>2. p \in A
  BY DEF Starts
<1>3. ASSUME NEW j \in A PROVE p <= j
  <2>1. j \in 1 .. Len(text) + 1 /\ j % 2 = 1 /\ ~CRLFAt(text, j)
    BY DEF Starts
  <2>2. ~(j < p)
    BY <2>1
  <2> QED
    BY <1>1, <2>1, <2>2
<1> HIDE DEF n, A
<1>4. First(A) = p
  BY <1>1, <1>2, <1>3, FirstIs
<1> QED
  BY <1>4 DEF StripNewlines, Starts, A

(* A text without a leading line break is left as it is.                   *)
LEMMA StripNothing ==
    ASSUME NEW text \in Text, ~CRLFAt(text, 1)
    PROVE  StripNewlines(text) = text
<1>1. Len(text) \in Nat /\ SubSeq(text, 1, Len(text)) = text
  BY DEF Text
<1> DEFINE p == 1
<1>2. /\ p \in 1 .. Len(text) + 1 /\ p % 2 = 1 /\ ~CRLFAt(text, p)
      /\ \A j \in 1 .. Len(text) + 1 : j < p /\ j % 2 = 1 => CRLFAt(text, j)
  BY <1>1
<1> HIDE DEF p
<1>3. StripNewlines(text) = SubSeq(text, p, Len(text))
  BY <1>2, StripIs
<1> QED
  BY <1>1, <1>3 DEF p

(* Texts with the same bytes are the same.                                 *)
LEMMA SameText ==
    ASSUME NEW u \in Text, NEW v \in Text, Len(u) = Len(v), \A i \in 1 .. Len(u) : u[i] = v[i]
    PROVE  u = v
BY DEF Text

(* The positions of the rest of a text are those of the text.              *)
LEMMA Shifted ==
    ASSUME NEW text \in Text, NEW p \in 1 .. Len(text) + 1
    PROVE  LET tail == SubSeq(text, p, Len(text))
           IN  /\ tail \in Text /\ Len(tail) = Len(text) + 1 - p /\ Len(text) \in Nat
               /\ \A k \in 1 .. Len(tail) + 1 : CRLFAt(tail, k) <=> CRLFAt(text, p + k - 1)
               /\ \A k \in 1 .. Len(tail) + 1 :
                     SubSeq(tail, k, Len(tail)) = SubSeq(text, p + k - 1, Len(text))
<1> DEFINE tail == SubSeq(text, p, Len(text))
           n == Len(text)
<1>1. n \in Nat /\ p \in Nat /\ p >= 1 /\ p <= n + 1
  BY DEF Text
<1>2. /\ tail \in Text /\ Len(tail) = n + 1 - p
      /\ \A k \in 1 .. n + 1 - p : tail[k] = text[p + k - 1]
  BY <1>1 DEF Text
<1> HIDE DEF tail, n
<1>3. ASSUME NEW k \in 1 .. Len(tail) + 1 PROVE CRLFAt(tail, k) <=> CRLFAt(text, p + k - 1)
  <2>1. k \in Nat /\ k >= 1 /\ (k < Len(tail) <=> p + k - 1 < n) /\ p + k - 1 >= 1
    BY <1>1, <1>2
  <2>2. CASE k < Len(tail)
    <3>1. k \in 1 .. n + 1 - p /\ k + 1 \in 1 .. n + 1 - p /\ p + (k + 1) - 1 = (p + k - 1) + 1
      BY <1>1, <1>2, <2>1, <2>2
    <3>2. tail[k] = text[p + k - 1] /\ tail[k + 1] = text[(p + k - 1) + 1]
      <4>1. tail[k + 1] = text[p + (k + 1) - 1]
        BY <1>2, <3>1
      <4> QED
        BY <1>2, <3>1, <4>1
    <3> QED
      BY <2>1, <2>2, <3>2 DEF CRLFAt, n
  <2>3. CASE ~(k < Len(tail))
    BY <2>1, <2>3 DEF CRLFAt, n
  <2> QED
    BY <2>2, <2>3
<1>4. ASSUME NEW k \in 1 .. Len(tail) + 1
      PROVE  SubSeq(tail, k, Len(tail)) = SubSeq(text, p + k - 1, Len(text))
  <2> DEFINE q == p + k - 1
             l == Len(tail)
             u == SubSeq(tail, k, l)
             v == SubSeq(text, q, n)
  <2>1. k \in Nat /\ l \in Nat /\ k >= 1 /\ k <= l + 1 /\ q \in Nat /\ q >= 1 /\ q <= n + 1
        /\ l + 1 - k = n + 1 - q /\ l = n + 1 - p
    BY <1>1, <1>2
  <2>2. u \in Text /\ Len(u) = l + 1 - k /\ \A i \in 1 .. l + 1 - k : u[i] = tail[k + i - 1]
    <3> HIDE DEF q
    <3> QED
      BY <1>2, <2>1, SMTT(30) DEF Text
  <2>3. v \in Text /\ Len(v) = n + 1 - q /\ \A i \in 1 .. n + 1 - q : v[i] = text[q + i - 1]
    <3> HIDE DEF q, l, u
    <3> QED
      BY <1>1, <2>1 DEF Text, n
  <2>4. ASSUME NEW i \in 1 .. n + 1 - q PROVE u[i] = v[i]
    <3> HIDE DEF u, v
    <3>1. i \in 1 .. l + 1 - k /\ k + i - 1 \in 1 .. n + 1 - p /\ p + (k + i - 1) - 1 = q + i - 1
      BY <1>1, <2>1
    <3>2. u[i] = tail[k + i - 1] /\ v[i] = text[q + i - 1]
      BY <2>2, <2>3, <3>1
    <3>3. tail[k + i - 1] = text[p + (k + i - 1) - 1]
      BY <1>2, <3>1
    <3> QED
      BY <3>1, <3>2, <3>3
  <2>5. u = v
    <3> HIDE DEF u, v, q, l
    <3>1. Len(u) = Len(v) /\ \A i \in 1 .. Len(u) : u[i] = v[i]
      BY <2>1, <2>2, <2>3, <2>4
    <3> QED
      BY <2>2, <2>3, <3>1, SameText
  <2> QED
    BY <2>5 DEF n
<1> QED
  BY <1>1, <1>2, <1>3, <1>4 DEF tail, n

(* Line breaks that were taken off already make no difference.             *)
LEMMA StripShift ==
    ASSUME NEW text \in Text, NEW p \in 1 .. Len(text) + 1, p % 2 = 1,
           \A j \in 1 .. Len(text) + 1 : j < p /\ j % 2 = 1 => CRLFAt(text, j)
    PROVE  StripNewlines(SubSeq(text, p, Len(text))) = StripNewlines(text)
<1> DEFINE tail == SubSeq(text, p, Len(text))
           n == Len(text)
           l == Len(tail)
           q == First(Starts(tail))
           k == p + q - 1
<1>1. /\ tail \in Text /\ l = n + 1 - p /\ n \in Nat
      /\ \A i \in 1 .. l + 1 : CRLFAt(tail, i) <=> CRLFAt(text, p + i - 1)
      /\ \A i \in 1 .. l + 1 : SubSeq(tail, i, l) = SubSeq(text, p + i - 1, n)
  BY Shifted
<1> HIDE DEF tail
<1>2. /\ q \in 1 .. l + 1 /\ q % 2 = 1 /\ ~CRLFAt(tail, q)
      /\ \A j \in 1 .. l + 1 : j < q /\ j % 2 = 1 => CRLFAt(tail, j)
      /\ StripNewlines(tail) = SubSeq(tail, q, l)
  BY <1>1, StripStart
<1> HIDE DEF n, l, q
<1>3. p \in Nat /\ p >= 1 /\ p <= n + 1 /\ l \in Nat /\ q \in Nat /\ q >= 1 /\ q <= l + 1
  BY <1>1, <1>2 DEF n
<1>4. k \in 1 .. n + 1 /\ k % 2 = 1
  BY <1>1, <1>2, <1>3, Parity
<1>5. ~CRLFAt(text, k)
  BY <1>1, <1>2
<1>6. ASSUME NEW j \in 1 .. n + 1, j < k, j % 2 = 1 PROVE CRLFAt(text, j)
  <2>1. CASE j < p
    BY <1>6, <2>1 DEF n
  <2>2. CASE p <= j
    <3> DEFINE i == j - p + 1
    <3>1. i \in 1 .. l + 1 /\ i < q /\ p + i - 1 = j /\ j \in Nat
      BY <1>1, <1>3, <1>6, <2>2
    <3>2. i % 2 = 1
      BY <1>3, <1>6, <2>2, <3>1, Parity
    <3> HIDE DEF i
    <3> QED
      BY <1>1, <1>2, <3>1, <3>2
  <2> QED
    BY <1>1, <1>3, <2>1, <2>2
<1>7. SubSeq(tail, q, l) = SubSeq(text, k, n)
  BY <1>1, <1>2
<1> HIDE DEF k
<1>8. StripNewlines(text) = SubSeq(text, k, n)
  BY <1>4, <1>5, <1>6, StripIs DEF n
<1> QED
  BY <1>2, <1>7, <1>8 DEF tail

(* Taking line breaks off a text, and then off what is left with more      *)
(* bytes, is taking them off all of it.                                    *)
LEMMA StripChunk ==
    ASSUME NEW b \in Text, NEW x \in Text
    PROVE  LET s == StripNewlines(b)
           IN  /\ s \in Text /\ Len(s) \in Nat /\ Len(s) <= Len(b) /\ ~CRLFAt(s, 1)
               /\ StripNewlines(s \o x) = StripNewlines(b \o x)
               /\ StripNewlines(s) = s
<1> DEFINE s == StripNewlines(b)
           p == First(Starts(b))
           all == b \o x
<1>1. /\ p \in 1 .. Len(b) + 1 /\ p % 2 = 1 /\ ~CRLFAt(b, p)
      /\ \A j \in 1 .. Len(b) + 1 : j < p /\ j % 2 = 1 => CRLFAt(b, j)
      /\ s = SubSeq(b, p, Len(b))
  BY StripStart
<1> HIDE DEF p, s
<1>2. /\ s \in Text /\ Len(s) = Len(b) + 1 - p /\ Len(b) \in Nat
      /\ \A k \in 1 .. Len(s) + 1 : CRLFAt(s, k) <=> CRLFAt(b, p + k - 1)
  BY <1>1, Shifted
<1>3. Len(s) \in Nat /\ Len(s) <= Len(b) /\ p \in Nat /\ p >= 1 /\ p <= Len(b) + 1
  BY <1>1, <1>2 DEF Text
<1>4. ~CRLFAt(s, 1)
  <2>1. 1 \in 1 .. Len(s) + 1 /\ p + 1 - 1 = p
    BY <1>3
  <2>2. CRLFAt(s, 1) <=> CRLFAt(b, p + 1 - 1)
    BY <1>2, <2>1
  <2> QED
    BY <1>1, <2>1, <2>2
<1>5. StripNewlines(s) = s
  BY <1>2, <1>4, StripNothing
<1>6. /\ all \in Text /\ Len(all) = Len(b) + Len(x) /\ Len(x) \in Nat
      /\ \A k \in 1 .. Len(b) - 1 : CRLFAt(all, k) <=> CRLFAt(b, k)
  BY Extended
<1>7. s \o x = SubSeq(all, p, Len(all))
  BY <1>1, <1>3, SplitFrom
<1> HIDE DEF all
<1>8. p \in 1 .. Len(all) + 1
  BY <1>2, <1>3, <1>6
<1>9. ASSUME NEW j \in 1 .. Len(all) + 1, j < p, j % 2 = 1 PROVE CRLFAt(all, j)
  <2>1. j \in 1 .. Len(b) + 1
    BY <1>2, <1>3, <1>6, <1>9
  <2>2. CRLFAt(b, j)
    BY <1>1, <1>9, <2>1
  <2>3. j \in 1 .. Len(b) - 1
    BY <1>2, <2>1, <2>2 DEF CRLFAt
  <2> QED
    BY <1>6, <2>2, <2>3
<1>10. StripNewlines(s \o x) = StripNewlines(all)
  BY <1>1, <1>6, <1>7, <1>8, <1>9, StripShift, ZenonT(60)
<1> QED
  BY <1>2, <1>3, <1>4, <1>5, <1>10 DEF all, s

-----------------------------------------------------------------------------
(* A call of decode of the codec, with more bytes in the buffer.           *)

(* A codec whose decoders are in order, one of them at most in a message.  *)
GoodCodec(c) ==
    /\ IsCodec(c)
    /\ IsDecoder("request", c.request) /\ IsDecoder("response", c.response)
    /\ c.request.state = "Method" \/ c.response.state = "Version"

(* What a call gives for a text tells what one gives for a longer text.    *)
CallChunk(c, buf, x, call, more) ==
    /\ call.result.tag \in {"Complete", "Incomplete", "Error"}
    /\ call.rest \in Text /\ Len(call.rest) <= Len(buf)
    /\ call.result.tag = "Complete" =>
          /\ more.result.tag = "Complete" /\ more.result.message = call.result.message
          /\ more.codec = call.codec /\ more.rest = call.rest \o x
          /\ GoodCodec(call.codec) /\ AtRest(call.codec)
          /\ AtRest(c) => Len(call.rest) < Len(buf)
    /\ call.result.tag = "Incomplete" =>
          /\ Agree(more, CodecDecode(call.codec, call.rest \o x))
          /\ Agree(call, CodecDecode(call.codec, call.rest))
          /\ GoodCodec(call.codec)
          /\ AtRest(call.codec) =>
                /\ call.codec = c /\ call.rest = StripNewlines(buf)
                /\ Len(call.rest) < InfoLineBound
    /\ call.result.tag = "Error" =>
          \/ more.result.tag = "Error" /\ more.result.error = call.result.error
          \/ Cut(call.result.error, call.rest) \/ HeaderNameMaxLength = 0

(* What decode_request returns.                                            *)
LEMMA RequestFields ==
    ASSUME NEW c, IsCodec(c), NEW text, NEW before
    PROVE  LET call == DecodeRequest(c, text, before)
               r == DecodeOf("request", c.request, text)
           IN  /\ call.result = r /\ call.rest = r.rest
               /\ call.codec = [request |-> r.d, response |-> c.response]
<1> DEFINE call == DecodeRequest(c, text, before)
           r == RequestDecode(c.request, text)
<1>1. call = [result |-> r, rest |-> r.rest, codec |-> [c EXCEPT !.request = r.d],
              events |-> before \o Finished(r.tag)]
  BY DEF DecodeRequest, Once
<1>2. r = DecodeOf("request", c.request, text)
  BY DEF DecodeOf
<1> HIDE DEF call, r
<1>3. [c EXCEPT !.request = r.d] = [request |-> r.d, response |-> c.response]
  BY DEF IsCodec
<1>4. /\ call.result = r /\ call.rest = r.rest
      /\ call.codec = [request |-> r.d, response |-> c.response]
  BY <1>1, <1>3
<1> QED
  BY <1>2, <1>4 DEF call

(* What decode_response returns.                                           *)
LEMMA ResponseFields ==
    ASSUME NEW c, IsCodec(c), NEW text, NEW before
    PROVE  LET call == DecodeResponse(c, text, before)
               r == DecodeOf("response", c.response, text)
           IN  /\ call.result = r /\ call.rest = r.rest
               /\ call.codec = [request |-> c.request, response |-> r.d]
<1> DEFINE call == DecodeResponse(c, text, before)
           r == ResponseDecode(c.response, text)
<1>1. call = [result |-> r, rest |-> r.rest, codec |-> [c EXCEPT !.response = r.d],
              events |-> before \o Finished(r.tag)]
  BY DEF DecodeResponse, Once
<1>2. r = DecodeOf("response", c.response, text)
  BY DEF DecodeOf
<1> HIDE DEF call, r
<1>3. [c EXCEPT !.response = r.d] = [request |-> c.request, response |-> r.d]
  BY DEF IsCodec
<1>4. /\ call.result = r /\ call.rest = r.rest
      /\ call.codec = [request |-> c.request, response |-> r.d]
  BY <1>1, <1>3
<1> QED
  BY <1>2, <1>4 DEF call

(* Two decoders are a codec.                                               *)
LEMMA Pairs ==
    ASSUME NEW a, NEW b
    PROVE  LET c == [request |-> a, response |-> b]
           IN  IsCodec(c) /\ c.request = a /\ c.response = b
BY DEF IsCodec

(* decode_request of the codec. When the decoder has not left its first    *)
(* state, the text is shorter than InfoLineBound and remains.              *)
LEMMA RequestChunk ==
    ASSUME NEW c, GoodCodec(c), c.response.state = "Version", NEW buf \in Text, NEW x \in Text,
           NEW before, NEW then
    PROVE  LET call == DecodeRequest(c, buf, before)
               more == DecodeRequest(c, buf \o x, then)
           IN  /\ call.result.tag = "Incomplete" /\ AtRest(call.codec) =>
                     call.codec = c /\ call.rest = buf /\ Len(buf) < InfoLineBound
               /\ ~(call.result.tag = "Incomplete" /\ AtRest(call.codec)) =>
                     CallChunk(c, buf, x, call, more)
<1> DEFINE call == DecodeRequest(c, buf, before)
           more == DecodeRequest(c, buf \o x, then)
           r == DecodeOf("request", c.request, buf)
           w == DecodeOf("request", c.request, buf \o x)
<1>0. IsCodec(c)
  BY DEF GoodCodec
<1>1. /\ call.result = r /\ call.rest = r.rest
      /\ call.codec = [request |-> r.d, response |-> c.response]
  BY <1>0, RequestFields
<1>2. /\ more.result = w /\ more.rest = w.rest
      /\ more.codec = [request |-> w.d, response |-> c.response]
  BY <1>0, RequestFields
<1>3. Chunk("request", c.request, buf, x, r, w)
  BY DecodeChunk DEF GoodCodec, Kinds
<1> HIDE DEF call, more, r, w
<1>4. /\ IsCodec(call.codec) /\ call.codec.request = r.d /\ call.codec.response = c.response
  BY <1>1, Pairs
<1>5. FirstState("request") = "Method"
  BY DEF FirstState
<1>6. IsDecoder("response", c.response)
  BY DEF GoodCodec
<1>7. CASE r.tag = "Complete"
  <2>1. /\ more.result.tag = "Complete" /\ more.result.message = call.result.message
        /\ more.codec = call.codec /\ more.rest = call.rest \o x
        /\ GoodCodec(call.codec) /\ AtRest(call.codec)
        /\ AtRest(c) => Len(call.rest) < Len(buf)
    BY <1>1, <1>2, <1>3, <1>4, <1>5, <1>6, <1>7 DEF Chunk, GoodCodec, AtRest
  <2>2. call.result.tag = "Complete" /\ call.rest \in Text /\ Len(call.rest) <= Len(buf)
    BY <1>1, <1>3, <1>7 DEF Chunk
  <2>3. CallChunk(c, buf, x, call, more)
    BY <2>1, <2>2 DEF CallChunk
  <2> QED
    BY <2>2, <2>3 DEF call, more
<1>8. CASE r.tag = "Error"
  <2>1. \/ more.result.tag = "Error" /\ more.result.error = call.result.error
        \/ Cut(call.result.error, call.rest) \/ HeaderNameMaxLength = 0
    BY <1>1, <1>2, <1>3, <1>8 DEF Chunk
  <2>2. call.result.tag = "Error" /\ call.rest \in Text /\ Len(call.rest) <= Len(buf)
    BY <1>1, <1>3, <1>8 DEF Chunk
  <2>3. CallChunk(c, buf, x, call, more)
    BY <2>1, <2>2 DEF CallChunk
  <2> QED
    BY <2>2, <2>3 DEF call, more
<1>9. CASE r.tag = "Incomplete"
  <2>1. /\ w = DecodeOf("request", r.d, r.rest \o x) /\ r = DecodeOf("request", r.d, r.rest)
        /\ IsDecoder("request", r.d)
        /\ r.d.state = "Method" => r.d = c.request /\ r.rest = buf /\ Len(buf) < InfoLineBound
    BY <1>3, <1>5, <1>9 DEF Chunk
  <2>2. call.result.tag = "Incomplete" /\ call.rest \in Text /\ Len(call.rest) <= Len(buf)
    BY <1>1, <1>3, <1>9 DEF Chunk
  <2>3. GoodCodec(call.codec)
    BY <1>4, <1>6, <2>1 DEF GoodCodec
  <2>4. CASE r.d.state = "Method"
    <3>1. AtRest(call.codec)
      BY <1>4, <2>4 DEF AtRest
    <3>2. call.codec = c
      BY <1>0, <1>1, <2>1, <2>4 DEF IsCodec
    <3>3. call.rest = buf /\ Len(buf) < InfoLineBound
      BY <1>1, <2>1, <2>4
    <3> QED
      BY <2>2, <3>1, <3>2, <3>3 DEF call, more
  <2>5. CASE r.d.state # "Method"
    <3>1. ~AtRest(call.codec)
      BY <1>4, <2>5 DEF AtRest
    <3> DEFINE on == DecodeRequest(call.codec, r.rest \o x, <<>>)
               again == DecodeRequest(call.codec, r.rest, <<>>)
    <3>2. /\ CodecDecode(call.codec, call.rest \o x) = on
          /\ CodecDecode(call.codec, call.rest) = again
      BY <1>1, <1>4, <2>5 DEF CodecDecode
    <3>3. /\ on.result = w /\ on.rest = w.rest
          /\ on.codec = [request |-> w.d, response |-> call.codec.response]
      BY <1>4, <2>1, RequestFields
    <3>4. /\ again.result = r /\ again.rest = r.rest
          /\ again.codec = [request |-> r.d, response |-> call.codec.response]
      BY <1>4, <2>1, RequestFields
    <3> HIDE DEF on, again
    <3>5. Agree(more, on) /\ Agree(call, again)
      BY <1>1, <1>2, <1>4, <3>3, <3>4 DEF Agree
    <3>6. CallChunk(c, buf, x, call, more)
      BY <2>2, <2>3, <3>1, <3>2, <3>5 DEF CallChunk
    <3> QED
      BY <3>1, <3>6 DEF call, more
  <2> QED
    BY <2>4, <2>5
<1> QED
  BY <1>3, <1>7, <1>8, <1>9 DEF Chunk

(* decode_response of the codec.                                           *)
LEMMA ResponseChunk ==
    ASSUME NEW c, GoodCodec(c), c.request.state = "Method", NEW buf \in Text, NEW x \in Text,
           NEW before, NEW then
    PROVE  LET call == DecodeResponse(c, buf, before)
               more == DecodeResponse(c, buf \o x, then)
           IN  /\ call.result.tag = "Incomplete" /\ AtRest(call.codec) =>
                     call.codec = c /\ call.rest = buf /\ Len(buf) < InfoLineBound
               /\ ~(call.result.tag = "Incomplete" /\ AtRest(call.codec)) =>
                     CallChunk(c, buf, x, call, more)
<1> DEFINE call == DecodeResponse(c, buf, before)
           more == DecodeResponse(c, buf \o x, then)
           r == DecodeOf("response", c.response, buf)
           w == DecodeOf("response", c.response, buf \o x)
<1>0. IsCodec(c)
  BY DEF GoodCodec
<1>1. /\ call.result = r /\ call.rest = r.rest
      /\ call.codec = [request |-> c.request, response |-> r.d]
  BY <1>0, ResponseFields
<1>2. /\ more.result = w /\ more.rest = w.rest
      /\ more.codec = [request |-> c.request, response |-> w.d]
  BY <1>0, ResponseFields
<1>3. Chunk("response", c.response, buf, x, r, w)
  BY DecodeChunk DEF GoodCodec, Kinds
<1> HIDE DEF call, more, r, w
<1>4. /\ IsCodec(call.codec) /\ call.codec.response = r.d /\ call.codec.request = c.request
  BY <1>1, Pairs
<1>5. FirstState("response") = "Version"
  BY DEF FirstState
<1>6. IsDecoder("request", c.request)
  BY DEF GoodCodec
<1>7. CASE r.tag = "Complete"
  <2>1. /\ more.result.tag = "Complete" /\ more.result.message = call.result.message
        /\ more.codec = call.codec /\ more.rest = call.rest \o x
        /\ GoodCodec(call.codec) /\ AtRest(call.codec)
        /\ AtRest(c) => Len(call.rest) < Len(buf)
    BY <1>1, <1>2, <1>3, <1>4, <1>5, <1>6, <1>7 DEF Chunk, GoodCodec, AtRest
  <2>2. call.result.tag = "Complete" /\ call.rest \in Text /\ Len(call.rest) <= Len(buf)
    BY <1>1, <1>3, <1>7 DEF Chunk
  <2>3. CallChunk(c, buf, x, call, more)
    BY <2>1, <2>2 DEF CallChunk
  <2> QED
    BY <2>2, <2>3 DEF call, more
<1>8. CASE r.tag = "Error"
  <2>1. \/ more.result.tag = "Error" /\ more.result.error = call.result.error
        \/ Cut(call.result.error, call.rest) \/ HeaderNameMaxLength = 0
    BY <1>1, <1>2, <1>3, <1>8 DEF Chunk
  <2>2. call.result.tag = "Error" /\ call.rest \in Text /\ Len(call.rest) <= Len(buf)
    BY <1>1, <1>3, <1>8 DEF Chunk
  <2>3. CallChunk(c, buf, x, call, more)
    BY <2>1, <2>2 DEF CallChunk
  <2> QED
    BY <2>2, <2>3 DEF call, more
<1>9. CASE r.tag = "Incomplete"
  <2>1. /\ w = DecodeOf("response", r.d, r.rest \o x) /\ r = DecodeOf("response", r.d, r.rest)
        /\ IsDecoder("response", r.d)
        /\ r.d.state = "Version" => r.d = c.response /\ r.rest = buf /\ Len(buf) < InfoLineBound
    BY <1>3, <1>5, <1>9 DEF Chunk
  <2>2. call.result.tag = "Incomplete" /\ call.rest \in Text /\ Len(call.rest) <= Len(buf)
    BY <1>1, <1>3, <1>9 DEF Chunk
  <2>3. GoodCodec(call.codec)
    BY <1>4, <1>6, <2>1 DEF GoodCodec
  <2>4. CASE r.d.state = "Version"
    <3>1. AtRest(call.codec)
      BY <1>4, <2>4 DEF AtRest
    <3>2. call.codec = c
      BY <1>0, <1>1, <2>1, <2>4 DEF IsCodec
    <3>3. call.rest = buf /\ Len(buf) < InfoLineBound
      BY <1>1, <2>1, <2>4
    <3> QED
      BY <2>2, <3>1, <3>2, <3>3 DEF call, more
  <2>5. CASE r.d.state # "Version"
    <3>1. ~AtRest(call.codec)
      BY <1>4, <2>5 DEF AtRest
    <3> DEFINE on == DecodeResponse(call.codec, r.rest \o x, <<>>)
               again == DecodeResponse(call.codec, r.rest, <<>>)
    <3>2. /\ CodecDecode(call.codec, call.rest \o x) = on
          /\ CodecDecode(call.codec, call.rest) = again
      BY <1>1, <1>4, <2>5 DEF CodecDecode
    <3>3. /\ on.result = w /\ on.rest = w.rest
          /\ on.codec = [request |-> call.codec.request, response |-> w.d]
      BY <1>4, <2>1, ResponseFields
    <3>4. /\ again.result = r /\ again.rest = r.rest
          /\ again.codec = [request |-> call.codec.request, response |-> r.d]
      BY <1>4, <2>1, ResponseFields
    <3> HIDE DEF on, again
    <3>5. Agree(more, on) /\ Agree(call, again)
      BY <1>1, <1>2, <1>4, <3>3, <3>4 DEF Agree
    <3>6. CallChunk(c, buf, x, call, more)
      BY <2>2, <2>3, <3>1, <3>2, <3>5 DEF CallChunk
    <3> QED
      BY <3>1, <3>6 DEF call, more
  <2> QED
    BY <2>4, <2>5
<1> QED
  BY <1>3, <1>7, <1>8, <1>9 DEF Chunk

(* Between messages line breaks are skipped first.                         *)
LEMMA StartIs ==
    ASSUME NEW c, AtRest(c), NEW buf
    PROVE  CodecDecode(c, buf) = StartDecode(c, StripNewlines(buf))
<1>1. Once(StripNewlines(buf), LAMBDA stripped : StartDecode(c, stripped))
          = StartDecode(c, StripNewlines(buf))
  BY DEF Once
<1> QED
  BY <1>1 DEF CodecDecode, AtRest

(* Decoder::decode of the codec does not depend on the chunks. Whether a   *)
(* text is a request or a response shows in its first five bytes, and with *)
(* fewer nothing is decided.                                               *)
LEMMA CodecChunk ==
    ASSUME NEW c, GoodCodec(c), NEW buf \in Text, NEW x \in Text
    PROVE  CallChunk(c, buf, x, CodecDecode(c, buf), CodecDecode(c, buf \o x))
<1>0. IsCodec(c)
  BY DEF GoodCodec
<1>1. CASE c.request.state # "Method"
  <2> DEFINE call == DecodeRequest(c, buf, <<>>)
             more == DecodeRequest(c, buf \o x, <<>>)
  <2>1. CodecDecode(c, buf) = call /\ CodecDecode(c, buf \o x) = more
    BY <1>1 DEF CodecDecode
  <2>2. /\ call.result.tag = "Incomplete" /\ AtRest(call.codec) => call.codec = c
        /\ ~(call.result.tag = "Incomplete" /\ AtRest(call.codec)) =>
              CallChunk(c, buf, x, call, more)
    BY <1>1, RequestChunk DEF GoodCodec
  <2> HIDE DEF call, more
  <2> QED
    BY <1>1, <2>1, <2>2 DEF AtRest
<1>2. CASE c.request.state = "Method" /\ c.response.state # "Version"
  <2> DEFINE call == DecodeResponse(c, buf, <<>>)
             more == DecodeResponse(c, buf \o x, <<>>)
  <2>1. CodecDecode(c, buf) = call /\ CodecDecode(c, buf \o x) = more
    BY <1>2 DEF CodecDecode
  <2>2. /\ call.result.tag = "Incomplete" /\ AtRest(call.codec) => call.codec = c
        /\ ~(call.result.tag = "Incomplete" /\ AtRest(call.codec)) =>
              CallChunk(c, buf, x, call, more)
    BY <1>2, ResponseChunk
  <2> HIDE DEF call, more
  <2> QED
    BY <1>2, <2>1, <2>2 DEF AtRest
<1>3. CASE AtRest(c)
  <2> DEFINE s == StripNewlines(buf)
             t == StripNewlines(buf \o x)
             call == CodecDecode(c, buf)
             more == CodecDecode(c, buf \o x)
  <2>1. /\ s \in Text /\ Len(s) \in Nat /\ Len(s) <= Len(buf) /\ ~CRLFAt(s, 1)
        /\ StripNewlines(s \o x) = t /\ StripNewlines(s) = s /\ Len(buf) \in Nat
    BY StripChunk DEF Text
  <2>2. call = StartDecode(c, s) /\ more = StartDecode(c, t)
    BY <1>3, StartIs
  <2> HIDE DEF s, t, call, more
  <2>3. CodecDecode(c, s \o x) = more /\ CodecDecode(c, s) = call
    BY <1>3, <2>1, <2>2, StartIs
  <2>4. ASSUME call.result.tag = "Incomplete", call.codec = c, call.rest = s, Len(s) < InfoLineBound
        PROVE  CallChunk(c, buf, x, call, more)
    <3>1. Agree(more, CodecDecode(call.codec, call.rest \o x)) /\ Agree(call, CodecDecode(call.codec, call.rest))
      BY <2>3, <2>4 DEF Agree
    <3> QED
      BY <2>1, <2>4, <3>1 DEF CallChunk, s
  <2>5. CASE Len(s) < MinimumInfoLineSize
    <3> DEFINE started == IF s = <<>> THEN <<>> ELSE <<"DecodingStarted">>
    <3>1. call = [result |-> Incomplete, rest |-> s, codec |-> c, events |-> started]
      BY <2>2, <2>5 DEF StartDecode
    <3> HIDE DEF started
    <3>2. call.result.tag = "Incomplete" /\ call.codec = c /\ call.rest = s
      BY <3>1 DEF Incomplete
    <3>3. Len(s) < InfoLineBound
      BY <2>1, <2>5, DecodersAssumption DEF MinimumInfoLineSize, InfoLineBound
    <3> QED
      BY <2>4, <3>2, <3>3 DEF call, more
  <2>6. CASE ~(Len(s) < MinimumInfoLineSize)
    <3>1. Len(s) >= 5
      BY <2>1, <2>6 DEF MinimumInfoLineSize
    <3>2. /\ Len(s \o x) >= 5 /\ s \o x \in Text /\ SubSeq(s \o x, 1, 5) = SubSeq(s, 1, 5)
      <4>1. /\ s \o x \in Text /\ Len(s \o x) = Len(s) + Len(x) /\ Len(x) \in Nat
        BY <2>1, Extended
      <4> DEFINE k == 5
      <4>2. k \in Nat /\ k <= Len(s)
        BY <3>1
      <4> HIDE DEF k
      <4>3. SubSeq(s \o x, 1, k) = SubSeq(s, 1, k)
        BY <2>1, <4>2, SplitAt
      <4> QED
        BY <2>1, <3>1, <4>1, <4>3 DEF k
    <3>3. ~CRLFAt(s \o x, 1)
      <4>1. 1 \in 1 .. Len(s) - 1
        BY <2>1, <3>1
      <4> QED
        BY <2>1, <4>1, Extended
    <3>4. t = s \o x
      BY <2>1, <3>2, <3>3, StripNothing
    <3> DEFINE b1 == IF s = <<>> THEN <<>> ELSE <<"DecodingStarted">>
               b2 == IF t = <<>> THEN <<>> ELSE <<"DecodingStarted">>
    <3>7. ASSUME CallChunk(c, s, x, call, more), ~(call.result.tag = "Incomplete" /\ AtRest(call.codec))
          PROVE  CallChunk(c, buf, x, call, more)
      <4>1. call.rest \in Text /\ Len(call.rest) \in Nat /\ Len(call.rest) <= Len(s)
        BY <3>7 DEF CallChunk, Text
      <4> DEFINE i == Len(call.rest)
                 j == Len(s)
                 k == Len(buf)
      <4>2. i \in Nat /\ j \in Nat /\ k \in Nat /\ i <= j /\ j <= k
        BY <2>1, <4>1
      <4> HIDE DEF i, j, k
      <4>3. i <= k /\ (i < j => i < k)
        BY <4>2
      <4> QED
        BY <3>7, <4>3 DEF CallChunk, i, j, k
    <3>5. CASE SubSeq(s, 1, 5) = SubSeq(Rtsp20, 1, 5)
      <4>1. call = DecodeResponse(c, s, b1)
        BY <2>2, <2>6, <3>5 DEF StartDecode
      <4>2. more = DecodeResponse(c, s \o x, b2)
        <5>1. ~(Len(t) < MinimumInfoLineSize) /\ SubSeq(t, 1, 5) = SubSeq(Rtsp20, 1, 5)
          <6>1. Len(t) >= 5 /\ Len(t) \in Nat /\ SubSeq(t, 1, 5) = SubSeq(s, 1, 5)
            <7>1. Len(t) >= 5 /\ t \in Text /\ SubSeq(t, 1, 5) = SubSeq(s, 1, 5)
              BY <3>2, <3>4
            <7> QED
              BY <7>1 DEF Text
          <6>2. ~(Len(t) < MinimumInfoLineSize)
            BY <6>1 DEF MinimumInfoLineSize
          <6> QED
            BY <3>5, <6>1, <6>2
        <5>2. more = DecodeResponse(c, t, b2)
          BY <2>2, <5>1 DEF StartDecode
        <5> QED
          BY <3>4, <5>2
      <4> HIDE DEF b1, b2
      <4>3. /\ call.result.tag = "Incomplete" /\ AtRest(call.codec) =>
                  call.codec = c /\ call.rest = s /\ Len(s) < InfoLineBound
            /\ ~(call.result.tag = "Incomplete" /\ AtRest(call.codec)) => CallChunk(c, s, x, call, more)
        <5>1. c.request.state = "Method"
          BY <1>3 DEF AtRest
        <5> QED
          BY <2>1, <4>1, <4>2, <5>1, ResponseChunk
      <4>4. CASE call.result.tag = "Incomplete" /\ AtRest(call.codec)
        BY <2>4, <4>3, <4>4 DEF call, more
      <4>5. CASE ~(call.result.tag = "Incomplete" /\ AtRest(call.codec))
        BY <3>7, <4>3, <4>5 DEF call, more
      <4> QED
        BY <4>4, <4>5
    <3>6. CASE SubSeq(s, 1, 5) # SubSeq(Rtsp20, 1, 5)
      <4>1. call = DecodeRequest(c, s, b1)
        BY <2>2, <2>6, <3>6 DEF StartDecode
      <4>2. more = DecodeRequest(c, s \o x, b2)
        <5>1. ~(Len(t) < MinimumInfoLineSize) /\ SubSeq(t, 1, 5) # SubSeq(Rtsp20, 1, 5)
          <6>1. Len(t) >= 5 /\ Len(t) \in Nat /\ SubSeq(t, 1, 5) = SubSeq(s, 1, 5)
            <7>1. Len(t) >= 5 /\ t \in Text /\ SubSeq(t, 1, 5) = SubSeq(s, 1, 5)
              BY <3>2, <3>4
            <7> QED
              BY <7>1 DEF Text
          <6>2. ~(Len(t) < MinimumInfoLineSize)
            BY <6>1 DEF MinimumInfoLineSize
          <6> QED
            BY <3>6, <6>1, <6>2
        <5>2. more = DecodeRequest(c, t, b2)
          BY <2>2, <5>1 DEF StartDecode
        <5> QED
          BY <3>4, <5>2
      <4> HIDE DEF b1, b2
      <4>3. /\ call.result.tag = "Incomplete" /\ AtRest(call.codec) =>
                  call.codec = c /\ call.rest = s /\ Len(s) < InfoLineBound
            /\ ~(call.result.tag = "Incomplete" /\ AtRest(call.codec)) => CallChunk(c, s, x, call, more)
        <5>1. c.response.state = "Version"
          BY <1>3 DEF AtRest
        <5> QED
          BY <2>1, <4>1, <4>2, <5>1, RequestChunk
      <4>4. CASE call.result.tag = "Incomplete" /\ AtRest(call.codec)
        BY <2>4, <4>3, <4>4 DEF call, more
      <4>5. CASE ~(call.result.tag = "Incomplete" /\ AtRest(call.codec))
        BY <3>7, <4>3, <4>5 DEF call, more
      <4> QED
        BY <4>4, <4>5
    <3> QED
      BY <3>5, <3>6
  <2> QED
    BY <2>5, <2>6 DEF call, more
<1> QED
  BY <1>1, <1>2, <1>3 DEF AtRest

-----------------------------------------------------------------------------
(* The events of a call, and how often decoding starts.                    *)

(* Which events a call of decode sends.                                    *)
CallEvents(c, buf, call) ==
    /\ call.result.tag # "Incomplete" => Contains(call.events, "DecodingEnded")
    /\ call.result.tag = "Incomplete" =>
          /\ ~Contains(call.events, "DecodingEnded")
          /\ Contains(call.events, "DecodingStarted") => AtRest(c) /\ StripNewlines(buf) # <<>>

(* The event lists that occur.                                             *)
LEMMA EventsContain ==
    /\ ~Contains(<<>>, "DecodingEnded") /\ ~Contains(<<>>, "DecodingStarted")
    /\ ~Contains(<<"DecodingStarted">>, "DecodingEnded")
    /\ Contains(<<>> \o <<"DecodingEnded">>, "DecodingEnded")
    /\ Contains(<<"DecodingStarted">> \o <<"DecodingEnded">>, "DecodingEnded")
    /\ <<>> \o <<>> = <<>> /\ <<"DecodingStarted">> \o <<>> = <<"DecodingStarted">>
<1>1. ~Contains(<<>>, "DecodingEnded") /\ ~Contains(<<>>, "DecodingStarted")
  BY DEF Contains
<1>2. ~Contains(<<"DecodingStarted">>, "DecodingEnded")
  BY DEF Contains
<1>3. <<>> \o <<"DecodingEnded">> = <<"DecodingEnded">>
  OBVIOUS
<1>4. Contains(<<"DecodingEnded">>, "DecodingEnded")
  BY DEF Contains
<1>5. Contains(<<"DecodingStarted">> \o <<"DecodingEnded">>, "DecodingEnded")
  <2> DEFINE q == <<"DecodingStarted">> \o <<"DecodingEnded">>
  <2>1. Len(q) = 2 /\ q[2] = "DecodingEnded"
    OBVIOUS
  <2> HIDE DEF q
  <2>2. 2 \in 1 .. Len(q)
    BY <2>1
  <2>3. Contains(q, "DecodingEnded")
    BY <2>1, <2>2 DEF Contains
  <2> QED
    BY <2>3 DEF q
<1>6. <<>> \o <<>> = <<>> /\ <<"DecodingStarted">> \o <<>> = <<"DecodingStarted">>
  OBVIOUS
<1> QED
  BY <1>1, <1>2, <1>3, <1>4, <1>5, <1>6

(* An end sends DecodingEnded, and nothing else does.                      *)
LEMMA FinishedEvents ==
    ASSUME NEW before \in {<<>>, <<"DecodingStarted">>}, NEW tag
    PROVE  /\ tag # "Incomplete" => Contains(before \o Finished(tag), "DecodingEnded")
           /\ tag = "Incomplete" =>
                 /\ before \o Finished(tag) = before
                 /\ ~Contains(before \o Finished(tag), "DecodingEnded")
<1>1. CASE tag = "Incomplete"
  <2>1. Finished(tag) = <<>>
    BY <1>1 DEF Finished
  <2>2. before \o <<>> = before /\ ~Contains(before, "DecodingEnded")
    BY EventsContain
  <2> QED
    BY <1>1, <2>1, <2>2
<1>2. CASE tag # "Incomplete"
  <2>1. Finished(tag) = <<"DecodingEnded">>
    BY <1>2 DEF Finished
  <2>2. Contains(before \o <<"DecodingEnded">>, "DecodingEnded")
    BY EventsContain
  <2> QED
    BY <1>2, <2>1, <2>2
<1> QED
  BY <1>1, <1>2

(* The events of decode_request and decode_response.                       *)
LEMMA SendEvents ==
    ASSUME NEW c, NEW text, NEW buf, NEW before \in {<<>>, <<"DecodingStarted">>},
           before # <<>> => AtRest(c) /\ StripNewlines(buf) # <<>>
    PROVE  /\ CallEvents(c, buf, DecodeRequest(c, text, before))
           /\ CallEvents(c, buf, DecodeResponse(c, text, before))
<1>1. ASSUME NEW call, NEW tag, call.result.tag = tag, call.events = before \o Finished(tag)
      PROVE  CallEvents(c, buf, call)
  <2>1. CASE tag # "Incomplete"
    BY <1>1, <2>1, FinishedEvents DEF CallEvents
  <2>2. CASE tag = "Incomplete"
    <3>1. call.events = before /\ ~Contains(call.events, "DecodingEnded")
      BY <1>1, <2>2, FinishedEvents
    <3>2. Contains(before, "DecodingStarted") => before # <<>>
      BY EventsContain
    <3> QED
      BY <1>1, <2>2, <3>1, <3>2 DEF CallEvents
  <2> QED
    BY <2>1, <2>2
<1>2. CallEvents(c, buf, DecodeRequest(c, text, before))
  <2> DEFINE r == RequestDecode(c.request, text)
             call == DecodeRequest(c, text, before)
  <2>1. call = [result |-> r, rest |-> r.rest, codec |-> [c EXCEPT !.request = r.d],
                events |-> before \o Finished(r.tag)]
    BY DEF DecodeRequest, Once
  <2> HIDE DEF r, call
  <2>2. call.result.tag = r.tag /\ call.events = before \o Finished(r.tag)
    BY <2>1
  <2> QED
    BY <1>1, <2>2 DEF call
<1>3. CallEvents(c, buf, DecodeResponse(c, text, before))
  <2> DEFINE r == ResponseDecode(c.response, text)
             call == DecodeResponse(c, text, before)
  <2>1. call = [result |-> r, rest |-> r.rest, codec |-> [c EXCEPT !.response = r.d],
                events |-> before \o Finished(r.tag)]
    BY DEF DecodeResponse, Once
  <2> HIDE DEF r, call
  <2>2. call.result.tag = r.tag /\ call.events = before \o Finished(r.tag)
    BY <2>1
  <2> QED
    BY <1>1, <2>2 DEF call
<1> QED
  BY <1>2, <1>3

(* Decoder::decode of the codec starts the timer only between messages,    *)
(* with bytes at hand.                                                     *)
LEMMA CodecEvents ==
    ASSUME NEW c, NEW buf
    PROVE  CallEvents(c, buf, CodecDecode(c, buf))
<1>1. CASE ~AtRest(c)
  <2>1. \/ CodecDecode(c, buf) = DecodeRequest(c, buf, <<>>)
        \/ CodecDecode(c, buf) = DecodeResponse(c, buf, <<>>)
    BY <1>1 DEF CodecDecode, AtRest
  <2>2. /\ CallEvents(c, buf, DecodeRequest(c, buf, <<>>))
        /\ CallEvents(c, buf, DecodeResponse(c, buf, <<>>))
    BY SendEvents
  <2> QED
    BY <2>1, <2>2
<1>2. CASE AtRest(c)
  <2> DEFINE text == StripNewlines(buf)
             started == IF text = <<>> THEN <<>> ELSE <<"DecodingStarted">>
             short == [result |-> Incomplete, rest |-> text, codec |-> c, events |-> started]
  <2>1. CodecDecode(c, buf) = StartDecode(c, text)
    BY <1>2, StartIs
  <2>2. StartDecode(c, text) =
            IF Len(text) < MinimumInfoLineSize THEN short
            ELSE IF SubSeq(text, 1, 5) = SubSeq(Rtsp20, 1, 5)
            THEN DecodeResponse(c, text, started) ELSE DecodeRequest(c, text, started)
    BY DEF StartDecode
  <2>3. started \in {<<>>, <<"DecodingStarted">>} /\ (started # <<>> => text # <<>>)
    OBVIOUS
  <2> HIDE DEF started
  <2>4. /\ CallEvents(c, buf, DecodeRequest(c, text, started))
        /\ CallEvents(c, buf, DecodeResponse(c, text, started))
    BY <1>2, <2>3, SendEvents
  <2>5. CallEvents(c, buf, short)
    <3>1. short.result.tag = "Incomplete" /\ short.events = started
      BY DEF Incomplete
    <3>2. ~Contains(started, "DecodingEnded") /\ (Contains(started, "DecodingStarted") => started # <<>>)
      BY <2>3, EventsContain
    <3> HIDE DEF short
    <3> QED
      BY <1>2, <2>3, <3>1, <3>2 DEF CallEvents
  <2> HIDE DEF short, text
  <2> QED
    BY <2>1, <2>2, <2>4, <2>5
<1> QED
  BY <1>1, <1>2

(* The bytes and the decoders keep their types.                            *)
BytesInv ==
    /\ input \in Text /\ buffer \in Text /\ read \in 0 .. Len(input)
    /\ Running => GoodCodec(Codecs)

(* Initially.                                                              *)
LEMMA InitBytes ==
    ASSUME Init
    PROVE  BytesInv
<1>1. input \in Text
  BY CodecAssumption DEF Init, Text
<1>2. HeaderMaxCount \in Nat
  BY DecodersAssumption
<1>3. IsDecoder("request", RequestDecoder) /\ RequestDecoder.state = "Method"
  <2>1. /\ {"state", "length", "config", "headers"} \subseteq DOMAIN RequestDecoder
        /\ RequestDecoder.state = "Method" /\ RequestDecoder.config = RequestConfig
        /\ RequestDecoder.length = 0 /\ RequestDecoder.headers = <<>>
    BY DEF RequestDecoder
  <2> QED
    BY <1>2, <2>1 DEF IsDecoder, States, Limits
<1>4. IsDecoder("response", ResponseDecoder)
  <2>1. /\ {"state", "length", "config", "headers"} \subseteq DOMAIN ResponseDecoder
        /\ ResponseDecoder.state = "Version" /\ ResponseDecoder.config = ResponseConfig
        /\ ResponseDecoder.length = 0 /\ ResponseDecoder.headers = <<>>
    BY DEF ResponseDecoder
  <2> QED
    BY <1>2, <2>1 DEF IsDecoder, States, Limits
<1>5. GoodCodec(Codecs)
  <2>1. request = RequestDecoder /\ response = ResponseDecoder
    BY DEF Init
  <2>2. IsCodec(Codecs) /\ Codecs.request = request /\ Codecs.response = response
    BY Pairs DEF Codecs
  <2> QED
    BY <1>3, <1>4, <2>1, <2>2 DEF GoodCodec
<1>6. buffer \in Text /\ read \in 0 .. Len(input)
  BY <1>1 DEF Init, Text
<1> QED
  BY <1>1, <1>5, <1>6 DEF BytesInv

(* What a step that calls decode does.                                     *)
DecodesTo(call) ==
    /\ Running /\ phase = "stream" /\ readable
    /\ \/ DecodeComplete(call) \/ DecodeIncomplete(call)
       \/ DecodeEOF(call) \/ DecodeFails(call)
    /\ ApplyDecode(call)
    /\ Codecs' = [request |-> call.codec.request, response |-> call.codec.response]
    /\ \A x \in Text : CallChunk(Codecs, buffer, x, call, CodecDecode(Codecs, buffer \o x))
    /\ CallEvents(Codecs, buffer, call) /\ NamesError(call.result)
    /\ AtRest(Codecs) <=> ~InMessage

(* The action that decodes is one call of decode.                          *)
LEMMA DecodeStep ==
    ASSUME BytesInv, Decode
    PROVE  DecodesTo(CodecDecode(Codecs, buffer))
<1> DEFINE call == CodecDecode(Codecs, buffer)
<1>1. /\ Running /\ phase = "stream" /\ readable
      /\ \/ DecodeComplete(call) \/ DecodeIncomplete(call)
         \/ DecodeEOF(call) \/ DecodeFails(call)
  BY DEF Decode, DecodeCalls, Codecs
<1>2. GoodCodec(Codecs) /\ buffer \in Text
  BY <1>1 DEF BytesInv
<1>3. \A x \in Text : CallChunk(Codecs, buffer, x, call, CodecDecode(Codecs, buffer \o x))
  BY <1>2, CodecChunk
<1>4. CallEvents(Codecs, buffer, call)
  BY CodecEvents
<1>5. NamesError(call.result)
  BY <1>2, CodecCall DEF GoodCodec, GoodCall
<1>6. Codecs.request = request /\ Codecs.response = response
  BY Pairs DEF Codecs
<1>7. AtRest(Codecs) <=> ~InMessage
  BY <1>6 DEF AtRest, InMessage
<1> HIDE DEF call
<1>8. ApplyDecode(call)
  BY <1>1 DEF DecodeComplete, DecodeIncomplete, DecodeEOF, DecodeFails
<1>9. Codecs' = [request |-> call.codec.request, response |-> call.codec.response]
  BY <1>8 DEF ApplyDecode, Codecs
<1> QED
  BY <1>1, <1>3, <1>4, <1>5, <1>7, <1>8, <1>9 DEF call, DecodesTo

(* Every step keeps the types.                                             *)
LEMMA NextBytes ==
    ASSUME BytesInv, [Next]_vars
    PROVE  BytesInv'
<1>1. CASE Decode
  <2> DEFINE call == CodecDecode(Codecs, buffer)
  <2>1. DecodesTo(call)
    BY <1>1, DecodeStep
  <2> HIDE DEF call
  <2>0. buffer \in Text
    BY DEF BytesInv
  <2>2. CallChunk(Codecs, buffer, buffer, call, CodecDecode(Codecs, buffer \o buffer))
    BY <2>0, <2>1 DEF DecodesTo
  <2>3. buffer' \in Text
    BY <2>1, <2>2 DEF DecodesTo, ApplyDecode, CallChunk
  <2>4. input' = input /\ read' = read
    BY <2>1 DEF DecodesTo, DecodeComplete, DecodeIncomplete, DecodeEOF, DecodeFails
  <2>5. Running' => GoodCodec(call.codec)
    <3>1. CASE DecodeComplete(call)
      BY <2>2, <3>1 DEF CallChunk, DecodeComplete
    <3>2. CASE DecodeIncomplete(call)
      BY <2>2, <3>2 DEF CallChunk, DecodeIncomplete
    <3>3. CASE DecodeEOF(call)
      BY <2>2, <3>3 DEF CallChunk, DecodeEOF
    <3>4. CASE DecodeFails(call)
      BY <2>1, <3>4 DEF DecodesTo, DecodeFails, NamesError, Running
    <3> QED
      BY <2>1, <3>1, <3>2, <3>3, <3>4 DEF DecodesTo
  <2>6. GoodCodec(call.codec) => Codecs' = call.codec
    BY <2>1 DEF DecodesTo, GoodCodec, IsCodec
  <2>7. (Running => GoodCodec(Codecs))'
    BY <2>5, <2>6
  <2> QED
    BY <2>3, <2>4, <2>7 DEF BytesInv
<1>2. ASSUME NEW n \in 1 .. Len(input), ReadChunk(n) PROVE BytesInv'
  <2>1. Len(input) \in Nat /\ input \in Text /\ buffer \in Text /\ read \in 0 .. Len(input)
    BY DEF BytesInv, Text
  <2>2. /\ buffer' = buffer \o SubSeq(input, read + 1, read + n) /\ read' = read + n
        /\ n <= Len(input) - read /\ input' = input
        /\ ended' = ended /\ request' = request /\ response' = response
    BY <1>2 DEF ReadChunk, codecVars
  <2>3. SubSeq(input, read + 1, read + n) \in Text
    BY <2>1, <2>2 DEF Text
  <2>4. buffer' \in Text
    BY <2>1, <2>2, <2>3, Extended
  <2>5. read' \in 0 .. Len(input)
    BY <2>1, <2>2
  <2>6. (Running => GoodCodec(Codecs))'
    BY <2>2 DEF Running, Codecs, BytesInv
  <2> QED
    BY <2>1, <2>2, <2>4, <2>5, <2>6 DEF BytesInv
<1>3. ASSUME input' = input, buffer' = buffer, read' = read, Running' => Running,
             request' = request, response' = response
      PROVE  BytesInv'
  BY <1>3 DEF BytesInv, Codecs
<1>4. CASE StartPoll \/ PollFull \/ MakeRoom \/ ReadEnd \/ StreamNotReady
  BY <1>3, <1>4
  DEF StartPoll, PollFull, MakeRoom, ReadEnd, StreamNotReady, streamVars, codecVars, Running
<1>5. CASE \/ PollCodecEvent \/ CodecEventsNotReady \/ PollTimerReady \/ PollTimerNotReady
           \/ TimerExpires \/ Encode
  BY <1>3, <1>5
  DEF PollCodecEvent, CodecEventsNotReady, PollTimerReady, PollTimerNotReady, TimerExpires,
      Encode, streamVars, codecVars, Running
<1>6. CASE UNCHANGED vars
  BY <1>3, <1>6 DEF vars, streamVars, codecVars, Running
<1> QED
  BY <1>1, <1>2, <1>4, <1>5, <1>6 DEF Next

(* The bound on the restarts.                                              *)
LEMMA BoundIsNat == InfoLineBound \in Nat /\ InfoLineBound > 1
BY DecodersAssumption DEF InfoLineBound

(* A call of decode: without an end, and between messages, every start     *)
(* needs a byte more than the last one, and the first word is refused at   *)
(* the bound.                                                              *)
LEMMA DecodeRestarts ==
    ASSUME BytesInv, RestartInv, Decode
    PROVE  RestartInv'
<1> DEFINE call == CodecDecode(Codecs, buffer)
           s == StripNewlines(buffer)
<1>1. DecodesTo(call)
  BY DecodeStep
<1> HIDE DEF call
<1>2. buffer \in Text
  BY DEF BytesInv
<1>3. CallChunk(Codecs, buffer, buffer, call, CodecDecode(Codecs, buffer \o buffer))
  BY <1>1, <1>2 DEF DecodesTo
<1>4. /\ Running /\ readable /\ buffer' = call.rest /\ NamesError(call.result)
      /\ Codecs' = [request |-> call.codec.request, response |-> call.codec.response]
      /\ CallEvents(Codecs, buffer, call) /\ (AtRest(Codecs) <=> ~InMessage)
  BY <1>1 DEF DecodesTo, ApplyDecode
<1>5. restarts' = IF Contains(call.events, "DecodingEnded") THEN 0
                  ELSE (IF SkipsNewlines THEN 0 ELSE restarts)
                       + (IF Contains(call.events, "DecodingStarted") THEN 1 ELSE 0)
  BY <1>1 DEF DecodesTo, ApplyDecode
<1>6. InfoLineBound \in Nat /\ InfoLineBound > 1
  BY BoundIsNat
<1>7. CASE call.result.tag # "Incomplete"
  <2>1. restarts' = 0
    BY <1>4, <1>5, <1>7 DEF CallEvents
  <2>2. Running' => readable'
    <3>1. CASE DecodeComplete(call)
      BY <1>4, <3>1 DEF DecodeComplete
    <3>2. CASE DecodeFails(call)
      BY <1>4, <3>2 DEF DecodeFails
    <3> QED
      BY <1>1, <1>7, <3>1, <3>2 DEF DecodesTo, DecodeIncomplete, DecodeEOF
  <2> QED
    BY <1>6, <2>1, <2>2 DEF RestartInv
<1>8. CASE call.result.tag = "Incomplete"
  <2>1. ~Contains(call.events, "DecodingEnded")
    BY <1>4, <1>8 DEF CallEvents
  <2>2. restarts \in Nat /\ restarts <= InfoLineBound
    BY DEF RestartInv
  <2>3. GoodCodec(call.codec)
    BY <1>3, <1>8 DEF CallChunk
  <2>4. Codecs' = call.codec
    BY <1>4, <2>3 DEF GoodCodec, IsCodec
  <2>5. InMessage' <=> ~AtRest(call.codec)
    <3>1. request' = call.codec.request /\ response' = call.codec.response
      BY <1>1 DEF DecodesTo, ApplyDecode
    <3> QED
      BY <3>1 DEF InMessage, AtRest
  <2>6. CASE InMessage
    <3>1. ~Contains(call.events, "DecodingStarted") /\ ~SkipsNewlines
      BY <1>4, <1>8, <2>6 DEF CallEvents, SkipsNewlines
    <3>2. restarts' = restarts
      BY <1>5, <2>1, <2>2, <3>1
    <3>3. InMessage'
      <4>1. AtRest(call.codec) => call.codec = Codecs
        BY <1>3, <1>8 DEF CallChunk
      <4> QED
        BY <1>4, <2>5, <2>6, <4>1
    <3> QED
      BY <2>2, <3>2, <3>3 DEF RestartInv
  <2>7. CASE ~InMessage
    <3>1. restarts < InfoLineBound /\ (restarts = 0 \/ eof \/ restarts < Len(buffer))
      BY <1>4, <2>7 DEF RestartInv
    <3>2. restarts' \in Nat /\ restarts' <= restarts + 1
      BY <1>5, <2>1, <2>2
    <3>3. restarts' <= InfoLineBound
      BY <1>6, <2>2, <3>1, <3>2
    <3>4. s \in Text /\ Len(s) \in Nat /\ (~CRLFAt(buffer, 1) => s = buffer)
      BY <1>2, StripChunk, StripNothing
    <3> HIDE DEF s
    <3>5. Contains(call.events, "DecodingStarted") => s # <<>>
      BY <1>4, <1>8 DEF CallEvents, s
    <3>6. s # <<>> => Len(s) >= 1
      BY <3>4 DEF Text
    <3>7. (Running /\ ~InMessage)' =>
              ~readable' /\ restarts' <= Len(buffer') /\ Len(buffer') < InfoLineBound
      <4>1. SUFFICES ASSUME Running', ~InMessage'
                     PROVE  ~readable' /\ restarts' <= Len(buffer') /\ Len(buffer') < InfoLineBound
        OBVIOUS
      <4>2. call.rest = s /\ Len(call.rest) < InfoLineBound
        BY <1>3, <1>8, <2>5, <4>1 DEF CallChunk, s
      <4>3. ~eof /\ ~readable'
        <5>1. CASE DecodeIncomplete(call)
          BY <5>1 DEF DecodeIncomplete
        <5>2. CASE DecodeEOF(call)
          BY <4>1, <5>2 DEF DecodeEOF, Running
        <5> QED
          BY <1>1, <1>8, <5>1, <5>2 DEF DecodesTo, DecodeComplete, DecodeFails
      <4>4. restarts' <= Len(s)
        <5>1. CASE CRLFAt(buffer, 1)
          <6>1. SkipsNewlines
            BY <2>7, <5>1 DEF SkipsNewlines
          <6> QED
            BY <1>5, <2>1, <3>4, <3>5, <3>6, <6>1
        <5>2. CASE ~CRLFAt(buffer, 1)
          <6>1. s = buffer /\ ~SkipsNewlines
            BY <3>4, <5>2 DEF SkipsNewlines
          <6>2. restarts = 0 \/ restarts < Len(s)
            BY <3>1, <4>3, <6>1
          <6>3. CASE Contains(call.events, "DecodingStarted")
            <7>1. restarts' = restarts + 1 /\ Len(s) >= 1
              BY <1>5, <2>1, <3>5, <3>6, <6>1, <6>3
            <7> QED
              BY <2>2, <3>4, <6>2, <7>1
          <6>4. CASE ~Contains(call.events, "DecodingStarted")
            <7>1. restarts' = restarts
              BY <1>5, <2>1, <2>2, <6>1, <6>4
            <7> QED
              BY <2>2, <3>4, <6>2, <7>1
          <6> QED
            BY <6>3, <6>4
        <5> QED
          BY <5>1, <5>2
      <4> QED
        BY <1>4, <4>2, <4>3, <4>4
    <3> QED
      BY <3>2, <3>3, <3>7 DEF RestartInv
  <2> QED
    BY <2>6, <2>7
<1> QED
  BY <1>7, <1>8

(* Every step keeps the restarts bounded.                                  *)
LEMMA NextRestarts ==
    ASSUME BytesInv, RestartInv, [Next]_vars
    PROVE  RestartInv'
<1>1. CASE Decode
  BY <1>1, DecodeRestarts
<1>2. ASSUME NEW n \in 1 .. Len(input), ReadChunk(n) PROVE RestartInv'
  <2>1. Len(input) \in Nat /\ input \in Text /\ buffer \in Text /\ read \in 0 .. Len(input)
    BY DEF BytesInv, Text
  <2>2. /\ buffer' = buffer \o SubSeq(input, read + 1, read + n)
        /\ n <= Len(input) - read /\ readable' /\ ~readable /\ Running
        /\ ended' = ended /\ request' = request /\ response' = response
        /\ restarts' = restarts
    BY <1>2 DEF ReadChunk, CanRead, codecVars
  <2>3. Len(buffer') > Len(buffer) /\ Len(buffer) \in Nat /\ Len(buffer') \in Nat
    <3> DEFINE chunk == SubSeq(input, read + 1, read + n)
    <3>1. chunk \in Text /\ Len(chunk) = n
      <4> DEFINE i == read + 1
                 j == read + n
                 l == Len(input)
      <4>1. l \in Nat /\ i \in Nat /\ j \in Nat /\ i >= 1 /\ i <= j /\ j <= l /\ j + 1 - i = n
        BY <2>1, <2>2
      <4> HIDE DEF i, j
      <4>2. SubSeq(input, i, j) \in Text /\ Len(SubSeq(input, i, j)) = j + 1 - i
        BY <2>1, <4>1 DEF Text
      <4> QED
        BY <4>1, <4>2 DEF i, j
    <3> HIDE DEF chunk
    <3>2. Len(buffer \o chunk) = Len(buffer) + Len(chunk) /\ Len(buffer) \in Nat
      BY <2>1, <3>1, Extended
    <3>3. buffer' = buffer \o chunk
      BY <2>2 DEF chunk
    <3>4. Len(buffer') = Len(buffer) + n
      BY <3>1, <3>2, <3>3
    <3> QED
      BY <3>2, <3>4
  <2>4. InMessage' <=> InMessage
    BY <2>2 DEF InMessage
  <2>5. restarts \in Nat /\ InfoLineBound \in Nat
    BY BoundIsNat DEF RestartInv
  <2>6. ~InMessage => restarts <= Len(buffer) /\ Len(buffer) < InfoLineBound
    BY <2>2 DEF RestartInv
  <2>7. ~InMessage => restarts < InfoLineBound /\ restarts < Len(buffer')
    BY <2>3, <2>5, <2>6
  <2> QED
    BY <2>2, <2>4, <2>7 DEF RestartInv
<1>3. CASE ReadEnd
  <2>1. /\ buffer' = buffer /\ readable' /\ ~readable /\ Running /\ eof'
        /\ ended' = ended /\ request' = request /\ response' = response
        /\ restarts' = restarts
    BY <1>3 DEF ReadEnd, CanRead, codecVars
  <2>2. InMessage' <=> InMessage
    BY <2>1 DEF InMessage
  <2>3. restarts \in Nat /\ InfoLineBound \in Nat /\ Len(buffer) \in Nat
    BY BoundIsNat DEF RestartInv, BytesInv, Text
  <2>4. ~InMessage => restarts < InfoLineBound
    BY <2>1, <2>3 DEF RestartInv
  <2> QED
    BY <2>1, <2>2, <2>4 DEF RestartInv
<1>4. ASSUME buffer' = buffer, restarts' = restarts, readable' = readable, eof' = eof,
             Running' => Running, request' = request, response' = response
      PROVE  RestartInv'
  <2>1. InMessage' <=> InMessage
    BY <1>4 DEF InMessage
  <2> QED
    BY <1>4, <2>1 DEF RestartInv
<1>5. CASE StartPoll \/ PollFull \/ MakeRoom \/ StreamNotReady
  BY <1>4, <1>5
  DEF StartPoll, PollFull, MakeRoom, StreamNotReady, streamVars, codecVars, Running
<1>6. CASE \/ PollCodecEvent \/ CodecEventsNotReady \/ PollTimerReady \/ PollTimerNotReady
           \/ TimerExpires \/ Encode
  BY <1>4, <1>6
  DEF PollCodecEvent, CodecEventsNotReady, PollTimerReady, PollTimerNotReady, TimerExpires,
      Encode, streamVars, codecVars, Running
<1>7. CASE UNCHANGED vars
  BY <1>4, <1>7 DEF vars, streamVars, codecVars, Running
<1> QED
  BY <1>1, <1>2, <1>3, <1>5, <1>6, <1>7 DEF Next

(* Whatever bytes the peer sends and however it cuts them, it makes the    *)
(* decoding timer start again at most InfoLineBound times for one message  *)
(* (codec/mod.rs, decode, which sends DecodingStarted at every call        *)
(* between messages).                                                      *)
THEOREM RestartsAreBounded == Spec => []RestartsBounded
<1>1. Init => BytesInv
  BY InitBytes
<1>2. Init => RestartInv
  BY BoundIsNat DEF Init, RestartInv
<1>3. BytesInv /\ RestartInv /\ [Next]_vars => BytesInv' /\ RestartInv'
  BY NextBytes, NextRestarts
<1>4. RestartInv => RestartsBounded
  BY DEF RestartInv, RestartsBounded
<1> QED
  BY <1>1, <1>2, <1>3, <1>4, PTL DEF Spec

-----------------------------------------------------------------------------
(* The reference: one call of decode after another on the whole input.     *)

(* One call of the reference.                                              *)
NextCall(at) ==
    LET call == CodecDecode(at.codec, at.rest)
    IN  IF ~at.more THEN at
        ELSE [codec |-> call.codec, rest |-> call.rest,
              out |-> IF call.result.tag = "Complete"
                      THEN Append(at.out, call.result.message) ELSE at.out,
              error |-> IF call.result.tag = "Error" THEN call.result.error ELSE "none",
              more |-> call.result.tag = "Complete"]

(* Where the reference begins, and its run.                                *)
FirstCall(text) ==
    [codec |-> NewCodec, rest |-> text, out |-> <<>>, error |-> "none", more |-> TRUE]
AreTurns(f, m, text) ==
    f = [n \in 0 .. m |-> IF n = 0 THEN FirstCall(text) ELSE NextCall(f[n - 1])]

(* There is a run of any length.                                           *)
LEMMA TurnsExist ==
    ASSUME NEW text, NEW m \in Nat
    PROVE  \E f : AreTurns(f, m, text)
<1> DEFINE S == {k \in Nat : \E f : AreTurns(f, k, text)}
<1>1. 0 \in S
  <2> DEFINE f == [n \in 0 .. 0 |-> FirstCall(text)]
  <2>1. AreTurns(f, 0, text)
    BY DEF AreTurns
  <2> QED
    BY <2>1
<1>2. ASSUME NEW k \in Nat, k \in S PROVE k + 1 \in S
  <2>1. PICK f : AreTurns(f, k, text)
    BY <1>2
  <2> DEFINE g == [n \in 0 .. k + 1 |-> IF n = k + 1 THEN NextCall(f[k]) ELSE f[n]]
  <2>2. \A n \in 0 .. k : f[n] = IF n = 0 THEN FirstCall(text) ELSE NextCall(f[n - 1])
    BY <2>1 DEF AreTurns
  <2>3. \A n \in 0 .. k + 1 : g[n] = IF n = 0 THEN FirstCall(text) ELSE NextCall(g[n - 1])
    BY <2>2
  <2>4. AreTurns(g, k + 1, text)
    BY <2>3 DEF AreTurns
  <2> QED
    BY <2>4
<1> QED
  BY <1>1, <1>2, SetInduction

(* The reference is this run.                                              *)
LEMMA Turns ==
    ASSUME NEW text \in Text
    PROVE  /\ Len(text) \in Nat
           /\ DecodeTurns(text)[0] = FirstCall(text)
           /\ \A n \in Nat : n <= Len(text) =>
                 DecodeTurns(text)[n + 1] = NextCall(DecodeTurns(text)[n])
<1>0. Len(text) \in Nat
  BY DEF Text
<1> DEFINE next(at) ==
            IF ~at.more THEN at
            ELSE Once(CodecDecode(at.codec, at.rest), LAMBDA call :
                [codec |-> call.codec, rest |-> call.rest,
                 out |-> IF call.result.tag = "Complete"
                         THEN Append(at.out, call.result.message) ELSE at.out,
                 error |-> IF call.result.tag = "Error" THEN call.result.error ELSE "none",
                 more |-> call.result.tag = "Complete"])
           rec(f) == [n \in 0 .. Len(text) + 1 |->
                        IF n = 0
                        THEN [codec |-> NewCodec, rest |-> text, out |-> <<>>, error |-> "none",
                              more |-> TRUE]
                        ELSE Once(f[n - 1], next)]
           after == CHOOSE f : f = rec(f)
<1>1. DecodeTurns(text) = after
  BY DEF DecodeTurns
<1>2. ASSUME NEW at PROVE next(at) = NextCall(at) /\ Once(at, next) = next(at)
  <2> DEFINE s == CodecDecode(at.codec, at.rest)
             result(call) ==
                [codec |-> call.codec, rest |-> call.rest,
                 out |-> IF call.result.tag = "Complete"
                         THEN Append(at.out, call.result.message) ELSE at.out,
                 error |-> IF call.result.tag = "Error" THEN call.result.error ELSE "none",
                 more |-> call.result.tag = "Complete"]
  <2>1. Once(s, result) = result(s)
    <3> HIDE DEF s, result
    <3> QED
      BY DEF Once
  <2>2. next(at) = NextCall(at)
    <3>1. next(at) = IF ~at.more THEN at ELSE Once(s, result)
      OBVIOUS
    <3>2. NextCall(at) = IF ~at.more THEN at ELSE result(s)
      BY DEF NextCall
    <3> HIDE DEF s, result, next
    <3> QED
      BY <2>1, <3>1, <3>2
  <2>3. Once(at, next) = next(at)
    <3> HIDE DEF next
    <3> QED
      BY DEF Once
  <2> QED
    BY <2>2, <2>3
<1> HIDE DEF next
<1>3. ASSUME NEW f PROVE (f = rec(f)) <=> AreTurns(f, Len(text) + 1, text)
  <2>1. \A n \in 0 .. Len(text) + 1 : Once(f[n - 1], next) = NextCall(f[n - 1])
    BY <1>2
  <2>2. rec(f) = [n \in 0 .. Len(text) + 1 |->
                     IF n = 0 THEN FirstCall(text) ELSE NextCall(f[n - 1])]
    BY <2>1 DEF FirstCall
  <2> HIDE DEF rec
  <2> QED
    BY <2>2 DEF AreTurns
<1>4. \E f : f = rec(f)
  <2> HIDE DEF rec
  <2> DEFINE m == Len(text) + 1
  <2>1. m \in Nat
    BY <1>0
  <2> HIDE DEF m
  <2>2. PICK f : AreTurns(f, m, text)
    BY <2>1, TurnsExist
  <2> QED
    BY <1>3, <2>2 DEF m
<1>5. after = rec(after)
  BY <1>4
<1> HIDE DEF rec, after
<1>6. AreTurns(after, Len(text) + 1, text)
  BY <1>3, <1>5
<1>7. \A n \in 0 .. Len(text) + 1 : after[n] = IF n = 0 THEN FirstCall(text) ELSE NextCall(after[n - 1])
  BY <1>6 DEF AreTurns
<1>8. after[0] = FirstCall(text)
  BY <1>0, <1>7
<1>9. ASSUME NEW n \in Nat, n <= Len(text) PROVE after[n + 1] = NextCall(after[n])
  <2>1. n + 1 \in 0 .. Len(text) + 1 /\ n + 1 # 0 /\ (n + 1) - 1 = n
    BY <1>0, <1>9
  <2> QED
    BY <1>7, <2>1
<1> QED
  BY <1>0, <1>1, <1>8, <1>9

(* What a call of the reference gives.                                     *)
LEMMA CallFields ==
    ASSUME NEW at, at.more
    PROVE  LET call == CodecDecode(at.codec, at.rest)
               next == NextCall(at)
           IN  /\ next.codec = call.codec /\ next.rest = call.rest
               /\ next.out = IF call.result.tag = "Complete"
                             THEN Append(at.out, call.result.message) ELSE at.out
               /\ next.error = IF call.result.tag = "Error" THEN call.result.error ELSE "none"
               /\ next.more <=> call.result.tag = "Complete"
<1> DEFINE call == CodecDecode(at.codec, at.rest)
           next == NextCall(at)
<1>1. next = [codec |-> call.codec, rest |-> call.rest,
              out |-> IF call.result.tag = "Complete"
                      THEN Append(at.out, call.result.message) ELSE at.out,
              error |-> IF call.result.tag = "Error" THEN call.result.error ELSE "none",
              more |-> call.result.tag = "Complete"]
  BY DEF NextCall
<1> HIDE DEF call, next
<1>2. /\ next.codec = call.codec /\ next.rest = call.rest
      /\ next.out = IF call.result.tag = "Complete"
                    THEN Append(at.out, call.result.message) ELSE at.out
      /\ next.error = IF call.result.tag = "Error" THEN call.result.error ELSE "none"
  BY <1>1
<1>3. next.more <=> call.result.tag = "Complete"
  BY <1>1
<1> QED
  BY <1>2, <1>3 DEF call, next

(* Nothing follows the call that did not give a message.                   *)
LEMMA TurnsStop ==
    ASSUME NEW text \in Text, NEW k \in Nat, k <= Len(text) + 1, ~DecodeTurns(text)[k].more
    PROVE  DecodeTurns(text)[Len(text) + 1] = DecodeTurns(text)[k]
<1> DEFINE f == DecodeTurns(text)
           m == Len(text) + 1
           S == {n \in Nat : k + n <= m => f[k + n] = f[k]}
<1>0. m \in Nat /\ \A n \in Nat : n + 1 <= m => f[n + 1] = NextCall(f[n])
  <2>1. Len(text) \in Nat /\ \A n \in Nat : n <= Len(text) => f[n + 1] = NextCall(f[n])
    BY Turns
  <2> HIDE DEF f
  <2> QED
    BY <2>1
<1>a. ~f[k].more /\ k <= m
  OBVIOUS
<1> HIDE DEF f, m
<1>1. 0 \in S
  OBVIOUS
<1>2. ASSUME NEW n \in Nat, n \in S PROVE n + 1 \in S
  <2>1. SUFFICES ASSUME k + (n + 1) <= m PROVE f[k + (n + 1)] = f[k]
    OBVIOUS
  <2> DEFINE i == k + n
  <2>2. i \in Nat /\ i + 1 <= m /\ k + (n + 1) = i + 1 /\ k + n <= m
    BY <1>0, <2>1
  <2>3. f[i] = f[k]
    BY <1>2, <2>2
  <2> HIDE DEF i
  <2>4. f[i + 1] = NextCall(f[i])
    BY <1>0, <2>2
  <2>5. NextCall(f[k]) = f[k]
    BY <1>a DEF NextCall
  <2> QED
    BY <2>2, <2>3, <2>4, <2>5
<1> HIDE DEF S
<1>3. m - k \in Nat /\ k + (m - k) = m
  BY <1>0, <1>a
<1>4. m - k \in S
  BY <1>1, <1>2, <1>3, SetInduction
<1>5. f[m] = f[k]
  BY <1>0, <1>3, <1>4 DEF S
<1> QED
  BY <1>5 DEF f, m

(* The messages that have come out are a sequence.                         *)
IsList(s) == \E M : s \in Seq(M)

(* One message more.                                                       *)
LEMMA Longer ==
    ASSUME NEW s, NEW t, IsList(s), IsList(t), IsPrefix(s, t), NEW e
    PROVE  IsList(Append(t, e)) /\ IsPrefix(s, Append(t, e))
<1>1. PICK L : s \in Seq(L)
  BY DEF IsList
<1>2. PICK M : t \in Seq(M)
  BY DEF IsList
<1> DEFINE K == L \cup M \cup {e}
<1>3. s \in Seq(K) /\ t \in Seq(K) /\ e \in K
  BY <1>1, <1>2
<1> HIDE DEF K
<1> DEFINE u == Append(t, e)
<1>4. u \in Seq(K) /\ Len(u) = Len(t) + 1 /\ Len(t) \in Nat /\ Len(s) \in Nat
      /\ \A i \in 1 .. Len(t) : u[i] = t[i]
  BY <1>3
<1>5. Len(s) <= Len(t) /\ SubSeq(s, 1, Len(s)) = SubSeq(t, 1, Len(s))
  BY DEF IsPrefix
<1> HIDE DEF u
<1>6. SubSeq(u, 1, Len(s)) = SubSeq(t, 1, Len(s))
  BY <1>3, <1>4, <1>5
<1>7. IsPrefix(s, u)
  BY <1>4, <1>5, <1>6 DEF IsPrefix
<1> QED
  BY <1>4, <1>7 DEF IsList, u

(* The reference only adds messages.                                       *)
LEMMA TurnsExtend ==
    ASSUME NEW text \in Text, NEW k \in Nat, k <= Len(text) + 1, IsList(DecodeTurns(text)[k].out)
    PROVE  IsPrefix(DecodeTurns(text)[k].out, DecodeTurns(text)[Len(text) + 1].out)
<1> DEFINE f == DecodeTurns(text)
           m == Len(text) + 1
           S == {n \in Nat : k + n <= m => IsList(f[k + n].out) /\ IsPrefix(f[k].out, f[k + n].out)}
<1>0. m \in Nat /\ \A n \in Nat : n + 1 <= m => f[n + 1] = NextCall(f[n])
  <2>1. Len(text) \in Nat /\ \A n \in Nat : n <= Len(text) => f[n + 1] = NextCall(f[n])
    BY Turns
  <2> HIDE DEF f
  <2> QED
    BY <2>1
<1>a. IsList(f[k].out) /\ k <= m
  OBVIOUS
<1> HIDE DEF f, m
<1>1. 0 \in S
  <2>1. IsPrefix(f[k].out, f[k].out)
    BY <1>a DEF IsList, IsPrefix
  <2>2. k + 0 = k
    OBVIOUS
  <2> QED
    BY <1>a, <2>1, <2>2
<1>2. ASSUME NEW n \in Nat, n \in S PROVE n + 1 \in S
  <2>1. SUFFICES ASSUME k + (n + 1) <= m
                 PROVE  IsList(f[k + (n + 1)].out) /\ IsPrefix(f[k].out, f[k + (n + 1)].out)
    OBVIOUS
  <2> DEFINE i == k + n
             call == CodecDecode(f[i].codec, f[i].rest)
  <2>2. i \in Nat /\ i + 1 <= m /\ k + (n + 1) = i + 1 /\ k + n <= m
    BY <1>0, <2>1
  <2>3. IsList(f[i].out) /\ IsPrefix(f[k].out, f[i].out)
    BY <1>2, <2>2
  <2> HIDE DEF i
  <2>4. f[i + 1] = NextCall(f[i])
    BY <1>0, <2>2
  <2>5. CASE ~f[i].more
    <3>1. NextCall(f[i]) = f[i]
      BY <2>5 DEF NextCall
    <3> QED
      BY <2>2, <2>3, <2>4, <3>1
  <2>6. CASE f[i].more
    <3>1. NextCall(f[i]).out = IF call.result.tag = "Complete"
                               THEN Append(f[i].out, call.result.message) ELSE f[i].out
      BY <2>6, CallFields
    <3> HIDE DEF call
    <3>2. IsList(NextCall(f[i]).out) /\ IsPrefix(f[k].out, NextCall(f[i]).out)
      BY <1>a, <2>3, <3>1, Longer
    <3> QED
      BY <2>2, <2>4, <3>2
  <2> QED
    BY <2>5, <2>6
<1> HIDE DEF S
<1>3. m - k \in Nat /\ k + (m - k) = m
  BY <1>0, <1>a
<1>4. m - k \in S
  BY <1>1, <1>2, <1>3, SetInduction
<1>5. IsPrefix(f[k].out, f[m].out)
  BY <1>0, <1>3, <1>4 DEF S
<1> QED
  BY <1>5 DEF f, m

-----------------------------------------------------------------------------
(* The codec and the reference agree.                                      *)

(* A state of the reference from which decode can go on.                   *)
GoodTurn(at) == GoodCodec(at.codec) /\ at.rest \in Text

(* What a call of decode makes of the agreement with the reference.        *)
LEMMA ReachesNext ==
    ASSUME NEW text \in Text, NEW messages, IsList(messages), NEW c, GoodCodec(c),
           NEW buf \in Text, NEW unread \in Text,
           Reaches(text, messages, c, buf \o unread), GoodTurn(DecodeTurns(text)[Len(messages)])
    PROVE  LET call == CodecDecode(c, buf)
               next == Append(messages, call.result.message)
               last == DecodeTurns(text)[Len(text) + 1]
           IN  /\ IsPrefix(messages, last.out)
               /\ call.result.tag = "Complete" =>
                     /\ Reaches(text, next, call.codec, call.rest \o unread)
                     /\ IsList(next) /\ GoodTurn(DecodeTurns(text)[Len(next)])
               /\ call.result.tag = "Incomplete" =>
                     /\ Reaches(text, messages, call.codec, call.rest \o unread)
                     /\ TriedInVain(call.codec, call.rest)
               /\ call.result.tag = "Error" =>
                     \/ last.out = messages /\ last.error = call.result.error
                     \/ Cut(call.result.error, call.rest) \/ HeaderNameMaxLength = 0
<1> DEFINE n == Len(messages)
           f == DecodeTurns(text)
           at == f[n]
           call == CodecDecode(c, buf)
           more == CodecDecode(c, buf \o unread)
           whole == CodecDecode(at.codec, at.rest)
           next == Append(messages, call.result.message)
           last == f[Len(text) + 1]
<1>1. /\ at.more /\ at.out = messages /\ AtRest(at.codec)
      /\ Len(at.rest) + n <= Len(text) /\ Agree(whole, more)
      /\ GoodCodec(at.codec) /\ at.rest \in Text
  BY DEF Reaches, AtRest, GoodTurn
<1>2. n \in Nat /\ Len(text) \in Nat /\ Len(at.rest) \in Nat /\ n <= Len(text)
  <2>1. n \in Nat /\ Len(text) \in Nat /\ Len(at.rest) \in Nat
    BY <1>1 DEF IsList, Text
  <2> HIDE DEF n, at
  <2> QED
    BY <1>1, <2>1
<1>3. f[n + 1] = NextCall(at)
  <2>1. \A m \in Nat : m <= Len(text) => f[m + 1] = NextCall(f[m])
    BY Turns
  <2> HIDE DEF f, n
  <2> QED
    BY <1>2, <2>1
<1>4. CallChunk(c, buf, unread, call, more)
  BY CodecChunk
<1>5. CallChunk(at.codec, at.rest, unread, whole, CodecDecode(at.codec, at.rest \o unread))
  <2> HIDE DEF at
  <2> QED
    BY <1>1, CodecChunk
<1>6. /\ NextCall(at).codec = whole.codec /\ NextCall(at).rest = whole.rest
      /\ NextCall(at).out = IF whole.result.tag = "Complete"
                            THEN Append(at.out, whole.result.message) ELSE at.out
      /\ NextCall(at).error = IF whole.result.tag = "Error" THEN whole.result.error ELSE "none"
      /\ NextCall(at).more <=> whole.result.tag = "Complete"
  <2> HIDE DEF at
  <2> QED
    BY <1>1, CallFields
<1>7. IsPrefix(messages, last.out)
  <2>1. n <= Len(text) + 1 /\ IsList(f[n].out)
    BY <1>1, <1>2
  <2>2. IsPrefix(f[n].out, last.out)
    <3> HIDE DEF n
    <3> QED
      BY <1>2, <2>1, TurnsExtend
  <2> QED
    BY <1>1, <2>2
<1>8. IsList(next) /\ Len(next) = n + 1
  <2>1. PICK M : messages \in Seq(M)
    BY DEF IsList
  <2> DEFINE e == call.result.message
             K == M \cup {e}
  <2>2. messages \in Seq(K) /\ e \in K
    BY <2>1
  <2> HIDE DEF e, K
  <2>3. Append(messages, e) \in Seq(K) /\ Len(Append(messages, e)) = Len(messages) + 1
    BY <2>2
  <2> QED
    BY <2>3 DEF IsList, e
<1>9. f[Len(text) + 1] = last
  OBVIOUS
<1>10. ASSUME ~NextCall(at).more PROVE last = NextCall(at)
  <2> DEFINE k == n + 1
  <2>1. k \in Nat /\ k <= Len(text) + 1 /\ f[k] = NextCall(at)
    BY <1>2, <1>3
  <2> HIDE DEF k
  <2>2. ~DecodeTurns(text)[k].more
    BY <1>10, <2>1
  <2>3. DecodeTurns(text)[Len(text) + 1] = DecodeTurns(text)[k]
    BY <2>1, <2>2, TurnsStop
  <2> QED
    BY <2>1, <2>3
<1> HIDE DEF last, whole, more, call, next
<1>11. ASSUME call.result.tag = "Complete"
       PROVE  /\ Reaches(text, next, call.codec, call.rest \o unread)
              /\ IsList(next) /\ GoodTurn(DecodeTurns(text)[Len(next)])
  <2> DEFINE at2 == DecodeTurns(text)[Len(next)]
  <2>1. at2 = NextCall(at)
    BY <1>3, <1>8
  <2>2. /\ more.result.tag = "Complete" /\ more.result.message = call.result.message
        /\ more.codec = call.codec /\ more.rest = call.rest \o unread
        /\ GoodCodec(call.codec) /\ AtRest(call.codec)
    BY <1>4, <1>11 DEF CallChunk
  <2>3. whole.result = more.result /\ whole.codec = call.codec /\ whole.rest = call.rest \o unread
    BY <1>1, <2>2 DEF Agree
  <2>4. Len(whole.rest) < Len(at.rest) /\ whole.rest \in Text
    BY <1>1, <1>5, <2>2, <2>3 DEF CallChunk
  <2> HIDE DEF at, at2
  <2>5. /\ at2.more /\ at2.out = next /\ at2.codec = call.codec /\ at2.rest = call.rest \o unread
    BY <1>1, <1>6, <2>1, <2>2, <2>3 DEF next
  <2>6. Len(at2.rest) \in Nat /\ at2.rest \in Text /\ Len(at2.rest) < Len(at.rest)
    BY <2>3, <2>4, <2>5 DEF Text
  <2>7. Len(at2.rest) + Len(next) <= Len(text)
    <3> DEFINE a == Len(at2.rest)
               b == Len(at.rest)
               l == Len(text)
    <3>1. a \in Nat /\ b \in Nat /\ l \in Nat /\ n \in Nat /\ a < b /\ b + n <= l
      BY <1>1, <1>2, <2>6
    <3> HIDE DEF a, b, l, n
    <3>2. a + (n + 1) <= l
      BY <3>1
    <3> QED
      BY <1>8, <3>2 DEF a, l
  <2>8. Agree(CodecDecode(at2.codec, at2.rest), CodecDecode(call.codec, call.rest \o unread))
    BY <2>5 DEF Agree
  <2>9. Reaches(text, next, call.codec, call.rest \o unread)
    BY <2>2, <2>5, <2>7, <2>8 DEF Reaches, AtRest, at2
  <2> QED
    BY <1>8, <2>2, <2>5, <2>6, <2>9 DEF GoodTurn, at2
<1>12. ASSUME call.result.tag = "Incomplete"
       PROVE  /\ Reaches(text, messages, call.codec, call.rest \o unread)
              /\ TriedInVain(call.codec, call.rest)
  <2> DEFINE on == CodecDecode(call.codec, call.rest \o unread)
             again == CodecDecode(call.codec, call.rest)
  <2>1. Agree(more, on) /\ Agree(call, again)
    BY <1>4, <1>12 DEF CallChunk
  <2> HIDE DEF on, again
  <2>2. Agree(whole, on)
    BY <1>1, <2>1 DEF Agree
  <2>3. /\ again.result.tag = "Incomplete" /\ again.codec = call.codec /\ again.rest = call.rest
    BY <1>12, <2>1 DEF Agree
  <2>4. TriedInVain(call.codec, call.rest)
    BY <2>3 DEF TriedInVain, again
  <2>5. Reaches(text, messages, call.codec, call.rest \o unread)
    BY <1>1, <2>2 DEF Reaches, AtRest, on, whole
  <2> QED
    BY <2>4, <2>5
<1>13. ASSUME call.result.tag = "Error"
       PROVE  \/ last.out = messages /\ last.error = call.result.error
              \/ Cut(call.result.error, call.rest) \/ HeaderNameMaxLength = 0
  <2>1. CASE more.result.tag = "Error" /\ more.result.error = call.result.error
    <3>1. whole.result.tag = "Error" /\ whole.result.error = call.result.error
      BY <1>1, <2>1 DEF Agree
    <3> HIDE DEF at
    <3>2. /\ ~NextCall(at).more /\ NextCall(at).out = messages
          /\ NextCall(at).error = call.result.error
      BY <1>1, <1>6, <3>1
    <3> QED
      BY <1>10, <3>2
  <2> QED
    BY <1>4, <1>13, <2>1 DEF CallChunk
<1> QED
  BY <1>7, <1>11, <1>12, <1>13 DEF last, call, next

(* When everything was tried, the reference has nothing more, either.      *)
LEMMA ReachesEnd ==
    ASSUME NEW text \in Text, NEW messages, IsList(messages), NEW c,
           NEW buf \in Text, Reaches(text, messages, c, buf), TriedInVain(c, buf),
           DecodeTurns(text)[Len(messages)].rest \in Text
    PROVE  LET last == DecodeTurns(text)[Len(text) + 1]
           IN  last.out = messages /\ last.error = "none"
<1> DEFINE n == Len(messages)
           f == DecodeTurns(text)
           at == f[n]
           whole == CodecDecode(at.codec, at.rest)
           last == f[Len(text) + 1]
<1>1. /\ at.more /\ at.out = messages
      /\ Len(at.rest) + n <= Len(text) /\ Agree(whole, CodecDecode(c, buf))
  BY DEF Reaches
<1>2. n \in Nat /\ Len(text) \in Nat /\ Len(at.rest) \in Nat /\ n <= Len(text)
  <2>1. n \in Nat /\ Len(text) \in Nat /\ Len(at.rest) \in Nat
    BY <1>1 DEF IsList, Text
  <2> HIDE DEF n, at
  <2> QED
    BY <1>1, <2>1
<1>3. f[n + 1] = NextCall(at)
  <2>1. \A m \in Nat : m <= Len(text) => f[m + 1] = NextCall(f[m])
    BY Turns
  <2> HIDE DEF f, n
  <2> QED
    BY <1>2, <2>1
<1>4. whole.result.tag = "Incomplete"
  BY <1>1 DEF Agree, TriedInVain
<1>5. ~NextCall(at).more /\ NextCall(at).out = messages /\ NextCall(at).error = "none"
  <2>1. /\ NextCall(at).out = IF whole.result.tag = "Complete"
                              THEN Append(at.out, whole.result.message) ELSE at.out
        /\ NextCall(at).error = IF whole.result.tag = "Error" THEN whole.result.error ELSE "none"
        /\ NextCall(at).more <=> whole.result.tag = "Complete"
    <3> HIDE DEF at
    <3> QED
      BY <1>1, CallFields
  <2> HIDE DEF at, whole
  <2> QED
    BY <1>1, <1>4, <2>1
<1>6. last = NextCall(at)
  <2> DEFINE k == n + 1
  <2>1. k \in Nat /\ k <= Len(text) + 1 /\ f[k] = NextCall(at)
    BY <1>2, <1>3
  <2> HIDE DEF k
  <2>2. ~DecodeTurns(text)[k].more
    BY <1>5, <2>1
  <2>3. DecodeTurns(text)[Len(text) + 1] = DecodeTurns(text)[k]
    BY <2>1, <2>2, TurnsStop
  <2> QED
    BY <2>1, <2>3
<1> HIDE DEF last, at
<1>7. last.out = messages /\ last.error = "none"
  BY <1>5, <1>6
<1> QED
  BY <1>7 DEF last

(* The reference, and how far it is when the codec has given the messages  *)
(* that have come out.                                                     *)
TurnsInv ==
    /\ IsList(out)
    /\ reference.out = DecodeTurns(input)[Len(input) + 1].out
    /\ reference.error = DecodeTurns(input)[Len(input) + 1].error
    /\ Running => GoodTurn(DecodeTurns(input)[Len(out)])

(* Initially nothing has been read.                                        *)
LEMMA InitChunks ==
    ASSUME Init
    PROVE  TurnsInv /\ ChunkInv
<1>1. BytesInv
  BY InitBytes
<1>2. /\ input \in Text /\ Len(input) \in Nat /\ out = <<>> /\ buffer = <<>> /\ read = 0 /\ Running
      /\ ~readable /\ request = RequestDecoder /\ response = ResponseDecoder
      /\ reference = DecodeAll(input)
  BY <1>1 DEF Init, BytesInv, Text, Running
<1>3. Codecs = NewCodec /\ GoodCodec(Codecs) /\ AtRest(Codecs)
  <2>1. GoodCodec(Codecs)
    BY <1>1, <1>2 DEF BytesInv
  <2>2. Codecs.request = RequestDecoder /\ Codecs.response = ResponseDecoder
    BY <1>2 DEF Codecs
  <2> QED
    BY <1>2, <2>1, <2>2 DEF Codecs, NewCodec, AtRest, RequestDecoder, ResponseDecoder
<1> DEFINE at == DecodeTurns(input)[Len(out)]
<1>4. at = FirstCall(input)
  <2>1. Len(out) = 0
    BY <1>2
  <2> QED
    BY <1>2, <2>1, Turns
<1> HIDE DEF at
<1>5. /\ at.codec = NewCodec /\ at.rest = input /\ at.out = <<>> /\ at.more
  BY <1>4 DEF FirstCall
<1>6. buffer \o Unread = input
  <2>1. SubSeq(input, 1, Len(input)) = input /\ <<>> \o input = input
    BY <1>2 DEF Text
  <2> QED
    BY <1>2, <2>1 DEF Unread
<1>7. Reaches(input, out, Codecs, buffer \o Unread)
  <2>1. Len(at.rest) + Len(out) <= Len(input)
    BY <1>2, <1>5
  <2>2. Agree(CodecDecode(at.codec, at.rest), CodecDecode(Codecs, buffer \o Unread))
    BY <1>3, <1>5, <1>6 DEF Agree
  <2>3. at.out = out /\ AtRest(at.codec)
    BY <1>2, <1>3, <1>5
  <2> QED
    BY <1>5, <2>1, <2>2, <2>3 DEF Reaches, AtRest, at
<1>8. TriedInVain(Codecs, buffer)
  <2> DEFINE none == <<>>
  <2>1. none \in Text /\ Len(none) = 0
    BY DEF Text
  <2>2. StripNewlines(none) = none
    <3>1. ~CRLFAt(none, 1)
      BY <2>1 DEF CRLFAt
    <3> HIDE DEF none
    <3> QED
      BY <2>1, <3>1, StripNothing
  <2> HIDE DEF none
  <2>3. CodecDecode(Codecs, none) = StartDecode(Codecs, none)
    BY <1>3, <2>2, StartIs
  <2> DEFINE started == IF none = <<>> THEN <<>> ELSE <<"DecodingStarted">>
  <2>4. StartDecode(Codecs, none)
            = [result |-> Incomplete, rest |-> none, codec |-> Codecs, events |-> started]
    BY <2>1 DEF StartDecode, MinimumInfoLineSize
  <2> HIDE DEF started
  <2>5. TriedInVain(Codecs, none)
    BY <2>3, <2>4 DEF TriedInVain, Incomplete
  <2> QED
    BY <1>2, <2>5 DEF none
<1>9. /\ reference.out = DecodeTurns(input)[Len(input) + 1].out
      /\ reference.error = DecodeTurns(input)[Len(input) + 1].error
  <2> DEFINE last == DecodeTurns(input)[Len(input) + 1]
  <2>1. DecodeAll(input) = [out |-> last.out, error |-> last.error]
    BY DEF DecodeAll, Once
  <2> HIDE DEF last
  <2>2. DecodeAll(input).out = last.out /\ DecodeAll(input).error = last.error
    BY <2>1
  <2> QED
    BY <1>2, <2>2 DEF last
<1>10. IsList(out)
  <2>1. <<>> \in Seq({})
    OBVIOUS
  <2> QED
    BY <1>2, <2>1 DEF IsList
<1>11. GoodTurn(DecodeTurns(input)[Len(out)])
  BY <1>2, <1>3, <1>5 DEF GoodTurn, at
<1>12. TurnsInv
  BY <1>9, <1>10, <1>11 DEF TurnsInv
<1>13. ChunkInv
  BY <1>2, <1>7, <1>8 DEF ChunkInv
<1> QED
  BY <1>12, <1>13

(* A chunk goes from the unread bytes to the buffer.                       *)
LEMMA ReadOn ==
    ASSUME NEW text \in Text, NEW buf \in Text, NEW r \in Nat, NEW n \in Nat, r + n <= Len(text)
    PROVE  (buf \o SubSeq(text, r + 1, r + n)) \o SubSeq(text, r + n + 1, Len(text))
               = buf \o SubSeq(text, r + 1, Len(text))
<1> DEFINE i == r + 1
           j == r + n
           k == r + n + 1
           l == Len(text)
           a == SubSeq(text, i, j)
           b == SubSeq(text, k, l)
           c == SubSeq(text, i, l)
<1>1. /\ i \in Nat /\ j \in Nat /\ k \in Nat /\ l \in Nat /\ k = j + 1 /\ i >= 1 /\ i <= j + 1 /\ j <= l
  BY DEF Text
<1> HIDE DEF i, j, k
<1>2. a \in Text /\ Len(a) = j + 1 - i /\ \A q \in 1 .. j + 1 - i : a[q] = text[i + q - 1]
  BY <1>1 DEF Text
<1>3. b \in Text /\ Len(b) = l + 1 - k /\ \A q \in 1 .. l + 1 - k : b[q] = text[k + q - 1]
  BY <1>1 DEF Text
<1>4. c \in Text /\ Len(c) = l + 1 - i /\ \A q \in 1 .. l + 1 - i : c[q] = text[i + q - 1]
  BY <1>1 DEF Text
<1> HIDE DEF a, b, c, l
<1>5. a \o b = c
  <2>1. a \o b \in Text /\ Len(a \o b) = Len(a) + Len(b)
        /\ (\A q \in 1 .. Len(a) : (a \o b)[q] = a[q])
        /\ (\A q \in Len(a) + 1 .. Len(a) + Len(b) : (a \o b)[q] = b[q - Len(a)])
    <3>1. a \in Seq(Bytes) /\ b \in Seq(Bytes)
      BY <1>2, <1>3 DEF Text
    <3>2. a \o b \in Seq(Bytes) /\ Len(a \o b) = Len(a) + Len(b)
      BY <3>1
    <3>3. \A q \in 1 .. Len(a) : (a \o b)[q] = a[q]
      BY <3>1
    <3>4. \A q \in Len(a) + 1 .. Len(a) + Len(b) : (a \o b)[q] = b[q - Len(a)]
      BY <3>1
    <3> QED
      BY <3>2, <3>3, <3>4 DEF Text
  <2> DEFINE ab == a \o b
  <2> HIDE DEF ab
  <2>2. Len(ab) = l + 1 - i
    BY <1>1, <1>2, <1>3, <2>1 DEF ab
  <2>3. ASSUME NEW q \in 1 .. l + 1 - i PROVE ab[q] = c[q]
    <3>1. CASE q <= Len(a)
      <4>1. q \in 1 .. Len(a) /\ q \in 1 .. j + 1 - i
        BY <1>1, <1>2, <3>1
      <4> QED
        BY <1>2, <1>4, <2>1, <4>1 DEF ab
    <3>2. CASE ~(q <= Len(a))
      <4> DEFINE p == q - Len(a)
      <4>1. q \in Len(a) + 1 .. Len(a) + Len(b) /\ p \in 1 .. l + 1 - k /\ k + p - 1 = i + q - 1
        BY <1>1, <1>2, <1>3, <3>2
      <4>2. ab[q] = b[p]
        BY <2>1, <4>1 DEF ab
      <4> HIDE DEF p
      <4> QED
        BY <1>3, <1>4, <4>1, <4>2
    <3> QED
      BY <3>1, <3>2
  <2>4. ab \in Text
    BY <2>1 DEF ab
  <2>5. Len(ab) = Len(c) /\ \A q \in 1 .. Len(ab) : ab[q] = c[q]
    BY <1>4, <2>2, <2>3
  <2>6. ab = c
    BY <1>4, <2>4, <2>5, SameText
  <2> QED
    BY <2>6 DEF ab
<1>6. (buf \o a) \o b = buf \o (a \o b)
  BY <1>2, <1>3, SMTT(30) DEF Text
<1>7. (buf \o a) \o b = buf \o c
  BY <1>5, <1>6
<1> QED
  BY <1>7 DEF a, b, c, i, j, k, l

(* A call of decode. Bytes that do not suffice leave what the rest of the  *)
(* input decodes to; a message is the next one of the reference; an error  *)
(* is its error, unless the chunk ends in a line break.                    *)
LEMMA DecodeChunks ==
    ASSUME HeaderNameMaxLength > 0, BytesInv, TurnsInv, ChunkInv, Decode
    PROVE  TurnsInv' /\ ChunkInv'
<1> DEFINE call == CodecDecode(Codecs, buffer)
           next == Append(out, call.result.message)
           last == DecodeTurns(input)[Len(input) + 1]
<1>1. DecodesTo(call)
  BY DecodeStep
<1>2. /\ Running /\ input \in Text /\ buffer \in Text /\ Unread \in Text /\ GoodCodec(Codecs)
      /\ IsList(out) /\ GoodTurn(DecodeTurns(input)[Len(out)])
      /\ Reaches(input, out, Codecs, buffer \o Unread)
  <2>1. Running
    BY <1>1 DEF DecodesTo
  <2>2. input \in Text /\ Len(input) \in Nat /\ read \in Nat /\ read <= Len(input)
    BY DEF BytesInv, Text
  <2>3. Unread \in Text
    <3> DEFINE k == read + 1
    <3>1. k \in Nat /\ k >= 1 /\ k <= Len(input) + 1
      BY <2>2
    <3> HIDE DEF k
    <3>2. SubSeq(input, k, Len(input)) \in Text
      BY <2>2, <3>1, SplitFrom
    <3> QED
      BY <3>2 DEF k, Unread
  <2> QED
    BY <2>1, <2>2, <2>3 DEF BytesInv, TurnsInv, ChunkInv
<1>3. /\ IsPrefix(out, last.out)
      /\ call.result.tag = "Complete" =>
            /\ Reaches(input, next, call.codec, call.rest \o Unread)
            /\ IsList(next) /\ GoodTurn(DecodeTurns(input)[Len(next)])
      /\ call.result.tag = "Incomplete" =>
            /\ Reaches(input, out, call.codec, call.rest \o Unread)
            /\ TriedInVain(call.codec, call.rest)
      /\ call.result.tag = "Error" =>
            \/ last.out = out /\ last.error = call.result.error
            \/ Cut(call.result.error, call.rest) \/ HeaderNameMaxLength = 0
  BY <1>2, ReachesNext
<1>4. CallChunk(Codecs, buffer, buffer, call, CodecDecode(Codecs, buffer \o buffer))
  BY <1>2, CodecChunk
<1>5. last.out = reference.out /\ last.error = reference.error
  BY DEF TurnsInv
<1> HIDE DEF call, next, last
<1>6. /\ buffer' = call.rest /\ input' = input /\ read' = read /\ reference' = reference
      /\ Unread' = Unread
      /\ Codecs' = [request |-> call.codec.request, response |-> call.codec.response]
  <2>1. input' = input /\ read' = read /\ reference' = reference
    BY <1>1 DEF DecodesTo, DecodeComplete, DecodeIncomplete, DecodeEOF, DecodeFails
  <2> QED
    BY <1>1, <2>1 DEF DecodesTo, ApplyDecode, Unread
<1>7. GoodCodec(call.codec) => Codecs' = call.codec
  BY <1>6 DEF GoodCodec, IsCodec
<1>8. CASE DecodeComplete(call)
  <2>1. call.result.tag = "Complete" /\ out' = next /\ readable' = readable /\ ended' = ended
    BY <1>8 DEF DecodeComplete, next
  <2>2. Codecs' = call.codec
    BY <1>4, <1>7, <2>1 DEF CallChunk
  <2>3. readable' /\ Running'
    BY <1>1, <2>1 DEF DecodesTo, Running
  <2>4. TurnsInv'
    BY <1>3, <1>5, <1>6, <2>1 DEF TurnsInv, last
  <2>5. Reaches(input, next, call.codec, call.rest \o Unread)
    BY <1>3, <2>1
  <2>6. (Reaches(input, out, Codecs, buffer \o Unread))'
    BY <1>6, <2>1, <2>2, <2>5
  <2>7. ChunkInv'
    BY <2>3, <2>6 DEF ChunkInv
  <2> QED
    BY <2>4, <2>7
<1>9. CASE DecodeIncomplete(call)
  <2>1. call.result.tag = "Incomplete" /\ out' = out /\ ended' = ended
    BY <1>9 DEF DecodeIncomplete
  <2>2. Codecs' = call.codec
    BY <1>4, <1>7, <2>1 DEF CallChunk
  <2>3. Running'
    BY <1>1, <2>1 DEF DecodesTo, Running
  <2>4. TurnsInv'
    BY <1>2, <1>5, <1>6, <2>1 DEF TurnsInv, last
  <2>5. /\ Reaches(input, out, call.codec, call.rest \o Unread)
        /\ TriedInVain(call.codec, call.rest)
    BY <1>3, <2>1
  <2>6. (Reaches(input, out, Codecs, buffer \o Unread))' /\ TriedInVain(Codecs, buffer)'
    BY <1>6, <2>1, <2>2, <2>5
  <2>7. ChunkInv'
    BY <2>3, <2>6 DEF ChunkInv
  <2> QED
    BY <2>4, <2>7
<1>10. CASE DecodeEOF(call)
  <2>1. out' = out /\ ended' \in {"End", "UnexpectedEOF"}
    BY <1>10 DEF DecodeEOF
  <2>2. ~Running'
    BY <2>1 DEF Running
  <2>3. TurnsInv'
    BY <1>2, <1>5, <1>6, <2>1, <2>2 DEF TurnsInv, last
  <2>4. IsPrefix(out, reference.out)'
    BY <1>3, <1>5, <1>6, <2>1
  <2>5. ChunkInv'
    BY <2>1, <2>2, <2>4 DEF ChunkInv
  <2> QED
    BY <2>3, <2>5
<1>11. CASE DecodeFails(call)
  <2>1. call.result.tag = "Error" /\ out' = out /\ ended' = call.result.error
    BY <1>11 DEF DecodeFails
  <2>2. ~Running'
    BY <1>1, <2>1 DEF DecodesTo, NamesError, Running
  <2>3. TurnsInv'
    BY <1>2, <1>5, <1>6, <2>1, <2>2 DEF TurnsInv, last
  <2>4. IsPrefix(out, reference.out)'
    BY <1>3, <1>5, <1>6, <2>1
  <2>5. HeaderNameMaxLength # 0
    BY DecodersAssumption
  <2>6. CASE last.out = out /\ last.error = call.result.error
    <3>1. (out = reference.out /\ ended = reference.error)'
      BY <1>5, <1>6, <2>1, <2>6
    <3> QED
      BY <2>2, <2>3, <2>4, <3>1 DEF ChunkInv
  <2>7. CASE Cut(call.result.error, call.rest)
    <3>1. CutInLineBreak'
      BY <1>6, <2>1, <2>7 DEF Cut, CutInLineBreak
    <3> QED
      BY <2>2, <2>3, <2>4, <3>1 DEF ChunkInv
  <2> QED
    BY <1>3, <2>1, <2>5, <2>6, <2>7
<1> QED
  BY <1>1, <1>8, <1>9, <1>10, <1>11 DEF DecodesTo

(* The invariant implies the property.                                     *)
LEMMA ChunkInvHolds ==
    ASSUME BytesInv, TurnsInv, ChunkInv
    PROVE  ChunkIndependent
<1> DEFINE last == DecodeTurns(input)[Len(input) + 1]
<1>1. last.out = reference.out /\ last.error = reference.error
  BY DEF TurnsInv
<1>2. CASE ~Running
  BY <1>2 DEF ChunkInv, ChunkIndependent, AllDecoded
<1>3. CASE Running
  <2>1. /\ input \in Text /\ Len(input) \in Nat /\ read \in Nat /\ read <= Len(input)
        /\ buffer \in Text /\ IsList(out)
        /\ GoodTurn(DecodeTurns(input)[Len(out)]) /\ GoodCodec(Codecs)
        /\ Reaches(input, out, Codecs, buffer \o Unread)
    BY <1>3 DEF BytesInv, TurnsInv, ChunkInv, Text
  <2>2. Unread \in Text
    <3> DEFINE k == read + 1
    <3>1. k \in Nat /\ k >= 1 /\ k <= Len(input) + 1
      BY <2>1
    <3> HIDE DEF k
    <3>2. SubSeq(input, k, Len(input)) \in Text
      BY <2>1, <3>1, SplitFrom
    <3> QED
      BY <3>2 DEF k, Unread
  <2>3. IsPrefix(out, last.out)
    BY <2>1, <2>2, ReachesNext
  <2>4. ASSUME AllDecoded PROVE out = last.out /\ last.error = "none"
    <3>1. read = Len(input) /\ ~readable
      BY <2>4 DEF AllDecoded
    <3>2. TriedInVain(Codecs, buffer)
      BY <1>3, <3>1 DEF ChunkInv
    <3>3. Unread = <<>>
      <4> DEFINE l == Len(input)
                 k == l + 1
      <4>1. k \in Nat /\ l \in Nat /\ k > l
        BY <2>1
      <4> HIDE DEF k, l
      <4>2. SubSeq(input, k, l) = <<>>
        BY <2>1, <4>1 DEF Text
      <4> QED
        BY <3>1, <4>2 DEF k, l, Unread
    <3>4. buffer \o Unread = buffer
      BY <2>1, <3>3 DEF Text
    <3>5. Reaches(input, out, Codecs, buffer)
      BY <2>1, <3>4
    <3>6. DecodeTurns(input)[Len(out)].rest \in Text
      BY <2>1 DEF GoodTurn
    <3> QED
      BY <2>1, <3>2, <3>5, <3>6, ReachesEnd
  <2> HIDE DEF last
  <2> QED
    BY <1>1, <1>3, <2>3, <2>4 DEF ChunkIndependent
<1> QED
  BY <1>2, <1>3

(* Every step keeps the agreement with the reference.                      *)
LEMMA NextChunks ==
    ASSUME HeaderNameMaxLength > 0, BytesInv, TurnsInv, ChunkInv, [Next]_vars
    PROVE  TurnsInv' /\ ChunkInv'
<1>1. CASE Decode
  BY <1>1, DecodeChunks
<1>2. ASSUME NEW n \in 1 .. Len(input), ReadChunk(n) PROVE TurnsInv' /\ ChunkInv'
  <2>1. /\ buffer' = buffer \o SubSeq(input, read + 1, read + n) /\ read' = read + n
        /\ n <= Len(input) - read /\ readable' /\ Running /\ ended' = ended /\ input' = input
        /\ out' = out /\ reference' = reference /\ request' = request /\ response' = response
    BY <1>2 DEF ReadChunk, CanRead, codecVars
  <2>2. input \in Text /\ Len(input) \in Nat /\ buffer \in Text /\ read \in Nat /\ n \in Nat
    BY DEF BytesInv, Text
  <2>3. (buffer \o Unread)' = buffer \o Unread
    <3>1. read + n <= Len(input)
      BY <2>1, <2>2
    <3>2. (buffer \o SubSeq(input, read + 1, read + n)) \o SubSeq(input, read + n + 1, Len(input))
              = buffer \o SubSeq(input, read + 1, Len(input))
      BY <2>2, <3>1, ReadOn
    <3> QED
      BY <2>1, <3>2 DEF Unread
  <2>4. Running' /\ Codecs' = Codecs
    BY <2>1 DEF Running, Codecs
  <2>5. TurnsInv'
    BY <2>1 DEF TurnsInv
  <2>6. (Reaches(input, out, Codecs, buffer \o Unread))'
    BY <2>1, <2>3, <2>4 DEF ChunkInv
  <2>7. ChunkInv'
    BY <2>1, <2>4, <2>6 DEF ChunkInv
  <2> QED
    BY <2>5, <2>7
<1>3. ASSUME input' = input, read' = read, buffer' = buffer, request' = request,
             response' = response, out' = out, reference' = reference, ended' = ended,
             ~readable' => ~readable
      PROVE  TurnsInv' /\ ChunkInv'
  <2>1. TurnsInv'
    BY <1>3 DEF TurnsInv, Running
  <2>2. Running' <=> Running
    BY <1>3 DEF Running
  <2>3. Codecs' = Codecs /\ Unread' = Unread /\ (CutInLineBreak' <=> CutInLineBreak)
    BY <1>3 DEF Codecs, Unread, CutInLineBreak
  <2>4. ChunkInv'
    BY <1>3, <2>2, <2>3 DEF ChunkInv
  <2> QED
    BY <2>1, <2>4
<1>4. CASE StartPoll \/ PollFull \/ MakeRoom \/ ReadEnd \/ StreamNotReady
  BY <1>3, <1>4
  DEF StartPoll, PollFull, MakeRoom, ReadEnd, StreamNotReady, streamVars, codecVars
<1>5. CASE \/ PollCodecEvent \/ CodecEventsNotReady \/ PollTimerNotReady \/ TimerExpires \/ Encode
  BY <1>3, <1>5
  DEF PollCodecEvent, CodecEventsNotReady, PollTimerNotReady, TimerExpires, Encode,
      streamVars, codecVars
<1>6. CASE PollTimerReady
  <2>1. /\ input' = input /\ out' = out /\ reference' = reference
        /\ ended' \in {"TimedOut", "TooManyTimers"}
    BY <1>6 DEF PollTimerReady
  <2>2. ~Running'
    BY <2>1 DEF Running
  <2>3. TurnsInv'
    BY <2>1, <2>2 DEF TurnsInv
  <2>4. IsPrefix(out, reference.out)
    BY ChunkInvHolds DEF ChunkIndependent
  <2>5. ChunkInv'
    BY <2>1, <2>2, <2>4 DEF ChunkInv
  <2> QED
    BY <2>3, <2>5
<1>7. CASE UNCHANGED vars
  BY <1>3, <1>7 DEF vars, streamVars, codecVars
<1> QED
  BY <1>1, <1>2, <1>4, <1>5, <1>6, <1>7 DEF Next

(* What comes out of the codec does not depend on how the peer cuts its    *)
(* bytes into chunks, whatever the bytes and the limits are                *)
(* (decoder/request.rs, decoder/response.rs and codec/mod.rs, decode): it  *)
(* is a prefix of what the whole input decodes to, ends with the same      *)
(* error, and lacks nothing once everything was read and tried, with the   *)
(* exception that CutInLineBreak names. Header names must be allowed to    *)
(* have one byte at least: the decoders take any limit, and with 0 a CR    *)
(* that ends a chunk before the blank line is refused as a name that is    *)
(* too long.                                                               *)
THEOREM ChunksDoNotMatter ==
    ASSUME HeaderNameMaxLength > 0
    PROVE  Spec => []ChunkIndependent
<1>1. Init => BytesInv /\ TurnsInv /\ ChunkInv
  BY InitBytes, InitChunks
<1>2. BytesInv /\ TurnsInv /\ ChunkInv /\ [Next]_vars => BytesInv' /\ TurnsInv' /\ ChunkInv'
  BY NextBytes, NextChunks
<1>3. BytesInv /\ TurnsInv /\ ChunkInv => ChunkIndependent
  BY ChunkInvHolds
<1> QED
  BY <1>1, <1>2, <1>3, PTL DEF Spec
=============================================================================
