-------------------------------- MODULE Codec --------------------------------
(***************************************************************************)
(* The codec (protocol/codec/mod.rs) under the receiver's stream           *)
(* (protocol/connection/receiver.rs): bytes arrive in chunks cut anywhere, *)
(* the two decoders keep their partial messages between them, and the      *)
(* events the codec sends through a channel start and stop the receiver's  *)
(* decoding timer.                                                         *)
(*                                                                         *)
(* A poll of the receiver is the phases stream, events and timer, in this  *)
(* order; between two polls the phase is idle.  The framed stream reads    *)
(* and decodes in turn (readable says that there are bytes it has not      *)
(* tried to decode), as tokio's FramedRead does.                           *)
(***************************************************************************)
EXTENDS Decoders

CONSTANTS
    Streams,    \* the texts that the peer may send
    Sent,       \* the sequences of messages that a peer using the encoder sends
    MaxEvents,  \* bound: nothing more is read while more events are waiting
    Raw         \* the value of sent when the text is one of Streams

VARIABLES
    sent,       \* the messages the peer encoded, or Raw
    input,      \* the bytes the peer sends
    read,       \* how many of them have been read
    buffer,     \* the read buffer of the framed stream
    readable,   \* the framed stream has bytes that decode has not seen
    eof,        \* the framed stream has met the end
    request,    \* the request decoder
    response,   \* the response decoder
    events,     \* the channel of codec events
    timer,      \* the decoding timer
    full,       \* the forwarding receiver is full
    phase,      \* where the poll of the receiver is
    ended,      \* why receiving ended, or "no"
    out,        \* the messages handed to the receiver
    restarts,   \* how often decoding started for the message at hand
    reference   \* what the whole input decodes to in a single call after another

codecVars == <<request, response, events>>
streamVars == <<read, buffer, readable, eof>>
vars == <<sent, input, streamVars, codecVars, timer, full, phase, ended, out,
          restarts, reference>>

-----------------------------------------------------------------------------
MinimumInfoLineSize == 5

(* Leading line breaks are ignored between messages: a text starts at the  *)
(* first odd position without a line break.                                *)
StripNewlines(text) ==
    SubSeq(text, First({k \in 1 .. Len(text) + 1 : k % 2 = 1 /\ ~CRLFAt(text, k)}), Len(text))

\* Mutant: every call ends the decoding.
FinishedAlways(tag) == <<"DecodingEnded">>

(* decode_request and decode_response: an end and an error both send       *)
(* DecodingEnded.                                                          *)
Finished(tag) == IF tag = "Incomplete" THEN <<>> ELSE <<"DecodingEnded">>

DecodeRequest(codec, text, before) ==
    Once(RequestDecode(codec.request, text), LAMBDA result :
        [result |-> result, rest |-> result.rest,
         codec |-> [codec EXCEPT !.request = result.d],
         events |-> before \o Finished(result.tag)])

DecodeResponse(codec, text, before) ==
    Once(ResponseDecode(codec.response, text), LAMBDA result :
        [result |-> result, rest |-> result.rest,
         codec |-> [codec EXCEPT !.response = result.d],
         events |-> before \o Finished(result.tag)])

(* Decoder::decode of the codec.                                           *)
StartDecode(codec, text) ==
    LET started == IF text = <<>> THEN <<>> ELSE <<"DecodingStarted">>
    IN  IF Len(text) < MinimumInfoLineSize
        THEN [result |-> Incomplete, rest |-> text, codec |-> codec, events |-> started]
        ELSE IF SubSeq(text, 1, 5) = SubSeq(Rtsp20, 1, 5)
        THEN DecodeResponse(codec, text, started)
        ELSE DecodeRequest(codec, text, started)

\* Mutant: every call starts the timer again.
CodecDecodeStarts(codec, text) ==
    IF codec.request.state # "Method" THEN DecodeRequest(codec, text, <<"DecodingStarted">>)
    ELSE IF codec.response.state # "Version"
    THEN DecodeResponse(codec, text, <<"DecodingStarted">>)
    ELSE Once(StripNewlines(text), LAMBDA stripped : StartDecode(codec, stripped))

CodecDecode(codec, text) ==
    IF codec.request.state # "Method" THEN DecodeRequest(codec, text, <<>>)
    ELSE IF codec.response.state # "Version" THEN DecodeResponse(codec, text, <<>>)
    ELSE Once(StripNewlines(text), LAMBDA stripped : StartDecode(codec, stripped))

(* The reference: all the bytes are there before the first call.           *)
NewCodec == [request |-> RequestDecoder, response |-> ResponseDecoder]

DecodeTurns(text) ==
    LET next(at) ==
            IF ~at.more THEN at
            ELSE Once(CodecDecode(at.codec, at.rest), LAMBDA call :
                [codec |-> call.codec, rest |-> call.rest,
                 out |-> IF call.result.tag = "Complete"
                         THEN Append(at.out, call.result.message) ELSE at.out,
                 error |-> IF call.result.tag = "Error" THEN call.result.error ELSE "none",
                 more |-> call.result.tag = "Complete"])
        after[n \in 0 .. Len(text) + 1] ==
            IF n = 0
            THEN [codec |-> NewCodec, rest |-> text, out |-> <<>>, error |-> "none", more |-> TRUE]
            ELSE Once(after[n - 1], next)
    IN  after

DecodeAll(text) ==
    Once(DecodeTurns(text)[Len(text) + 1], LAMBDA at : [out |-> at.out, error |-> at.error])

(* Encoder::encode.                                                        *)
EncodeMessage(m) == IF m.kind = "request" THEN EncodeRequest(m) ELSE EncodeResponse(m)

EncodeEach(messages) == FlattenSeq([i \in DOMAIN messages |-> EncodeMessage(messages[i])])

(* The messages that this side can take, which the encoder does not check: *)
(* every part is one that the library builds, and within the limits of the *)
(* decoders.  A value must be shorter than its limit, since it is written  *)
(* after a space and a chunk may end inside of the line break after it;    *)
(* blanks at its beginning are lost.                                       *)
FitsHeader(e) ==
    /\ IsToken(e[1]) /\ Len(e[1]) <= HeaderNameMaxLength
    /\ Folded(e[2]) /\ Len(e[2]) + 1 < HeaderValueMaxLength
    /\ e[2] # <<>> => e[2][1] \notin Blank

(* The headers that are decoded: the Content-Length of the encoder, and no *)
(* other.                                                                  *)
ReceivedHeaders(m) ==
    (IF m.body = <<>> THEN <<>> ELSE <<<<<<"L">>, FormatUnsigned(Len(m.body))>>>>)
    \o Without(m.headers, <<"L">>)

FitsHeaders(m) ==
    /\ \A i \in DOMAIN ReceivedHeaders(m) : FitsHeader(ReceivedHeaders(m)[i])
    /\ Len(ReceivedHeaders(m)) <= HeaderMaxCount
    /\ \A max \in {BodyMaxLength, MaxContentLength, MaxUsize} : Len(m.body) <= max

FitsRequest(m) ==
    /\ m \in [kind : {"request"}, method : Text, uri : Text,
              headers : Seq(Text \X Text), body : Text]
    /\ IsToken(m.method) /\ m.method[1] # "$" /\ Fold(m.method) = m.method
    /\ Len(m.method) <= MethodMaxLength
    /\ IsURIText(m.uri) /\ Len(m.uri) <= URIMaxLength
    /\ FitsHeaders(m)

FitsResponse(m) ==
    /\ m \in [kind : {"response"}, status : 100 .. 599, phrase : Text,
              headers : Seq(Text \X Text), body : Text]
    /\ m.status \notin {303, 352}
    /\ IsOk(ReasonPhraseTryFrom(m.phrase)) /\ Len(m.phrase) <= ReasonPhraseMaxLength
    /\ m.status \in StandardStatusCodes => m.phrase = <<"K">>
    /\ FitsHeaders(m)

Fits(m) == FitsRequest(m) \/ FitsResponse(m)

(* What is sent is bytes.                                                  *)
ASSUME CodecAssumption ==
    /\ \A text \in Streams : text \in Text
    /\ \A messages \in Sent : EncodeEach(messages) \in Text

(* What a peer encodes, this side can take.                                *)
ASSUME SentAssumption ==
    \A messages \in Sent :
        /\ DOMAIN messages = 1 .. Len(messages) /\ Len(messages) \in Nat
        /\ \A i \in DOMAIN messages : Fits(messages[i])

-----------------------------------------------------------------------------
Init ==
    /\ \/ sent = Raw /\ input \in Streams
       \/ sent \in Sent /\ input = EncodeEach(sent)
    /\ read = 0 /\ buffer = <<>> /\ readable = FALSE /\ eof = FALSE
    /\ request = RequestDecoder /\ response = ResponseDecoder
    /\ events = <<>> /\ timer = "none" /\ full = FALSE
    /\ phase = "idle" /\ ended = "no" /\ out = <<>> /\ restarts = 0
    /\ reference = DecodeAll(input)

Running == ended = "no"

StartPoll ==
    /\ Running /\ phase = "idle"
    /\ phase' = "stream"
    /\ UNCHANGED <<sent, input, streamVars, codecVars, timer, full, ended, out,
                   restarts, reference>>

(* poll_stream: nothing is read while the forwarding receiver is full.     *)
PollFull ==
    /\ Running /\ phase = "stream" /\ full
    /\ phase' = "events"
    /\ UNCHANGED <<sent, input, streamVars, codecVars, timer, full, ended, out,
                   restarts, reference>>

(* Requests were forwarded: there is room again.                           *)
MakeRoom ==
    /\ Running /\ phase = "idle" /\ full
    /\ full' = FALSE
    /\ UNCHANGED <<sent, input, streamVars, codecVars, timer, phase, ended, out,
                   restarts, reference>>

CanRead == Running /\ phase = "stream" /\ ~full /\ ~readable

ReadChunk(n) ==
    /\ CanRead /\ Len(events) <= MaxEvents
    /\ n <= Len(input) - read
    /\ buffer' = buffer \o SubSeq(input, read + 1, read + n)
    /\ read' = read + n
    /\ readable' = TRUE
    /\ UNCHANGED <<sent, input, eof, codecVars, timer, full, phase, ended, out,
                   restarts, reference>>

(* The peer may end the stream anywhere.                                   *)
ReadEnd ==
    /\ CanRead
    /\ eof' = TRUE /\ readable' = TRUE
    /\ UNCHANGED <<sent, input, read, buffer, codecVars, timer, full, phase,
                   ended, out, restarts, reference>>

StreamNotReady ==
    /\ CanRead
    /\ phase' = "events"
    /\ UNCHANGED <<sent, input, streamVars, codecVars, timer, full, ended, out,
                   restarts, reference>>

-----------------------------------------------------------------------------
(* A decoder is inside of a message.                                       *)
InMessage == request.state # "Method" \/ response.state # "Version"

(* The call of decode that is due, if one is.                              *)
DecodeCalls ==
    IF Running /\ phase = "stream" /\ ~full /\ readable
    THEN {CodecDecode([request |-> request, response |-> response], buffer)}
    ELSE {}

(* It takes line breaks off the front: what was received so far was not    *)
(* the beginning of a message.                                             *)
SkipsNewlines == ~InMessage /\ CRLFAt(buffer, 1)

(* What every call does to the codec, the buffer and the events.           *)
ApplyDecode(call) ==
    /\ request' = call.codec.request
    /\ response' = call.codec.response
    /\ buffer' = call.rest
    /\ events' = events \o call.events
    /\ restarts' = IF Contains(call.events, "DecodingEnded") THEN 0
                   ELSE (IF SkipsNewlines THEN 0 ELSE restarts)
                        + (IF Contains(call.events, "DecodingStarted") THEN 1 ELSE 0)

(* A message: it goes to the receiver, which may be full afterwards.       *)
DecodeComplete(call) ==
    /\ call.result.tag = "Complete"
    /\ ApplyDecode(call)
    /\ out' = Append(out, call.result.message)
    /\ full' \in IF call.result.message.kind = "request" THEN BOOLEAN ELSE {FALSE}
    /\ UNCHANGED <<sent, input, read, readable, eof, timer, phase, ended, reference>>

DecodeIncomplete(call) ==
    /\ call.result.tag = "Incomplete" /\ ~eof
    /\ ApplyDecode(call)
    /\ readable' = FALSE
    /\ UNCHANGED <<sent, input, read, eof, timer, full, phase, ended, out, reference>>

(* decode_eof: bytes that are left in the buffer are an error.             *)
DecodeEOF(call) ==
    /\ call.result.tag = "Incomplete" /\ eof
    /\ ApplyDecode(call)
    /\ ended' = IF call.rest = <<>> THEN "End" ELSE "UnexpectedEOF"
    /\ UNCHANGED <<sent, input, read, readable, eof, timer, full, phase, out, reference>>

(* A protocol error: the stream is dropped.                                *)
DecodeFails(call) ==
    /\ call.result.tag = "Error"
    /\ ApplyDecode(call)
    /\ ended' = call.result.error
    /\ UNCHANGED <<sent, input, read, readable, eof, timer, full, phase, out, reference>>

Decode == \E call \in DecodeCalls :
    DecodeComplete(call) \/ DecodeIncomplete(call) \/ DecodeEOF(call) \/ DecodeFails(call)

-----------------------------------------------------------------------------
\* Mutant: the end of an encoding clears the timer.
HandleCodecEventAnyEnd(before, event) ==
    CASE event = "DecodingStarted" -> "running"
      [] event \in {"DecodingEnded", "EncodingEnded"} -> "none"
      [] OTHER -> before

(* handle_codec_event: encoding events are ignored.                        *)
HandleCodecEvent(before, event) ==
    CASE event = "DecodingStarted" -> "running"
      [] event = "DecodingEnded" -> "none"
      [] OTHER -> before

(* poll_codec_events: one event after another until the channel is empty.  *)
PollCodecEvent ==
    /\ Running /\ phase = "events" /\ events # <<>>
    /\ timer' = HandleCodecEvent(timer, Head(events))
    /\ events' = Tail(events)
    /\ UNCHANGED <<sent, input, streamVars, request, response, full, phase, ended, out,
                   restarts, reference>>

CodecEventsNotReady ==
    /\ Running /\ phase = "events" /\ events = <<>>
    /\ phase' = "timer"
    /\ UNCHANGED <<sent, input, streamVars, codecVars, timer, full, ended, out,
                   restarts, reference>>

(* poll_decoding_timer: receiving ends when the timer has expired, or when *)
(* there are too many timers for it to run.                                *)
PollTimerReady ==
    /\ Running /\ phase = "timer" /\ timer # "none"
    /\ ended' = IF timer = "expired" THEN "TimedOut" ELSE "TooManyTimers"
    /\ UNCHANGED <<sent, input, streamVars, codecVars, timer, full, phase, out,
                   restarts, reference>>

PollTimerNotReady ==
    /\ Running /\ phase = "timer" /\ timer # "expired"
    /\ phase' = "idle"
    /\ UNCHANGED <<sent, input, streamVars, codecVars, timer, full, ended, out,
                   restarts, reference>>

(* The clock.                                                              *)
TimerExpires ==
    /\ Running /\ timer = "running"
    /\ timer' = "expired"
    /\ UNCHANGED <<sent, input, streamVars, codecVars, full, phase, ended, out,
                   restarts, reference>>

(* The sender encodes a message with the same codec between two polls of   *)
(* the receiver; one message at a time is enough to mix up the events.     *)
Encode ==
    /\ Running /\ phase = "idle" /\ events = <<>>
    /\ events' = <<"EncodingStarted", "EncodingEnded">>
    /\ UNCHANGED <<sent, input, streamVars, request, response, timer, full, phase,
                   ended, out, restarts, reference>>

Next ==
    \/ StartPoll \/ PollFull \/ MakeRoom
    \/ \E n \in 1 .. Len(input) : ReadChunk(n)
    \/ ReadEnd \/ StreamNotReady
    \/ Decode
    \/ PollCodecEvent \/ CodecEventsNotReady \/ PollTimerReady \/ PollTimerNotReady
    \/ TimerExpires \/ Encode

(* A poll that has started goes on to its end, the timer wakes the task    *)
(* when it has expired, and time passes.                                   *)
Fairness ==
    /\ WF_vars(StartPoll /\ timer = "expired")
    /\ WF_vars(PollFull \/ StreamNotReady \/ Decode \/ PollCodecEvent
               \/ CodecEventsNotReady \/ PollTimerReady \/ PollTimerNotReady)
    /\ WF_vars(TimerExpires)

Spec == Init /\ [][Next]_vars /\ Fairness

-----------------------------------------------------------------------------
(* A message is being received, or its first bytes are in the buffer.      *)
Partial == InMessage \/ (buffer # <<>> /\ ~readable)

(* Between two polls, a message that has arrived in part is under a timer: *)
(* nobody holds the receiver with half a message (codec/mod.rs, decode;    *)
(* receiver.rs, poll_codec_events).                                        *)
PartialHasTimer ==
    Running /\ phase = "idle" /\ Partial => timer # "none"

(* The inductive invariant of PartialHasTimer.  The timer is due when it   *)
(* is there, or an event in the channel starts it, and no later event      *)
(* stops it.                                                               *)
EventNames == {"DecodingStarted", "DecodingEnded", "EncodingStarted", "EncodingEnded"}
Due(t, queue) ==
    \/ t # "none" /\ \A i \in 1 .. Len(queue) : queue[i] # "DecodingEnded"
    \/ \E i \in 1 .. Len(queue) :
          /\ queue[i] = "DecodingStarted"
          /\ \A j \in i + 1 .. Len(queue) : queue[j] # "DecodingEnded"
TimerInv ==
    /\ events \in Seq(EventNames)
    /\ request.state = "Method" \/ response.state = "Version"
    /\ Running /\ phase = "timer" => events = <<>>
    /\ Running /\ phase = "idle" =>
          \A i \in 1 .. Len(events) : events[i] \in {"EncodingStarted", "EncodingEnded"}
    /\ Running /\ Partial => Due(timer, events)

(* The peer can make the timer start again only while the first word of a  *)
(* message has not ended: a bounded number of times for one message        *)
(* (codec/mod.rs, decode sends DecodingStarted at every call until then).  *)
InfoLineBound == IF MethodMaxLength + 1 > 9 THEN MethodMaxLength + 1 ELSE 9
RestartsBounded == restarts <= InfoLineBound

(* The inductive invariant of RestartsBounded.  Between messages, every    *)
(* start was for one more byte at least, and what was tried in vain is     *)
(* shorter than the bound.                                                 *)
RestartInv ==
    /\ restarts \in Nat /\ restarts <= InfoLineBound
    /\ Running /\ ~InMessage /\ ~readable =>
          restarts <= Len(buffer) /\ Len(buffer) < InfoLineBound
    /\ Running /\ ~InMessage /\ readable =>
          restarts < InfoLineBound /\ (restarts = 0 \/ eof \/ restarts < Len(buffer))

(* What comes out does not depend on how the bytes were cut into chunks:   *)
(* always a prefix of what the whole input decodes to, the same error in   *)
(* the end, and nothing missing once everything was read and tried         *)
(* (decoder/request.rs and decoder/response.rs, decode).  There is one     *)
(* exception: a header value of exactly the greatest length, and a reason  *)
(* phrase one longer than that, are refused when a chunk ends between the  *)
(* two bytes of the line break, and accepted otherwise.                    *)
AllDecoded == Running /\ phase = "idle" /\ read = Len(input) /\ ~readable
CutInLineBreak ==
    /\ buffer[Len(buffer)] = CR
    /\ \/ /\ ended = "HeaderValueTooLong"
          /\ Len(buffer) > HeaderValueMaxLength + 1
          /\ buffer[Len(buffer) - HeaderValueMaxLength - 1] = ":"
       \/ ended = "ReasonPhraseTooLong" /\ Len(buffer) = ReasonPhraseMaxLength + 2
ChunkIndependent ==
    /\ IsPrefix(out, reference.out)
    /\ (~Running /\ ended \notin {"End", "UnexpectedEOF", "TimedOut", "TooManyTimers"})
          => (out = reference.out /\ ended = reference.error) \/ CutInLineBreak
    /\ AllDecoded => out = reference.out /\ reference.error = "none"

(* The inductive invariant of ChunkIndependent.  The reference has given   *)
(* the messages that have come out, and what it decodes next is what the   *)
(* codec makes of its buffer and all that is unread.  Bytes that were      *)
(* tried in vain leave the codec as it is when they are tried again.       *)
Agree(call, other) ==
    call.result = other.result /\ call.codec = other.codec /\ call.rest = other.rest
Reaches(text, messages, codec, rest) ==
    LET at == DecodeTurns(text)[Len(messages)]
    IN  /\ at.more /\ at.out = messages
        /\ at.codec.request.state = "Method" /\ at.codec.response.state = "Version"
        /\ Len(at.rest) + Len(messages) <= Len(text)
        /\ Agree(CodecDecode(at.codec, at.rest), CodecDecode(codec, rest))
TriedInVain(codec, rest) ==
    LET call == CodecDecode(codec, rest)
    IN  call.result.tag = "Incomplete" /\ call.codec = codec /\ call.rest = rest
Codecs == [request |-> request, response |-> response]
Unread == SubSeq(input, read + 1, Len(input))
ChunkInv ==
    /\ Running => Reaches(input, out, Codecs, buffer \o Unread)
    /\ Running /\ ~readable => TriedInVain(Codecs, buffer)
    /\ ~Running =>
          /\ IsPrefix(out, reference.out)
          /\ ended \notin {"End", "UnexpectedEOF", "TimedOut", "TooManyTimers"} =>
                (out = reference.out /\ ended = reference.error) \/ CutInLineBreak

(* What is decoded is what was encoded, with the Content-Length header     *)
(* that the encoder puts first and without the message's own.              *)
Received(m) == [m EXCEPT !.headers = ReceivedHeaders(m)]
EncodedIsDecoded ==
    sent # Raw =>
        /\ IsPrefix(out, [i \in DOMAIN sent |-> Received(sent[i])])
        /\ AllDecoded => Len(out) = Len(sent) /\ ~Partial
        /\ ended \in {"no", "End", "UnexpectedEOF", "TimedOut", "TooManyTimers"}

(* A peer that stops in the middle of a message is not waited for: the     *)
(* message is completed or receiving ends (receiver.rs,                    *)
(* poll_decoding_timer).                                                   *)
StalledMessageIsDropped ==
    (Running /\ InMessage) ~> (~Running \/ ~InMessage)
=============================================================================
