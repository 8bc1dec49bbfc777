------------------------------ MODULE Decoders ------------------------------
(***************************************************************************)
(* The incremental decoders of requests and responses                      *)
(* (protocol/codec/decoder) and the encoders (protocol/codec/encoder).     *)
(*                                                                         *)
(* Every operator takes the decoder d and the bytes that are in the buffer *)
(* and returns a step: Complete with the decoder and the rest of the       *)
(* buffer, Incomplete, or Failure.  Words are short: a method or a header  *)
(* name is a token of one or two letters ("L" is Content-Length), a URI is *)
(* "*" or a run of the letter u, and every standard status code has the    *)
(* reason phrase "K".                                                      *)
(***************************************************************************)
EXTENDS Headers

CONSTANTS
    BodyMaxLength, HeaderMaxCount, HeaderNameMaxLength, HeaderValueMaxLength,
    MethodMaxLength, URIMaxLength, ReasonPhraseMaxLength

ASSUME DecodersAssumption ==
    {BodyMaxLength, HeaderMaxCount, HeaderNameMaxLength, HeaderValueMaxLength,
     MethodMaxLength, URIMaxLength, ReasonPhraseMaxLength} \subseteq Nat

-----------------------------------------------------------------------------
Complete(d, rest) == [tag |-> "Complete", d |-> d, rest |-> rest]
Incomplete == [tag |-> "Incomplete"]
Failure(error) == [tag |-> "Error", error |-> error]

(* The first of some positions in the buffer, or 0.                        *)
First(positions) == IF positions = {} THEN 0 ELSE Min(positions)

Shorter(m, n) == IF m < n THEN m ELSE n

(* Config of each of the decoders, as ConfigBuilder makes it.              *)
RequestConfig ==
    [body |-> BodyMaxLength, count |-> HeaderMaxCount, name |-> HeaderNameMaxLength,
     value |-> HeaderValueMaxLength, method |-> MethodMaxLength, uri |-> URIMaxLength]
ResponseConfig ==
    [body |-> BodyMaxLength, count |-> HeaderMaxCount, name |-> HeaderNameMaxLength,
     value |-> HeaderValueMaxLength, phrase |-> ReasonPhraseMaxLength]

(* Decoder::with_config, and Decoder::reset: an empty builder, no content  *)
(* length and the first state.                                             *)
RequestDecoder ==
    [state |-> "Method", length |-> 0, config |-> RequestConfig,
     method |-> <<>>, uri |-> <<>>, headers |-> <<>>, body |-> <<>>]
ResponseDecoder ==
    [state |-> "Version", length |-> 0, config |-> ResponseConfig,
     status |-> 0, phrase |-> <<>>, headers |-> <<>>, body |-> <<>>]

-----------------------------------------------------------------------------
(* trim_header_name: blanks at the end of a name.                          *)
TrimHeaderName(name) ==
    SubSeq(name, 1, Max({k \in 0 .. Len(name) : k = 0 \/ name[k] \notin Blank}))

(* trim_header_value: an initial line break and the blanks after it; a     *)
(* line break that no blank follows is left for HeaderValue to refuse.     *)
TrimHeaderValue(value) ==
    LET start == IF CRLFAt(value, 1) THEN 3 ELSE 1
        first == First({k \in start .. Len(value) + 1 :
                     k = Len(value) + 1 \/ value[k] \notin Blank})
    IN  IF start = 3 /\ first = 3 THEN value ELSE SubSeq(value, first, Len(value))

(* decode_body.                                                            *)
DecodeBody(d, buffer) ==
    IF d.length > Len(buffer) THEN Incomplete
    ELSE Complete([d EXCEPT !.state = "End", !.body = SubSeq(buffer, 1, d.length)],
                  SubSeq(buffer, d.length + 1, Len(buffer)))

(* decode_header_name: the colon must be among the first max + 1 bytes.    *)
(* The result is the length of the name.                                   *)
DecodeHeaderName(d, buffer) ==
    LET max == d.config.name + 1
        colon == First({k \in 1 .. Shorter(max, Len(buffer)) : buffer[k] = ":"})
    IN  IF colon > 0 THEN [tag |-> "Complete", length |-> colon - 1]
        ELSE IF Len(buffer) >= max THEN Failure("HeaderNameTooLong") ELSE Incomplete

\* Mutant: a line break at the end of the chunk ends the value.
DecodeHeaderValueEager(d, buffer) ==
    LET end == First({k \in 1 .. Len(buffer) - 1 :
                   CRLFAt(buffer, k) /\ ~(k + 2 <= Len(buffer) /\ buffer[k + 2] \in Blank)})
    IN  IF end > 0 THEN [tag |-> "Complete", length |-> end - 1]
        ELSE IF Len(buffer) > d.config.value THEN Failure("HeaderValueTooLong") ELSE Incomplete

(* decode_header_value: the value ends at the first line break, among the  *)
(* first max + 1 windows of two bytes, that no blank follows; whether one  *)
(* follows is only known once the next byte is there.                      *)
DecodeHeaderValue(d, buffer) ==
    LET max == d.config.value + 1
        end == First({k \in 1 .. Shorter(max, Len(buffer) - 1) :
                   CRLFAt(buffer, k) /\ ~(k + 2 <= Len(buffer) /\ buffer[k + 2] \in Blank)})
    IN  CASE end > 0 /\ end + 2 <= Len(buffer) -> [tag |-> "Complete", length |-> end - 1]
          [] end > 0 /\ end + 2 > Len(buffer) -> Incomplete
          [] end = 0 /\ Len(buffer) >= max -> Failure("HeaderValueTooLong")
          [] OTHER -> Incomplete

(* The end of the headers: the length of the body becomes known.           *)
DecodeBlankLine(d, buffer) ==
    LET length == ContentLengthDecode(GetAll(d.headers, <<"L">>))
        after(n) == Complete([d EXCEPT !.state = "Body", !.length = n],
                             SubSeq(buffer, 3, Len(buffer)))
    IN  CASE ~IsOk(length) -> Failure("InvalidContentLength")
          [] IsOk(length) /\ ~length.value.some -> after(0)
          [] IsPresent(length) /\ length.value.value \notin 0 .. d.config.body ->
                Failure("BodyTooLong")
          [] OTHER -> after(length.value.value)

(* decode_header: the name up to the colon, then the value; the count of   *)
(* the headers is checked between the two.                                 *)
AddHeader(d, name, value, rest) ==
    LET shape == IF name = <<>> THEN "empty" ELSE IF IsToken(name) THEN "token" ELSE "other"
    IN  IF HeaderNameExtension(Word(name, name, shape)).tag = "Err" THEN Failure("HeaderName")
        ELSE IF ~IsOk(HeaderValueTryFrom(value)) THEN Failure("HeaderValue")
        ELSE Complete([d EXCEPT !.headers = HeaderAppend(@, name, value)], rest)

DecodeHeaderLine(d, name, rest) ==
    Once(DecodeHeaderValue(d, rest), LAMBDA value :
        IF value.tag # "Complete" THEN value
        ELSE AddHeader(d, TrimHeaderName(name), TrimHeaderValue(SubSeq(rest, 1, value.length)),
                       SubSeq(rest, value.length + 3, Len(rest))))

DecodeHeader(d, buffer) ==
    IF CRLFAt(buffer, 1) THEN DecodeBlankLine(d, buffer)
    ELSE Once(DecodeHeaderName(d, buffer), LAMBDA name :
        IF name.tag # "Complete" THEN name
        ELSE IF Len(d.headers) >= d.config.count THEN Failure("TooManyHeaders")
        ELSE DecodeHeaderLine(d, SubSeq(buffer, 1, name.length),
                              SubSeq(buffer, name.length + 2, Len(buffer))))

-----------------------------------------------------------------------------
(* A word of the start line that a space ends; the space must be among the *)
(* first max + 1 bytes.                                                    *)
DecodeWord(buffer, max, tooLong) ==
    LET space == First({k \in 1 .. Shorter(max + 1, Len(buffer)) : buffer[k] = SP})
    IN  IF space > 0 THEN [tag |-> "Complete", length |-> space - 1]
        ELSE IF Len(buffer) >= max + 1 THEN Failure(tooLong) ELSE Incomplete

(* decode_method.                                                          *)
DecodeMethod(d, buffer) ==
    Once(DecodeWord(buffer, d.config.method, "MethodTooLong"), LAMBDA word :
        LET method == MethodFromText(SubSeq(buffer, 1, word.length))
        IN  IF word.tag # "Complete" THEN word
            ELSE IF method.tag = "Err" THEN Failure("Method")
            ELSE Complete([d EXCEPT !.state = "URI", !.method = method.value],
                          SubSeq(buffer, word.length + 2, Len(buffer))))

(* decode_uri; which texts are a URI is the concern of RequestUri.         *)
IsURIText(s) == s = <<"*">> \/ (s # <<>> /\ \A i \in DOMAIN s : s[i] = "u")

DecodeURI(d, buffer) ==
    Once(DecodeWord(buffer, d.config.uri, "URITooLong"), LAMBDA word :
        LET uri == SubSeq(buffer, 1, word.length)
        IN  IF word.tag # "Complete" THEN word
            ELSE IF ~IsURIText(uri) THEN Failure("URI")
            ELSE Complete([d EXCEPT !.state = "Version", !.uri = uri],
                          SubSeq(buffer, word.length + 2, Len(buffer))))

(* What follows the eight bytes of a version: the next state, or an error. *)
DecodeVersion(d, buffer, ending, next) ==
    LET size == 8 + Len(ending)
        version == VersionTryDecode(SubSeq(buffer, 1, 8))
    IN  IF Len(buffer) < size THEN Incomplete
        ELSE IF SubSeq(buffer, 9, size) # ending THEN Failure("Version")
        ELSE IF ~IsOk(version) THEN Failure("Version")
        ELSE IF version.value # "Rtsp2_0" THEN Failure("UnsupportedVersion")
        ELSE Complete([d EXCEPT !.state = next], SubSeq(buffer, size + 1, Len(buffer)))

RequestDecodeVersion(d, buffer) == DecodeVersion(d, buffer, <<CR, LF>>, "Header")
ResponseDecodeVersion(d, buffer) == DecodeVersion(d, buffer, <<SP>>, "StatusCode")

(* decode_status_code.                                                     *)
ByteValue(b) == IF IsDigit(b) THEN 48 + Digit[b]
                ELSE IF b = ":" THEN 58 ELSE IF b = SP THEN 32 ELSE 97

DecodeStatusCode(d, buffer) ==
    LET status == StatusCodeTryFromBytes([i \in 1 .. 3 |-> ByteValue(buffer[i])])
    IN  IF Len(buffer) < 4 THEN Incomplete
        ELSE IF buffer[4] # SP \/ status.tag = "Err" THEN Failure("StatusCode")
        ELSE Complete([d EXCEPT !.state = "ReasonPhrase", !.status = status.value],
                      SubSeq(buffer, 5, Len(buffer)))

(* decode_reason_phrase: the line break must be among the first max + 2    *)
(* windows.                                                                *)
DecodeReasonPhrase(d, buffer) ==
    LET max == d.config.phrase + 2
        end == First({k \in 1 .. Shorter(max, Len(buffer) - 1) : CRLFAt(buffer, k)})
        phrase == ReasonPhraseTryFrom(SubSeq(buffer, 1, end - 1))
    IN  IF end = 0 THEN IF Len(buffer) >= max THEN Failure("ReasonPhraseTooLong")
                        ELSE Incomplete
        ELSE IF ~IsOk(phrase) THEN Failure("ReasonPhrase")
        ELSE Complete([d EXCEPT !.state = "Header", !.phrase = phrase.value],
                      SubSeq(buffer, end + 2, Len(buffer)))

(* The same code in decoder/response.rs, under the limits of a response.   *)
ResponseDecodeBody(d, buffer) == DecodeBody(d, buffer)
ResponseDecodeHeader(d, buffer) == DecodeHeader(d, buffer)

-----------------------------------------------------------------------------
(* Request::build and Response::build, on what the decoder has collected;  *)
(* a standard status code has its own phrase whatever was received.        *)
RequestOf(d) == [kind |-> "request", method |-> d.method, uri |-> d.uri,
                 headers |-> d.headers, body |-> d.body]
ResponseOf(d) == [kind |-> "response", status |-> d.status,
                  phrase |-> IF StatusCodeTryFrom(d.status).tag = "Standard"
                             THEN <<"K">> ELSE d.phrase,
                  headers |-> d.headers, body |-> d.body]

(* The part of the message that the state of the decoder names.            *)
RequestStep(d, buffer) ==
    CASE d.state = "Header" -> DecodeHeader(d, buffer)
      [] d.state = "Method" -> DecodeMethod(d, buffer)
      [] d.state = "URI" -> DecodeURI(d, buffer)
      [] d.state = "Version" -> RequestDecodeVersion(d, buffer)
      [] OTHER -> DecodeBody(d, buffer)

ResponseStep(d, buffer) ==
    CASE d.state = "Header" -> ResponseDecodeHeader(d, buffer)
      [] d.state = "StatusCode" -> DecodeStatusCode(d, buffer)
      [] d.state = "ReasonPhrase" -> DecodeReasonPhrase(d, buffer)
      [] d.state = "Version" -> ResponseDecodeVersion(d, buffer)
      [] OTHER -> ResponseDecodeBody(d, buffer)

Step(kind, d, buffer) ==
    IF kind = "request" THEN RequestStep(d, buffer) ELSE ResponseStep(d, buffer)

(* What the loop returns when a part is not complete; an error is kept.    *)
Stopped(d, step, buffer) ==
    IF step.tag = "Error"
    THEN [tag |-> "Error", error |-> step.error, d |-> [d EXCEPT !.state = "Error"],
          rest |-> buffer]
    ELSE [tag |-> "Incomplete", d |-> d, rest |-> buffer]

(* The loop of Decoder::decode: part after part while they are complete.   *)
(* There are five besides the header lines, which are counted; more says   *)
(* that the last part was complete.                                        *)
Parts(kind, d, buffer) ==
    LET turn(at) ==
            IF ~at.more \/ at.d.state \in {"Error", "End"} THEN at
            ELSE Once(Step(kind, at.d, at.rest), LAMBDA step :
                IF step.tag = "Complete" THEN [d |-> step.d, rest |-> step.rest, more |-> TRUE]
                ELSE [at EXCEPT !.more = FALSE])
        after[n \in 0 .. HeaderMaxCount + 5] ==
            IF n = 0 THEN [d |-> d, rest |-> buffer, more |-> TRUE]
            ELSE Once(after[n - 1], turn)
    IN  after[HeaderMaxCount + 5]

(* What the loop returns.  After the end of a message the builder is new   *)
(* and the content length is the old one.                                  *)
RequestDecode(decoder, buffer) ==
    Once(Parts("request", decoder, buffer), LAMBDA at :
        CASE at.d.state = "Error" ->
                [tag |-> "Error", error |-> "kept", d |-> at.d, rest |-> at.rest]
          [] at.d.state = "End" ->
                [tag |-> "Complete", message |-> RequestOf(at.d), rest |-> at.rest,
                 d |-> [RequestDecoder EXCEPT !.length = at.d.length]]
          [] OTHER -> Stopped(at.d, RequestStep(at.d, at.rest), at.rest))

ResponseDecode(decoder, buffer) ==
    Once(Parts("response", decoder, buffer), LAMBDA at :
        CASE at.d.state = "Error" ->
                [tag |-> "Error", error |-> "kept", d |-> at.d, rest |-> at.rest]
          [] at.d.state = "End" ->
                [tag |-> "Complete", message |-> ResponseOf(at.d), rest |-> at.rest,
                 d |-> [ResponseDecoder EXCEPT !.length = at.d.length]]
          [] OTHER -> Stopped(at.d, ResponseStep(at.d, at.rest), at.rest))

-----------------------------------------------------------------------------
\* Mutant: the message's own Content-Length is written, too.
EncodeHeadersTwice(headers, body) ==
    LET line(e) == e[1] \o <<":", SP>> \o e[2] \o <<CR, LF>>
    IN  (IF body = <<>> THEN <<>> ELSE line(<<<<"L">>, FormatUnsigned(Len(body))>>))
        \o FlattenSeq([i \in DOMAIN headers |-> line(headers[i])])
        \o <<CR, LF>> \o body

(* The encoders: Content-Length comes first and is the size of the body,   *)
(* and a Content-Length of the message is left out.                        *)
EncodeHeaders(headers, body) ==
    LET others == Without(headers, <<"L">>)
        line(e) == e[1] \o <<":", SP>> \o e[2] \o <<CR, LF>>
    IN  (IF body = <<>> THEN <<>> ELSE line(<<<<"L">>, FormatUnsigned(Len(body))>>))
        \o FlattenSeq([i \in DOMAIN others |-> line(others[i])])
        \o <<CR, LF>> \o body

EncodeRequest(m) ==
    m.method \o <<SP>> \o m.uri \o <<SP>> \o Rtsp20 \o <<CR, LF>>
    \o EncodeHeaders(m.headers, m.body)

EncodeResponse(m) ==
    Rtsp20 \o <<SP>> \o FormatUnsigned(m.status) \o <<SP>> \o m.phrase \o <<CR, LF>>
    \o EncodeHeaders(m.headers, m.body)
=============================================================================
