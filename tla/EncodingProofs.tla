---------------------------- MODULE EncodingProofs ---------------------------
(***************************************************************************)
(* What a peer encodes is what this side decodes, in whatever chunks it    *)
(* arrives and whatever the limits of the decoders are, if the messages    *)
(* are within them (Fits).                                                 *)
(*                                                                         *)
(* For each stage of a decoder: on the text that the encoder writes for    *)
(* it, followed by anything, the stage completes with the part that was    *)
(* encoded and leaves what follows, and no chunk of that text is refused   *)
(* (Good).  The stages make a message, and the codec between two messages  *)
(* (Resting) hands it to the decoder of its kind (Gives).  From there by   *)
(* induction over the messages, and with ChunkInv over the chunks.         *)
(***************************************************************************)
EXTENDS CodecProofs

-----------------------------------------------------------------------------
(* Decoding stage by stage: no chunk is refused.                           *)

(* No chunk of a text is refused, and the whole text decodes to a result.  *)
Good(kind, d, text, result) ==
    /\ \A buf, x \in Text : buf \o x = text => DecodeOf(kind, d, buf).tag # "Error"
    /\ DecodeOf(kind, d, text) = result

(* No chunk meets the exception that Cut names.                            *)
NoCut(kind, d, text) ==
    \A buf, x \in Text : buf \o x = text =>
        \A e : Step(kind, d, buf) = Failure(e) => ~Cut(e, buf)

(* A decoder that decodes the first part of a text and then does well.     *)
LEMMA GoodStep ==
    ASSUME HeaderNameMaxLength > 0, NEW kind \in Kinds, NEW d, IsDecoder(kind, d), d.state # "End",
           NEW text \in Text, NEW next, NEW rest, NEW result,
           Step(kind, d, text) = Complete(next, rest),
           NoCut(kind, d, text), Good(kind, next, rest, result)
    PROVE  Good(kind, d, text, result)
<1>1. HeaderNameMaxLength # 0
  BY DecodersAssumption
<1>2. Step(kind, d, text).tag = "Complete"
  BY DEF Complete
<1>3. ASSUME NEW buf \in Text, NEW x \in Text, buf \o x = text
      PROVE  DecodeOf(kind, d, buf).tag # "Error"
  <2> DEFINE step == Step(kind, d, buf)
             more == Step(kind, d, text)
             r == DecodeOf(kind, d, buf)
  <2>1. Part(kind, d, buf, x, step, more)
    BY <1>3, StepPart
  <2>2. ASSUME NEW n, NEW t, step = Complete(n, t), more = Complete(n, t \o x),
               Advances(kind, d, buf, n, t)
        PROVE  r.tag # "Error"
    <3>1. n = next /\ t \o x = rest /\ t \in Text
      BY <2>2 DEF Complete, Advances
    <3>2. r = DecodeOf(kind, n, t)
      BY <2>2, Unfold
    <3> QED
      BY <1>3, <3>1, <3>2 DEF Good
  <2>3. ASSUME step = Incomplete PROVE r.tag # "Error"
    <3>1. step.tag = "Incomplete"
      BY <2>3 DEF Incomplete
    <3>2. r = [tag |-> "Incomplete", d |-> d, rest |-> buf]
      BY <3>1, Unfold DEF Stopped
    <3> QED
      BY <3>2
  <2>4. ASSUME NEW e, step = Failure(e), more = step \/ Cut(e, buf) \/ HeaderNameMaxLength = 0
        PROVE  FALSE
    <3>1. step.tag = "Error"
      BY <2>4 DEF Failure
    <3>2. ~Cut(e, buf)
      BY <1>3, <2>4 DEF NoCut
    <3> QED
      BY <1>1, <1>2, <2>4, <3>1, <3>2
  <2> HIDE DEF step, more, r
  <2>5. r.tag # "Error"
    BY <2>1, <2>2, <2>3, <2>4 DEF Part
  <2> QED
    BY <2>5 DEF r
<1>4. DecodeOf(kind, d, text) = result
  <2>1. DecodeOf(kind, d, text) = DecodeOf(kind, next, rest)
    BY Unfold
  <2> QED
    BY <2>1 DEF Good
<1> QED
  BY <1>3, <1>4 DEF Good

(* Nothing is left to decode.                                              *)
LEMMA GoodEnd ==
    ASSUME NEW kind \in Kinds, NEW d, IsDecoder(kind, d), d.state = "End", NEW text \in Text
    PROVE  Good(kind, d, text, Done(kind, d, text))
<1>1. ASSUME NEW buf \in Text PROVE DecodeOf(kind, d, buf).tag = "Complete" 
  <2>1. DecodeOf(kind, d, buf) = Done(kind, d, buf)
    BY Unfold
  <2> QED
    BY <2>1 DEF Done
<1>2. DecodeOf(kind, d, text) = Done(kind, d, text)
  BY Unfold
<1> QED
  BY <1>1, <1>2 DEF Good

(* The parts other than a header and a reason phrase have no such limit.   *)
LEMMA NoCutElsewhere ==
    ASSUME NEW kind \in Kinds, NEW d, IsDecoder(kind, d), NEW text,
           d.state \notin {"End", "Header", "ReasonPhrase"}
    PROVE  NoCut(kind, d, text)
<1> SUFFICES ASSUME NEW buf, NEW e, Step(kind, d, buf) = Failure(e) PROVE ~Cut(e, buf)
  BY DEF NoCut
<1>1. SUFFICES e \notin {"HeaderValueTooLong", "ReasonPhraseTooLong"}
  BY DEF Cut
<1> DEFINE step == Step(kind, d, buf)
<1>2. step.tag = "Error" /\ step.error = e
  BY DEF Failure
<1>3. CASE d.state = "Body"
  <2>1. step = DecodeBody(d, buf)
    BY <1>3 DEF Step, RequestStep, ResponseStep, ResponseDecodeBody
  <2> HIDE DEF step
  <2> QED
    BY <1>2, <2>1 DEF DecodeBody, Incomplete, Complete
<1>4. CASE d.state = "Version"
  <2>1. step = RequestDecodeVersion(d, buf) \/ step = ResponseDecodeVersion(d, buf)
    BY <1>4 DEF Step, RequestStep, ResponseStep
  <2> HIDE DEF step
  <2>2. \A ending, next : LET s == DecodeVersion(d, buf, ending, next)
                          IN s.tag = "Error" => s.error \in {"Version", "UnsupportedVersion"}
    BY DEF DecodeVersion, Incomplete, Complete, Failure
  <2> QED
    BY <1>2, <2>1, <2>2 DEF RequestDecodeVersion, ResponseDecodeVersion
<1>5. \A max, name : LET s == DecodeWord(buf, max, name)
                     IN  s.tag = "Error" => s.error = name
  BY DEF DecodeWord, Incomplete, Failure
<1>6. CASE kind = "request" /\ d.state = "Method"
  <2>1. step = DecodeMethod(d, buf)
    BY <1>6 DEF Step, RequestStep
  <2> HIDE DEF step
  <2> DEFINE word == DecodeWord(buf, d.config.method, "MethodTooLong")
             method == MethodFromText(SubSeq(buf, 1, word.length))
             after == Complete([d EXCEPT !.state = "URI", !.method = method.value],
                               SubSeq(buf, word.length + 2, Len(buf)))
  <2>2. DecodeMethod(d, buf) = IF word.tag # "Complete" THEN word
                               ELSE IF method.tag = "Err" THEN Failure("Method") ELSE after
    BY DEF DecodeMethod, Once
  <2>3. after.tag = "Complete" /\ Failure("Method").error = "Method"
    BY DEF Complete, Failure
  <2>4. word.tag = "Error" => word.error = "MethodTooLong"
    BY <1>5
  <2> HIDE DEF word, method, after
  <2> QED
    BY <1>2, <2>1, <2>2, <2>3, <2>4
<1>7. CASE kind = "request" /\ d.state = "URI"
  <2>1. step = DecodeURI(d, buf)
    BY <1>7 DEF Step, RequestStep
  <2> HIDE DEF step
  <2> DEFINE word == DecodeWord(buf, d.config.uri, "URITooLong")
             uri == SubSeq(buf, 1, word.length)
             after == Complete([d EXCEPT !.state = "Version", !.uri = uri],
                               SubSeq(buf, word.length + 2, Len(buf)))
  <2>2. DecodeURI(d, buf) = IF word.tag # "Complete" THEN word
                            ELSE IF ~IsURIText(uri) THEN Failure("URI") ELSE after
    BY DEF DecodeURI, Once
  <2>3. after.tag = "Complete" /\ Failure("URI").error = "URI"
    BY DEF Complete, Failure
  <2>4. word.tag = "Error" => word.error = "URITooLong"
    BY <1>5
  <2> HIDE DEF word, uri, after
  <2> QED
    BY <1>2, <2>1, <2>2, <2>3, <2>4
<1>8. CASE kind = "response" /\ d.state = "StatusCode"
  <2>1. step = DecodeStatusCode(d, buf)
    BY <1>8 DEF Step, ResponseStep
  <2> HIDE DEF step
  <2>2. step.tag = "Error" => step.error = "StatusCode"
    BY <2>1 DEF DecodeStatusCode, Incomplete, Complete, Failure
  <2> QED
    BY <1>2, <2>2
<1> QED
  BY <1>3, <1>4, <1>6, <1>7, <1>8 DEF IsDecoder, States, Kinds

-----------------------------------------------------------------------------
(* The stages of the request line.                                         *)

(* The separators, as texts.                                               *)
Space == <<SP>>
LineBreak == <<CR, LF>>
ColonSpace == <<":", SP>>

(* The separators are texts of one and two bytes.                          *)
LEMMA SeparatorsAre ==
    /\ Space \in Text /\ Len(Space) = 1 /\ Space[1] = SP
    /\ LineBreak \in Text /\ Len(LineBreak) = 2 /\ LineBreak[1] = CR /\ LineBreak[2] = LF
    /\ ColonSpace \in Text /\ Len(ColonSpace) = 2 /\ ColonSpace[1] = ":" /\ ColonSpace[2] = SP
<1>1. Space \in Text /\ Len(Space) = 1 /\ Space[1] = SP
  BY Separators DEF Space
<1>2. LineBreak \in Text /\ Len(LineBreak) = 2 /\ LineBreak[1] = CR /\ LineBreak[2] = LF
  BY Separators DEF LineBreak
<1>3. ColonSpace \in Text /\ Len(ColonSpace) = 2 /\ ColonSpace[1] = ":" /\ ColonSpace[2] = SP
  BY Separators, TwoElements DEF ColonSpace, Text
<1> QED
  BY <1>1, <1>2, <1>3

(* The lengths of the parts of a text.                                     *)
LEMMA SplitLengths ==
    ASSUME NEW t, NEW w, NEW s, NEW y, Splits(t, w, s, y)
    PROVE  Len(t) \in Nat /\ Len(w) \in Nat /\ Len(s) \in Nat /\ Len(y) \in Nat
BY DEF Splits, Text

(* A word without spaces that is within its limit, in front of a space.    *)
LEMMA WordIs ==
    ASSUME NEW t, NEW w, NEW y, Splits(t, w, Space, y), NEW max \in Nat, Len(w) <= max,
           \A k \in 1 .. Len(w) : w[k] # SP, NEW name
    PROVE  /\ DecodeWord(t, max, name) = [tag |-> "Complete", length |-> Len(w)]
           /\ SubSeq(t, 1, Len(w)) = w /\ SubSeq(t, Len(w) + 2, Len(t)) = y
<1> DEFINE A == {k \in 1 .. Shorter(max + 1, Len(t)) : t[k] = SP}
<1>1. Len(Space) = 1 /\ Space[1] = SP
  BY SeparatorsAre
<1>2. /\ t \in Text /\ Len(w) \in Nat /\ Len(y) \in Nat
      /\ Len(t) = Len(w) + 1 + Len(y)
      /\ \A k \in 1 .. Len(w) : t[k] = w[k]
      /\ t[Len(w) + 1] = SP
  BY <1>1, SplitLengths DEF Splits
<1>3. SubSeq(t, Len(w) + 2, Len(t)) = y /\ SubSeq(t, 1, Len(w)) = w
  <2>1. SubSeq(t, Len(w) + Len(Space) + 1, Len(t)) = y /\ SubSeq(t, 1, Len(w)) = w
    BY DEF Splits
  <2>2. Len(w) + Len(Space) + 1 = Len(w) + 2
    BY <1>1, <1>2
  <2> QED
    BY <2>1, <2>2
<1>4. Shorter(max + 1, Len(t)) \in Nat /\ Len(w) + 1 <= Shorter(max + 1, Len(t))
  BY <1>2 DEF Shorter
<1>5. First(A) = Len(w) + 1
  <2>1. Len(w) + 1 \in A
    BY <1>2, <1>4
  <2>2. ASSUME NEW j \in A PROVE Len(w) + 1 <= j
    <3>1. j \in Nat /\ j >= 1 /\ t[j] = SP
      BY <1>4
    <3>2. CASE j <= Len(w)
      <4>1. j \in 1 .. Len(w)
        BY <1>2, <3>1, <3>2
      <4> QED
        BY <1>2, <3>1, <4>1
    <3> QED
      BY <1>2, <3>1, <3>2
  <2> DEFINE k == Len(w) + 1
             n == Shorter(max + 1, Len(t))
  <2>3. n \in Int /\ A \in SUBSET (1 .. n) /\ k \in A /\ \A j \in A : k <= j
    BY <1>4, <2>1, <2>2
  <2> HIDE DEF A, k, n
  <2>4. First(A) = k
    BY <2>3, FirstIs
  <2> QED
    BY <2>4 DEF k
<1>6. DecodeWord(t, max, name) = [tag |-> "Complete", length |-> Len(w)]
  <2> DEFINE f == First(A)
  <2>1. f = Len(w) + 1 /\ f > 0 /\ f - 1 = Len(w)
    BY <1>2, <1>5
  <2>2. DecodeWord(t, max, name) = IF f > 0 THEN [tag |-> "Complete", length |-> f - 1]
        ELSE IF Len(t) >= max + 1 THEN Failure(name) ELSE Incomplete
    BY DEF DecodeWord
  <2> HIDE DEF f
  <2> QED
    BY <2>1, <2>2
<1> QED
  BY <1>3, <1>6

(* A decoder with what it holds: a and b are the method and the URI of a   *)
(* request, or the status code and the phrase of a response.               *)
RequestAt(state, n, a, b, headers, body) ==
    [state |-> state, length |-> n, config |-> RequestConfig,
     method |-> a, uri |-> b, headers |-> headers, body |-> body]
ResponseAt(state, n, a, b, headers, body) ==
    [state |-> state, length |-> n, config |-> ResponseConfig,
     status |-> a, phrase |-> b, headers |-> headers, body |-> body]
At(kind, state, n, a, b, headers, body) ==
    IF kind = "request" THEN RequestAt(state, n, a, b, headers, body)
    ELSE ResponseAt(state, n, a, b, headers, body)

(* What the parts of a message do to a decoder.                            *)
WithMethod(d, state, v) == [d EXCEPT !.state = state, !.method = v]
WithURI(d, state, v) == [d EXCEPT !.state = state, !.uri = v]
WithStatus(d, state, v) == [d EXCEPT !.state = state, !.status = v]
WithPhrase(d, state, v) == [d EXCEPT !.state = state, !.phrase = v]
WithLength(d, state, v) == [d EXCEPT !.state = state, !.length = v]
WithBody(d, state, v) == [d EXCEPT !.state = state, !.body = v]
WithState(d, state) == [d EXCEPT !.state = state]
WithHeaders(d, v) == [d EXCEPT !.headers = v]

(* What a decoder in a given state holds.                                  *)
LEMMA AtIs ==
    ASSUME NEW kind \in Kinds, NEW state \in States(kind), NEW n \in Nat, NEW a, NEW b, NEW S,
           NEW headers \in Seq(S), Len(headers) <= HeaderMaxCount, NEW body
    PROVE  LET d == At(kind, state, n, a, b, headers, body)
           IN  /\ IsDecoder(kind, d) /\ d.state = state /\ d.length = n
               /\ d.config = Limits(kind) /\ d.headers = headers /\ d.body = body
<1> DEFINE d == At(kind, state, n, a, b, headers, body)
<1>1. /\ d.state = state /\ d.length = n /\ d.config = Limits(kind) /\ d.headers = headers
      /\ d.body = body /\ {"state", "length", "config", "headers"} \subseteq DOMAIN d
  BY DEF At, RequestAt, ResponseAt, Limits
<1> HIDE DEF d
<1>2. IsDecoder(kind, d)
  BY <1>1 DEF IsDecoder
<1> QED
  BY <1>1, <1>2 DEF d

(* What each assignment of the decoders makes of such a decoder.           *)
LEMMA MethodMoves ==
    ASSUME NEW q, NEW n, NEW a, NEW b, NEW headers, NEW body, NEW state, NEW v
    PROVE  WithMethod(At("request", q, n, a, b, headers, body), state, v)
              = At("request", state, n, v, b, headers, body)
<1> DEFINE d == RequestAt(q, n, a, b, headers, body)
           e == RequestAt(state, n, a, b, headers, body)
<1>1. [d EXCEPT !.state = state] = e
  BY DEF RequestAt
<1>2. [e EXCEPT !.method = v] = RequestAt(state, n, v, b, headers, body)
  BY DEF RequestAt
<1> HIDE DEF d, e
<1>3. [d EXCEPT !.state = state, !.method = v] = [[d EXCEPT !.state = state] EXCEPT !.method = v]
  OBVIOUS
<1> QED
  BY <1>1, <1>2, <1>3 DEF d, At, WithMethod

LEMMA URIMoves ==
    ASSUME NEW q, NEW n, NEW a, NEW b, NEW headers, NEW body, NEW state, NEW v
    PROVE  WithURI(At("request", q, n, a, b, headers, body), state, v)
              = At("request", state, n, a, v, headers, body)
<1> DEFINE d == RequestAt(q, n, a, b, headers, body)
           e == RequestAt(state, n, a, b, headers, body)
<1>1. [d EXCEPT !.state = state] = e
  BY DEF RequestAt
<1>2. [e EXCEPT !.uri = v] = RequestAt(state, n, a, v, headers, body)
  BY DEF RequestAt
<1> HIDE DEF d, e
<1>3. [d EXCEPT !.state = state, !.uri = v] = [[d EXCEPT !.state = state] EXCEPT !.uri = v]
  OBVIOUS
<1> QED
  BY <1>1, <1>2, <1>3 DEF d, At, WithURI

LEMMA StatusMoves ==
    ASSUME NEW q, NEW n, NEW a, NEW b, NEW headers, NEW body, NEW state, NEW v
    PROVE  WithStatus(At("response", q, n, a, b, headers, body), state, v)
              = At("response", state, n, v, b, headers, body)
<1> DEFINE d == ResponseAt(q, n, a, b, headers, body)
           e == ResponseAt(state, n, a, b, headers, body)
<1>1. [d EXCEPT !.state = state] = e
  BY DEF ResponseAt
<1>2. [e EXCEPT !.status = v] = ResponseAt(state, n, v, b, headers, body)
  BY DEF ResponseAt
<1> HIDE DEF d, e
<1>3. [d EXCEPT !.state = state, !.status = v] = [[d EXCEPT !.state = state] EXCEPT !.status = v]
  OBVIOUS
<1> QED
  BY <1>1, <1>2, <1>3 DEF d, At, WithStatus

LEMMA PhraseMoves ==
    ASSUME NEW q, NEW n, NEW a, NEW b, NEW headers, NEW body, NEW state, NEW v
    PROVE  WithPhrase(At("response", q, n, a, b, headers, body), state, v)
              = At("response", state, n, a, v, headers, body)
<1> DEFINE d == ResponseAt(q, n, a, b, headers, body)
           e == ResponseAt(state, n, a, b, headers, body)
<1>1. [d EXCEPT !.state = state] = e
  BY DEF ResponseAt
<1>2. [e EXCEPT !.phrase = v] = ResponseAt(state, n, a, v, headers, body)
  BY DEF ResponseAt
<1> HIDE DEF d, e
<1>3. [d EXCEPT !.state = state, !.phrase = v] = [[d EXCEPT !.state = state] EXCEPT !.phrase = v]
  OBVIOUS
<1> QED
  BY <1>1, <1>2, <1>3 DEF d, At, WithPhrase

LEMMA Moves ==
    ASSUME NEW kind, NEW q, NEW n, NEW a, NEW b, NEW headers, NEW body, NEW state, NEW v
    PROVE  LET d == At(kind, q, n, a, b, headers, body)
           IN  /\ WithState(d, state) = At(kind, state, n, a, b, headers, body)
               /\ WithHeaders(d, v) = At(kind, q, n, a, b, v, body)
               /\ WithLength(d, state, v) = At(kind, state, v, a, b, headers, body)
               /\ WithBody(d, state, v) = At(kind, state, n, a, b, headers, v)
<1>1. CASE kind = "request"
  <2> DEFINE d == RequestAt(q, n, a, b, headers, body)
             e == RequestAt(state, n, a, b, headers, body)
  <2>1. [d EXCEPT !.state = state] = e
    BY DEF RequestAt
  <2>2. [e EXCEPT !.length = v] = RequestAt(state, v, a, b, headers, body)
    BY DEF RequestAt
  <2>3. [e EXCEPT !.body = v] = RequestAt(state, n, a, b, headers, v)
    BY DEF RequestAt
  <2>4. [d EXCEPT !.headers = v] = RequestAt(q, n, a, b, v, body)
    BY DEF RequestAt
  <2> HIDE DEF d, e
  <2>5. [d EXCEPT !.state = state, !.length = v] = [[d EXCEPT !.state = state] EXCEPT !.length = v]
    OBVIOUS
  <2>6. [d EXCEPT !.state = state, !.body = v] = [[d EXCEPT !.state = state] EXCEPT !.body = v]
    OBVIOUS
  <2>7. At(kind, q, n, a, b, headers, body) = d /\ At(kind, state, n, a, b, headers, body) = e
    BY <1>1 DEF At, d, e
  <2>8. WithState(d, state) = e
    BY <2>1 DEF WithState
  <2>9. WithLength(d, state, v) = RequestAt(state, v, a, b, headers, body)
    BY <2>1, <2>2, <2>5 DEF WithLength
  <2>10. WithBody(d, state, v) = RequestAt(state, n, a, b, headers, v)
    BY <2>1, <2>3, <2>6 DEF WithBody
  <2>11. WithHeaders(d, v) = RequestAt(q, n, a, b, v, body)
    BY <2>4 DEF WithHeaders
  <2> QED
    BY <1>1, <2>7, <2>8, <2>9, <2>10, <2>11 DEF At
<1>2. CASE kind # "request"
  <2> DEFINE d == ResponseAt(q, n, a, b, headers, body)
             e == ResponseAt(state, n, a, b, headers, body)
  <2>1. [d EXCEPT !.state = state] = e
    BY DEF ResponseAt
  <2>2. [e EXCEPT !.length = v] = ResponseAt(state, v, a, b, headers, body)
    BY DEF ResponseAt
  <2>3. [e EXCEPT !.body = v] = ResponseAt(state, n, a, b, headers, v)
    BY DEF ResponseAt
  <2>4. [d EXCEPT !.headers = v] = ResponseAt(q, n, a, b, v, body)
    BY DEF ResponseAt
  <2> HIDE DEF d, e
  <2>5. [d EXCEPT !.state = state, !.length = v] = [[d EXCEPT !.state = state] EXCEPT !.length = v]
    OBVIOUS
  <2>6. [d EXCEPT !.state = state, !.body = v] = [[d EXCEPT !.state = state] EXCEPT !.body = v]
    OBVIOUS
  <2>7. At(kind, q, n, a, b, headers, body) = d /\ At(kind, state, n, a, b, headers, body) = e
    BY <1>2 DEF At, d, e
  <2>8. WithState(d, state) = e
    BY <2>1 DEF WithState
  <2>9. WithLength(d, state, v) = ResponseAt(state, v, a, b, headers, body)
    BY <2>1, <2>2, <2>5 DEF WithLength
  <2>10. WithBody(d, state, v) = ResponseAt(state, n, a, b, headers, v)
    BY <2>1, <2>3, <2>6 DEF WithBody
  <2>11. WithHeaders(d, v) = ResponseAt(q, n, a, b, v, body)
    BY <2>4 DEF WithHeaders
  <2> QED
    BY <1>2, <2>7, <2>8, <2>9, <2>10, <2>11 DEF At
<1> QED
  BY <1>1, <1>2

LEMMA StateMoves ==
    ASSUME NEW kind, NEW q, NEW n, NEW a, NEW b, NEW headers, NEW body, NEW state
    PROVE  WithState(At(kind, q, n, a, b, headers, body), state)
              = At(kind, state, n, a, b, headers, body)
BY Moves

LEMMA HeadersMove ==
    ASSUME NEW kind, NEW q, NEW n, NEW a, NEW b, NEW headers, NEW body, NEW v
    PROVE  WithHeaders(At(kind, q, n, a, b, headers, body), v) = At(kind, q, n, a, b, v, body)
BY Moves

(* The bytes of a token.                                                   *)
LEMMA TokenBytes ==
    ASSUME NEW w \in Text, IsToken(w)
    PROVE  /\ Len(w) >= 1 /\ w # <<>>
           /\ \A k \in 1 .. Len(w) : w[k] \notin {SP, HT, CR, LF, ":", "/"}
<1>1. w # <<>> /\ \A k \in DOMAIN w : w[k] \notin NotTokenByte
  BY DEF IsToken
<1>2. DOMAIN w = 1 .. Len(w) /\ Len(w) \in Nat
  BY DEF Text
<1>3. {SP, HT, CR, LF, ":", "/"} \subseteq NotTokenByte
  BY DEF NotTokenByte
<1>4. Len(w) >= 1
  BY <1>1, <1>2 DEF Text
<1> HIDE DEF Text
<1> QED
  BY <1>1, <1>2, <1>3, <1>4

(* The method of a request.                                                *)
LEMMA MethodStage ==
    ASSUME NEW m, FitsRequest(m), NEW n \in Nat, NEW t, NEW y, Splits(t, m.method, Space, y)
    PROVE  Step("request", At("request", "Method", n, <<>>, <<>>, <<>>, <<>>), t)
              = Complete(At("request", "URI", n, m.method, <<>>, <<>>, <<>>), y)
<1> DEFINE d == At("request", "Method", n, <<>>, <<>>, <<>>, <<>>)
           w == m.method
<1>1. /\ w \in Text /\ Len(w) \in Nat /\ Len(w) <= MethodMaxLength /\ w # <<>> /\ w[1] # "$"
      /\ Fold(w) = w /\ IsToken(w)
  BY DEF FitsRequest, Text, IsToken
<1>2. \A k \in 1 .. Len(w) : w[k] # SP
  BY <1>1, TokenBytes
<1>3. Splits(t, w, Space, y)
  OBVIOUS
<1>4. /\ RequestConfig.method = MethodMaxLength /\ d.config = RequestConfig
      /\ d.state = "Method" /\ MethodMaxLength \in Nat
  BY DecodersAssumption DEF At, RequestAt, RequestConfig
<1>5. [d EXCEPT !.state = "URI", !.method = w] = At("request", "URI", n, w, <<>>, <<>>, <<>>)
  <2>1. WithMethod(d, "URI", w) = At("request", "URI", n, w, <<>>, <<>>, <<>>)
    BY MethodMoves
  <2> QED
    BY <2>1 DEF WithMethod
<1> HIDE DEF w, d
<1> DEFINE word == DecodeWord(t, d.config.method, "MethodTooLong")
<1>6. DecodeWord(t, MethodMaxLength, "MethodTooLong") = [tag |-> "Complete", length |-> Len(w)]
  BY <1>1, <1>2, <1>3, <1>4, WordIs
<1>7. SubSeq(t, 1, Len(w)) = w /\ SubSeq(t, Len(w) + 2, Len(t)) = y
  BY <1>1, <1>2, <1>3, <1>4, WordIs, SMTT(30)
<1>8. word.tag = "Complete" /\ word.length = Len(w)
  BY <1>4, <1>6
<1>9. MethodFromText(w) = [tag |-> "Extension", value |-> w]
  BY <1>1 DEF MethodFromText, MethodExtension, Word
<1> DEFINE method(v) == MethodFromText(SubSeq(t, 1, v.length))
           F(v) == IF v.tag # "Complete" THEN v
                   ELSE IF method(v).tag = "Err" THEN Failure("Method")
                   ELSE Complete([d EXCEPT !.state = "URI", !.method = method(v).value],
                                 SubSeq(t, v.length + 2, Len(t)))
<1>10. DecodeMethod(d, t) = F(word)
  BY DEF DecodeMethod, Once
<1> HIDE DEF word
<1>11. method(word) = [tag |-> "Extension", value |-> w]
  BY <1>7, <1>8, <1>9
<1>12. F(word) = Complete([d EXCEPT !.state = "URI", !.method = w], y)
  <2>1. method(word).tag # "Err" /\ method(word).value = w
    BY <1>11
  <2> HIDE DEF method
  <2> QED
    BY <1>7, <1>8, <2>1
<1>13. Step("request", d, t) = DecodeMethod(d, t)
  BY <1>4 DEF Step, RequestStep
<1> QED
  BY <1>5, <1>10, <1>12, <1>13 DEF d, w

(* The URI of a request.                                                   *)
LEMMA URIStage ==
    ASSUME NEW m, FitsRequest(m), NEW n \in Nat, NEW t, NEW y, Splits(t, m.uri, Space, y)
    PROVE  Step("request", At("request", "URI", n, m.method, <<>>, <<>>, <<>>), t)
              = Complete(At("request", "Version", n, m.method, m.uri, <<>>, <<>>), y)
<1> DEFINE d == At("request", "URI", n, m.method, <<>>, <<>>, <<>>)
           w == m.uri
<1>1. /\ w \in Text /\ Len(w) \in Nat /\ Len(w) <= URIMaxLength /\ IsURIText(w)
  BY DEF FitsRequest, Text
<1>2. \A k \in 1 .. Len(w) : w[k] # SP
  BY <1>1 DEF IsURIText, Text, SP
<1>3. Splits(t, w, Space, y)
  OBVIOUS
<1>4. /\ RequestConfig.uri = URIMaxLength /\ d.config = RequestConfig
      /\ d.state = "URI" /\ URIMaxLength \in Nat
  BY DecodersAssumption DEF At, RequestAt, RequestConfig
<1>5. [d EXCEPT !.state = "Version", !.uri = w]
         = At("request", "Version", n, m.method, w, <<>>, <<>>)
  <2>1. WithURI(d, "Version", w) = At("request", "Version", n, m.method, w, <<>>, <<>>)
    BY URIMoves
  <2> QED
    BY <2>1 DEF WithURI
<1> HIDE DEF w, d
<1> DEFINE word == DecodeWord(t, d.config.uri, "URITooLong")
<1>6. DecodeWord(t, URIMaxLength, "URITooLong") = [tag |-> "Complete", length |-> Len(w)]
  BY <1>1, <1>2, <1>3, <1>4, WordIs
<1>7. SubSeq(t, 1, Len(w)) = w /\ SubSeq(t, Len(w) + 2, Len(t)) = y
  BY <1>1, <1>2, <1>3, <1>4, WordIs, SMTT(30)
<1>8. word.tag = "Complete" /\ word.length = Len(w)
  BY <1>4, <1>6
<1> DEFINE uri(v) == SubSeq(t, 1, v.length)
           F(v) == IF v.tag # "Complete" THEN v
                   ELSE IF ~IsURIText(uri(v)) THEN Failure("URI")
                   ELSE Complete([d EXCEPT !.state = "Version", !.uri = uri(v)],
                                 SubSeq(t, v.length + 2, Len(t)))
<1>10. DecodeURI(d, t) = F(word)
  BY DEF DecodeURI, Once
<1> HIDE DEF word
<1>11. uri(word) = w
  BY <1>7, <1>8
<1>12. F(word) = Complete([d EXCEPT !.state = "Version", !.uri = w], y)
  BY <1>1, <1>7, <1>8, <1>11
<1>13. Step("request", d, t) = DecodeURI(d, t)
  BY <1>4 DEF Step, RequestStep
<1> QED
  BY <1>5, <1>10, <1>12, <1>13 DEF d, w

-----------------------------------------------------------------------------
(* The version and the body.                                               *)

(* What is between the word and the rest of a text.                        *)
LEMMA MiddlePart ==
    ASSUME NEW t, NEW w, NEW s, NEW y, Splits(t, w, s, y)
    PROVE  SubSeq(t, Len(w) + 1, Len(w) + Len(s)) = s
<1> DEFINE n == Len(w)
           l == Len(s)
           u == SubSeq(t, n + 1, n + l)
<1>1. n \in Nat /\ l \in Nat /\ Len(t) \in Nat /\ n + l <= Len(t) /\ s \in Text /\ t \in Text
  BY SplitLengths DEF Splits
<1>2. l = Len(s) /\ \A k \in 1 .. l : t[n + k] = s[k]
  BY DEF Splits
<1> HIDE DEF n, l
<1>3. u \in Text
  BY <1>1 DEF Text
<1>4. Len(u) = l
  BY <1>1 DEF Text
<1>5. ASSUME NEW k \in 1 .. l PROVE u[k] = s[k]
  <2>1. k \in 1 .. (n + l) - (n + 1) + 1
    BY <1>1
  <2>2. u[k] = t[n + 1 + k - 1]
    BY <1>1, <2>1 DEF Text
  <2>3. n + 1 + k - 1 = n + k
    BY <1>1
  <2> QED
    BY <1>2, <2>2, <2>3
<1> HIDE DEF u
<1>6. u = s
  BY <1>1, <1>2, <1>3, <1>4, <1>5 DEF Text
<1>7. SubSeq(t, n + 1, n + l) = s
  BY <1>6 DEF u
<1> QED
  BY <1>7, Zenon DEF n, l

(* The version that the encoders write is the one that is supported.       *)
LEMMA VersionIs == VersionTryDecode(Rtsp20) = Ok("Rtsp2_0")
<1> DEFINE u == SubSeq(Rtsp20, 1, 5)
<1>1. Rtsp20 \in Text /\ Len(Rtsp20) = 8
  BY Separators
<1>2. /\ Rtsp20[1] = "R" /\ Rtsp20[2] = "T" /\ Rtsp20[3] = "S" /\ Rtsp20[4] = "P"
      /\ Rtsp20[5] = "/" /\ Rtsp20[6] = "2" /\ Rtsp20[7] = "." /\ Rtsp20[8] = "0"
  BY DEF Rtsp20
<1>3. u \in Text /\ Len(u) = 5
  BY <1>1, SMTT(30) DEF Text
<1>4. \A k \in 1 .. 5 : u[k] = Rtsp20[k]
  BY <1>1 DEF Text
<1> HIDE DEF u
<1>5. \A k \in 1 .. 5 : u[k] \in {"R", "T", "S", "P", "/"}
  BY <1>2, <1>4
<1>6. DOMAIN u = 1 .. 5
  BY <1>3 DEF Text
<1>7. ToUpper(u) = u
  <2>1. \A k \in DOMAIN u : u[k] \notin DOMAIN Upper
    BY <1>5, <1>6 DEF Upper
  <2>2. ToUpper(u) = [i \in DOMAIN u |-> u[i]]
    BY <2>1 DEF ToUpper
  <2>3. u = [i \in DOMAIN u |-> u[i]]
    BY <1>3 DEF Text
  <2> QED
    BY <2>2, <2>3
<1>8. IsDigit("2") /\ IsDigit("0")
  BY DEF IsDigit, Digit
<1>9. <<Rtsp20[6], Rtsp20[8]>> # <<"1", "0">> /\ <<Rtsp20[6], Rtsp20[8]>> = <<"2", "0">>
  BY <1>2
<1> QED
  BY <1>1, <1>2, <1>7, <1>8, <1>9 DEF VersionTryDecode, u

(* The version, in front of a space or a line break.                       *)
LEMMA VersionReads ==
    ASSUME NEW d, NEW t, NEW s, NEW y, Splits(t, Rtsp20, s, y), NEW next
    PROVE  DecodeVersion(d, t, s, next) = Complete(WithState(d, next), y)
<1> DEFINE size == 8 + Len(s)
           version == VersionTryDecode(SubSeq(t, 1, 8))
<1>1. Len(Rtsp20) = 8
  BY Separators
<1>2. Len(t) \in Nat /\ Len(s) \in Nat /\ Len(y) \in Nat /\ Len(t) = 8 + Len(s) + Len(y)
  BY <1>1, SplitLengths DEF Splits
<1>3. SubSeq(t, 1, 8) = Rtsp20 /\ SubSeq(t, size + 1, Len(t)) = y
  <2>1. SubSeq(t, 1, Len(Rtsp20)) = Rtsp20 /\ SubSeq(t, Len(Rtsp20) + Len(s) + 1, Len(t)) = y
    BY DEF Splits
  <2> QED
    BY <1>1, <2>1
<1>4. SubSeq(t, 9, size) = s
  <2>1. SubSeq(t, Len(Rtsp20) + 1, Len(Rtsp20) + Len(s)) = s
    BY MiddlePart
  <2>2. 8 + 1 = 9
    OBVIOUS
  <2> QED
    BY <1>1, <2>1, <2>2
<1>5. IsOk(version) /\ version.value = "Rtsp2_0"
  <2>1. version = Ok("Rtsp2_0")
    BY <1>3, VersionIs, Zenon
  <2> QED
    BY <2>1 DEF IsOk, Ok
<1>6. ~(Len(t) < size)
  BY <1>2
<1>7. DecodeVersion(d, t, s, next) =
         IF Len(t) < size THEN Incomplete
         ELSE IF SubSeq(t, 9, size) # s THEN Failure("Version")
         ELSE IF ~IsOk(version) THEN Failure("Version")
         ELSE IF version.value # "Rtsp2_0" THEN Failure("UnsupportedVersion")
         ELSE Complete([d EXCEPT !.state = next], SubSeq(t, size + 1, Len(t)))
  BY DEF DecodeVersion
<1> HIDE DEF version, size
<1> QED
  BY <1>3, <1>4, <1>5, <1>6, <1>7 DEF WithState

(* decode_version of a request and of a response, on RTSP/2.0.             *)
LEMMA RequestVersionStage ==
    ASSUME NEW n \in Nat, NEW a, NEW b, NEW t, NEW y, Splits(t, Rtsp20, LineBreak, y)
    PROVE  Step("request", At("request", "Version", n, a, b, <<>>, <<>>), t)
              = Complete(At("request", "Header", n, a, b, <<>>, <<>>), y)
<1> DEFINE d == At("request", "Version", n, a, b, <<>>, <<>>)
<1>1. d.state = "Version"
  BY DEF At, RequestAt
<1>2. WithState(d, "Header") = At("request", "Header", n, a, b, <<>>, <<>>)
  BY StateMoves
<1> HIDE DEF d
<1>3. Step("request", d, t) = DecodeVersion(d, t, LineBreak, "Header")
  BY <1>1 DEF Step, RequestStep, RequestDecodeVersion, LineBreak
<1> QED
  BY <1>2, <1>3, VersionReads DEF d

LEMMA ResponseVersionStage ==
    ASSUME NEW n \in Nat, NEW a, NEW b, NEW t, NEW y, Splits(t, Rtsp20, Space, y)
    PROVE  Step("response", At("response", "Version", n, a, b, <<>>, <<>>), t)
              = Complete(At("response", "StatusCode", n, a, b, <<>>, <<>>), y)
<1> DEFINE d == At("response", "Version", n, a, b, <<>>, <<>>)
<1>1. d.state = "Version"
  BY DEF At, ResponseAt
<1>2. WithState(d, "StatusCode") = At("response", "StatusCode", n, a, b, <<>>, <<>>)
  BY StateMoves
<1> HIDE DEF d
<1>3. Step("response", d, t) = DecodeVersion(d, t, Space, "StatusCode")
  BY <1>1 DEF Step, ResponseStep, ResponseDecodeVersion, Space
<1> QED
  BY <1>2, <1>3, VersionReads DEF d

(* The body, whose length the decoder knows.                               *)
LEMMA BodyStage ==
    ASSUME NEW kind \in Kinds, NEW a, NEW b, NEW headers, NEW body \in Text, NEW y \in Text
    PROVE  Step(kind, At(kind, "Body", Len(body), a, b, headers, <<>>), body \o y)
              = Complete(At(kind, "End", Len(body), a, b, headers, body), y)
<1> DEFINE d == At(kind, "Body", Len(body), a, b, headers, <<>>)
           t == body \o y
<1>1. d.state = "Body" /\ d.length = Len(body)
  BY DEF At, RequestAt, ResponseAt
<1>2. WithBody(d, "End", body) = At(kind, "End", Len(body), a, b, headers, body)
  BY Moves
<1>3. Len(t) = Len(body) + Len(y) /\ Len(body) \in Nat /\ Len(y) \in Nat
  BY DEF Text
<1>4. SubSeq(t, 1, Len(body)) = body
  BY FrontPart
<1>5. SubSeq(t, Len(body) + 1, Len(t)) = y
  BY BackPart
<1> HIDE DEF d, t
<1>6. Step(kind, d, t) = DecodeBody(d, t)
  BY <1>1 DEF Step, RequestStep, ResponseStep, ResponseDecodeBody, Kinds
<1>7. DecodeBody(d, t) = Complete([d EXCEPT !.state = "End", !.body = body], y)
  <2> DEFINE front == SubSeq(t, 1, d.length)
             back == SubSeq(t, d.length + 1, Len(t))
  <2>1. front = body /\ back = y
    BY <1>1, <1>4, <1>5, Zenon
  <2>2. DecodeBody(d, t) = IF d.length > Len(t) THEN Incomplete
                           ELSE Complete([d EXCEPT !.state = "End", !.body = front], back)
    BY DEF DecodeBody
  <2> HIDE DEF front, back
  <2>3. ~(d.length > Len(t))
    BY <1>1, <1>3
  <2> QED
    BY <2>1, <2>2, <2>3
<1> QED
  BY <1>2, <1>6, <1>7 DEF d, t, WithBody

-----------------------------------------------------------------------------
(* The reason phrase.                                                      *)

(* What a reason phrase may be.                                            *)
LEMMA PhraseBytes ==
    ASSUME NEW w \in Text, IsOk(ReasonPhraseTryFrom(w))
    PROVE  ReasonPhraseTryFrom(w) = Ok(w) /\ \A k \in 1 .. Len(w) : w[k] # CR
<1>1. DOMAIN w = 1 .. Len(w)
  BY DEF Text
<1>2. Err("InvalidUTF8").tag = "Err" /\ Err("Empty").tag = "Err" /\ Err("InvalidASCII").tag = "Err"
  BY DEF Err
<1>3. /\ ~(\E i \in DOMAIN w : w[i] = NUTF) /\ w # <<>>
      /\ ~(\E i \in DOMAIN w : w[i] \in {CR, LF, CTL})
  BY <1>2 DEF ReasonPhraseTryFrom, IsOk
<1>4. ReasonPhraseTryFrom(w) = Ok(w)
  BY <1>3 DEF ReasonPhraseTryFrom
<1> QED
  BY <1>1, <1>3, <1>4

(* The line break after a word without line breaks is the first one of any *)
(* text that agrees with it that far.                                      *)
LEMMA LineBreakIsFirst ==
    ASSUME NEW t \in Text, NEW w \in Text, NEW n \in Nat, n <= Len(t) - 1, Len(w) + 1 <= n,
           \A k \in 1 .. Len(w) : t[k] = w[k], \A k \in 1 .. Len(w) : w[k] # CR,
           t[Len(w) + 1] = CR, t[Len(w) + 2] = LF
    PROVE  First({k \in 1 .. n : CRLFAt(t, k)}) = Len(w) + 1
<1> DEFINE A == {k \in 1 .. n : CRLFAt(t, k)}
           p == Len(w) + 1
<1>1. Len(w) \in Nat /\ Len(t) \in Nat
  BY DEF Text
<1>2. p \in A
  BY <1>1 DEF CRLFAt
<1>3. ASSUME NEW j \in A PROVE p <= j
  <2>1. j \in Nat /\ j >= 1 /\ t[j] = CR
    BY DEF CRLFAt
  <2> QED
    BY <1>1, <2>1
<1>4. n \in Int /\ A \in SUBSET (1 .. n)
  OBVIOUS
<1> HIDE DEF A, p
<1>5. First(A) = p
  BY <1>2, <1>3, <1>4, FirstIs
<1> QED
  BY <1>5 DEF A, p

(* The reason phrase of a response.                                        *)
LEMMA ReasonPhraseStage ==
    ASSUME NEW n \in Nat, NEW a, NEW w \in Text, IsOk(ReasonPhraseTryFrom(w)),
           Len(w) <= ReasonPhraseMaxLength, NEW t, NEW y, Splits(t, w, LineBreak, y)
    PROVE  LET d == At("response", "ReasonPhrase", n, a, <<>>, <<>>, <<>>)
           IN  /\ Step("response", d, t)
                     = Complete(At("response", "Header", n, a, w, <<>>, <<>>), y)
               /\ NoCut("response", d, t)
<1> DEFINE d == At("response", "ReasonPhrase", n, a, <<>>, <<>>, <<>>)
           max == ReasonPhraseMaxLength + 2
<1>1. /\ ResponseConfig.phrase = ReasonPhraseMaxLength /\ d.config = ResponseConfig
      /\ d.state = "ReasonPhrase" /\ ReasonPhraseMaxLength \in Nat
  BY DecodersAssumption DEF At, ResponseAt, ResponseConfig
<1>2. [d EXCEPT !.state = "Header", !.phrase = w] = At("response", "Header", n, a, w, <<>>, <<>>)
  <2>1. WithPhrase(d, "Header", w) = At("response", "Header", n, a, w, <<>>, <<>>)
    BY PhraseMoves
  <2> QED
    BY <2>1 DEF WithPhrase
<1>3. /\ t \in Text /\ Len(w) \in Nat /\ Len(y) \in Nat /\ Len(t) = Len(w) + 2 + Len(y)
      /\ \A k \in 1 .. Len(w) : t[k] = w[k]
      /\ t[Len(w) + 1] = CR /\ t[Len(w) + 2] = LF
  BY SeparatorsAre, SplitLengths DEF Splits
<1>4. SubSeq(t, 1, Len(w)) = w /\ SubSeq(t, Len(w) + 3, Len(t)) = y
  <2>1. SubSeq(t, Len(w) + Len(LineBreak) + 1, Len(t)) = y /\ SubSeq(t, 1, Len(w)) = w
    BY DEF Splits
  <2>2. Len(w) + Len(LineBreak) + 1 = Len(w) + 3
    BY <1>3, SeparatorsAre
  <2> QED
    BY <2>1, <2>2
<1>5. ReasonPhraseTryFrom(w) = Ok(w) /\ \A k \in 1 .. Len(w) : w[k] # CR
  BY PhraseBytes
<1> HIDE DEF d
<1> DEFINE end(b) == First({k \in 1 .. Shorter(max, Len(b) - 1) : CRLFAt(b, k)})
           phrase(b) == ReasonPhraseTryFrom(SubSeq(b, 1, end(b) - 1))
<1>6. ASSUME NEW b PROVE Step("response", d, b) =
         IF end(b) = 0 THEN IF Len(b) >= max THEN Failure("ReasonPhraseTooLong") ELSE Incomplete
         ELSE IF ~IsOk(phrase(b)) THEN Failure("ReasonPhrase")
         ELSE Complete([d EXCEPT !.state = "Header", !.phrase = phrase(b).value],
                       SubSeq(b, end(b) + 2, Len(b)))
  BY <1>1 DEF Step, ResponseStep, DecodeReasonPhrase
<1>7. end(t) = Len(w) + 1
  <2> DEFINE l == Shorter(max, Len(t) - 1)
  <2>1. l \in Nat /\ l <= Len(t) - 1 /\ Len(w) + 1 <= l
    BY <1>1, <1>3 DEF Shorter
  <2> HIDE DEF l
  <2>2. First({k \in 1 .. l : CRLFAt(t, k)}) = Len(w) + 1
    BY <1>3, <1>5, <2>1, LineBreakIsFirst
  <2> QED
    BY <2>2 DEF l
<1>8. NoCut("response", d, t)
  <2> SUFFICES ASSUME NEW b \in Text, NEW x \in Text, b \o x = t, NEW e,
                      Step("response", d, b) = Failure(e)
               PROVE  ~Cut(e, b)
    BY DEF NoCut
  <2>1. SUFFICES e \notin {"HeaderValueTooLong", "ReasonPhraseTooLong"}
    BY DEF Cut
  <2>2. Len(b) \in Nat /\ Len(b) <= Len(t) /\ \A k \in 1 .. Len(b) : b[k] = t[k]
    BY DEF Text
  <2>3. CASE end(b) = 0 /\ Len(b) >= max
    <3>1. /\ Len(w) + 2 <= Len(b) /\ b[Len(w) + 1] = CR /\ b[Len(w) + 2] = LF
          /\ \A k \in 1 .. Len(w) : b[k] = w[k]
      BY <1>1, <1>3, <2>2, <2>3
    <3> DEFINE l == Shorter(max, Len(b) - 1)
    <3>2. l \in Nat /\ l <= Len(b) - 1 /\ Len(w) + 1 <= l
      BY <1>1, <1>3, <2>2, <3>1 DEF Shorter
    <3> HIDE DEF l
    <3>3. First({k \in 1 .. l : CRLFAt(b, k)}) = Len(w) + 1
      BY <1>3, <1>5, <3>1, <3>2, LineBreakIsFirst
    <3>4. end(b) = Len(w) + 1
      BY <3>3 DEF l
    <3> HIDE DEF end
    <3> QED
      BY <1>3, <2>3, <3>4
  <2>4. CASE ~(end(b) = 0 /\ Len(b) >= max)
    <3> HIDE DEF end, phrase, max
    <3>1. \/ Step("response", d, b) = Incomplete
          \/ Step("response", d, b) = Failure("ReasonPhrase")
          \/ Step("response", d, b) = Complete([d EXCEPT !.state = "Header", !.phrase = phrase(b).value],
                       SubSeq(b, end(b) + 2, Len(b)))
      BY <1>6, <2>4
    <3>2. Step("response", d, b).tag = "Error" /\ Step("response", d, b).error = e
      BY DEF Failure
    <3> DEFINE s == Step("response", d, b)
    <3>3. s.tag = "Error" /\ s.error = e /\ (s.tag = "Error" => s.error = "ReasonPhrase")
      BY <3>1, <3>2 DEF Failure, Incomplete, Complete
    <3> QED
      BY <3>3
  <2> QED
    BY <2>3, <2>4
<1>9. Step("response", d, t) = Complete([d EXCEPT !.state = "Header", !.phrase = w], y)
  <2> DEFINE q == phrase(t)
             rest == SubSeq(t, end(t) + 2, Len(t))
             f == end(t)
  <2>1. f = Len(w) + 1 /\ f # 0 /\ f - 1 = Len(w) /\ f + 2 = Len(w) + 3
    BY <1>3, <1>7
  <2>2. q = Ok(w)
    <3> HIDE DEF end
    <3> QED
      BY <1>4, <1>5, <2>1, Zenon DEF f
  <2>3. rest = y
    <3> HIDE DEF end
    <3> QED
      BY <1>4, <2>1, Zenon DEF f
  <2>4. IsOk(q) /\ q.value = w
    BY <2>2 DEF IsOk, Ok
  <2>5. Step("response", d, t) =
         IF f = 0 THEN IF Len(t) >= max THEN Failure("ReasonPhraseTooLong") ELSE Incomplete
         ELSE IF ~IsOk(q) THEN Failure("ReasonPhrase")
         ELSE Complete([d EXCEPT !.state = "Header", !.phrase = q.value], rest)
    BY <1>6
  <2> HIDE DEF f, q, rest
  <2> QED
    BY <2>1, <2>3, <2>4, <2>5
<1> QED
  BY <1>2, <1>8, <1>9 DEF d

-----------------------------------------------------------------------------
(* Header names and values.                                                *)

(* Where a value is refused as too long: after the colon of a header line. *)
LEMMA HeaderTooLong ==
    ASSUME NEW kind \in Kinds, NEW d, d.state = "Header", NEW buf, NEW e,
           e \in {"HeaderValueTooLong", "ReasonPhraseTooLong"}, Step(kind, d, buf) = Failure(e)
    PROVE  /\ ~CRLFAt(buf, 1) /\ DecodeHeaderName(d, buf).tag = "Complete"
           /\ LET rest == SubSeq(buf, DecodeHeaderName(d, buf).length + 2, Len(buf))
              IN  DecodeHeaderValue(d, rest) = Failure("HeaderValueTooLong")
<1> DEFINE step == Step(kind, d, buf)
           name == DecodeHeaderName(d, buf)
           rest == SubSeq(buf, name.length + 2, Len(buf))
           value == DecodeHeaderValue(d, rest)
           added == AddHeader(d, TrimHeaderName(SubSeq(buf, 1, name.length)),
                              TrimHeaderValue(SubSeq(rest, 1, value.length)),
                              SubSeq(rest, value.length + 3, Len(rest)))
<1>1. step = DecodeHeader(d, buf)
  BY DEF Step, RequestStep, ResponseStep, ResponseDecodeHeader, Kinds
<1>2. step.tag = "Error" /\ step.error = e
  BY DEF Failure
<1>3. DecodeHeader(d, buf) = IF CRLFAt(buf, 1) THEN DecodeBlankLine(d, buf)
         ELSE IF name.tag # "Complete" THEN name
         ELSE IF Len(d.headers) >= d.config.count THEN Failure("TooManyHeaders")
         ELSE IF value.tag # "Complete" THEN value ELSE added
  <2> DEFINE front == SubSeq(buf, 1, name.length)
             G(v) == IF v.tag # "Complete" THEN v
                     ELSE AddHeader(d, TrimHeaderName(front),
                                    TrimHeaderValue(SubSeq(rest, 1, v.length)),
                                    SubSeq(rest, v.length + 3, Len(rest)))
             N(w) == IF w.tag # "Complete" THEN w
                     ELSE IF Len(d.headers) >= d.config.count THEN Failure("TooManyHeaders")
                     ELSE DecodeHeaderLine(d, SubSeq(buf, 1, w.length),
                                           SubSeq(buf, w.length + 2, Len(buf)))
  <2>1. DecodeHeaderLine(d, front, rest) = G(value)
    <3> HIDE DEF front, rest
    <3> QED
      BY DEF DecodeHeaderLine, Once
  <2>2. DecodeHeader(d, buf) = IF CRLFAt(buf, 1) THEN DecodeBlankLine(d, buf) ELSE N(name)
    <3> HIDE DEF name
    <3> QED
      BY DEF DecodeHeader, Once, name
  <2> QED
    BY <2>1, <2>2
<1>4. DecodeBlankLine(d, buf).tag = "Error" =>
         DecodeBlankLine(d, buf).error \in {"InvalidContentLength", "BodyTooLong"}
  BY DEF DecodeBlankLine, Complete, Failure
<1>5. name.tag = "Error" => name.error = "HeaderNameTooLong"
  BY DEF DecodeHeaderName, Failure, Incomplete
<1>6. added.tag = "Error" => added.error \in {"HeaderName", "HeaderValue"}
  BY DEF AddHeader, Failure, Complete
<1>7. value.tag = "Error" => value = Failure("HeaderValueTooLong")
  <2>1. \/ value.tag = "Complete" \/ value = Incomplete \/ value = Failure("HeaderValueTooLong")
    <3> DEFINE max == d.config.value + 1
               end == First({k \in 1 .. Shorter(max, Len(rest) - 1) :
                   CRLFAt(rest, k) /\ ~(k + 2 <= Len(rest) /\ rest[k + 2] \in Blank)})
    <3>1. value = CASE end > 0 /\ end + 2 <= Len(rest) -> [tag |-> "Complete", length |-> end - 1]
             [] end > 0 /\ end + 2 > Len(rest) -> Incomplete
             [] end = 0 /\ Len(rest) >= max -> Failure("HeaderValueTooLong")
             [] OTHER -> Incomplete
      <4> HIDE DEF rest
      <4> QED
        BY DEF DecodeHeaderValue
    <3> HIDE DEF value, end, rest, max
    <3> QED
      BY <3>1
  <2> HIDE DEF value
  <2> QED
    BY <2>1 DEF Incomplete
<1>8. Failure("TooManyHeaders").error = "TooManyHeaders"
  BY DEF Failure
<1> HIDE DEF step, name, rest, value, added
<1>9. ~CRLFAt(buf, 1) /\ name.tag = "Complete" /\ value.tag = "Error"
  BY <1>1, <1>2, <1>3, <1>4, <1>5, <1>6, <1>8
<1> QED
  BY <1>7, <1>9 DEF name, rest, value

(* A folded value ends at the line break that no blank follows, in any     *)
(* text that agrees with it that far.                                      *)
ValueEnds(b, n) == {k \in 1 .. n : CRLFAt(b, k) /\ ~(k + 2 <= Len(b) /\ b[k + 2] \in Blank)}

(* The first line break that no blank follows ends the value.              *)
LEMMA ValueEndIsFirst ==
    ASSUME NEW b \in Text, NEW v \in Text, Folded(v), NEW n \in Nat,
           n <= Len(b) - 1, Len(v) + 1 <= n, \A k \in 1 .. Len(v) : b[k] = v[k],
           b[Len(v) + 1] = CR, b[Len(v) + 2] = LF,
           Len(v) + 3 <= Len(b) => b[Len(v) + 3] \notin Blank
    PROVE  First(ValueEnds(b, n)) = Len(v) + 1
<1> DEFINE A == ValueEnds(b, n)
           p == Len(v) + 1
<1>1. Len(v) \in Nat /\ Len(b) \in Nat /\ DOMAIN v = 1 .. Len(v)
  BY DEF Text
<1>2. p \in A
  <2>1. p + 2 = Len(v) + 3 /\ p + 1 = Len(v) + 2 /\ p \in 1 .. n
    BY <1>1
  <2>2. CRLFAt(b, p)
    BY <1>1, <2>1 DEF CRLFAt
  <2> QED
    BY <2>1, <2>2 DEF ValueEnds
<1>3. ASSUME NEW j \in A, j < p PROVE FALSE
  <2>1. j \in 1 .. n /\ b[j] = CR /\ ~(j + 2 <= Len(b) /\ b[j + 2] \in Blank)
    BY DEF CRLFAt, ValueEnds
  <2>2. j \in 1 .. Len(v) /\ v[j] = CR
    BY <1>1, <1>3, <2>1
  <2>3. j + 2 <= Len(v) /\ v[j + 2] \in Blank
    BY <1>1, <2>2 DEF Folded
  <2>4. j + 2 \in 1 .. Len(v) /\ j + 2 <= Len(b)
    BY <1>1, <2>2, <2>3
  <2> QED
    BY <2>1, <2>3, <2>4
<1>4. n \in Int /\ A \in SUBSET (1 .. n) /\ p \in Int
  BY <1>1 DEF ValueEnds
<1> HIDE DEF A, p
<1>5. \A j \in A : p <= j
  BY <1>3, <1>4
<1>6. First(A) = p
  BY <1>2, <1>4, <1>5, FirstIs
<1> QED
  BY <1>6 DEF A, p

(* The colon after a name without colons.                                  *)
Colon == <<":">>

(* The colon is a text of one byte.                                        *)
LEMMA ColonIs == Colon \in Text /\ Len(Colon) = 1 /\ Colon[1] = ":"
BY Separators, OneByte DEF Colon

(* decode_header_name finds the name before the colon.                     *)
LEMMA NameIs ==
    ASSUME NEW t, NEW w, NEW r, Splits(t, w, Colon, r), IsToken(w), Len(w) <= HeaderNameMaxLength,
           NEW d, d.config.name = HeaderNameMaxLength
    PROVE  /\ DecodeHeaderName(d, t) = [tag |-> "Complete", length |-> Len(w)]
           /\ SubSeq(t, 1, Len(w)) = w /\ SubSeq(t, Len(w) + 2, Len(t)) = r
           /\ ~CRLFAt(t, 1)
<1> DEFINE max == HeaderNameMaxLength + 1
           A == {k \in 1 .. Shorter(max, Len(t)) : t[k] = ":"}
<1>0. HeaderNameMaxLength \in Nat
  BY DecodersAssumption
<1>1. Len(Colon) = 1 /\ Colon[1] = ":"
  BY ColonIs
<1>2. /\ t \in Text /\ Len(w) \in Nat /\ Len(r) \in Nat
      /\ Len(t) = Len(w) + 1 + Len(r)
      /\ \A k \in 1 .. Len(w) : t[k] = w[k]
      /\ t[Len(w) + 1] = ":" /\ w \in Text
  BY <1>1, SplitLengths DEF Splits
<1>3. SubSeq(t, Len(w) + 2, Len(t)) = r /\ SubSeq(t, 1, Len(w)) = w
  <2>1. SubSeq(t, Len(w) + Len(Colon) + 1, Len(t)) = r /\ SubSeq(t, 1, Len(w)) = w
    BY DEF Splits
  <2>2. Len(w) + Len(Colon) + 1 = Len(w) + 2
    BY <1>1, <1>2
  <2> QED
    BY <2>1, <2>2
<1>4. Len(w) >= 1 /\ \A k \in 1 .. Len(w) : w[k] # ":" /\ w[k] # CR
  BY <1>2, TokenBytes
<1>5. Shorter(max, Len(t)) \in Nat /\ Len(w) + 1 <= Shorter(max, Len(t))
  BY <1>0, <1>2 DEF Shorter
<1>6. First(A) = Len(w) + 1
  <2>1. Len(w) + 1 \in A
    BY <1>2, <1>5
  <2>2. ASSUME NEW j \in A PROVE Len(w) + 1 <= j
    <3>1. j \in Nat /\ j >= 1 /\ t[j] = ":"
      BY <1>5
    <3>2. CASE j <= Len(w)
      <4>1. j \in 1 .. Len(w)
        BY <1>2, <3>1, <3>2
      <4> QED
        BY <1>2, <1>4, <3>1, <4>1
    <3> QED
      BY <1>2, <3>1, <3>2
  <2> DEFINE k == Len(w) + 1
             n == Shorter(max, Len(t))
  <2>3. n \in Int /\ A \in SUBSET (1 .. n) /\ k \in A /\ \A j \in A : k <= j
    BY <1>5, <2>1, <2>2
  <2> HIDE DEF A, k, n
  <2>4. First(A) = k
    BY <2>3, FirstIs
  <2> QED
    BY <2>4 DEF k
<1>7. DecodeHeaderName(d, t) = [tag |-> "Complete", length |-> Len(w)]
  <2> DEFINE f == First(A)
  <2>1. f = Len(w) + 1 /\ f > 0 /\ f - 1 = Len(w)
    BY <1>2, <1>6
  <2>2. DecodeHeaderName(d, t) = IF f > 0 THEN [tag |-> "Complete", length |-> f - 1]
        ELSE IF Len(t) >= max THEN Failure("HeaderNameTooLong") ELSE Incomplete
    BY DEF DecodeHeaderName
  <2> HIDE DEF f
  <2> QED
    BY <2>1, <2>2
<1>8. ~CRLFAt(t, 1)
  BY <1>2, <1>4 DEF CRLFAt
<1> QED
  BY <1>3, <1>7, <1>8

(* The same name is found in a beginning of the text, if one is.           *)
LEMMA NameInPart ==
    ASSUME NEW t, NEW w, NEW r, Splits(t, w, Colon, r), IsToken(w),
           NEW d, d.config.name = HeaderNameMaxLength, NEW b \in Text, NEW x \in Text, b \o x = t,
           DecodeHeaderName(d, b).tag = "Complete"
    PROVE  DecodeHeaderName(d, b).length = Len(w) /\ Len(w) + 1 <= Len(b)
<1> DEFINE n == Shorter(HeaderNameMaxLength + 1, Len(b))
           A == {k \in 1 .. n : b[k] = ":"}
           f == First(A)
<1>0. HeaderNameMaxLength \in Nat
  BY DecodersAssumption
<1>1. /\ t \in Text /\ Len(w) \in Nat /\ Len(r) \in Nat
      /\ Len(t) = Len(w) + 1 + Len(r)
      /\ \A k \in 1 .. Len(w) : t[k] = w[k]
      /\ t[Len(w) + 1] = ":" /\ w \in Text
  BY ColonIs, SplitLengths DEF Splits
<1>2. \A k \in 1 .. Len(w) : w[k] # ":"
  BY <1>1, TokenBytes
<1>3. Len(b) \in Nat /\ Len(b) <= Len(t) /\ \A k \in 1 .. Len(b) : b[k] = t[k]
  BY DEF Text
<1>4. n \in Nat /\ n <= Len(b)
  BY <1>0, <1>3 DEF Shorter
<1>5. DecodeHeaderName(d, b) = IF f > 0 THEN [tag |-> "Complete", length |-> f - 1]
        ELSE IF Len(b) >= HeaderNameMaxLength + 1 THEN Failure("HeaderNameTooLong")
        ELSE Incomplete
  BY DEF DecodeHeaderName
<1>6. Failure("HeaderNameTooLong").tag = "Error" /\ Incomplete.tag = "Incomplete"
  BY DEF Failure, Incomplete
<1> HIDE DEF n, f
<1>7. f > 0 /\ DecodeHeaderName(d, b).length = f - 1
  BY <1>5, <1>6
<1>8. A \in SUBSET (1 .. n)
  OBVIOUS
<1> HIDE DEF A
<1>9. f \in A /\ \A j \in A : f <= j
  <2>1. f = First(A) /\ n \in Int
    BY <1>4 DEF f
  <2>2. A # {}
    BY <1>7, <2>1 DEF First
  <2> QED
    BY <1>8, <2>1, <2>2, FirstIsLeast
<1>10. f \in 1 .. Len(b) /\ t[f] = ":"
  BY <1>3, <1>4, <1>9 DEF A
<1>11. f >= Len(w) + 1
  BY <1>1, <1>2, <1>10
<1>12. Len(w) + 1 \in A
  BY <1>1, <1>3, <1>4, <1>9, <1>10, <1>11 DEF A
<1>13. f = Len(w) + 1
  BY <1>1, <1>9, <1>10, <1>11, <1>12
<1> QED
  BY <1>1, <1>7, <1>10, <1>13

-----------------------------------------------------------------------------
(* Names and values as the encoder writes them.                            *)

(* What is trimmed off a name and a value that the encoder wrote.          *)
LEMMA TrimmedName ==
    ASSUME NEW w \in Text, IsToken(w)
    PROVE  TrimHeaderName(w) = w
<1> DEFINE n == Len(w)
           A == {k \in 0 .. n : k = 0 \/ w[k] \notin Blank}
<1>1. n \in Nat /\ n >= 1
  BY TokenBytes DEF Text
<1>2. w[n] \notin Blank
  BY <1>1, TokenBytes DEF Blank
<1>3. n \in A /\ \A y \in A : n >= y
  BY <1>1, <1>2
<1>4. Max(A) = n
  <2>1. Max(A) \in A /\ \A y \in A : Max(A) >= y
    <3> HIDE DEF A, n
    <3> QED
      BY <1>3 DEF Max
  <2> QED
    BY <1>1, <1>3, <2>1
<1>5. TrimHeaderName(w) = SubSeq(w, 1, Max(A))
  BY DEF TrimHeaderName
<1>6. SubSeq(w, 1, n) = w
  BY DEF Text
<1> HIDE DEF A, n
<1> QED
  BY <1>4, <1>5, <1>6

(* What is at the positions after the first of two texts.                  *)
LEMMA SecondPart ==
    ASSUME NEW a \in Text, NEW b \in Text
    PROVE  \A k \in 1 .. Len(b) : (a \o b)[Len(a) + k] = b[k]
BY DEF Text

(* A folded value after a space is folded.                                 *)
LEMMA SpacedValue ==
    ASSUME NEW s \in Text, Folded(s)
    PROVE  LET v == Space \o s
           IN  /\ v \in Text /\ Len(v) = Len(s) + 1 /\ Len(s) \in Nat /\ v[1] = SP
               /\ \A k \in 1 .. Len(s) : v[k + 1] = s[k]
               /\ Folded(v) /\ SubSeq(v, 2, Len(v)) = s
<1> DEFINE v == Space \o s
<1>1. Space \in Text /\ Len(Space) = 1 /\ Space[1] = SP
  BY SeparatorsAre
<1>2. /\ v \in Text /\ Len(v) = Len(s) + 1 /\ Len(s) \in Nat /\ v[1] = SP
      /\ \A k \in 1 .. Len(s) : v[k + 1] = s[k]
  <2>1. v \in Text /\ Len(v) = Len(Space) + Len(s) /\ Len(s) \in Nat
    BY <1>1, Extended
  <2>2. \A k \in 1 .. Len(Space) : v[k] = Space[k]
    BY <1>1, Extended
  <2>3. \A k \in 1 .. Len(s) : v[Len(Space) + k] = s[k]
    BY <1>1, SecondPart
  <2>4. \A k \in 1 .. Len(s) : Len(Space) + k = k + 1
    BY <1>1
  <2> HIDE DEF v
  <2> QED
    BY <1>1, <2>1, <2>2, <2>3, <2>4
<1>3. SubSeq(v, 2, Len(v)) = s
  <2>1. SubSeq(Space \o s, Len(Space) + 1, Len(Space \o s)) = s
    BY <1>1, BackPart
  <2>2. Len(Space) + 1 = 2
    BY <1>1
  <2> QED
    BY <2>1, <2>2
<1>4. DOMAIN s = 1 .. Len(s)
  BY DEF Text
<1> HIDE DEF v
<1>5. DOMAIN v = 1 .. Len(v)
  BY <1>2 DEF Text
<1>6. /\ \A i \in 1 .. Len(s) : s[i] \notin {CTL, NUTF}
      /\ \A i \in 1 .. Len(s) : s[i] = CR =>
            i + 2 <= Len(s) /\ s[i + 1] = LF /\ s[i + 2] \in Blank
      /\ \A i \in 1 .. Len(s) : s[i] = LF => i > 1 /\ s[i - 1] = CR
  BY <1>4 DEF Folded
<1>7. SP \notin {CTL, NUTF, CR, LF}
  BY DEF SP, CTL, NUTF, CR, LF
<1>8. ASSUME NEW i \in 1 .. Len(v)
      PROVE  /\ v[i] \notin {CTL, NUTF}
             /\ v[i] = CR => i + 2 <= Len(v) /\ v[i + 1] = LF /\ v[i + 2] \in Blank
             /\ v[i] = LF => i > 1 /\ v[i - 1] = CR
  <2>1. CASE i = 1
    BY <1>2, <1>7, <2>1
  <2>2. CASE i > 1
    <3> DEFINE j == i - 1
    <3>1. j \in 1 .. Len(s) /\ j + 1 = i /\ j \in Nat
      BY <1>2, <2>2
    <3>2. v[i] = s[j]
      BY <1>2, <3>1
    <3> HIDE DEF j
    <3>3. v[i] \notin {CTL, NUTF}
      BY <1>6, <3>1, <3>2
    <3>4. ASSUME v[i] = CR PROVE i + 2 <= Len(v) /\ v[i + 1] = LF /\ v[i + 2] \in Blank
      <4>1. j + 2 <= Len(s) /\ s[j + 1] = LF /\ s[j + 2] \in Blank
        BY <1>6, <3>1, <3>2, <3>4
      <4>2. j + 1 \in 1 .. Len(s) /\ j + 2 \in 1 .. Len(s)
        BY <1>2, <3>1, <4>1
      <4>3. v[j + 1 + 1] = s[j + 1] /\ v[j + 2 + 1] = s[j + 2]
        BY <1>2, <4>2
      <4>4. j + 1 + 1 = i + 1 /\ j + 2 + 1 = i + 2
        BY <3>1
      <4> QED
        BY <1>2, <3>1, <4>1, <4>3, <4>4
    <3>5. ASSUME v[i] = LF PROVE i > 1 /\ v[i - 1] = CR
      <4>1. j > 1 /\ s[j - 1] = CR
        BY <1>6, <3>1, <3>2, <3>5
      <4>2. j - 1 \in 1 .. Len(s) /\ j - 1 + 1 = i - 1
        BY <1>2, <3>1, <4>1
      <4> QED
        BY <1>2, <2>2, <4>1, <4>2
    <3> QED
      BY <3>3, <3>4, <3>5
  <2> QED
    BY <2>1, <2>2
<1>9. Folded(v)
  BY <1>5, <1>8 DEF Folded
<1> QED
  BY <1>2, <1>3, <1>9 DEF v

(* The space that the encoder writes before a value is trimmed off.        *)
LEMMA TrimmedValue ==
    ASSUME NEW s \in Text, Folded(s), s # <<>> => s[1] \notin Blank
    PROVE  TrimHeaderValue(Space \o s) = s
<1> DEFINE v == Space \o s
           start == IF CRLFAt(v, 1) THEN 3 ELSE 1
           A == {k \in start .. Len(v) + 1 : k = Len(v) + 1 \/ v[k] \notin Blank}
           first == First(A)
<1>1. /\ v \in Text /\ Len(v) = Len(s) + 1 /\ Len(s) \in Nat /\ v[1] = SP
      /\ \A k \in 1 .. Len(s) : v[k + 1] = s[k]
  BY SpacedValue
<1>2. SubSeq(v, 2, Len(v)) = s
  BY SpacedValue
<1> HIDE DEF v
<1>3. start = 1
  BY <1>1 DEF CRLFAt, CR, SP
<1>4. first = 2
  <2> DEFINE n == Len(v) + 1
             B == {k \in 1 .. n : k = n \/ v[k] \notin Blank}
  <2>1. B = A
    BY <1>3
  <2>2. 2 \in B
    <3>1. CASE s = <<>>
      BY <1>1, <3>1
    <3>2. CASE s # <<>>
      <4>1. Len(s) >= 1
        BY <1>1, <3>2 DEF Text
      <4>2. v[1 + 1] = s[1]
        BY <1>1, <4>1
      <4> QED
        BY <1>1, <3>2, <4>1, <4>2
    <3> QED
      BY <3>1, <3>2
  <2>3. \A j \in B : 2 <= j
    BY <1>1 DEF Blank
  <2>4. n \in Int /\ B \in SUBSET (1 .. n)
    BY <1>1
  <2> HIDE DEF B, n
  <2>5. First(B) = 2
    BY <2>2, <2>3, <2>4, FirstIs
  <2> QED
    BY <2>1, <2>5
<1>5. TrimHeaderValue(v) = IF start = 3 /\ first = 3 THEN v ELSE SubSeq(v, first, Len(v))
  BY DEF TrimHeaderValue
<1> HIDE DEF start, first
<1>6. TrimHeaderValue(v) = s
  BY <1>2, <1>3, <1>4, <1>5
<1> QED
  BY <1>6 DEF v

(* A header that fits is added to those that are there.                    *)
LEMMA HeaderIsAdded ==
    ASSUME NEW d, NEW name \in Text, NEW value \in Text, NEW y, IsToken(name), Folded(value)
    PROVE  AddHeader(d, name, value, y)
              = Complete(WithHeaders(d, Append(d.headers, <<name, value>>)), y)
<1>1. name # <<>>
  BY TokenBytes
<1>2. HeaderNameExtension(Word(name, name, "token")).tag # "Err"
  BY DEF HeaderNameExtension, Word
<1>3. IsOk(HeaderValueTryFrom(value))
  BY HeaderValuesAreFolded
<1> QED
  BY <1>1, <1>2, <1>3 DEF AddHeader, HeaderAppend, WithHeaders

(* The value of a header line, as the encoder writes it.                   *)
NeverTooLong(d, r) ==
    \A b, x \in Text : b \o x = r => DecodeHeaderValue(d, b) # Failure("HeaderValueTooLong")

(* decode_header_value finds the value before the line break.              *)
LEMMA ValueIs ==
    ASSUME NEW r, NEW v \in Text, NEW y, Splits(r, v, LineBreak, y), Folded(v),
           Len(v) < HeaderValueMaxLength, Len(y) >= 1, y[1] \notin Blank,
           NEW d, d.config.value = HeaderValueMaxLength
    PROVE  /\ DecodeHeaderValue(d, r) = [tag |-> "Complete", length |-> Len(v)]
           /\ SubSeq(r, 1, Len(v)) = v /\ SubSeq(r, Len(v) + 3, Len(r)) = y
           /\ NeverTooLong(d, r)
<1> DEFINE max == HeaderValueMaxLength + 1
           l(b) == Shorter(max, Len(b) - 1)
           end(b) == First(ValueEnds(b, l(b)))
<1>0. HeaderValueMaxLength \in Nat
  BY DecodersAssumption
<1>1. /\ r \in Text /\ Len(v) \in Nat /\ Len(y) \in Nat /\ Len(r) = Len(v) + 2 + Len(y)
      /\ \A k \in 1 .. Len(v) : r[k] = v[k]
      /\ r[Len(v) + 1] = CR /\ r[Len(v) + 2] = LF /\ r[Len(v) + 2 + 1] = y[1]
  BY SeparatorsAre, SplitLengths DEF Splits
<1>2. SubSeq(r, 1, Len(v)) = v /\ SubSeq(r, Len(v) + 3, Len(r)) = y
  <2>1. SubSeq(r, Len(v) + Len(LineBreak) + 1, Len(r)) = y /\ SubSeq(r, 1, Len(v)) = v
    BY DEF Splits
  <2>2. Len(v) + Len(LineBreak) + 1 = Len(v) + 3
    BY <1>1, SeparatorsAre
  <2> QED
    BY <2>1, <2>2
<1>3. ASSUME NEW b \in Text, NEW x \in Text, b \o x = r, Len(v) + 2 <= Len(b)
      PROVE  end(b) = Len(v) + 1
  <2>1. Len(b) \in Nat /\ Len(b) <= Len(r) /\ \A k \in 1 .. Len(b) : b[k] = r[k]
    BY <1>3 DEF Text
  <2>2. /\ \A k \in 1 .. Len(v) : b[k] = v[k]
        /\ b[Len(v) + 1] = CR /\ b[Len(v) + 2] = LF
    BY <1>1, <1>3, <2>1
  <2>3. Len(v) + 3 <= Len(b) => b[Len(v) + 3] \notin Blank
    <3>1. Len(v) + 2 + 1 = Len(v) + 3
      BY <1>1
    <3> QED
      BY <1>1, <2>1, <3>1
  <2> DEFINE n == l(b)
  <2>4. n \in Nat /\ n <= Len(b) - 1 /\ Len(v) + 1 <= n
    BY <1>0, <1>1, <1>3, <2>1 DEF Shorter
  <2> HIDE DEF n
  <2>5. First(ValueEnds(b, n)) = Len(v) + 1
    BY <2>2, <2>3, <2>4, ValueEndIsFirst
  <2> QED
    BY <2>5 DEF n
<1>4. ASSUME NEW b
      PROVE  DecodeHeaderValue(d, b) =
                CASE end(b) > 0 /\ end(b) + 2 <= Len(b) -> [tag |-> "Complete", length |-> end(b) - 1]
                  [] end(b) > 0 /\ end(b) + 2 > Len(b) -> Incomplete
                  [] end(b) = 0 /\ Len(b) >= max -> Failure("HeaderValueTooLong")
                  [] OTHER -> Incomplete
  BY DEF DecodeHeaderValue, ValueEnds
<1> HIDE DEF end, l
<1>5. DecodeHeaderValue(d, r) = [tag |-> "Complete", length |-> Len(v)]
  <2> DEFINE e == <<>>
             f == end(r)
  <2>1. e \in Text /\ r \o e = r
    BY <1>1 DEF Text
  <2> HIDE DEF e
  <2>2. f = Len(v) + 1
    <3>1. Len(v) + 2 <= Len(r) /\ r \in Text
      BY <1>1
    <3> QED
      BY <1>3, <2>1, <3>1
  <2>3. f > 0 /\ f + 2 <= Len(r) /\ f - 1 = Len(v)
    BY <1>1, <2>2
  <2> HIDE DEF f
  <2>4. DecodeHeaderValue(d, r) =
                CASE f > 0 /\ f + 2 <= Len(r) -> [tag |-> "Complete", length |-> f - 1]
                  [] f > 0 /\ f + 2 > Len(r) -> Incomplete
                  [] f = 0 /\ Len(r) >= max -> Failure("HeaderValueTooLong")
                  [] OTHER -> Incomplete
    BY <1>4 DEF f
  <2>5. ~(f + 2 > Len(r)) /\ ~(f = 0)
    BY <1>1, <2>2
  <2> HIDE DEF max
  <2> QED
    BY <2>3, <2>4, <2>5
<1>6. ASSUME NEW b \in Text, NEW x \in Text, b \o x = r
      PROVE  DecodeHeaderValue(d, b) # Failure("HeaderValueTooLong")
  <2>1. Incomplete.tag = "Incomplete" /\ Failure("HeaderValueTooLong").tag = "Error"
    BY DEF Incomplete, Failure
  <2>2. Len(b) \in Nat
    BY DEF Text
  <2>3. Len(b) >= max => end(b) > 0
    <3> SUFFICES ASSUME Len(b) >= max PROVE end(b) > 0
      OBVIOUS
    <3>1. Len(v) + 2 <= Len(b)
      BY <1>0, <1>1, <2>2
    <3>2. end(b) = Len(v) + 1
      BY <1>3, <1>6, <3>1
    <3> QED
      BY <1>1, <3>2
  <2>4. ~(end(b) = 0 /\ Len(b) >= max)
    BY <2>3
  <2> HIDE DEF max
  <2>5. DecodeHeaderValue(d, b).tag \in {"Complete", "Incomplete"}
    BY <1>4, <2>1, <2>4
  <2> QED
    BY <2>1, <2>5
<1> QED
  BY <1>2, <1>5, <1>6 DEF NeverTooLong

(* No chunk of a line is refused because its value is too long.            *)
LEMMA ValueNotTooLong ==
    ASSUME NEW r, NEW v \in Text, NEW y, Splits(r, v, LineBreak, y), Folded(v),
           Len(v) < HeaderValueMaxLength, Len(y) >= 1, y[1] \notin Blank,
           NEW d, d.config.value = HeaderValueMaxLength,
           NEW b \in Text, NEW x \in Text, b \o x = r
    PROVE  DecodeHeaderValue(d, b) # Failure("HeaderValueTooLong")
<1>1. NeverTooLong(d, r)
  BY ValueIs
<1> QED
  BY <1>1 DEF NeverTooLong

-----------------------------------------------------------------------------
(* A header line.                                                          *)

(* A decoder that is between two header lines.                             *)
InHeader(kind, n, a, b, headers) == At(kind, "Header", n, a, b, headers, <<>>)

(* Its state, headers and limits.                                          *)
LEMMA InHeaderIs ==
    ASSUME NEW kind \in Kinds, NEW n, NEW a, NEW b, NEW headers
    PROVE  LET d == InHeader(kind, n, a, b, headers)
           IN  /\ d.state = "Header" /\ d.headers = headers
               /\ d.config.name = HeaderNameMaxLength /\ d.config.value = HeaderValueMaxLength
               /\ d.config.count = HeaderMaxCount /\ d.config.body = BodyMaxLength
<1> DEFINE d == InHeader(kind, n, a, b, headers)
<1>1. d.state = "Header" /\ d.headers = headers /\ d.config = Limits(kind)
  BY DEF InHeader, At, RequestAt, ResponseAt, Limits
<1> HIDE DEF d
<1>2. /\ d.config.name = HeaderNameMaxLength /\ d.config.value = HeaderValueMaxLength
      /\ d.config.count = HeaderMaxCount /\ d.config.body = BodyMaxLength
  BY <1>1, Configs DEF Limits
<1> QED
  BY <1>1, <1>2 DEF d

(* A header line, as the encoder writes it, in front of something else     *)
(* than a blank.                                                           *)
IsLine(t, name, value, y) ==
    /\ name \in Text /\ value \in Text
    /\ IsToken(name) /\ Len(name) <= HeaderNameMaxLength
    /\ Folded(value) /\ Len(value) + 1 < HeaderValueMaxLength
    /\ value # <<>> => value[1] \notin Blank
    /\ Len(y) >= 1 /\ y[1] \notin Blank
    /\ \E r : Splits(t, name, Colon, r) /\ Splits(r, Space \o value, LineBreak, y)

(* A line is read as its header.                                           *)
LEMMA HeaderLineReads ==
    ASSUME NEW kind \in Kinds, NEW n, NEW a, NEW b, NEW hs, Len(hs) < HeaderMaxCount,
           Len(hs) \in Nat, NEW t, NEW name, NEW value, NEW y, IsLine(t, name, value, y)
    PROVE  Step(kind, InHeader(kind, n, a, b, hs), t)
              = Complete(InHeader(kind, n, a, b, Append(hs, <<name, value>>)), y)
<1> DEFINE d == InHeader(kind, n, a, b, hs)
           v == Space \o value
<1>1. /\ d.state = "Header" /\ d.headers = hs
      /\ d.config.name = HeaderNameMaxLength /\ d.config.value = HeaderValueMaxLength
      /\ d.config.count = HeaderMaxCount
  BY InHeaderIs
<1>2. WithHeaders(d, Append(hs, <<name, value>>))
         = InHeader(kind, n, a, b, Append(hs, <<name, value>>))
  <2> DEFINE g == Append(hs, <<name, value>>)
  <2> HIDE DEF g
  <2>1. WithHeaders(d, g) = InHeader(kind, n, a, b, g)
    BY HeadersMove DEF InHeader
  <2> QED
    BY <2>1, Zenon DEF g
<1> HIDE DEF d
<1>3. /\ name \in Text /\ value \in Text /\ IsToken(name) /\ Len(name) <= HeaderNameMaxLength
      /\ Folded(value) /\ Len(value) + 1 < HeaderValueMaxLength
      /\ value # <<>> => value[1] \notin Blank
      /\ Len(y) >= 1 /\ y[1] \notin Blank
  BY DEF IsLine
<1>4. PICK r : Splits(t, name, Colon, r) /\ Splits(r, v, LineBreak, y)
  BY DEF IsLine
<1>5. v \in Text /\ Len(v) < HeaderValueMaxLength /\ Folded(v)
  BY <1>3, SpacedValue
<1>6. TrimHeaderValue(v) = value
  BY <1>3, TrimmedValue
<1>7. TrimHeaderName(name) = name
  BY <1>3, TrimmedName
<1> HIDE DEF v
<1> DEFINE word == DecodeHeaderName(d, t)
           val == DecodeHeaderValue(d, r)
<1>8. word = [tag |-> "Complete", length |-> Len(name)] /\ ~CRLFAt(t, 1)
  BY <1>1, <1>3, <1>4, NameIs
<1>9. SubSeq(t, 1, Len(name)) = name /\ SubSeq(t, Len(name) + 2, Len(t)) = r
  BY <1>1, <1>3, <1>4, NameIs
<1>10. val = [tag |-> "Complete", length |-> Len(v)]
  BY <1>1, <1>3, <1>4, <1>5, ValueIs
<1>11. SubSeq(r, 1, Len(v)) = v /\ SubSeq(r, Len(v) + 3, Len(r)) = y
  BY <1>1, <1>3, <1>4, <1>5, ValueIs
<1>12. word.tag = "Complete" /\ word.length = Len(name) /\ val.tag = "Complete" /\ val.length = Len(v)
  BY <1>8, <1>10
<1> DEFINE G(w) == IF w.tag # "Complete" THEN w
                   ELSE AddHeader(d, TrimHeaderName(name), TrimHeaderValue(SubSeq(r, 1, w.length)),
                                  SubSeq(r, w.length + 3, Len(r)))
           N(w) == IF w.tag # "Complete" THEN w
                   ELSE IF Len(d.headers) >= d.config.count THEN Failure("TooManyHeaders")
                   ELSE DecodeHeaderLine(d, SubSeq(t, 1, w.length),
                                         SubSeq(t, w.length + 2, Len(t)))
<1>13. DecodeHeaderLine(d, name, r) = G(val)
  BY DEF DecodeHeaderLine, Once
<1>14. DecodeHeader(d, t) = IF CRLFAt(t, 1) THEN DecodeBlankLine(d, t) ELSE N(word)
  BY DEF DecodeHeader, Once
<1> HIDE DEF word, val
<1>15. G(val) = AddHeader(d, name, value, y)
  BY <1>6, <1>7, <1>11, <1>12, Zenon
<1>16. HeaderMaxCount \in Nat
  BY DecodersAssumption
<1>17. ~(Len(d.headers) >= d.config.count)
  BY <1>1, <1>16
<1>18. N(word) = DecodeHeaderLine(d, name, r)
  BY <1>9, <1>12, <1>17, Zenon
<1>19. AddHeader(d, name, value, y) = Complete(WithHeaders(d, Append(hs, <<name, value>>)), y)
  BY <1>1, <1>3, HeaderIsAdded
<1>20. Step(kind, d, t) = DecodeHeader(d, t)
  BY <1>1 DEF Step, RequestStep, ResponseStep, ResponseDecodeHeader, Kinds
<1> HIDE DEF G, N
<1>21. Step(kind, d, t) = Complete(WithHeaders(d, Append(hs, <<name, value>>)), y)
  BY <1>8, <1>13, <1>14, <1>15, <1>18, <1>19, <1>20, Zenon
<1> QED
  BY <1>2, <1>21, Zenon DEF d

(* No chunk of a line meets the exception that Cut names.                  *)
LEMMA HeaderLineNoCut ==
    ASSUME NEW kind \in Kinds, NEW n, NEW a, NEW b, NEW hs,
           NEW t, NEW name, NEW value, NEW y, IsLine(t, name, value, y)
    PROVE  NoCut(kind, InHeader(kind, n, a, b, hs), t)
<1> DEFINE d == InHeader(kind, n, a, b, hs)
           v == Space \o value
<1>1. /\ d.state = "Header" /\ d.headers = hs
      /\ d.config.name = HeaderNameMaxLength /\ d.config.value = HeaderValueMaxLength
  BY InHeaderIs
<1> HIDE DEF d
<1>2. /\ name \in Text /\ value \in Text /\ IsToken(name) /\ Len(name) <= HeaderNameMaxLength
      /\ Folded(value) /\ Len(value) + 1 < HeaderValueMaxLength
      /\ Len(y) >= 1 /\ y[1] \notin Blank
  BY DEF IsLine
<1>3. PICK r : Splits(t, name, Colon, r) /\ Splits(r, v, LineBreak, y)
  BY DEF IsLine
<1>4. v \in Text /\ Len(v) < HeaderValueMaxLength /\ Folded(v)
  BY <1>2, SpacedValue
<1> HIDE DEF v
<1>5. ASSUME NEW p \in Text, NEW x \in Text, p \o x = r
      PROVE  DecodeHeaderValue(d, p) # Failure("HeaderValueTooLong")
  BY <1>1, <1>2, <1>3, <1>4, <1>5, ValueNotTooLong
<1>6. SubSeq(t, Len(name) + 2, Len(t)) = r /\ Len(name) \in Nat
  BY <1>1, <1>2, <1>3, NameIs, SplitLengths
<1> SUFFICES ASSUME NEW buf \in Text, NEW x \in Text, buf \o x = t, NEW e,
                    Step(kind, d, buf) = Failure(e), Cut(e, buf)
             PROVE  FALSE
  BY DEF NoCut, d
<1>7. e \in {"HeaderValueTooLong", "ReasonPhraseTooLong"}
  BY DEF Cut
<1> DEFINE word == DecodeHeaderName(d, buf)
           rest == SubSeq(buf, word.length + 2, Len(buf))
<1>8. word.tag = "Complete" /\ DecodeHeaderValue(d, rest) = Failure("HeaderValueTooLong")
  BY <1>1, <1>7, HeaderTooLong
<1>9. word.length = Len(name) /\ Len(name) + 1 <= Len(buf)
  BY <1>1, <1>2, <1>3, <1>8, NameInPart
<1> HIDE DEF word
<1>10. rest \in Text /\ rest \o x = r
  <2> DEFINE m == Len(name) + 1
             q == SubSeq(buf, m + 1, Len(buf))
  <2>1. m \in Nat /\ m <= Len(buf) /\ m + 1 = Len(name) + 2
    BY <1>6, <1>9
  <2>2. q = rest
    BY <1>9, <2>1
  <2>3. t = buf \o x /\ SubSeq(t, m + 1, Len(t)) = r
    BY <1>6, <2>1
  <2> HIDE DEF m, rest
  <2>4. q \in Text /\ SubSeq(buf \o x, m + 1, Len(buf \o x)) = q \o x
    BY <2>1, SplitAt
  <2> HIDE DEF q
  <2>5. q \in Text /\ r = q \o x
    BY <2>3, <2>4, Zenon
  <2> QED
    BY <2>2, <2>5, Zenon
<1> QED
  BY <1>5, <1>8, <1>10

-----------------------------------------------------------------------------
(* The status code.                                                        *)

(* A status code has three digits.                                         *)
LEMMA ThreeDigits ==
    ASSUME NEW n \in 100 .. 599
    PROVE  LET w == FormatUnsigned(n)
           IN  /\ w \in Text /\ Len(w) = 3
               /\ w[1] = NumeralOf[n \div 100] /\ w[2] = NumeralOf[(n \div 10) % 10]
               /\ w[3] = NumeralOf[n % 10]
<1> DEFINE a == n \div 100
           b == (n \div 10) % 10
           c == n % 10
           p == n \div 10
<1>1. /\ n \in Nat /\ p \in Nat /\ a \in Nat /\ p >= 10 /\ p < 60 /\ p \div 10 = a /\ a < 10
      /\ n >= 10 /\ p % 10 = b
  OBVIOUS
<1>2. NumeralOf[a] \in DOMAIN Digit /\ NumeralOf[b] \in DOMAIN Digit /\ NumeralOf[c] \in DOMAIN Digit
  BY NumeralIs
<1>3. FormatUnsigned(n) = Append(FormatUnsigned(p), NumeralOf[c])
  BY <1>1, FormatStep
<1> HIDE DEF a, b, c, p
<1>4. FormatUnsigned(p) = Append(FormatUnsigned(a), NumeralOf[b])
  BY <1>1, FormatStep
<1>5. FormatUnsigned(a) = <<NumeralOf[a]>>
  BY <1>1, FormatStep
<1> DEFINE S == DOMAIN Digit
           x == NumeralOf[a]
           y == NumeralOf[b]
           z == NumeralOf[c]
           w == FormatUnsigned(n)
<1>6. x \in S /\ y \in S /\ z \in S /\ w = Append(Append(<<x>>, y), z) /\ w \in Text
  BY <1>1, <1>2, <1>3, <1>4, <1>5, FormatText
<1> HIDE DEF S, x, y, z, w
<1>7. Len(w) = 3 /\ w[1] = x /\ w[2] = y /\ w[3] = z
  <2>1. <<x>> \in Seq(S) /\ Len(<<x>>) = 1 /\ <<x>>[1] = x
    BY <1>6, OneElement
  <2> DEFINE p1 == <<x>>
             q == Append(p1, y)
  <2>2. p1 \in Seq(S) /\ Len(p1) = 1 /\ p1[1] = x /\ w = Append(q, z)
    BY <1>6, <2>1
  <2> HIDE DEF p1
  <2>3. q \in Seq(S) /\ Len(q) = 2 /\ q[1] = x /\ q[2] = y
    BY <1>6, <2>2
  <2> HIDE DEF q
  <2> QED
    BY <1>6, <2>2, <2>3
<1> QED
  BY <1>6, <1>7 DEF w, x, y, z, a, b, c

(* A function over 1 .. k is a sequence of length k.                       *)
LEMMA FunctionIsSeq ==
    ASSUME NEW S, NEW k \in Nat, NEW f \in [1 .. k -> S]
    PROVE  f \in Seq(S) /\ Len(f) = k
OBVIOUS

(* The bytes of the digits are the codes of the numerals.                  *)
AreCodes(f, v) ==
    \E a, b, c \in 0 .. 9 :
        /\ f \in [1 .. 3 -> Int] /\ f[1] = 48 + a /\ f[2] = 48 + b /\ f[3] = 48 + c
        /\ v = a * 100 + b * 10 + c

(* StatusCode::try_from on the codes of three digits.                      *)
LEMMA ThreeBytes ==
    ASSUME NEW f, NEW v, AreCodes(f, v)
    PROVE  StatusCodeTryFromBytes(f) = StatusCodeTryFrom(v)
<1> PICK a \in 0 .. 9, b \in 0 .. 9, c \in 0 .. 9 :
        /\ f \in [1 .. 3 -> Int] /\ f[1] = 48 + a /\ f[2] = 48 + b /\ f[3] = 48 + c
        /\ v = a * 100 + b * 10 + c
  BY DEF AreCodes
<1>1. f \in Seq(Int) /\ Len(f) = 3
  BY FunctionIsSeq, ZenonT(60)
<1>2. (f[1] - 48) % 256 = a /\ (f[2] - 48) % 256 = b /\ (f[3] - 48) % 256 = c
  <2>1. f[1] - 48 = a /\ f[2] - 48 = b /\ f[3] - 48 = c
    OBVIOUS
  <2>2. a % 256 = a /\ b % 256 = b /\ c % 256 = c
    OBVIOUS
  <2> QED
    BY <2>1, <2>2
<1>3. StatusCodeNumber(f) = v
  BY <1>2 DEF StatusCodeNumber
<1>4. v % (MaxU16 + 1) = v
  <2>1. v \in 0 .. 256 * 256 - 1
    <3>1. a \in 0 .. 255 /\ b \in 0 .. 255 /\ c \in 0 .. 255
      OBVIOUS
    <3> QED
      BY <3>1, ThreeBytesFit, ZenonT(60)
  <2>2. v \in 0 .. MaxU16
    BY <2>1, Zenon DEF MaxU16
  <2>3. MaxU16 \in Nat
    BY DEF MaxU16
  <2>4. ASSUME NEW k \in Nat, NEW n \in 0 .. k
        PROVE  n % (k + 1) = n
    BY SMTT(30)
  <2> QED
    BY <2>2, <2>3, <2>4, Zenon
<1> QED
  BY <1>1, <1>3, <1>4, ZenonT(60) DEF StatusCodeTryFromBytes

(* The byte of a digit is 48 more than the digit.                          *)
LEMMA CodeOfNumeral ==
    ASSUME NEW k \in 0 .. 9
    PROVE  ByteValue(NumeralOf[k]) = 48 + k
BY NumeralIs DEF ByteValue, IsDigit

(* The status code of a response.                                          *)
LEMMA StatusCodeStage ==
    ASSUME NEW n \in Nat, NEW v \in 100 .. 599, v \notin {303, 352},
           NEW t, NEW y, Splits(t, FormatUnsigned(v), Space, y)
    PROVE  Step("response", At("response", "StatusCode", n, 0, <<>>, <<>>, <<>>), t)
              = Complete(At("response", "ReasonPhrase", n, v, <<>>, <<>>, <<>>), y)
<1> DEFINE d == At("response", "StatusCode", n, 0, <<>>, <<>>, <<>>)
           w == FormatUnsigned(v)
           f == [i \in 1 .. 3 |-> ByteValue(t[i])]
           a == v \div 100
           b == (v \div 10) % 10
           c == v % 10
<1>1. /\ w \in Text /\ Len(w) = 3 /\ w[1] = NumeralOf[a] /\ w[2] = NumeralOf[b]
      /\ w[3] = NumeralOf[c]
  BY ThreeDigits, ZenonT(60)
<1>2. a \in 0 .. 9 /\ b \in 0 .. 9 /\ c \in 0 .. 9 /\ a * 100 + b * 10 + c = v
  OBVIOUS
<1>3. Splits(t, w, Space, y)
  OBVIOUS
<1>4. d.state = "StatusCode"
  BY DEF At, ResponseAt
<1>5. WithStatus(d, "ReasonPhrase", v) = At("response", "ReasonPhrase", n, v, <<>>, <<>>, <<>>)
  BY StatusMoves
<1> HIDE DEF w, d, a, b, c
<1>6. Len(Space) = 1 /\ Space[1] = SP
  BY SeparatorsAre
<1>7. /\ Len(t) \in Nat /\ Len(y) \in Nat /\ Len(t) = 4 + Len(y)
      /\ \A k \in 1 .. 3 : t[k] = w[k]
  <2>1. /\ Len(t) = Len(w) + Len(Space) + Len(y)
        /\ \A k \in 1 .. Len(w) : t[k] = w[k]
    BY <1>3 DEF Splits
  <2> QED
    BY <1>1, <1>3, <1>6, <2>1, SplitLengths
<1>8. t[4] = SP /\ SubSeq(t, 5, Len(t)) = y
  <2>1. \A k \in 1 .. Len(Space) : t[Len(w) + k] = Space[k]
    BY <1>3 DEF Splits
  <2>2. SubSeq(t, Len(w) + Len(Space) + 1, Len(t)) = y
    BY <1>3 DEF Splits
  <2>3. Len(w) + Len(Space) + 1 = 5 /\ Len(w) + 1 = 4 /\ 1 \in 1 .. Len(Space)
    BY <1>1, <1>6
  <2>4. t[Len(w) + 1] = SP
    BY <1>6, <2>1, <2>3, ZenonT(60)
  <2> QED
    BY <2>2, <2>3, <2>4, ZenonT(60)
<1>9. f[1] = 48 + a /\ f[2] = 48 + b /\ f[3] = 48 + c
  <2>1. t[1] = NumeralOf[a] /\ t[2] = NumeralOf[b] /\ t[3] = NumeralOf[c]
    BY <1>1, <1>7
  <2>2. /\ ByteValue(NumeralOf[a]) = 48 + a /\ ByteValue(NumeralOf[b]) = 48 + b
        /\ ByteValue(NumeralOf[c]) = 48 + c
    BY <1>2, CodeOfNumeral
  <2>3. f[1] = ByteValue(t[1]) /\ f[2] = ByteValue(t[2]) /\ f[3] = ByteValue(t[3])
    OBVIOUS
  <2> QED
    BY <2>1, <2>2, <2>3
<1>10. f \in [1 .. 3 -> Int]
  <2>1. \A i \in 1 .. 3 : ByteValue(t[i]) \in Int
    BY <1>2, <1>9
  <2> QED
    BY <2>1
<1> DEFINE status == StatusCodeTryFromBytes(f)
<1>11. DecodeStatusCode(d, t) =
          IF Len(t) < 4 THEN Incomplete
          ELSE IF t[4] # SP \/ status.tag = "Err" THEN Failure("StatusCode")
          ELSE Complete(WithStatus(d, "ReasonPhrase", status.value), SubSeq(t, 5, Len(t)))
  BY DEF DecodeStatusCode, WithStatus
<1> HIDE DEF f
<1>12. status = StatusCodeTryFrom(v)
  <2>1. v = a * 100 + b * 10 + c
    BY <1>2
  <2>2. AreCodes(f, v)
    BY <1>2, <1>9, <1>10, <2>1 DEF AreCodes
  <2>3. StatusCodeTryFromBytes(f) = StatusCodeTryFrom(v)
    BY <2>2, ThreeBytes
  <2> QED
    BY <2>3
<1>13. status.tag # "Err" /\ status.value = v
  BY <1>12 DEF StatusCodeTryFrom
<1> HIDE DEF status
<1>14. DecodeStatusCode(d, t) = Complete(WithStatus(d, "ReasonPhrase", v), y)
  <2>1. ~(Len(t) < 4) /\ ~(t[4] # SP \/ status.tag = "Err")
    BY <1>7, <1>8, <1>13
  <2>2. DecodeStatusCode(d, t)
           = Complete(WithStatus(d, "ReasonPhrase", status.value), SubSeq(t, 5, Len(t)))
    BY <1>11, <2>1, ZenonT(60)
  <2> QED
    BY <1>8, <1>13, <2>2, ZenonT(60)
<1>15. Step("response", d, t) = DecodeStatusCode(d, t)
  BY <1>4 DEF Step, ResponseStep
<1> QED
  BY <1>5, <1>14, <1>15, SMTT(30) DEF d

-----------------------------------------------------------------------------
(* The blank line, the Content-Length and the body.                        *)

(* The length of a body is read back from the header that the encoder      *)
(* writes.                                                                 *)
FitsLength(v) == v \in Nat /\ v <= BodyMaxLength /\ v <= MaxContentLength /\ v <= MaxUsize
LengthValues(v) == IF v = 0 THEN <<>> ELSE <<FormatUnsigned(v)>>

(* ContentLength::decode of what the encoder wrote.                        *)
LEMMA LengthIsDecoded ==
    ASSUME NEW v, FitsLength(v)
    PROVE  ContentLengthDecode(LengthValues(v)) = IF v = 0 THEN None ELSE Some(v)
<1>1. v \in Nat /\ MaxUsize \in Nat /\ MaxContentLength \in Nat /\ v <= MaxUsize /\ v <= MaxContentLength
  BY HeadersAssumption DEF FitsLength
<1>2. CASE v = 0
  <2>1. Len(LengthValues(v)) = 0
    BY <1>2 DEF LengthValues
  <2> QED
    BY <1>2, <2>1 DEF ContentLengthDecode, DecodeSingle
<1>3. CASE v # 0
  <2> DEFINE s == FormatUnsigned(v)
  <2>1. Len(<<s>>) = 1 /\ <<s>>[1] = s /\ LengthValues(v) = <<s>>
    BY <1>3 DEF LengthValues
  <2>2. ParseUnsigned(s, MaxUsize) = Ok(v)
    BY <1>1, NumbersAreParsed
  <2> HIDE DEF s
  <2>3. BoundedNumber(s, MaxUsize, MaxContentLength) = Some(v)
    BY <1>1, <2>2 DEF BoundedNumber, IsOk, Ok
  <2> QED
    BY <1>3, <2>1, <2>3 DEF ContentLengthDecode, DecodeSingle
<1> QED
  BY <1>2, <1>3

(* A text that starts with a line break.                                   *)
LEMMA LineBreakStarts ==
    ASSUME NEW z \in Text
    PROVE  LET t == LineBreak \o z
           IN  Len(t) = 2 + Len(z) /\ Len(z) \in Nat /\ t[1] = CR /\ t[2] = LF
<1>1. LineBreak \in Text /\ Len(LineBreak) = 2 /\ LineBreak[1] = CR /\ LineBreak[2] = LF
  BY SeparatorsAre
<1>2. ASSUME NEW w \in Text, Len(w) = 2
      PROVE  /\ Len(w \o z) = 2 + Len(z) /\ Len(z) \in Nat
             /\ (w \o z)[1] = w[1] /\ (w \o z)[2] = w[2]
  <2>1. Len(w \o z) = Len(w) + Len(z) /\ Len(z) \in Nat
    BY DEF Text
  <2>2. \A k \in 1 .. Len(w) : (w \o z)[k] = w[k]
    BY DEF Text
  <2>3. 1 \in 1 .. Len(w) /\ 2 \in 1 .. Len(w)
    BY <1>2
  <2> QED
    BY <1>2, <2>1, <2>2, <2>3
<1> QED
  BY <1>1, <1>2

(* The blank line after the headers.                                       *)
LEMMA BlankLineStage ==
    ASSUME NEW kind \in Kinds, NEW n \in Nat, NEW a, NEW b, NEW hs, NEW v, FitsLength(v),
           GetAll(hs, <<"L">>) = LengthValues(v), NEW z \in Text
    PROVE  Step(kind, InHeader(kind, n, a, b, hs), LineBreak \o z)
              = Complete(At(kind, "Body", v, a, b, hs, <<>>), z)
<1> DEFINE d == InHeader(kind, n, a, b, hs)
           t == LineBreak \o z
<1>1. LineBreak \in Text /\ Len(LineBreak) = 2 /\ LineBreak[1] = CR /\ LineBreak[2] = LF
  BY SeparatorsAre
<1>2. Len(t) = 2 + Len(z) /\ Len(z) \in Nat /\ t[1] = CR /\ t[2] = LF
  BY LineBreakStarts
<1>3. SubSeq(t, 3, Len(t)) = z
  <2>1. SubSeq(t, Len(LineBreak) + 1, Len(t)) = z
    BY <1>1, BackPart
  <2> QED
    BY <1>1, <2>1
<1>4. d.state = "Header" /\ d.headers = hs /\ d.config.body = BodyMaxLength
  BY InHeaderIs
<1>5. WithLength(d, "Body", v) = At(kind, "Body", v, a, b, hs, <<>>)
  BY Moves DEF InHeader
<1> HIDE DEF d, t
<1>6. CRLFAt(t, 1)
  BY <1>2 DEF CRLFAt
<1>7. Step(kind, d, t) = DecodeBlankLine(d, t)
  BY <1>4, <1>6 DEF Step, RequestStep, ResponseStep, ResponseDecodeHeader, DecodeHeader
<1> DEFINE length == ContentLengthDecode(GetAll(d.headers, <<"L">>))
           after(k) == Complete(WithLength(d, "Body", k), SubSeq(t, 3, Len(t)))
<1>8. DecodeBlankLine(d, t) =
         CASE ~IsOk(length) -> Failure("InvalidContentLength")
           [] IsOk(length) /\ ~length.value.some -> after(0)
           [] IsPresent(length) /\ length.value.value \notin 0 .. d.config.body ->
                 Failure("BodyTooLong")
           [] OTHER -> after(length.value.value)
  BY DEF DecodeBlankLine, WithLength
<1>9. length = IF v = 0 THEN None ELSE Some(v)
  BY <1>4, LengthIsDecoded
<1> HIDE DEF length, after
<1>10. v \in Nat /\ v \in 0 .. d.config.body
  BY <1>4, DecodersAssumption DEF FitsLength
<1>11. DecodeBlankLine(d, t) = after(v)
  <2>1. CASE v = 0
    <3>1. IsOk(length) /\ length.value.some = FALSE
      BY <1>9, <2>1 DEF None, IsOk, Ok
    <3>2. ~IsPresent(length)
      BY <3>1 DEF IsPresent
    <3> QED
      BY <1>8, <2>1, <3>1, <3>2
  <2>2. CASE v # 0
    <3>1. IsOk(length) /\ length.value.some = TRUE /\ length.value.value = v
      BY <1>9, <2>2 DEF Some, IsOk, Ok
    <3> QED
      BY <1>8, <1>10, <2>2, <3>1
  <2> QED
    BY <2>1, <2>2
<1> QED
  BY <1>3, <1>5, <1>7, <1>11 DEF after, d, t

(* No chunk of the blank line and the body meets that exception.           *)
LEMMA BlankLineNoCut ==
    ASSUME NEW kind \in Kinds, NEW n \in Nat, NEW a, NEW b, NEW hs, NEW z \in Text,
           HeaderNameMaxLength > 0
    PROVE  NoCut(kind, InHeader(kind, n, a, b, hs), LineBreak \o z)
<1> DEFINE d == InHeader(kind, n, a, b, hs)
<1>0. d.state = "Header" /\ d.config.name = HeaderNameMaxLength
  BY InHeaderIs
<1> HIDE DEF d
<1> SUFFICES ASSUME NEW buf \in Text, NEW x \in Text, buf \o x = LineBreak \o z,
                    NEW e, Step(kind, d, buf) = Failure(e), Cut(e, buf)
             PROVE  FALSE
  BY DEF NoCut, d
<1>1. LineBreak \in Text /\ Len(LineBreak) = 2 /\ LineBreak[1] = CR /\ LineBreak[2] = LF
  BY SeparatorsAre
<1>2. e \in {"HeaderValueTooLong", "ReasonPhraseTooLong"}
  BY DEF Cut
<1>3. /\ ~CRLFAt(buf, 1) /\ DecodeHeaderName(d, buf).tag = "Complete"
  BY <1>0, <1>2, HeaderTooLong
<1> DEFINE t == LineBreak \o z
<1>4. t[1] = CR /\ t[2] = LF /\ Len(buf) \in Nat /\ \A k \in 1 .. Len(buf) : buf[k] = t[k]
  <2>1. t[1] = CR /\ t[2] = LF
    BY LineBreakStarts
  <2>2. \A k \in 1 .. Len(buf) : buf[k] = (buf \o x)[k]
    BY DEF Text
  <2>3. Len(buf) \in Nat
    BY DEF Text
  <2> QED
    BY <2>1, <2>2, <2>3
<1> HIDE DEF t
<1>5. Len(buf) < 2
  BY <1>3, <1>4 DEF CRLFAt
<1>6. \A k \in 1 .. Len(buf) : buf[k] # ":"
  BY <1>4, <1>5 DEF CR
<1> DEFINE max == d.config.name + 1
           A == {k \in 1 .. Shorter(max, Len(buf)) : buf[k] = ":"}
<1>7. HeaderNameMaxLength \in Nat
  BY DecodersAssumption
<1>8. A = {}
  BY <1>0, <1>4, <1>6, <1>7 DEF Shorter
<1>9. First(A) = 0
  BY <1>8 DEF First
<1>10. DecodeHeaderName(d, buf) =
          IF First(A) > 0 THEN [tag |-> "Complete", length |-> First(A) - 1]
          ELSE IF Len(buf) >= max THEN Failure("HeaderNameTooLong") ELSE Incomplete
  BY DEF DecodeHeaderName
<1> HIDE DEF A, max
<1> QED
  BY <1>3, <1>9, <1>10 DEF Failure, Incomplete

-----------------------------------------------------------------------------
(* All header lines.                                                       *)

(* A header line, as the encoders write it.                                *)
Line(e) == e[1] \o <<":", SP>> \o e[2] \o <<CR, LF>>

(* The encoder writes a colon and a space.                                 *)
LEMMA ColonSpaceIs == ColonSpace = Colon \o Space
<1>1. /\ Space \in Text /\ Len(Space) = 1 /\ Space[1] = SP
      /\ ColonSpace \in Text /\ Len(ColonSpace) = 2 /\ ColonSpace[1] = ":" /\ ColonSpace[2] = SP
      /\ Colon \in Text /\ Len(Colon) = 1 /\ Colon[1] = ":"
  BY SeparatorsAre, ColonIs
<1> DEFINE t == Colon \o Space
<1>2. t \in Text /\ Len(t) = 2
  <2>1. t \in Text /\ Len(t) = Len(Colon) + Len(Space)
    BY <1>1, Extended
  <2> QED
    BY <1>1, <2>1
<1>3. t[1] = ":"
  <2>1. \A k \in 1 .. Len(Colon) : t[k] = Colon[k]
    BY <1>1, Extended
  <2>2. 1 \in 1 .. Len(Colon)
    BY <1>1
  <2> QED
    BY <1>1, <2>1, <2>2
<1>4. t[2] = SP
  <2>1. \A k \in 1 .. Len(Space) : t[Len(Colon) + k] = Space[k]
    BY <1>1, SecondPart
  <2>2. 1 \in 1 .. Len(Space) /\ Len(Colon) + 1 = 2
    BY <1>1
  <2>3. t[Len(Colon) + 1] = Space[1]
    BY <2>1, <2>2
  <2> QED
    BY <1>1, <2>2, <2>3
<1> HIDE DEF t
<1>5. \A k \in 1 .. Len(t) : t[k] = ColonSpace[k]
  <2>1. \A k \in 1 .. Len(t) : k = 1 \/ k = 2
    BY <1>2
  <2> QED
    BY <1>1, <1>3, <1>4, <2>1
<1>6. t = ColonSpace
  BY <1>1, <1>2, <1>5, SameText
<1> QED
  BY <1>6 DEF t

(* A line is a name, a colon, a spaced value and a line break.             *)
LEMMA LineInParts ==
    ASSUME NEW name \in Text, NEW value \in Text, NEW y \in Text
    PROVE  /\ Line(<<name, value>>) \in Text
           /\ Line(<<name, value>>) \o y
                 = name \o (Colon \o ((Space \o value) \o (LineBreak \o y)))
<1> DEFINE w == LineBreak \o y
           u == value \o w
           n1 == name \o ColonSpace
           n2 == n1 \o value
           l == n2 \o LineBreak
<1>1. ColonSpace \in Text /\ Colon \in Text /\ Space \in Text /\ LineBreak \in Text
  BY SeparatorsAre, ColonIs
<1>2. w \in Text /\ u \in Text /\ n1 \in Text /\ n2 \in Text /\ l \in Text
  BY <1>1, Concats
<1>3. Line(<<name, value>>) = l
  BY DEF Line, ColonSpace, LineBreak
<1>9. /\ w = LineBreak \o y /\ u = value \o w /\ n1 = name \o ColonSpace
      /\ n2 = n1 \o value /\ l = n2 \o LineBreak
  OBVIOUS
<1> HIDE DEF w, u, n1, n2, l
<1>4. (n2 \o LineBreak) \o y = n2 \o (LineBreak \o y)
  <2>1. Associates(n2, LineBreak, y)
    BY <1>1, <1>2, AlwaysAssociates
  <2> QED
    BY <2>1, Zenon DEF Associates
<1>5. (n1 \o value) \o w = n1 \o (value \o w)
  <2>1. Associates(n1, value, w)
    BY <1>2, AlwaysAssociates
  <2> QED
    BY <2>1, Zenon DEF Associates
<1>6. (name \o ColonSpace) \o u = name \o (ColonSpace \o u)
  <2>1. Associates(name, ColonSpace, u)
    BY <1>1, <1>2, AlwaysAssociates
  <2> QED
    BY <2>1, Zenon DEF Associates
<1>7. (Colon \o Space) \o u = Colon \o (Space \o u)
  <2>1. Associates(Colon, Space, u)
    BY <1>1, <1>2, AlwaysAssociates
  <2> QED
    BY <2>1, Zenon DEF Associates
<1>8. (Space \o value) \o w = Space \o (value \o w)
  <2>1. Associates(Space, value, w)
    BY <1>1, <1>2, AlwaysAssociates
  <2> QED
    BY <2>1, Zenon DEF Associates
<1>10. l \o y = name \o (Colon \o ((Space \o value) \o w))
  BY <1>4, <1>5, <1>6, <1>7, <1>8, <1>9, ColonSpaceIs, Zenon
<1> QED
  BY <1>2, <1>3, <1>9, <1>10, Zenon

(* The line of a header that fits is one that the decoders read.           *)
LEMMA LineIs ==
    ASSUME NEW e \in Text \X Text, FitsHeader(e), NEW y \in Text, Len(y) >= 1, y[1] \notin Blank
    PROVE  /\ Line(e) \in Text /\ IsLine(Line(e) \o y, e[1], e[2], y)
           /\ Line(e) \o y \in Text /\ Len(Line(e) \o y) >= 1 /\ (Line(e) \o y)[1] \notin Blank
<1> DEFINE name == e[1]
           value == e[2]
           s == Space \o value
           w == LineBreak \o y
           r == s \o w
           t == name \o (Colon \o r)
<1>1. name \in Text /\ value \in Text /\ e = <<name, value>>
  OBVIOUS
<1>2. ColonSpace \in Text /\ Colon \in Text /\ Space \in Text /\ LineBreak \in Text
  BY SeparatorsAre, ColonIs
<1>3. /\ IsToken(name) /\ Len(name) <= HeaderNameMaxLength
      /\ Folded(value) /\ Len(value) + 1 < HeaderValueMaxLength
      /\ value # <<>> => value[1] \notin Blank
  BY DEF FitsHeader
<1>4. s \in Text /\ w \in Text /\ r \in Text
  BY <1>1, <1>2, Concats
<1>5. Line(e) \in Text /\ Line(e) \o y = t
  <2>1. Line(<<name, value>>) \in Text /\ Line(<<name, value>>) \o y = t
    BY <1>1, LineInParts, ZenonT(60)
  <2> QED
    BY <1>1, <2>1, Zenon
<1> HIDE DEF name, value
<1>6. Splits(r, s, LineBreak, y)
  BY <1>2, <1>4, JoinSplits
<1> HIDE DEF s, w, r
<1>7. Splits(t, name, Colon, r)
  BY <1>1, <1>2, <1>4, JoinSplits
<1> HIDE DEF t
<1>8. IsLine(t, name, value, y)
  BY <1>1, <1>3, <1>6, <1>7 DEF IsLine, s
<1>9. t \in Text /\ Len(t) >= 1 /\ t[1] \notin Blank
  <2>1. /\ Len(name) >= 1 /\ \A k \in 1 .. Len(name) : name[k] \notin {SP, HT, CR, LF, ":", "/"}
    BY <1>1, <1>3, TokenBytes
  <2>2. /\ t \in Text /\ Len(t) = Len(name) + Len(Colon) + Len(r)
        /\ \A k \in 1 .. Len(name) : t[k] = name[k]
    BY <1>7 DEF Splits
  <2>3. Len(name) \in Nat /\ Len(Colon) \in Nat /\ Len(r) \in Nat
    BY <1>7, SplitLengths
  <2>4. 1 \in 1 .. Len(name) /\ Len(t) >= 1
    BY <2>1, <2>2, <2>3
  <2>5. t[1] = name[1] /\ name[1] \notin {SP, HT}
    BY <2>1, <2>2, <2>4
  <2> QED
    BY <2>2, <2>4, <2>5 DEF Blank
<1> QED
  BY <1>5, <1>8, <1>9 DEF name, value

(* The texts that are left after each of some header lines.                *)
AreLines(R, hs, z) ==
    /\ R \in [0 .. Len(hs) -> Text] /\ R[Len(hs)] = z
    /\ \A k \in 1 .. Len(hs) : R[k - 1] = Line(hs[k]) \o R[k]

(* They are read one after another.                                        *)
LEMMA HeaderLinesStage ==
    ASSUME HeaderNameMaxLength > 0, NEW kind \in Kinds, NEW n \in Nat, NEW a, NEW b,
           NEW hs \in HeaderMaps, Len(hs) <= HeaderMaxCount,
           \A k \in 1 .. Len(hs) : FitsHeader(hs[k]),
           NEW z \in Text, Len(z) >= 1, z[1] \notin Blank, NEW R, AreLines(R, hs, z),
           NEW result, Good(kind, InHeader(kind, n, a, b, hs), z, result)
    PROVE  Good(kind, InHeader(kind, n, a, b, <<>>), R[0], result)
<1> DEFINE size == Len(hs)
           first(k) == SubSeq(hs, 1, k)
           left(k) == Line(hs[k]) \o R[k]
           Begins(t) == t \in Text /\ Len(t) >= 1 /\ t[1] \notin Blank
           Fine(k) == Begins(R[k]) /\ Good(kind, InHeader(kind, n, a, b, first(k)), R[k], result)
           S == {j \in Nat : j <= size => Fine(size - j)}
<1>1. /\ size \in Nat /\ (\A k \in 1 .. size : hs[k] \in Text \X Text)
      /\ (\A k \in 1 .. size : FitsHeader(hs[k])) /\ size <= HeaderMaxCount
      /\ HeaderMaxCount \in Nat
  BY Entries, DecodersAssumption
<1>2. /\ R \in [0 .. size -> Text] /\ R[size] = z
      /\ \A k \in 1 .. size : R[k - 1] = left(k)
  BY DEF AreLines
<1>3. /\ first(size) = hs /\ first(0) = <<>>
      /\ \A k \in 0 .. size : first(k) \in HeaderMaps /\ Len(first(k)) = k
      /\ \A k \in 1 .. size : first(k) = Append(first(k - 1), hs[k])
  <2>1. \A k \in 0 .. size : first(k) \in HeaderMaps /\ Len(first(k)) = k
    BY <1>1 DEF HeaderMaps
  <2>2. first(size) = hs /\ first(0) = <<>>
    BY <1>1 DEF HeaderMaps
  <2>3. ASSUME NEW k \in 1 .. size PROVE first(k) = Append(first(k - 1), hs[k])
    BY <1>1 DEF HeaderMaps
  <2> QED
    BY <2>1, <2>2, <2>3
<1>4. \A k \in 1 .. size : hs[k] = <<hs[k][1], hs[k][2]>>
  BY Entries
<1> HIDE DEF first, left
<1>5. 0 \in S
  <2>1. Fine(size)
    BY <1>2, <1>3
  <2> HIDE DEF Fine
  <2> QED
    BY <1>1, <2>1
<1>6. ASSUME NEW j \in Nat, j \in S PROVE j + 1 \in S
  <2> SUFFICES ASSUME j + 1 <= size PROVE Fine(size - (j + 1))
    OBVIOUS
  <2> DEFINE k == size - j
             h == k - 1
             e == hs[k]
             d == InHeader(kind, n, a, b, first(h))
             next == InHeader(kind, n, a, b, first(k))
  <2>1. k \in 1 .. size /\ h \in 0 .. size /\ h = size - (j + 1) /\ h < HeaderMaxCount /\ j <= size
    BY <1>1
  <2>2. Fine(k)
    BY <1>6, <2>1
  <2> HIDE DEF k
  <2>3. e \in Text \X Text /\ FitsHeader(e) /\ e = <<e[1], e[2]>>
    BY <1>1, <1>4, <2>1
  <2>4. R[h] = Line(e) \o R[k]
    BY <1>2, <2>1 DEF left
  <2>5. Len(first(h)) = h /\ first(h) \in HeaderMaps /\ first(k) = Append(first(h), e) /\ h \in Nat
    <3>1. first(k) = Append(first(k - 1), hs[k])
      BY <1>3, <2>1
    <3>2. h \in Nat /\ h = k - 1
      BY <1>1, <2>1
    <3>3. Len(first(h)) = h /\ first(h) \in HeaderMaps
      BY <1>3, <2>1
    <3> QED
      BY <3>1, <3>2, <3>3
  <2>6. Begins(R[k]) /\ Good(kind, next, R[k], result)
    BY <2>2
  <2> HIDE DEF h, e
  <2>7. IsLine(R[h], e[1], e[2], R[k]) /\ Begins(R[h])
    BY <2>3, <2>4, <2>6, LineIs
  <2>8. Step(kind, d, R[h]) = Complete(next, R[k])
    <3>1. Len(first(h)) \in Nat /\ Len(first(h)) < HeaderMaxCount
      BY <2>1, <2>5
    <3>2. Step(kind, d, R[h])
             = Complete(InHeader(kind, n, a, b, Append(first(h), <<e[1], e[2]>>)), R[k])
      BY <2>7, <3>1, HeaderLineReads
    <3> QED
      BY <2>3, <2>5, <3>2
  <2>9. NoCut(kind, d, R[h])
    BY <2>7, HeaderLineNoCut
  <2>10. IsDecoder(kind, d) /\ d.state = "Header"
    <3>1. "Header" \in States(kind)
      BY DEF States, Kinds
    <3>2. Len(first(h)) <= HeaderMaxCount /\ first(h) \in Seq(Text \X Text)
      BY <2>1, <2>5, <1>1 DEF HeaderMaps
    <3> QED
      BY <3>1, <3>2, AtIs DEF InHeader
  <2> HIDE DEF d, next
  <2>11. Good(kind, d, R[h], result)
    BY <2>6, <2>7, <2>8, <2>9, <2>10, GoodStep
  <2>12. Fine(h)
    BY <2>7, <2>11 DEF d
  <2> QED
    BY <2>1, <2>12
<1> HIDE DEF S, Fine
<1>7. size \in S
  BY <1>1, <1>5, <1>6, SetInduction
<1>8. Fine(0)
  <2>1. size <= size /\ size - size = 0
    BY <1>1
  <2>2. Fine(size - size)
    BY <1>7, <2>1 DEF S
  <2> QED
    BY <2>1, <2>2
<1> QED
  BY <1>3, <1>8 DEF Fine

-----------------------------------------------------------------------------
(* The headers that are received.                                          *)

(* A message whose headers and body have their types.                      *)
HasParts(m) == m.headers \in HeaderMaps /\ m.body \in Text
Others(m) == Without(m.headers, <<"L">>)
LengthHeader(m) == <<<<"L">>, FormatUnsigned(Len(m.body))>>

(* The header that the encoder writes for a body is one of texts.          *)
LEMMA LengthHeaderIs ==
    ASSUME NEW m, HasParts(m)
    PROVE  /\ LengthHeader(m) \in Text \X Text /\ Len(m.body) \in Nat
           /\ LengthHeader(m)[1] = <<"L">> /\ LengthHeader(m)[2] = FormatUnsigned(Len(m.body))
<1>1. "L" \in Bytes
  BY BytesAssumption
<1>2. <<"L">> \in Text
  BY <1>1, OneByte
<1>3. Len(m.body) \in Nat
  BY DEF HasParts, Text
<1>4. FormatUnsigned(Len(m.body)) \in Text
  BY <1>3, FormatText
<1> QED
  BY <1>2, <1>3, <1>4 DEF LengthHeader

(* The positions of two sequences, one after the other.                    *)
LEMMA ConcatIs ==
    ASSUME NEW S, NEW u \in Seq(S), NEW v \in Seq(S)
    PROVE  /\ u \o v \in Seq(S) /\ Len(u \o v) = Len(u) + Len(v)
           /\ \A k \in 1 .. Len(u) : (u \o v)[k] = u[k]
OBVIOUS

LEMMA ConcatEnd ==
    ASSUME NEW S, NEW u \in Seq(S), NEW v \in Seq(S), NEW k \in 1 .. Len(v)
    PROVE  (u \o v)[Len(u) + k] = v[k]
OBVIOUS

(* The headers that are received are those that the encoder writes.        *)
LEMMA ReceivedAre ==
    ASSUME NEW m, HasParts(m)
    PROVE  LET hs == ReceivedHeaders(m)
               others == Others(m)
           IN  /\ others \in HeaderMaps /\ hs \in HeaderMaps /\ Len(others) \in Nat
               /\ \A k \in 1 .. Len(others) : others[k][1] # <<"L">>
               /\ m.body = <<>> => hs = others
               /\ m.body # <<>> =>
                     /\ Len(hs) = Len(others) + 1 /\ hs[1] = LengthHeader(m)
                     /\ \A k \in 1 .. Len(others) : hs[k + 1] = others[k]
<1> DEFINE hs == ReceivedHeaders(m)
           others == Others(m)
           l == LengthHeader(m)
<1>1. others \in HeaderMaps /\ \A k \in 1 .. Len(others) : others[k][1] # <<"L">>
  BY WithoutIs DEF Others, HasParts
<1>2. l \in Text \X Text
  BY LengthHeaderIs
<1>3. hs = (IF m.body = <<>> THEN <<>> ELSE <<l>>) \o others
  BY DEF ReceivedHeaders, Others, LengthHeader
<1> HIDE DEF hs, others, l
<1>4. Len(others) \in Nat
  BY <1>1, Entries
<1>5. CASE m.body = <<>>
  <2>1. hs = others
    BY <1>1, <1>3, <1>5 DEF HeaderMaps
  <2> QED
    BY <1>1, <1>4, <1>5, <2>1 DEF hs, others
<1>6. CASE m.body # <<>>
  <2>1. hs = <<l>> \o others
    BY <1>3, <1>6
  <2> DEFINE S == Text \X Text
             o == <<l>>
  <2>2. o \in Seq(S) /\ Len(o) = 1 /\ o[1] = l
    BY <1>2, OneElement
  <2>3. others \in Seq(S) /\ hs = o \o others
    BY <1>1, <2>1 DEF HeaderMaps
  <2> HIDE DEF o, S
  <2>4. /\ hs \in Seq(S) /\ Len(hs) = Len(o) + Len(others)
        /\ \A k \in 1 .. Len(o) : hs[k] = o[k]
    BY <2>2, <2>3, ConcatIs
  <2>5. \A k \in 1 .. Len(others) : hs[Len(o) + k] = others[k]
    BY <2>2, <2>3, ConcatEnd, Zenon
  <2>6. 1 \in 1 .. Len(o)
    BY <2>2
  <2>7. hs[1] = l /\ Len(hs) = Len(others) + 1
    BY <1>4, <2>2, <2>4, <2>6
  <2>8. ASSUME NEW k \in 1 .. Len(others) PROVE hs[k + 1] = others[k]
    <3>1. Len(o) + k = k + 1
      BY <1>4, <2>2
    <3>2. hs[Len(o) + k] = others[k]
      BY <2>5
    <3> QED
      BY <3>1, <3>2
  <2>9. hs \in HeaderMaps
    BY <2>4 DEF S, HeaderMaps
  <2> QED
    BY <1>1, <1>4, <1>6, <2>7, <2>8, <2>9 DEF hs, others, l
<1> QED
  BY <1>5, <1>6

(* The only Content-Length that is received is the one of the body.        *)
LEMMA ReceivedLength ==
    ASSUME NEW m, HasParts(m)
    PROVE  GetAll(ReceivedHeaders(m), <<"L">>) = LengthValues(Len(m.body))
<1> DEFINE hs == ReceivedHeaders(m)
           others == Others(m)
           v == Len(m.body)
           name == <<"L">>
<1>1. /\ others \in HeaderMaps /\ hs \in HeaderMaps /\ Len(others) \in Nat
      /\ \A k \in 1 .. Len(others) : others[k][1] # name
      /\ m.body = <<>> => hs = others
  BY ReceivedAre
<1>2. m.body # <<>> =>
         /\ Len(hs) = Len(others) + 1 /\ hs[1] = LengthHeader(m)
         /\ \A k \in 1 .. Len(others) : hs[k + 1] = others[k]
  BY ReceivedAre
<1>3. v \in Nat /\ (v = 0 <=> m.body = <<>>)
  BY DEF HasParts, Text
<1>4. LengthHeader(m)[1] = name /\ LengthHeader(m)[2] = FormatUnsigned(v)
  BY LengthHeaderIs
<1> HIDE DEF hs, others, v, name
<1>5. CASE m.body = <<>>
  <2>1. GetAll(hs, name) = <<>>
    BY <1>1, <1>5, GetAllNone
  <2> QED
    BY <1>3, <1>5, <2>1 DEF LengthValues, hs, name, v
<1>6. CASE m.body # <<>>
  <2>1. Len(hs) = Len(others) + 1 /\ hs[1][1] = name /\ hs[1][2] = FormatUnsigned(v)
    BY <1>2, <1>4, <1>6
  <2>2. ASSUME NEW k \in 2 .. Len(hs) PROVE hs[k][1] # name
    <3> DEFINE j == k - 1
    <3>1. j \in 1 .. Len(others) /\ j + 1 = k
      BY <1>1, <2>1
    <3> HIDE DEF j
    <3>2. hs[j + 1] = others[j] /\ others[j][1] # name
      BY <1>1, <1>2, <1>6, <3>1
    <3> QED
      BY <3>1, <3>2
  <2>3. Len(hs) >= 1
    BY <1>1, <2>1
  <2>4. GetAll(hs, name) = <<hs[1][2]>>
    BY <1>1, <2>1, <2>2, <2>3, GetAllFirst
  <2> QED
    BY <1>3, <1>6, <2>1, <2>4 DEF LengthValues, hs, name, v
<1> QED
  BY <1>5, <1>6

(* The text of the headers and the body, line by line.                     *)
Regroups(p, f, s, b, y) ==
    /\ ((p \o f) \o s) \o b \in Text
    /\ (((p \o f) \o s) \o b) \o y = p \o (f \o (s \o (b \o y)))

(* The prefix, the first line, the other lines and the body, one by one.   *)
LEMMA Regroup ==
    ASSUME NEW p \in Text, NEW f \in Text, NEW s \in Text, NEW b \in Text, NEW y \in Text
    PROVE  Regroups(p, f, s, b, y)
<1> DEFINE pf == p \o f
           pfs == pf \o s
           q == b \o y
           z == s \o q
<1>1. pf \in Text /\ q \in Text
  BY Concats
<1>2. pfs \in Text /\ z \in Text
  BY <1>1, Concats
<1>3. pfs \o b \in Text
  BY <1>2, Concats
<1>4. pf = p \o f /\ pfs = pf \o s /\ q = b \o y /\ z = s \o q
  OBVIOUS
<1> HIDE DEF pf, pfs, q, z
<1>5. (pfs \o b) \o y = pfs \o (b \o y)
  <2>1. Associates(pfs, b, y)
    BY <1>2, AlwaysAssociates
  <2> QED
    BY <2>1, Zenon DEF Associates
<1>6. (pf \o s) \o q = pf \o (s \o q)
  <2>1. Associates(pf, s, q)
    BY <1>1, AlwaysAssociates
  <2> QED
    BY <2>1, Zenon DEF Associates
<1>7. (p \o f) \o z = p \o (f \o z)
  <2>1. Associates(p, f, z)
    BY <1>2, AlwaysAssociates
  <2> QED
    BY <2>1, Zenon DEF Associates
<1> QED
  BY <1>3, <1>4, <1>5, <1>6, <1>7, Zenon DEF Regroups

(* Lines one after another, each before the rest of them.                  *)
LEMMA OtherLines ==
    ASSUME NEW hs \in HeaderMaps, NEW z \in Text
    PROVE  LET lines == [i \in DOMAIN hs |-> Line(hs[i])]
           IN  /\ FlattenSeq(lines) \in Text
               /\ \E R : AreLines(R, hs, z) /\ FlattenSeq(lines) \o z = R[0]
<1> DEFINE n == Len(hs)
           lines == [i \in DOMAIN hs |-> Line(hs[i])]
<1>1. n \in Nat /\ DOMAIN hs = 1 .. n
  BY Entries
<1>2. ASSUME NEW k \in 1 .. n PROVE Line(hs[k]) \in Text
  <2>1. hs[k][1] \in Text /\ hs[k][2] \in Text /\ hs[k] = <<hs[k][1], hs[k][2]>>
    BY Entries
  <2>2. Line(<<hs[k][1], hs[k][2]>>) \in Text
    BY <2>1, EmptyText, LineInParts
  <2> QED
    BY <2>1, <2>2
<1>3. lines \in [1 .. n -> Text] /\ \A k \in 1 .. n : lines[k] = Line(hs[k])
  BY <1>1, <1>2
<1> HIDE DEF lines
<1>4. lines \in TextLists /\ Len(lines) = n
  BY <1>1, <1>3, FunctionIsSeq DEF TextLists
<1>5. PICK R : AreSuffixes(R, lines, z)
  BY <1>4, SuffixesExist
<1>6. FlattenSeq(lines) \in Text /\ FlattenSeq(lines) \o z = R[0]
  BY <1>4, <1>5, FlattenInParts
<1>7. AreLines(R, hs, z)
  <2>1. R \in [0 .. n -> Text] /\ R[n] = z /\ \A k \in 1 .. n : R[k - 1] = lines[k] \o R[k]
    BY <1>4, <1>5 DEF AreSuffixes
  <2>2. ASSUME NEW k \in 1 .. n PROVE R[k - 1] = Line(hs[k]) \o R[k]
    BY <1>3, <2>1
  <2> QED
    BY <2>1, <2>2 DEF AreLines
<1> QED
  BY <1>6, <1>7 DEF lines

-----------------------------------------------------------------------------
(* The lines that the encoder writes.                                      *)

(* One more header, and one more line, in front.                           *)
Follows(hs, e, others) ==
    /\ Len(hs) = Len(others) + 1 /\ hs[1] = e
    /\ \A k \in 1 .. Len(others) : hs[k + 1] = others[k]

(* The line of the first header goes in front of the other lines.          *)
LEMMA LineInFront ==
    ASSUME NEW R, NEW others \in HeaderMaps, NEW z, AreLines(R, others, z),
           NEW hs, NEW e \in Text \X Text, Follows(hs, e, others)
    PROVE  \E Q : AreLines(Q, hs, z) /\ Q[0] = Line(e) \o R[0]
<1> DEFINE n == Len(others)
           first == Line(e) \o R[0]
           Q == [k \in 0 .. n + 1 |-> IF k = 0 THEN first ELSE R[k - 1]]
           left(k) == Line(others[k]) \o R[k]
<1>1. n \in Nat /\ Len(hs) = n + 1 /\ hs[1] = e
  BY Entries DEF Follows
<1>2. R \in [0 .. n -> Text] /\ R[n] = z /\ \A k \in 1 .. n : R[k - 1] = left(k)
  BY DEF AreLines
<1>3. R[0] \in Text
  BY <1>1, <1>2
<1>4. first \in Text
  <2>1. e = <<e[1], e[2]>> /\ e[1] \in Text /\ e[2] \in Text
    OBVIOUS
  <2>2. Line(<<e[1], e[2]>>) \in Text
    BY <1>3, <2>1, LineInParts
  <2> QED
    BY <1>3, <2>1, <2>2, Concats
<1>0. first = Line(e) \o R[0]
  OBVIOUS
<1> HIDE DEF first, n, left
<1>5. Q \in [0 .. n + 1 -> Text] /\ Q[0] = first
  BY <1>1, <1>2, <1>4
<1>6. \A k \in 1 .. n + 1 : Q[k] = R[k - 1]
  BY <1>1
<1> HIDE DEF Q
<1>7. Q[n + 1] = z
  BY <1>1, <1>2, <1>6
<1>8. ASSUME NEW k \in 1 .. n + 1 PROVE Q[k - 1] = Line(hs[k]) \o Q[k]
  <2>1. CASE k = 1
    <3>1. Q[k] = R[0] /\ Q[k - 1] = first /\ hs[k] = e
      BY <1>1, <1>5, <1>6, <2>1
    <3> QED
      BY <1>0, <3>1, Zenon
  <2>2. CASE k # 1
    <3> DEFINE j == k - 1
    <3>1. j \in 1 .. n /\ j + 1 = k /\ j \in 1 .. n + 1
      BY <1>1, <2>2
    <3>2. Q[j] = R[j - 1] /\ Q[k] = R[j] /\ R[j - 1] = left(j)
      BY <1>2, <1>6, <3>1
    <3> HIDE DEF j
    <3>3. hs[k] = others[j]
      BY <3>1 DEF n, Follows
    <3>4. Q[j] = Line(hs[k]) \o Q[k]
      BY <3>2, <3>3, Zenon DEF left
    <3> QED
      BY <3>4 DEF j
  <2> QED
    BY <2>1, <2>2
<1>9. AreLines(Q, hs, z)
  BY <1>1, <1>5, <1>7, <1>8 DEF AreLines
<1> QED
  BY <1>0, <1>5, <1>9

(* encode_headers writes a line for each header that is received.          *)
LEMMA EncodedLines ==
    ASSUME NEW m, HasParts(m), NEW y \in Text
    PROVE  /\ EncodeHeaders(m.headers, m.body) \in Text
           /\ \E R : /\ AreLines(R, ReceivedHeaders(m), LineBreak \o (m.body \o y))
                     /\ EncodeHeaders(m.headers, m.body) \o y = R[0]
<1> DEFINE hs == ReceivedHeaders(m)
           others == Others(m)
           lines == [i \in DOMAIN others |-> Line(others[i])]
           f == FlattenSeq(lines)
           p == IF m.body = <<>> THEN <<>> ELSE Line(LengthHeader(m))
           text == EncodeHeaders(m.headers, m.body)
           body == m.body
           z == LineBreak \o (body \o y)
<1>1. text = ((p \o f) \o LineBreak) \o body
  BY DEF EncodeHeaders, Others, LengthHeader, Line, LineBreak
<1>2. body \in Text /\ LineBreak \in Text
  BY SeparatorsAre DEF HasParts
<1>3. z \in Text
  BY <1>2, Concats
<1>4. /\ others \in HeaderMaps /\ hs \in HeaderMaps /\ Len(others) \in Nat
      /\ m.body = <<>> => hs = others
      /\ m.body # <<>> => Follows(hs, LengthHeader(m), others)
  BY ReceivedAre DEF Follows
<1>5. LengthHeader(m) \in Text \X Text
  BY LengthHeaderIs
<1> HIDE DEF others, hs
<1>6. f \in Text /\ \E R : AreLines(R, others, z) /\ f \o z = R[0]
  BY <1>3, <1>4, OtherLines
<1>7. PICK R : AreLines(R, others, z) /\ f \o z = R[0]
  BY <1>6
<1> HIDE DEF f, z, text, body
<1>8. CASE m.body = <<>>
  <2>1. p = <<>> /\ p \in Text
    BY <1>8, EmptyText
  <2> HIDE DEF p
  <2>2. text \in Text /\ text \o y = p \o (f \o z)
    <3> DEFINE q == ((p \o f) \o LineBreak) \o body
    <3>1. q \in Text /\ q \o y = p \o (f \o (LineBreak \o (body \o y)))
      <4>1. Regroups(p, f, LineBreak, body, y)
        BY <1>2, <1>6, <2>1, Regroup
      <4> QED
        BY <4>1 DEF Regroups
    <3>2. text = q
      BY <1>1
    <3> HIDE DEF q
    <3> QED
      BY <3>1, <3>2, Zenon DEF z
  <2>3. f \o z \in Text
    BY <1>3, <1>6, Concats
  <2>4. p \o (f \o z) = f \o z
    BY <2>1, <2>3, EmptyText
  <2>5. text \o y = R[0] /\ AreLines(R, hs, z)
    BY <1>4, <1>7, <1>8, <2>2, <2>4
  <2> QED
    BY <2>2, <2>5 DEF text, hs, z, body
<1>9. CASE m.body # <<>>
  <2>1. p = Line(LengthHeader(m)) /\ p \in Text
    <3> DEFINE e == LengthHeader(m)
    <3>1. e = <<e[1], e[2]>> /\ e[1] \in Text /\ e[2] \in Text
      BY <1>5
    <3> HIDE DEF e
    <3>2. Line(<<e[1], e[2]>>) \in Text
      BY <1>2, <3>1, LineInParts
    <3>3. p = Line(e)
      BY <1>9 DEF e
    <3> QED
      BY <3>1, <3>2, <3>3 DEF e
  <2> HIDE DEF p
  <2>2. text \in Text /\ text \o y = p \o (f \o z)
    <3> DEFINE q == ((p \o f) \o LineBreak) \o body
    <3>1. q \in Text /\ q \o y = p \o (f \o (LineBreak \o (body \o y)))
      <4>1. Regroups(p, f, LineBreak, body, y)
        BY <1>2, <1>6, <2>1, Regroup
      <4> QED
        BY <4>1 DEF Regroups
    <3>2. text = q
      BY <1>1
    <3> HIDE DEF q
    <3> QED
      BY <3>1, <3>2, Zenon DEF z
  <2>3. PICK Q : AreLines(Q, hs, z) /\ Q[0] = Line(LengthHeader(m)) \o R[0]
    BY <1>4, <1>5, <1>7, <1>9, LineInFront
  <2>4. text \o y = Q[0]
    BY <1>7, <2>1, <2>2, <2>3, Zenon
  <2> QED
    BY <2>2, <2>3, <2>4 DEF text, hs, z, body
<1> QED
  BY <1>8, <1>9

(* The headers and the body of a message that fits.                        *)
LEMMA HeadersStage ==
    ASSUME HeaderNameMaxLength > 0, NEW kind \in Kinds, NEW n \in Nat, NEW a, NEW b,
           NEW m, HasParts(m), FitsHeaders(m), NEW y \in Text
    PROVE  Good(kind, InHeader(kind, n, a, b, <<>>), EncodeHeaders(m.headers, m.body) \o y,
                Done(kind, At(kind, "End", Len(m.body), a, b, ReceivedHeaders(m), m.body), y))
<1> DEFINE hs == ReceivedHeaders(m)
           body == m.body
           v == Len(body)
           w == body \o y
           z == LineBreak \o w
           d == InHeader(kind, n, a, b, hs)
           d2 == At(kind, "Body", v, a, b, hs, <<>>)
           d3 == At(kind, "End", v, a, b, hs, body)
           result == Done(kind, d3, y)
<1>1. body \in Text /\ LineBreak \in Text /\ v \in Nat
  BY SeparatorsAre DEF HasParts, Text
<1>2. w \in Text
  BY <1>1, Concats
<1>3. z \in Text /\ Len(z) >= 1 /\ z[1] \notin Blank
  <2>1. Len(z) = 2 + Len(w) /\ Len(w) \in Nat /\ z[1] = CR
    BY <1>2, LineBreakStarts
  <2>2. z \in Text
    BY <1>1, <1>2, Concats
  <2>3. CR \notin Blank
    BY DEF CR, Blank, SP, HT
  <2> QED
    BY <2>1, <2>2, <2>3
<1>4. hs \in HeaderMaps
  BY ReceivedAre
<1>5. Len(hs) <= HeaderMaxCount /\ (\A k \in 1 .. Len(hs) : FitsHeader(hs[k])) /\ FitsLength(v)
  BY <1>1, <1>4, Entries DEF FitsHeaders, FitsLength
<1>6. GetAll(hs, <<"L">>) = LengthValues(v)
  BY ReceivedLength
<1> HIDE DEF hs, body, v
<1>7. hs \in Seq(Text \X Text)
  BY <1>4 DEF HeaderMaps
<1>8. "Header" \in States(kind) /\ "Body" \in States(kind) /\ "End" \in States(kind)
  BY DEF States, Kinds
<1>9. /\ IsDecoder(kind, d) /\ d.state = "Header"
      /\ IsDecoder(kind, d2) /\ d2.state = "Body"
      /\ IsDecoder(kind, d3) /\ d3.state = "End"
  BY <1>1, <1>5, <1>7, <1>8, AtIs DEF InHeader
<1>10. Good(kind, d3, y, result)
  <2> HIDE DEF d3
  <2> QED
    BY <1>9, GoodEnd
<1>11. Good(kind, d2, w, result)
  <2>1. Step(kind, d2, w) = Complete(d3, y)
    BY <1>1, BodyStage DEF v
  <2>2. NoCut(kind, d2, w)
    BY <1>9, NoCutElsewhere
  <2> HIDE DEF d2, d3, w, result
  <2> QED
    BY <1>2, <1>9, <1>10, <2>1, <2>2, GoodStep
<1>12. Good(kind, d, z, result)
  <2>1. Step(kind, d, z) = Complete(d2, w)
    BY <1>2, <1>5, <1>6, BlankLineStage
  <2>2. NoCut(kind, d, z)
    BY <1>2, BlankLineNoCut
  <2> HIDE DEF d, d2, d3, w, z, result
  <2> QED
    BY <1>3, <1>9, <1>11, <2>1, <2>2, GoodStep
<1>13. PICK R : AreLines(R, hs, z) /\ EncodeHeaders(m.headers, m.body) \o y = R[0]
  BY EncodedLines DEF hs, body
<1> HIDE DEF z, d3, result
<1>14. Good(kind, InHeader(kind, n, a, b, <<>>), R[0], result)
  BY <1>3, <1>4, <1>5, <1>12, <1>13, HeaderLinesStage
<1> QED
  BY <1>13, <1>14 DEF result, d3, hs, body, v

-----------------------------------------------------------------------------
(* A whole message, and what the decoders return for it.                   *)

(* A text of seven parts.                                                  *)
Whole(a, b, c, d, e, f, g) == a \o b \o c \o d \o e \o f \o g
Nested(a, b, c, d, e, f, g, y) == a \o (b \o (c \o (d \o (e \o (f \o (g \o y))))))

Nests(a, b, c, d, e, f, g, y) ==
    /\ Whole(a, b, c, d, e, f, g) \in Text
    /\ Whole(a, b, c, d, e, f, g) \o y = Nested(a, b, c, d, e, f, g, y)

(* Seven texts put together, each before the rest of them.                 *)
LEMMA SevenParts ==
    ASSUME NEW a \in Text, NEW b \in Text, NEW c \in Text, NEW d \in Text, NEW e \in Text,
           NEW f \in Text, NEW g \in Text, NEW y \in Text
    PROVE  Nests(a, b, c, d, e, f, g, y)
<1> DEFINE x2 == a \o b
           x3 == x2 \o c
           x4 == x3 \o d
           x5 == x4 \o e
           x6 == x5 \o f
           x7 == x6 \o g
           y6 == g \o y
           y5 == f \o y6
           y4 == e \o y5
           y3 == d \o y4
           y2 == c \o y3
<1>1. x2 \in Text /\ y6 \in Text
  BY Concats
<1>2. x3 \in Text /\ y5 \in Text
  BY <1>1, Concats
<1>3. x4 \in Text /\ y4 \in Text
  BY <1>2, Concats
<1>4. x5 \in Text /\ y3 \in Text
  BY <1>3, Concats
<1>5. x6 \in Text /\ y2 \in Text
  BY <1>4, Concats
<1>6. x7 \in Text
  BY <1>5, Concats
<1>7. Whole(a, b, c, d, e, f, g) = x7
  BY DEF Whole
<1>8. Nested(a, b, c, d, e, f, g, y) = a \o (b \o y2)
  BY DEF Nested
<1>9. /\ x2 = a \o b /\ x3 = x2 \o c /\ x4 = x3 \o d /\ x5 = x4 \o e /\ x6 = x5 \o f
      /\ x7 = x6 \o g
      /\ y6 = g \o y /\ y5 = f \o y6 /\ y4 = e \o y5 /\ y3 = d \o y4 /\ y2 = c \o y3
  OBVIOUS
<1> HIDE DEF x2, x3, x4, x5, x6, x7, y6, y5, y4, y3, y2
<1>10. x7 \o y = x6 \o y6
  <2>1. Associates(x6, g, y)
    BY <1>5, AlwaysAssociates
  <2> QED
    BY <1>9, <2>1, Zenon DEF Associates
<1>11. x6 \o y6 = x5 \o y5
  <2>1. Associates(x5, f, y6)
    BY <1>1, <1>4, AlwaysAssociates
  <2> QED
    BY <1>9, <2>1, Zenon DEF Associates
<1>12. x5 \o y5 = x4 \o y4
  <2>1. Associates(x4, e, y5)
    BY <1>2, <1>3, AlwaysAssociates
  <2> QED
    BY <1>9, <2>1, Zenon DEF Associates
<1>13. x4 \o y4 = x3 \o y3
  <2>1. Associates(x3, d, y4)
    BY <1>2, <1>3, AlwaysAssociates
  <2> QED
    BY <1>9, <2>1, Zenon DEF Associates
<1>14. x3 \o y3 = x2 \o y2
  <2>1. Associates(x2, c, y3)
    BY <1>1, <1>4, AlwaysAssociates
  <2> QED
    BY <1>9, <2>1, Zenon DEF Associates
<1>15. x2 \o y2 = a \o (b \o y2)
  <2>1. Associates(a, b, y2)
    BY <1>5, AlwaysAssociates
  <2> QED
    BY <1>9, <2>1, Zenon DEF Associates
<1> QED
  BY <1>6, <1>7, <1>8, <1>10, <1>11, <1>12, <1>13, <1>14, <1>15, Zenon DEF Nests

(* A decoder that has nothing of a message, and remembers a length.        *)
Fresh(kind, n) == [NewDecoder(kind) EXCEPT !.length = n]

(* A fresh decoder is in the first state and holds nothing.                *)
LEMMA FreshIs ==
    ASSUME NEW n
    PROVE  /\ Fresh("request", n) = At("request", "Method", n, <<>>, <<>>, <<>>, <<>>)
           /\ Fresh("response", n) = At("response", "Version", n, 0, <<>>, <<>>, <<>>)
BY DEF Fresh, NewDecoder, At, RequestAt, ResponseAt, RequestDecoder, ResponseDecoder

(* A decoder that has read no header.                                      *)
LEMMA NoHeaderYet ==
    ASSUME NEW kind \in Kinds, NEW state \in States(kind), NEW n \in Nat, NEW a, NEW b
    PROVE  LET d == At(kind, state, n, a, b, <<>>, <<>>)
           IN  IsDecoder(kind, d) /\ d.state = state
<1> DEFINE d == At(kind, state, n, a, b, <<>>, <<>>)
<1>1. /\ d.state = state /\ d.length = n /\ d.config = Limits(kind) /\ d.headers = <<>>
      /\ {"state", "length", "config", "headers"} \subseteq DOMAIN d
  BY DEF At, RequestAt, ResponseAt, Limits
<1> HIDE DEF d
<1>2. d.headers \in Seq(Text) /\ Len(d.headers) <= HeaderMaxCount
  BY <1>1, DecodersAssumption
<1>3. IsDecoder(kind, d)
  BY <1>1, <1>2 DEF IsDecoder
<1>4. IsDecoder(kind, d) /\ d.state = state
  BY <1>1, <1>3
<1> QED
  BY <1>4 DEF d

(* What decode returns for a message.                                      *)
Returned(kind, m, rest) ==
    [tag |-> "Complete", message |-> Received(m), rest |-> rest, d |-> Fresh(kind, Len(m.body))]

(* The end of a message returns what was sent.                             *)
LEMMA RequestReturned ==
    ASSUME NEW m, FitsRequest(m), NEW y
    PROVE  Done("request", At("request", "End", Len(m.body), m.method, m.uri,
                              ReceivedHeaders(m), m.body), y) = Returned("request", m, y)
<1> DEFINE hs == ReceivedHeaders(m)
           d == At("request", "End", Len(m.body), m.method, m.uri, hs, m.body)
<1>1. d.length = Len(m.body)
  BY DEF At, RequestAt
<1>2. m \in [kind : {"request"}, method : Text, uri : Text, headers : Seq(Text \X Text), body : Text]
  BY DEF FitsRequest
<1>3. m = [kind |-> "request", method |-> m.method, uri |-> m.uri, headers |-> m.headers,
           body |-> m.body]
  BY <1>2
<1>4. RequestOf(d) = [kind |-> "request", method |-> m.method, uri |-> m.uri, headers |-> hs,
                      body |-> m.body]
  BY DEF RequestOf, At, RequestAt
<1> HIDE DEF hs
<1>5. [m EXCEPT !.headers = hs] = RequestOf(d)
  BY <1>3, <1>4
<1> HIDE DEF d
<1>6. Received(m) = RequestOf(d)
  BY <1>5 DEF Received, hs
<1>7. Done("request", d, y) = [tag |-> "Complete", message |-> RequestOf(d), rest |-> y,
                               d |-> Fresh("request", Len(m.body))]
  BY <1>1 DEF Done, Fresh
<1> QED
  BY <1>6, <1>7 DEF Returned, d, hs

LEMMA ResponseReturned ==
    ASSUME NEW m, FitsResponse(m), NEW y
    PROVE  Done("response", At("response", "End", Len(m.body), m.status, m.phrase,
                               ReceivedHeaders(m), m.body), y) = Returned("response", m, y)
<1> DEFINE hs == ReceivedHeaders(m)
           d == At("response", "End", Len(m.body), m.status, m.phrase, hs, m.body)
<1>1. d.length = Len(m.body)
  BY DEF At, ResponseAt
<1>2. m \in [kind : {"response"}, status : 100 .. 599, phrase : Text,
             headers : Seq(Text \X Text), body : Text]
  BY DEF FitsResponse
<1>3. m = [kind |-> "response", status |-> m.status, phrase |-> m.phrase, headers |-> m.headers,
           body |-> m.body]
  BY <1>2
<1>4. (IF StatusCodeTryFrom(m.status).tag = "Standard" THEN <<"K">> ELSE m.phrase) = m.phrase
  <2>1. StatusCodeTryFrom(m.status).tag = "Standard" => m.status \in StandardStatusCodes
    BY DEF StatusCodeTryFrom
  <2> QED
    BY <2>1, ZenonT(60) DEF FitsResponse
<1>5. ResponseOf(d) = [kind |-> "response", status |-> m.status, phrase |-> m.phrase,
                       headers |-> hs, body |-> m.body]
  <2>1. d.status = m.status /\ d.phrase = m.phrase /\ d.headers = hs /\ d.body = m.body
    BY DEF At, ResponseAt
  <2> HIDE DEF d
  <2> QED
    BY <1>4, <2>1 DEF ResponseOf
<1> HIDE DEF hs
<1>6. [m EXCEPT !.headers = hs] = ResponseOf(d)
  BY <1>3, <1>5
<1> HIDE DEF d
<1>7. Received(m) = ResponseOf(d)
  BY <1>6 DEF Received, hs
<1>8. Done("response", d, y) = [tag |-> "Complete", message |-> ResponseOf(d), rest |-> y,
                                d |-> Fresh("response", Len(m.body))]
  BY <1>1 DEF Done, Fresh
<1> QED
  BY <1>7, <1>8 DEF Returned, d, hs

-----------------------------------------------------------------------------
(* How a message begins.                                                   *)

(* A text that begins with a message of a kind, as far as the codec looks  *)
(* at it.                                                                  *)
Opens(kind, t) ==
    /\ t \in Text /\ Len(t) \in Nat /\ Len(t) >= 5 /\ t[1] # CR
    /\ SubSeq(t, 1, 5) = SubSeq(Rtsp20, 1, 5) <=> kind = "response"

(* Five bytes are compared one by one.                                     *)
LEMMA FiveBytes ==
    ASSUME NEW t \in Text, Len(t) >= 5, NEW v \in Text, Len(v) >= 5
    PROVE  SubSeq(t, 1, 5) = SubSeq(v, 1, 5) <=> \A k \in 1 .. 5 : t[k] = v[k]
<1>1. /\ Len(t) \in Nat /\ Len(v) \in Nat
      /\ SubSeq(t, 1, 5) \in Text /\ SubSeq(v, 1, 5) \in Text
      /\ Len(SubSeq(t, 1, 5)) = 5 /\ Len(SubSeq(v, 1, 5)) = 5
  BY DEF Text
<1>2. \A k \in 1 .. 5 : SubSeq(t, 1, 5)[k] = t[k] /\ SubSeq(v, 1, 5)[k] = v[k]
  BY <1>1 DEF Text
<1> DEFINE a == SubSeq(t, 1, 5)
           b == SubSeq(v, 1, 5)
<1> HIDE DEF a, b
<1>3. /\ a \in Text /\ b \in Text /\ Len(a) = 5 /\ Len(b) = 5
      /\ \A k \in 1 .. 5 : a[k] = t[k] /\ b[k] = v[k]
  BY <1>1, <1>2 DEF a, b
<1>4. ASSUME \A k \in 1 .. 5 : t[k] = v[k] PROVE a = b
  <2>1. \A k \in 1 .. Len(a) : a[k] = b[k]
    BY <1>3, <1>4
  <2> QED
    BY <1>3, <2>1, SameText
<1> QED
  BY <1>3, <1>4 DEF a, b

(* The first bytes of the version.                                         *)
LEMMA VersionBytes ==
    /\ Rtsp20 \in Text /\ Len(Rtsp20) = 8
    /\ Rtsp20[1] = "R" /\ Rtsp20[2] = "T" /\ Rtsp20[3] = "S" /\ Rtsp20[4] = "P" /\ Rtsp20[5] = "/"
BY Separators DEF Rtsp20

(* A request does not begin like a response: its method is a token, and    *)
(* ends with a space.                                                      *)
LEMMA RequestOpens ==
    ASSUME NEW t, NEW w, NEW q, Splits(t, w, Space, q), IsToken(w), Len(q) >= 5
    PROVE  Opens("request", t)
<1>1. Len(Space) = 1 /\ Space[1] = SP
  BY SeparatorsAre
<1>2. /\ t \in Text /\ Len(t) \in Nat /\ Len(w) \in Nat /\ Len(q) \in Nat /\ w \in Text
      /\ Len(t) = Len(w) + 1 + Len(q)
      /\ \A k \in 1 .. Len(w) : t[k] = w[k]
      /\ t[Len(w) + 1] = SP
  BY <1>1, SplitLengths DEF Splits
<1>3. Len(w) >= 1 /\ \A k \in 1 .. Len(w) : w[k] \notin {CR, "/"}
  BY <1>2, TokenBytes
<1>4. Len(t) >= 5
  BY <1>2
<1>5. t[1] # CR
  <2>1. 1 \in 1 .. Len(w)
    BY <1>2, <1>3
  <2> QED
    BY <1>2, <1>3, <2>1
<1>6. ~(\A k \in 1 .. 5 : t[k] = Rtsp20[k])
  <2>1. SUFFICES ASSUME \A k \in 1 .. 5 : t[k] = Rtsp20[k]
                 PROVE  FALSE
    OBVIOUS
  <2>2. /\ t[1] = "R" /\ t[2] = "T" /\ t[3] = "S" /\ t[4] = "P" /\ t[5] = "/"
    BY <2>1, VersionBytes
  <2>3. CASE Len(w) >= 5
    <3>1. 5 \in 1 .. Len(w)
      BY <1>2, <2>3
    <3> QED
      BY <1>2, <1>3, <2>2, <3>1
  <2>4. CASE ~(Len(w) >= 5)
    <3>1. Len(w) + 1 \in {2, 3, 4, 5}
      BY <1>2, <1>3, <2>4
    <3>2. t[2] # SP /\ t[3] # SP /\ t[4] # SP /\ t[5] # SP
      BY <2>2 DEF SP
    <3> QED
      BY <1>2, <3>1, <3>2
  <2> QED
    BY <2>3, <2>4
<1> QED
  BY <1>2, <1>4, <1>5, <1>6, FiveBytes, VersionBytes DEF Opens

(* And a response begins with the version.                                 *)
LEMMA ResponseOpens ==
    ASSUME NEW t, NEW q, Splits(t, Rtsp20, Space, q)
    PROVE  Opens("response", t)
<1>1. Len(Space) = 1 /\ Len(Rtsp20) = 8
  BY SeparatorsAre, Separators
<1>2. /\ t \in Text /\ Len(t) \in Nat /\ Len(q) \in Nat
      /\ Len(t) = 8 + 1 + Len(q)
      /\ \A k \in 1 .. 8 : t[k] = Rtsp20[k]
  BY <1>1, SplitLengths DEF Splits
<1>3. Len(t) >= 5
  BY <1>2
<1>4. \A k \in 1 .. 5 : t[k] = Rtsp20[k]
  BY <1>2
<1>5. t[1] # CR
  BY <1>4, VersionBytes DEF CR
<1> QED
  BY <1>2, <1>3, <1>4, <1>5, FiveBytes, VersionBytes DEF Opens

-----------------------------------------------------------------------------
(* Requests and responses are read back.                                   *)

(* A request that fits is read back, whatever follows it and however it is *)
(* cut.                                                                    *)
LEMMA RequestIsRead ==
    ASSUME HeaderNameMaxLength > 0, NEW m, FitsRequest(m), NEW n \in Nat, NEW y \in Text
    PROVE  /\ EncodeRequest(m) \in Text
           /\ Good("request", Fresh("request", n), EncodeRequest(m) \o y, Returned("request", m, y))
           /\ Opens("request", EncodeRequest(m) \o y)
<1> DEFINE kind == "request"
           h == EncodeHeaders(m.headers, m.body)
           method == m.method
           uri == m.uri
           t4 == h \o y
           q3 == LineBreak \o t4
           t3 == Rtsp20 \o q3
           q2 == Space \o t3
           t2 == uri \o q2
           q1 == Space \o t2
           t1 == method \o q1
           result == Returned(kind, m, y)
           d1 == At(kind, "Method", n, <<>>, <<>>, <<>>, <<>>)
           d2 == At(kind, "URI", n, method, <<>>, <<>>, <<>>)
           d3 == At(kind, "Version", n, method, uri, <<>>, <<>>)
           d4 == At(kind, "Header", n, method, uri, <<>>, <<>>)
<1>1. method \in Text /\ uri \in Text /\ HasParts(m) /\ FitsHeaders(m)
  BY DEF FitsRequest, HasParts, HeaderMaps
<1>2. h \in Text /\ Space \in Text /\ LineBreak \in Text /\ Rtsp20 \in Text
  BY <1>1, EmptyText, EncodedLines, SeparatorsAre, Separators
<1>3. EncodeRequest(m) = Whole(method, Space, uri, Space, Rtsp20, LineBreak, h)
  BY DEF EncodeRequest, Whole, Space, LineBreak
<1>4. kind \in Kinds /\ {"Method", "URI", "Version", "Header"} \subseteq States(kind)
  BY DEF Kinds, States
<1>5. Good(kind, d4, t4, result)
  <2>1. Good(kind, InHeader(kind, n, method, uri, <<>>), t4,
             Done(kind, At(kind, "End", Len(m.body), method, uri, ReceivedHeaders(m), m.body), y))
    BY <1>1, <1>4, HeadersStage
  <2> QED
    BY <2>1, RequestReturned DEF InHeader
<1> HIDE DEF h, result
<1>6. EncodeRequest(m) \in Text /\ EncodeRequest(m) \o y = t1
  <2>1. Nested(method, Space, uri, Space, Rtsp20, LineBreak, h, y) = t1
    BY DEF Nested
  <2> HIDE DEF t1, method, uri
  <2> QED
    <3>1. Nests(method, Space, uri, Space, Rtsp20, LineBreak, h, y)
      BY <1>1, <1>2, SevenParts
    <3> QED
      BY <1>3, <2>1, <3>1 DEF Nests
<1>7. t4 \in Text
  BY <1>2, Concats
<1>8. q3 \in Text
  BY <1>2, <1>7, Concats
<1>9. t3 \in Text
  BY <1>2, <1>8, Concats
<1>10. q2 \in Text
  BY <1>2, <1>9, Concats
<1>11. t2 \in Text
  BY <1>1, <1>10, Concats
<1>12. q1 \in Text
  BY <1>2, <1>11, Concats
<1>13. t1 \in Text
  BY <1>1, <1>12, Concats
<1>14. Splits(t1, m.method, Space, t2) /\ Splits(t2, m.uri, Space, t3)
  BY <1>1, <1>2, <1>9, <1>11, JoinSplits
<1>15. Splits(t3, Rtsp20, LineBreak, t4)
  BY <1>2, <1>7, JoinSplits
<1> HIDE DEF t4, t3, t2, t1, q1, q2, q3
<1>17. Opens(kind, t1)
  <2>1. Len(Rtsp20) = 8
    BY Separators
  <2>2. Len(t3) = 8 + Len(LineBreak) + Len(t4) /\ Len(LineBreak) \in Nat /\ Len(t4) \in Nat
    BY <1>15, <2>1, SplitLengths DEF Splits
  <2>3. /\ Len(t2) = Len(uri) + Len(Space) + Len(t3)
        /\ Len(uri) \in Nat /\ Len(Space) \in Nat /\ Len(t3) \in Nat
    BY <1>14, SplitLengths DEF Splits
  <2>4. Len(t2) >= 5
    <3> HIDE DEF uri
    <3> QED
      BY <2>2, <2>3
  <2>5. IsToken(m.method)
    BY DEF FitsRequest
  <2> QED
    BY <1>14, <2>4, <2>5, RequestOpens
<1>16. /\ Step(kind, d1, t1) = Complete(d2, t2) /\ Step(kind, d2, t2) = Complete(d3, t3)
       /\ Step(kind, d3, t3) = Complete(d4, t4)
  <2>1. Step(kind, d1, t1) = Complete(d2, t2)
    BY <1>14, MethodStage
  <2>2. Step(kind, d2, t2) = Complete(d3, t3)
    BY <1>14, URIStage
  <2>3. Step(kind, d3, t3) = Complete(d4, t4)
    BY <1>15, RequestVersionStage
  <2> QED
    BY <2>1, <2>2, <2>3
<1>18. /\ IsDecoder(kind, d1) /\ d1.state = "Method" /\ IsDecoder(kind, d2) /\ d2.state = "URI"
       /\ IsDecoder(kind, d3) /\ d3.state = "Version"
  <2>1. IsDecoder(kind, d1) /\ d1.state = "Method"
    BY <1>4, NoHeaderYet
  <2>2. IsDecoder(kind, d2) /\ d2.state = "URI"
    BY <1>4, NoHeaderYet
  <2>3. IsDecoder(kind, d3) /\ d3.state = "Version"
    BY <1>4, NoHeaderYet
  <2> QED
    BY <2>1, <2>2, <2>3
<1>19. d1 = Fresh(kind, n)
  BY FreshIs
<1> HIDE DEF d1, d2, d3, d4
<1>20. NoCut(kind, d1, t1) /\ NoCut(kind, d2, t2) /\ NoCut(kind, d3, t3)
  BY <1>4, <1>18, NoCutElsewhere
<1>21. Good(kind, d3, t3, result)
  BY <1>4, <1>5, <1>9, <1>16, <1>18, <1>20, GoodStep
<1>22. Good(kind, d2, t2, result)
  BY <1>4, <1>11, <1>16, <1>18, <1>20, <1>21, GoodStep
<1>23. Good(kind, d1, t1, result)
  BY <1>4, <1>13, <1>16, <1>18, <1>20, <1>22, GoodStep
<1> QED
  BY <1>6, <1>17, <1>19, <1>23 DEF result

(* And so is a response.                                                   *)
LEMMA ResponseIsRead ==
    ASSUME HeaderNameMaxLength > 0, NEW m, FitsResponse(m), NEW n \in Nat, NEW y \in Text
    PROVE  /\ EncodeResponse(m) \in Text
           /\ Good("response", Fresh("response", n), EncodeResponse(m) \o y,
                   Returned("response", m, y))
           /\ Opens("response", EncodeResponse(m) \o y)
<1> DEFINE kind == "response"
           h == EncodeHeaders(m.headers, m.body)
           v == m.status
           code == FormatUnsigned(v)
           phrase == m.phrase
           t4 == h \o y
           q3 == LineBreak \o t4
           t3 == phrase \o q3
           q2 == Space \o t3
           t2 == code \o q2
           q1 == Space \o t2
           t1 == Rtsp20 \o q1
           result == Returned(kind, m, y)
           d1 == At(kind, "Version", n, 0, <<>>, <<>>, <<>>)
           d2 == At(kind, "StatusCode", n, 0, <<>>, <<>>, <<>>)
           d3 == At(kind, "ReasonPhrase", n, v, <<>>, <<>>, <<>>)
           d4 == At(kind, "Header", n, v, phrase, <<>>, <<>>)
<1>1. /\ v \in 100 .. 599 /\ v \notin {303, 352} /\ phrase \in Text /\ HasParts(m)
      /\ FitsHeaders(m) /\ IsOk(ReasonPhraseTryFrom(phrase)) /\ Len(phrase) <= ReasonPhraseMaxLength
  BY DEF FitsResponse, HasParts, HeaderMaps
<1>2. h \in Text /\ Space \in Text /\ LineBreak \in Text /\ Rtsp20 \in Text
  BY <1>1, EmptyText, EncodedLines, SeparatorsAre, Separators
<1>0. code \in Text
  <2>0. \A k \in 100 .. 599 : k \in Nat
    OBVIOUS
  <2>1. v \in Nat
    BY <1>1, <2>0, ZenonT(60)
  <2> HIDE DEF v
  <2> QED
    BY <2>1, FormatText
<1>3. EncodeResponse(m) = Whole(Rtsp20, Space, code, Space, phrase, LineBreak, h)
  BY DEF EncodeResponse, Whole, Space, LineBreak
<1>4. kind \in Kinds /\ {"Version", "StatusCode", "ReasonPhrase", "Header"} \subseteq States(kind)
  BY DEF Kinds, States
<1>5. Good(kind, d4, t4, result)
  <2>1. Good(kind, InHeader(kind, n, v, phrase, <<>>), t4,
             Done(kind, At(kind, "End", Len(m.body), v, phrase, ReceivedHeaders(m), m.body), y))
    BY <1>1, <1>4, HeadersStage
  <2> QED
    BY <2>1, ResponseReturned DEF InHeader
<1> HIDE DEF h, result, code
<1>6. EncodeResponse(m) \in Text /\ EncodeResponse(m) \o y = t1
  <2>1. Nested(Rtsp20, Space, code, Space, phrase, LineBreak, h, y) = t1
    BY DEF Nested
  <2> HIDE DEF t1, phrase
  <2> QED
    <3>1. Nests(Rtsp20, Space, code, Space, phrase, LineBreak, h, y)
      BY <1>0, <1>1, <1>2, SevenParts, ZenonT(60)
    <3> QED
      BY <1>3, <2>1, <3>1 DEF Nests
<1>7. t4 \in Text
  BY <1>2, Concats
<1>8. q3 \in Text
  BY <1>2, <1>7, Concats
<1>9. t3 \in Text
  BY <1>1, <1>8, Concats
<1>10. q2 \in Text
  BY <1>2, <1>9, Concats
<1>11. t2 \in Text
  BY <1>0, <1>10, Concats
<1>12. q1 \in Text
  BY <1>2, <1>11, Concats
<1>13. t1 \in Text
  BY <1>2, <1>12, Concats
<1>14. Splits(t1, Rtsp20, Space, t2) /\ Splits(t2, code, Space, t3)
  BY <1>0, <1>2, <1>9, <1>11, JoinSplits
<1>15. Splits(t3, phrase, LineBreak, t4)
  BY <1>1, <1>2, <1>7, JoinSplits
<1> HIDE DEF t4, t3, t2, t1, q1, q2, q3, v, phrase
<1>17. Opens(kind, t1)
  BY <1>14, ResponseOpens
<1>16. Step(kind, d1, t1) = Complete(d2, t2) /\ Step(kind, d2, t2) = Complete(d3, t3)
  <2>1. Step(kind, d1, t1) = Complete(d2, t2)
    BY <1>14, ResponseVersionStage
  <2>2. Step(kind, d2, t2) = Complete(d3, t3)
    BY <1>1, <1>14, StatusCodeStage, ZenonT(60) DEF code
  <2> QED
    BY <2>1, <2>2
<1>24. Step(kind, d3, t3) = Complete(d4, t4) /\ NoCut(kind, d3, t3)
  BY <1>1, <1>15, ReasonPhraseStage
<1>18. /\ IsDecoder(kind, d1) /\ d1.state = "Version"
       /\ IsDecoder(kind, d2) /\ d2.state = "StatusCode"
       /\ IsDecoder(kind, d3) /\ d3.state = "ReasonPhrase"
  <2>1. IsDecoder(kind, d1) /\ d1.state = "Version"
    BY <1>4, NoHeaderYet
  <2>2. IsDecoder(kind, d2) /\ d2.state = "StatusCode"
    BY <1>4, NoHeaderYet
  <2>3. IsDecoder(kind, d3) /\ d3.state = "ReasonPhrase"
    BY <1>4, NoHeaderYet
  <2> QED
    BY <2>1, <2>2, <2>3
<1>19. d1 = Fresh(kind, n)
  BY FreshIs
<1> HIDE DEF d1, d2, d3, d4
<1>20. NoCut(kind, d1, t1) /\ NoCut(kind, d2, t2)
  BY <1>4, <1>18, NoCutElsewhere
<1>21. Good(kind, d3, t3, result)
  BY <1>4, <1>5, <1>9, <1>18, <1>24, GoodStep
<1>22. Good(kind, d2, t2, result)
  BY <1>4, <1>11, <1>16, <1>18, <1>20, <1>21, GoodStep
<1>23. Good(kind, d1, t1, result)
  BY <1>4, <1>13, <1>16, <1>18, <1>20, <1>22, GoodStep
<1> QED
  BY <1>6, <1>17, <1>19, <1>23 DEF result

-----------------------------------------------------------------------------
(* The codec between two messages.                                         *)

(* A codec between two messages.                                           *)
Idle(a, b) == [request |-> Fresh("request", a), response |-> Fresh("response", b)]
Resting(c) == \E a, b \in Nat : c = Idle(a, b)

(* A codec between two messages is at rest.                                *)
LEMMA IdleIs ==
    ASSUME NEW a \in Nat, NEW b \in Nat
    PROVE  /\ GoodCodec(Idle(a, b)) /\ AtRest(Idle(a, b)) /\ IsCodec(Idle(a, b))
           /\ Idle(a, b).request = Fresh("request", a)
           /\ Idle(a, b).response = Fresh("response", b)
<1> DEFINE c == Idle(a, b)
<1>1. IsCodec(c) /\ c.request = Fresh("request", a) /\ c.response = Fresh("response", b)
  BY Pairs DEF Idle
<1>2. /\ IsDecoder("request", Fresh("request", a))
      /\ Fresh("request", a).state = FirstState("request")
  BY NewIsDecoder DEF Kinds, Fresh
<1>3. /\ IsDecoder("response", Fresh("response", b))
      /\ Fresh("response", b).state = FirstState("response")
  BY NewIsDecoder DEF Kinds, Fresh
<1>4. FirstState("request") = "Method" /\ FirstState("response") = "Version"
  BY DEF FirstState
<1> HIDE DEF c
<1> QED
  BY <1>1, <1>2, <1>3, <1>4 DEF GoodCodec, AtRest, c

(* The decoder that a text goes to, and what the codec makes of its        *)
(* result.                                                                 *)
DecoderFor(kind, c) == IF kind = "request" THEN c.request ELSE c.response
CodecAfter(kind, c, d) ==
    IF kind = "request" THEN [request |-> d, response |-> c.response]
    ELSE [request |-> c.request, response |-> d]

(* A part of a text from its beginning on.                                 *)
LEMMA OpeningPart ==
    ASSUME NEW kind, NEW t, Opens(kind, t), NEW buf \in Text, NEW x \in Text, buf \o x = t
    PROVE  /\ StripNewlines(buf) = buf
           /\ ~(Len(buf) < 5) =>
                 (SubSeq(buf, 1, 5) = SubSeq(Rtsp20, 1, 5) <=> kind = "response")
<1>1. Len(buf) \in Nat /\ \A k \in 1 .. Len(buf) : t[k] = buf[k]
  BY Extended
<1>2. ~CRLFAt(buf, 1)
  <2>1. SUFFICES ASSUME 1 < Len(buf), buf[1] = CR
                 PROVE  FALSE
    BY DEF CRLFAt
  <2>2. t[1] = buf[1]
    BY <1>1, <2>1
  <2> QED
    BY <2>1, <2>2 DEF Opens
<1>3. ASSUME ~(Len(buf) < 5)
      PROVE  SubSeq(buf, 1, 5) = SubSeq(t, 1, 5)
  <2>1. 5 \in Nat /\ 5 <= Len(buf)
    BY <1>1, <1>3
  <2>2. SubSeq(buf \o x, 1, 5) = SubSeq(buf, 1, 5)
    BY <2>1, SplitAt
  <2> QED
    BY <2>2
<1> QED
  BY <1>2, <1>3, StripNothing DEF Opens

(* Such a codec hands every chunk of a text to the decoder of its kind.    *)
LEMMA StartOf ==
    ASSUME NEW c, IsCodec(c), AtRest(c), NEW kind \in Kinds, NEW t, Opens(kind, t),
           NEW buf \in Text, NEW x \in Text, buf \o x = t
    PROVE  LET call == CodecDecode(c, buf)
               r == DecodeOf(kind, DecoderFor(kind, c), buf)
           IN  /\ Len(buf) < 5 => call.result.tag = "Incomplete"
               /\ ~(Len(buf) < 5) =>
                     /\ call.result = r /\ call.rest = r.rest
                     /\ call.codec = CodecAfter(kind, c, r.d)
<1> DEFINE call == CodecDecode(c, buf)
           r == DecodeOf(kind, DecoderFor(kind, c), buf)
           started == IF buf = <<>> THEN <<>> ELSE <<"DecodingStarted">>
<1>1. call = StartDecode(c, buf)
  BY OpeningPart, StartIs
<1>2. CASE Len(buf) < 5
  <2>1. call = [result |-> Incomplete, rest |-> buf, codec |-> c, events |-> started]
    BY <1>1, <1>2 DEF StartDecode, MinimumInfoLineSize
  <2>2. call.result.tag = "Incomplete"
    BY <2>1 DEF Incomplete
  <2> QED
    BY <1>2, <2>2
<1>3. CASE ~(Len(buf) < 5) /\ kind = "response"
  <2>1. SubSeq(buf, 1, 5) = SubSeq(Rtsp20, 1, 5)
    BY <1>3, OpeningPart
  <2>2. call = DecodeResponse(c, buf, started)
    BY <1>1, <1>3, <2>1 DEF StartDecode, MinimumInfoLineSize
  <2> HIDE DEF started
  <2>3. r = DecodeOf("response", c.response, buf)
    BY <1>3 DEF DecoderFor
  <2>4. \A d : CodecAfter(kind, c, d) = [request |-> c.request, response |-> d]
    BY <1>3 DEF CodecAfter
  <2> QED
    BY <1>3, <2>2, <2>3, <2>4, ResponseFields
<1>4. CASE ~(Len(buf) < 5) /\ kind = "request"
  <2>0. kind # "response"
    BY <1>4
  <2>1. SubSeq(buf, 1, 5) # SubSeq(Rtsp20, 1, 5)
    BY <1>4, <2>0, OpeningPart, Zenon
  <2>2. call = DecodeRequest(c, buf, started)
    BY <1>1, <1>4, <2>1 DEF StartDecode, MinimumInfoLineSize
  <2> HIDE DEF started
  <2>3. r = DecodeOf("request", c.request, buf)
    BY <1>4 DEF DecoderFor
  <2>4. \A d : CodecAfter(kind, c, d) = [request |-> d, response |-> c.response]
    BY <1>4 DEF CodecAfter
  <2> QED
    BY <1>4, <2>2, <2>3, <2>4, RequestFields
<1> QED
  BY <1>2, <1>3, <1>4 DEF Kinds

(* What the codec makes of its buffer and the bytes that follow: no chunk  *)
(* is refused, and together they are a message, after which it is between  *)
(* two messages and the rest is left.                                      *)
Gives(c, buf, unread, m, y) ==
    /\ \A z, x \in Text : z \o x = unread => CodecDecode(c, buf \o z).result.tag # "Error"
    /\ LET call == CodecDecode(c, buf \o unread)
       IN  /\ call.result.tag = "Complete" /\ call.result.message = m /\ call.rest = y
           /\ Resting(call.codec)

(* A message of a kind that a decoder reads.                               *)
LEMMA KindGives ==
    ASSUME NEW a \in Nat, NEW b \in Nat, NEW kind \in Kinds, NEW t, Opens(kind, t),
           NEW m, NEW y, Len(m.body) \in Nat,
           Good(kind, DecoderFor(kind, Idle(a, b)), t, Returned(kind, m, y)),
           NEW buf \in Text, NEW unread \in Text, buf \o unread = t
    PROVE  Gives(Idle(a, b), buf, unread, Received(m), y)
<1> DEFINE c == Idle(a, b)
           d == DecoderFor(kind, c)
           call == CodecDecode(c, t)
           r == DecodeOf(kind, d, t)
<1>1. IsCodec(c) /\ AtRest(c) /\ t \in Text /\ Len(t) \in Nat /\ ~(Len(t) < 5)
  BY IdleIs DEF Opens
<1>2. /\ \A u, x \in Text : u \o x = t => DecodeOf(kind, d, u).tag # "Error"
      /\ r = Returned(kind, m, y)
  BY DEF Good
<1>3. ASSUME NEW z \in Text, NEW x \in Text, z \o x = unread
      PROVE  CodecDecode(c, buf \o z).result.tag # "Error"
  <2> DEFINE u == buf \o z
  <2>1. u \in Text /\ Associates(buf, z, x)
    BY <1>3, Concats, AlwaysAssociates
  <2>2. u \o x = t
    BY <1>3, <2>1, Zenon DEF Associates
  <2> HIDE DEF u, c, d
  <2>3. DecodeOf(kind, d, u).tag # "Error"
    BY <1>2, <1>3, <2>1, <2>2
  <2>4. /\ Len(u) < 5 => CodecDecode(c, u).result.tag = "Incomplete"
        /\ ~(Len(u) < 5) => CodecDecode(c, u).result = DecodeOf(kind, d, u)
    BY <1>1, <1>3, <2>1, <2>2, StartOf, ZenonT(60) DEF d
  <2>5. CodecDecode(c, u).result.tag # "Error"
    BY <2>3, <2>4
  <2> QED
    BY <2>5 DEF u, c
<1>4. call.result = r /\ call.rest = r.rest /\ call.codec = CodecAfter(kind, c, r.d)
  <2> HIDE DEF c
  <2>1. <<>> \in Text /\ t \o <<>> = t
    BY <1>1, EmptyText
  <2> QED
    BY <1>1, <2>1, StartOf, ZenonT(60) DEF d
<1>5. /\ r.tag = "Complete" /\ r.message = Received(m) /\ r.rest = y
      /\ r.d = Fresh(kind, Len(m.body))
  BY <1>2 DEF Returned
<1>6. Resting(call.codec)
  <2>1. c.request = Fresh("request", a) /\ c.response = Fresh("response", b)
    BY IdleIs
  <2>2. CASE kind = "request"
    <3>1. call.codec = Idle(Len(m.body), b)
      BY <1>4, <1>5, <2>1, <2>2 DEF CodecAfter, Idle
    <3> QED
      BY <3>1 DEF Resting
  <2>3. CASE kind = "response"
    <3>1. call.codec = Idle(a, Len(m.body))
      BY <1>4, <1>5, <2>1, <2>3 DEF CodecAfter, Idle
    <3> QED
      BY <3>1 DEF Resting
  <2> QED
    BY <2>2, <2>3 DEF Kinds
<1> HIDE DEF r, d
<1> QED
  BY <1>3, <1>4, <1>5, <1>6 DEF Gives

(* A codec between two messages reads what the encoder writes.             *)
LEMMA RestingGives ==
    ASSUME HeaderNameMaxLength > 0, NEW c, Resting(c), NEW m, Fits(m), NEW y \in Text
    PROVE  /\ EncodeMessage(m) \in Text
           /\ \A buf, unread \in Text : buf \o unread = EncodeMessage(m) \o y =>
                 Gives(c, buf, unread, Received(m), y)
<1>1. PICK a \in Nat, b \in Nat : c = Idle(a, b)
  BY DEF Resting
<1>2. Idle(a, b).request = Fresh("request", a) /\ Idle(a, b).response = Fresh("response", b)
  BY IdleIs
<1>3. CASE FitsRequest(m)
  <2>1. EncodeMessage(m) = EncodeRequest(m) /\ Len(m.body) \in Nat
    BY <1>3 DEF FitsRequest, EncodeMessage, Text
  <2> DEFINE t == EncodeRequest(m) \o y
  <2>2. /\ EncodeRequest(m) \in Text /\ Opens("request", t)
        /\ Good("request", Fresh("request", a), t, Returned("request", m, y))
    BY <1>3, RequestIsRead
  <2>3. DecoderFor("request", Idle(a, b)) = Fresh("request", a) /\ "request" \in Kinds
    BY <1>2 DEF DecoderFor, Kinds
  <2> HIDE DEF t
  <2>4. ASSUME NEW buf \in Text, NEW unread \in Text, buf \o unread = t
        PROVE  Gives(c, buf, unread, Received(m), y)
    BY <1>1, <2>1, <2>2, <2>3, <2>4, KindGives
  <2> QED
    BY <2>1, <2>2, <2>4 DEF t
<1>4. CASE FitsResponse(m)
  <2>1. EncodeMessage(m) = EncodeResponse(m) /\ Len(m.body) \in Nat
    BY <1>4 DEF FitsResponse, EncodeMessage, Text
  <2> DEFINE t == EncodeResponse(m) \o y
  <2>2. /\ EncodeResponse(m) \in Text /\ Opens("response", t)
        /\ Good("response", Fresh("response", b), t, Returned("response", m, y))
    BY <1>4, ResponseIsRead
  <2>3. DecoderFor("response", Idle(a, b)) = Fresh("response", b) /\ "response" \in Kinds
    BY <1>2 DEF DecoderFor, Kinds
  <2> HIDE DEF t
  <2>4. ASSUME NEW buf \in Text, NEW unread \in Text, buf \o unread = t
        PROVE  Gives(c, buf, unread, Received(m), y)
    BY <1>1, <2>1, <2>2, <2>3, <2>4, KindGives
  <2> QED
    BY <2>1, <2>2, <2>4 DEF t
<1> QED
  BY <1>3, <1>4 DEF Fits

(* A call of decode on the way to a message.                               *)
LEMMA GivesOn ==
    ASSUME NEW c, GoodCodec(c), NEW buf \in Text, NEW unread \in Text, NEW m, NEW y,
           Gives(c, buf, unread, m, y)
    PROVE  LET call == CodecDecode(c, buf)
           IN  /\ call.result.tag # "Error"
               /\ call.result.tag = "Complete" =>
                     /\ call.result.message = m /\ Resting(call.codec)
                     /\ call.rest \in Text /\ call.rest \o unread = y
               /\ call.result.tag = "Incomplete" => Gives(call.codec, call.rest, unread, m, y)
<1> DEFINE call == CodecDecode(c, buf)
           more == CodecDecode(c, buf \o unread)
<1>1. /\ \A z, x \in Text : z \o x = unread => CodecDecode(c, buf \o z).result.tag # "Error"
      /\ more.result.tag = "Complete" /\ more.result.message = m /\ more.rest = y
      /\ Resting(more.codec)
  BY DEF Gives
<1>2. call.result.tag # "Error"
  <2>1. <<>> \in Text /\ <<>> \o unread = unread /\ buf \o <<>> = buf
    BY EmptyText
  <2> QED
    BY <1>1, <2>1
<1>3. CallChunk(c, buf, unread, call, more)
  BY CodecChunk
<1>4. ASSUME call.result.tag = "Complete"
      PROVE  /\ call.result.message = m /\ Resting(call.codec)
             /\ call.rest \in Text /\ call.rest \o unread = y
  <2> HIDE DEF call, more
  <2> QED
    BY <1>1, <1>3, <1>4 DEF CallChunk
<1>5. ASSUME call.result.tag = "Incomplete"
      PROVE  Gives(call.codec, call.rest, unread, m, y)
  <2>1. ASSUME NEW z \in Text, NEW x \in Text, z \o x = unread
        PROVE  CodecDecode(call.codec, call.rest \o z).result.tag # "Error"
    <3> DEFINE longer == CodecDecode(c, buf \o z)
    <3>1. CallChunk(c, buf, z, call, longer)
      BY CodecChunk
    <3>2. longer.result.tag # "Error"
      BY <1>1, <2>1
    <3> HIDE DEF call, longer
    <3>3. Agree(longer, CodecDecode(call.codec, call.rest \o z))
      BY <1>5, <3>1 DEF CallChunk
    <3> QED
      BY <3>2, <3>3 DEF Agree
  <2> HIDE DEF call, more
  <2>2. Agree(more, CodecDecode(call.codec, call.rest \o unread))
    BY <1>3, <1>5 DEF CallChunk
  <2> QED
    BY <1>1, <2>1, <2>2 DEF Agree, Gives
<1> QED
  BY <1>2, <1>4, <1>5

(* A chunk goes to the buffer.                                             *)
LEMMA GivesRead ==
    ASSUME NEW c, NEW buf \in Text, NEW a \in Text, NEW b \in Text, NEW m, NEW y,
           Gives(c, buf, a \o b, m, y)
    PROVE  Gives(c, buf \o a, b, m, y)
<1>1. ASSUME NEW z \in Text, NEW x \in Text, z \o x = b
      PROVE  CodecDecode(c, (buf \o a) \o z).result.tag # "Error"
  <2>1. Associates(buf, a, z) /\ Associates(a, z, x) /\ a \o z \in Text
    BY AlwaysAssociates, Concats
  <2>2. (a \o z) \o x = a \o b /\ (buf \o a) \o z = buf \o (a \o z)
    BY <1>1, <2>1, Zenon DEF Associates
  <2>3. CodecDecode(c, buf \o (a \o z)).result.tag # "Error"
    BY <1>1, <2>1, <2>2 DEF Gives
  <2> QED
    BY <2>2, <2>3
<1>2. (buf \o a) \o b = buf \o (a \o b)
  BY AlwaysAssociates DEF Associates
<1> QED
  BY <1>1, <1>2 DEF Gives

-----------------------------------------------------------------------------
(* Messages one after another.                                             *)

(* The texts that the encoder writes one after another.                    *)
Encoded(messages) == [i \in DOMAIN messages |-> EncodeMessage(messages[i])]

(* What a peer sends fits.                                                 *)
LEMMA SentIs ==
    ASSUME NEW messages \in Sent
    PROVE  /\ DOMAIN messages = 1 .. Len(messages) /\ Len(messages) \in Nat
           /\ \A i \in 1 .. Len(messages) : Fits(messages[i])
BY SentAssumption

(* What it encodes is texts.                                               *)
LEMMA EncodedTexts ==
    ASSUME HeaderNameMaxLength > 0, NEW messages \in Sent
    PROVE  /\ Encoded(messages) \in TextLists /\ Len(Encoded(messages)) = Len(messages)
           /\ \A i \in 1 .. Len(messages) : Encoded(messages)[i] = EncodeMessage(messages[i])
<1> DEFINE n == Len(messages)
           F(i) == EncodeMessage(messages[i])
<1>1. Encoded(messages) = [i \in 1 .. n |-> F(i)] /\ n \in Nat
  BY SentIs DEF Encoded
<1>2. \A i \in 1 .. n : F(i) \in Text
  <2>1. Resting(Idle(0, 0)) /\ <<>> \in Text
    BY EmptyText DEF Resting
  <2>2. \A m : Fits(m) => EncodeMessage(m) \in Text
    BY <2>1, RestingGives
  <2> QED
    BY <2>2, SentIs
<1> HIDE DEF n, F
<1>3. [i \in 1 .. n |-> F(i)] \in [1 .. n -> Text]
  BY <1>2
<1>4. [i \in 1 .. n |-> F(i)] \in Seq(Text) /\ Len([i \in 1 .. n |-> F(i)]) = n
  BY <1>1, <1>3
<1>5. \A i \in 1 .. n : [j \in 1 .. n |-> F(j)][i] = F(i)
  OBVIOUS
<1> QED
  BY <1>1, <1>4, <1>5 DEF TextLists, n, F

(* Nothing is left when all is in front of nothing.                        *)
LEMMA BothEmpty ==
    ASSUME NEW a \in Text, NEW b \in Text, a \o b = <<>>
    PROVE  a = <<>> /\ b = <<>>
<1>1. Len(a) \in Nat /\ Len(b) \in Nat /\ Len(a) + Len(b) = 0
  BY Extended, EmptyText
<1>2. Len(a) = 0 /\ Len(b) = 0
  BY <1>1
<1> QED
  BY <1>2 DEF Text

(* The codec has given n of the messages: there is nothing left, or what   *)
(* is in its buffer and unread gives the next one.                         *)
Expects(messages, n, c, buf, unread) ==
    \E R : /\ AreSuffixes(R, Encoded(messages), <<>>)
           /\ n = Len(messages) => buf = <<>> /\ unread = <<>> /\ Resting(c)
           /\ n # Len(messages) => Gives(c, buf, unread, Received(messages[n + 1]), R[n + 1])

(* The codec between two messages.                                         *)
LEMMA ExpectsAtRest ==
    ASSUME HeaderNameMaxLength > 0, NEW messages \in Sent, NEW R,
           AreSuffixes(R, Encoded(messages), <<>>), NEW n \in 0 .. Len(messages),
           NEW c, Resting(c), NEW buf \in Text, NEW unread \in Text, buf \o unread = R[n]
    PROVE  Expects(messages, n, c, buf, unread)
<1>1. Len(messages) \in Nat /\ Len(Encoded(messages)) = Len(messages)
  BY SentIs, EncodedTexts
<1>2. CASE n = Len(messages)
  <2>1. R[n] = <<>>
    BY <1>1, <1>2 DEF AreSuffixes
  <2> QED
    BY <1>2, <2>1, BothEmpty DEF Expects
<1>3. CASE n # Len(messages)
  <2> DEFINE k == n + 1
             m == messages[k]
             y == R[k]
  <2>1. k \in 1 .. Len(messages) /\ k - 1 = n /\ k \in 0 .. Len(messages)
    BY <1>1, <1>3
  <2> HIDE DEF k
  <2>2. R[k - 1] = Encoded(messages)[k] \o R[k] /\ y \in Text
    BY <1>1, <2>1 DEF AreSuffixes
  <2>3. Encoded(messages)[k] = EncodeMessage(m) /\ Fits(m)
    BY <2>1, EncodedTexts, SentIs
  <2>4. buf \o unread = EncodeMessage(m) \o y
    BY <2>1, <2>2, <2>3
  <2> HIDE DEF m, y
  <2>5. Gives(c, buf, unread, Received(m), y)
    BY <2>2, <2>3, <2>4, RestingGives
  <2>6. Gives(c, buf, unread, Received(messages[n + 1]), R[n + 1])
    BY <2>5 DEF m, y, k
  <2> QED
    BY <1>3, <2>6 DEF Expects
<1> QED
  BY <1>2, <1>3

(* A codec between two messages and without bytes has nothing to do.       *)
LEMMA NothingToDo ==
    ASSUME NEW c, Resting(c)
    PROVE  LET call == CodecDecode(c, <<>>)
           IN  call.result.tag = "Incomplete" /\ call.codec = c /\ call.rest = <<>>
<1>1. AtRest(c)
  BY IdleIs DEF Resting
<1>2. StripNewlines(<<>>) = <<>>
  <2>1. ~CRLFAt(<<>>, 1)
    BY EmptyText DEF CRLFAt
  <2> QED
    BY <2>1, EmptyText, StripNothing
<1>3. CodecDecode(c, <<>>) = StartDecode(c, <<>>)
  BY <1>1, <1>2, StartIs
<1>4. Len(<<>>) < 5
  BY EmptyText
<1>5. StartDecode(c, <<>>) = [result |-> Incomplete, rest |-> <<>>, codec |-> c, events |-> <<>>]
  BY <1>4 DEF StartDecode, MinimumInfoLineSize
<1> QED
  BY <1>3, <1>5 DEF Incomplete

(* A call of decode.                                                       *)
LEMMA ExpectsNext ==
    ASSUME HeaderNameMaxLength > 0, NEW messages \in Sent, NEW n \in 0 .. Len(messages),
           NEW c, GoodCodec(c), NEW buf \in Text, NEW unread \in Text,
           Expects(messages, n, c, buf, unread)
    PROVE  LET call == CodecDecode(c, buf)
           IN  /\ call.result.tag # "Error"
               /\ call.result.tag = "Complete" =>
                     /\ n + 1 \in 1 .. Len(messages)
                     /\ call.result.message = Received(messages[n + 1])
                     /\ Expects(messages, n + 1, call.codec, call.rest, unread)
               /\ call.result.tag = "Incomplete" =>
                     Expects(messages, n, call.codec, call.rest, unread)
<1> DEFINE call == CodecDecode(c, buf)
<1>1. PICK R : /\ AreSuffixes(R, Encoded(messages), <<>>)
               /\ n = Len(messages) => buf = <<>> /\ unread = <<>> /\ Resting(c)
               /\ n # Len(messages) =>
                     Gives(c, buf, unread, Received(messages[n + 1]), R[n + 1])
  BY DEF Expects
<1>2. Len(messages) \in Nat
  BY SentIs
<1>3. CASE n = Len(messages)
  <2>1. call.result.tag = "Incomplete" /\ call.codec = c /\ call.rest = buf
    BY <1>1, <1>3, NothingToDo
  <2> QED
    BY <2>1
<1>4. CASE n # Len(messages)
  <2> DEFINE k == n + 1
             m == Received(messages[k])
             y == R[k]
  <2>1. k \in 1 .. Len(messages) /\ k \in 0 .. Len(messages)
    BY <1>2, <1>4
  <2>2. Gives(c, buf, unread, m, y)
    BY <1>1, <1>4
  <2> HIDE DEF k, m, y
  <2>3. /\ call.result.tag # "Error"
        /\ call.result.tag = "Complete" =>
              /\ call.result.message = m /\ Resting(call.codec)
              /\ call.rest \in Text /\ call.rest \o unread = y
        /\ call.result.tag = "Incomplete" => Gives(call.codec, call.rest, unread, m, y)
    BY <2>2, GivesOn
  <2> HIDE DEF call
  <2>4. ASSUME call.result.tag = "Complete"
        PROVE  Expects(messages, k, call.codec, call.rest, unread)
    BY <1>1, <2>1, <2>3, <2>4, ExpectsAtRest DEF y
  <2>5. ASSUME call.result.tag = "Incomplete"
        PROVE  Expects(messages, n, call.codec, call.rest, unread)
    BY <1>1, <1>4, <2>3, <2>5 DEF Expects, m, y, k
  <2>6. /\ call.result.tag # "Error"
        /\ call.result.tag = "Complete" =>
              /\ k \in 1 .. Len(messages)
              /\ call.result.message = m
              /\ Expects(messages, k, call.codec, call.rest, unread)
        /\ call.result.tag = "Incomplete" =>
              Expects(messages, n, call.codec, call.rest, unread)
    BY <2>1, <2>3, <2>4, <2>5
  <2> QED
    BY <2>6 DEF call, m, k
<1> QED
  BY <1>3, <1>4

(* A chunk goes to the buffer.                                             *)
LEMMA ExpectsRead ==
    ASSUME NEW messages, NEW n, NEW c, NEW buf \in Text, NEW a \in Text, NEW b \in Text,
           Expects(messages, n, c, buf, a \o b)
    PROVE  Expects(messages, n, c, buf \o a, b)
<1>1. PICK R : /\ AreSuffixes(R, Encoded(messages), <<>>)
               /\ n = Len(messages) => buf = <<>> /\ a \o b = <<>> /\ Resting(c)
               /\ n # Len(messages) =>
                     Gives(c, buf, a \o b, Received(messages[n + 1]), R[n + 1])
  BY DEF Expects
<1>2. CASE n = Len(messages)
  <2>1. a = <<>> /\ b = <<>> /\ buf = <<>> /\ Resting(c)
    BY <1>1, <1>2, BothEmpty
  <2>2. buf \o a = <<>>
    BY <2>1, EmptyText
  <2> QED
    BY <1>1, <1>2, <2>1, <2>2 DEF Expects
<1>3. CASE n # Len(messages)
  <2> DEFINE m == Received(messages[n + 1])
             y == R[n + 1]
  <2>1. Gives(c, buf, a \o b, m, y)
    BY <1>1, <1>3
  <2> HIDE DEF m, y
  <2>2. Gives(c, buf \o a, b, m, y)
    BY <2>1, GivesRead
  <2> QED
    BY <1>1, <1>3, <2>2 DEF Expects, m, y
<1> QED
  BY <1>2, <1>3

(* When all the bytes were tried in vain, all the messages were given.     *)
LEMMA ExpectsEnd ==
    ASSUME NEW messages, NEW n, NEW c, NEW buf \in Text, Expects(messages, n, c, buf, <<>>),
           TriedInVain(c, buf)
    PROVE  n = Len(messages) /\ buf = <<>> /\ AtRest(c)
<1>1. PICK R : /\ n = Len(messages) => buf = <<>> /\ Resting(c)
               /\ n # Len(messages) =>
                     Gives(c, buf, <<>>, Received(messages[n + 1]), R[n + 1])
  BY DEF Expects
<1>2. buf \o <<>> = buf
  BY EmptyText
<1>3. n = Len(messages)
  <2>1. ASSUME NEW m, NEW y, Gives(c, buf, <<>>, m, y)
        PROVE  FALSE
    BY <1>2, <2>1 DEF Gives, TriedInVain
  <2> QED
    BY <1>1, <2>1
<1> QED
  BY <1>1, <1>3, IdleIs DEF Resting

-----------------------------------------------------------------------------
(* EncodedIsDecoded.                                                       *)

(* The inductive invariant of EncodedIsDecoded.                            *)
Given(messages, list) ==
    /\ Len(list) \in 0 .. Len(messages)
    /\ \A k \in 1 .. Len(list) : list[k] = Received(messages[k])
SentInv ==
    sent # Raw =>
        /\ sent \in Sent /\ Given(sent, out)
        /\ ended \in {"no", "End", "UnexpectedEOF", "TimedOut", "TooManyTimers"}
        /\ Running => Expects(sent, Len(out), Codecs, buffer, Unread)

(* The bytes that are unread.                                              *)
LEMMA UnreadIs ==
    ASSUME BytesInv
    PROVE  /\ Unread \in Text /\ input \in Text /\ Len(input) \in Nat /\ read \in Nat
           /\ read = Len(input) => Unread = <<>>
<1>1. input \in Text /\ Len(input) \in Nat /\ read \in Nat /\ read <= Len(input)
  BY DEF BytesInv, Text
<1> DEFINE k == read + 1
           l == Len(input)
<1>2. k \in Nat /\ k >= 1 /\ k <= l + 1 /\ l \in Nat
  BY <1>1
<1>3. SubSeq(input, k, l) \in Text
  <2> HIDE DEF k
  <2> QED
    BY <1>1, <1>2, SplitFrom
<1>4. ASSUME read = l PROVE SubSeq(input, k, l) = <<>>
  <2>1. k > l
    BY <1>2, <1>4
  <2> HIDE DEF k, l
  <2> QED
    BY <1>1, <1>2, <2>1 DEF Text
<1> QED
  BY <1>1, <1>3, <1>4 DEF Unread

(* Initially all the texts are unread.                                     *)
LEMMA InitSent ==
    ASSUME HeaderNameMaxLength > 0, Init
    PROVE  SentInv
<1>1. SUFFICES ASSUME sent # Raw PROVE SentInv
  BY DEF SentInv
<1>2. /\ sent \in Sent /\ input = EncodeEach(sent) /\ read = 0 /\ buffer = <<>> /\ out = <<>>
      /\ ended = "no" /\ request = RequestDecoder /\ response = ResponseDecoder
  BY <1>1 DEF Init
<1>3. input = FlattenSeq(Encoded(sent)) /\ Encoded(sent) \in TextLists /\ Len(sent) \in Nat
      /\ Len(Encoded(sent)) = Len(sent)
  BY <1>2, EncodedTexts, SentIs DEF EncodeEach, Encoded
<1>4. <<>> \in Text
  BY EmptyText
<1>5. PICK R : AreSuffixes(R, Encoded(sent), <<>>)
  BY <1>3, <1>4, SuffixesExist
<1>6. input \in Text /\ input \o <<>> = R[0]
  BY <1>3, <1>4, <1>5, FlattenInParts
<1>7. Unread = input
  <2>1. SubSeq(input, 1, Len(input)) = input
    BY <1>6 DEF Text
  <2> QED
    BY <1>2, <2>1 DEF Unread
<1>8. buffer \o Unread = R[0] /\ Unread \in Text /\ buffer \in Text
  BY <1>2, <1>4, <1>6, <1>7, EmptyText
<1>9. Resting(Codecs)
  <2>1. Fresh("request", 0) = RequestDecoder
    BY DEF Fresh, NewDecoder, RequestDecoder
  <2>2. Fresh("response", 0) = ResponseDecoder
    BY DEF Fresh, NewDecoder, ResponseDecoder
  <2>3. Codecs = Idle(0, 0)
    BY <1>2, <2>1, <2>2 DEF Codecs, Idle
  <2> QED
    BY <2>3 DEF Resting
<1>10. Expects(sent, 0, Codecs, buffer, Unread)
  <2>1. 0 \in 0 .. Len(sent)
    BY <1>3
  <2> QED
    BY <1>2, <1>5, <1>8, <1>9, <2>1, ExpectsAtRest
<1>11. Len(out) = 0 /\ Given(sent, out)
  BY <1>2, <1>3 DEF Given
<1> QED
  BY <1>2, <1>10, <1>11 DEF SentInv

(* One message more.                                                       *)
LEMMA GivenNext ==
    ASSUME NEW messages \in Sent, NEW list, IsList(list), Given(messages, list),
           NEW m, Len(list) + 1 \in 1 .. Len(messages), m = Received(messages[Len(list) + 1])
    PROVE  Given(messages, Append(list, m)) /\ Len(Append(list, m)) = Len(list) + 1
<1>1. PICK M : list \in Seq(M)
  BY DEF IsList
<1>2. Len(messages) \in Nat /\ Len(list) \in Nat
  BY <1>1, SentIs
<1> DEFINE next == Append(list, m)
<1>3. /\ Len(next) = Len(list) + 1 /\ next[Len(list) + 1] = m
      /\ \A k \in 1 .. Len(list) : next[k] = list[k]
  BY <1>1
<1> HIDE DEF next
<1>4. \A k \in 1 .. Len(next) : next[k] = Received(messages[k])
  <2>1. SUFFICES ASSUME NEW k \in 1 .. Len(next) PROVE next[k] = Received(messages[k])
    OBVIOUS
  <2>2. k = Len(list) + 1 \/ k \in 1 .. Len(list)
    BY <1>2, <1>3
  <2> QED
    BY <1>3, <2>2 DEF Given
<1>5. Len(next) \in 0 .. Len(messages)
  BY <1>2, <1>3
<1> QED
  BY <1>3, <1>4, <1>5 DEF Given, next

(* A call of decode never fails, and a message is the next one.            *)
LEMMA DecodeSent ==
    ASSUME HeaderNameMaxLength > 0, BytesInv, TurnsInv, SentInv, Decode
    PROVE  SentInv'
<1> DEFINE call == CodecDecode(Codecs, buffer)
           n == Len(out)
<1>1. DecodesTo(call)
  BY DecodeStep
<1>2. sent' = sent
  <2> HIDE DEF call
  <2> QED
    BY <1>1 DEF DecodesTo, DecodeComplete, DecodeIncomplete, DecodeEOF, DecodeFails
<1>3. SUFFICES ASSUME sent # Raw PROVE SentInv'
  BY <1>2 DEF SentInv
<1>4. /\ Running /\ buffer \in Text /\ Unread \in Text /\ GoodCodec(Codecs) /\ IsList(out)
      /\ sent \in Sent /\ Given(sent, out) /\ n \in 0 .. Len(sent)
      /\ Expects(sent, n, Codecs, buffer, Unread)
  <2>1. Running
    BY <1>1 DEF DecodesTo
  <2> QED
    BY <1>3, <2>1, UnreadIs DEF BytesInv, TurnsInv, SentInv, Given
<1>5. /\ call.result.tag # "Error"
      /\ call.result.tag = "Complete" =>
            /\ n + 1 \in 1 .. Len(sent)
            /\ call.result.message = Received(sent[n + 1])
            /\ Expects(sent, n + 1, call.codec, call.rest, Unread)
      /\ call.result.tag = "Incomplete" =>
            Expects(sent, n, call.codec, call.rest, Unread)
  BY <1>4, ExpectsNext
<1>6. CallChunk(Codecs, buffer, buffer, call, CodecDecode(Codecs, buffer \o buffer))
  BY <1>4, CodecChunk
<1> HIDE DEF call
<1>7. /\ buffer' = call.rest /\ Unread' = Unread
      /\ Codecs' = [request |-> call.codec.request, response |-> call.codec.response]
  <2>1. input' = input /\ read' = read
    BY <1>1 DEF DecodesTo, DecodeComplete, DecodeIncomplete, DecodeEOF, DecodeFails
  <2> QED
    BY <1>1, <2>1 DEF DecodesTo, ApplyDecode, Unread
<1>8. GoodCodec(call.codec) => Codecs' = call.codec
  BY <1>7 DEF GoodCodec, IsCodec
<1>9. CASE DecodeComplete(call)
  <2>1. /\ call.result.tag = "Complete" /\ out' = Append(out, call.result.message)
        /\ ended' = ended
    BY <1>9 DEF DecodeComplete
  <2>2. Codecs' = call.codec
    BY <1>6, <1>8, <2>1 DEF CallChunk
  <2>3. Given(sent, out') /\ Len(out') = n + 1
    BY <1>4, <1>5, <2>1, GivenNext
  <2>4. Expects(sent, n + 1, call.codec, call.rest, Unread)
    BY <1>5, <2>1
  <2> HIDE DEF n
  <2>5. (Expects(sent, Len(out), Codecs, buffer, Unread))'
    BY <1>2, <1>7, <2>2, <2>3, <2>4
  <2>6. ended = "no"
    BY <1>4 DEF Running
  <2> QED
    BY <1>2, <1>4, <2>1, <2>3, <2>5, <2>6 DEF SentInv
<1>10. CASE DecodeIncomplete(call)
  <2>1. call.result.tag = "Incomplete" /\ out' = out /\ ended' = ended
    BY <1>10 DEF DecodeIncomplete
  <2>2. Codecs' = call.codec
    BY <1>6, <1>8, <2>1 DEF CallChunk
  <2>3. Expects(sent, n, call.codec, call.rest, Unread)
    BY <1>5, <2>1
  <2>4. (Expects(sent, Len(out), Codecs, buffer, Unread))'
    BY <1>2, <1>7, <2>1, <2>2, <2>3
  <2>5. ended = "no"
    BY <1>4 DEF Running
  <2> QED
    BY <1>2, <1>4, <2>1, <2>4, <2>5 DEF SentInv
<1>11. CASE DecodeEOF(call)
  <2>1. out' = out /\ ended' \in {"End", "UnexpectedEOF"}
    BY <1>11 DEF DecodeEOF
  <2>2. ~Running'
    BY <2>1 DEF Running
  <2> QED
    BY <1>2, <1>4, <2>1, <2>2 DEF SentInv
<1>12. ~DecodeFails(call)
  BY <1>5 DEF DecodeFails
<1> QED
  BY <1>1, <1>9, <1>10, <1>11, <1>12 DEF DecodesTo

(* Every step keeps what is expected.                                      *)
LEMMA NextSent ==
    ASSUME HeaderNameMaxLength > 0, BytesInv, TurnsInv, SentInv, [Next]_vars
    PROVE  SentInv'
<1>1. CASE Decode
  BY <1>1, DecodeSent
<1>2. ASSUME NEW n \in 1 .. Len(input), ReadChunk(n) PROVE SentInv'
  <2>1. /\ buffer' = buffer \o SubSeq(input, read + 1, read + n) /\ read' = read + n
        /\ n <= Len(input) - read /\ Running /\ ended' = ended /\ input' = input
        /\ out' = out /\ sent' = sent /\ request' = request /\ response' = response
    BY <1>2 DEF ReadChunk, CanRead, codecVars
  <2>2. input \in Text /\ Len(input) \in Nat /\ buffer \in Text /\ read \in Nat /\ n \in Nat
    BY UnreadIs DEF BytesInv
  <2> DEFINE a == SubSeq(input, read + 1, read + n)
             b == SubSeq(input, read + n + 1, Len(input))
  <2>3. a \in Text /\ b \in Text /\ Unread = a \o b
    <3>1. read + n <= Len(input)
      BY <2>1, <2>2
    <3>2. <<>> \in Text /\ <<>> \o a = a /\ <<>> \o Unread = Unread /\ a \in Text /\ b \in Text
      <4> DEFINE i == read + 1
                 j == read + n
                 k == read + n + 1
                 l == Len(input)
      <4>1. /\ i \in Nat /\ j \in Nat /\ k \in Nat /\ l \in Nat /\ i >= 1 /\ k >= 1
            /\ i <= j + 1 /\ j <= l /\ k <= l + 1
        BY <2>2, <3>1
      <4> HIDE DEF i, j, k
      <4>2. SubSeq(input, i, j) \in Text
        BY <2>2, <4>1 DEF Text
      <4>3. SubSeq(input, k, l) \in Text
        BY <2>2, <4>1, SplitFrom
      <4> QED
        BY <4>2, <4>3, EmptyText, UnreadIs DEF i, j, k, l
    <3>3. (<<>> \o a) \o b = <<>> \o SubSeq(input, read + 1, Len(input))
      BY <2>2, <3>1, <3>2, ReadOn
    <3> HIDE DEF a, b
    <3> QED
      BY <3>2, <3>3 DEF Unread
  <2>4. buffer' = buffer \o a /\ Unread' = b /\ Codecs' = Codecs /\ Running'
    BY <2>1 DEF Unread, Codecs, Running
  <2> HIDE DEF a, b
  <2>5. SUFFICES ASSUME sent # Raw PROVE SentInv'
    BY <2>1 DEF SentInv
  <2>6. Expects(sent, Len(out), Codecs, buffer, a \o b)
    BY <2>1, <2>3, <2>5 DEF SentInv
  <2>7. Expects(sent, Len(out), Codecs, buffer \o a, b)
    BY <2>2, <2>3, <2>6, ExpectsRead
  <2>8. (Expects(sent, Len(out), Codecs, buffer, Unread))'
    BY <2>1, <2>4, <2>7
  <2> QED
    BY <2>1, <2>5, <2>8 DEF SentInv
<1>3. ASSUME input' = input, read' = read, buffer' = buffer, request' = request,
             response' = response, out' = out, sent' = sent, ended' = ended
      PROVE  SentInv'
  <2>1. Codecs' = Codecs /\ Unread' = Unread /\ (Running' <=> Running)
    BY <1>3 DEF Codecs, Unread, Running
  <2> QED
    BY <1>3, <2>1 DEF SentInv
<1>4. CASE StartPoll \/ PollFull \/ MakeRoom \/ ReadEnd \/ StreamNotReady
  BY <1>3, <1>4
  DEF StartPoll, PollFull, MakeRoom, ReadEnd, StreamNotReady, streamVars, codecVars
<1>5. CASE \/ PollCodecEvent \/ CodecEventsNotReady \/ PollTimerNotReady \/ TimerExpires \/ Encode
  BY <1>3, <1>5
  DEF PollCodecEvent, CodecEventsNotReady, PollTimerNotReady, TimerExpires, Encode,
      streamVars, codecVars
<1>6. CASE PollTimerReady
  <2>1. out' = out /\ sent' = sent /\ ended' \in {"TimedOut", "TooManyTimers"}
    BY <1>6 DEF PollTimerReady
  <2>2. ~Running'
    BY <2>1 DEF Running
  <2> QED
    BY <2>1, <2>2 DEF SentInv
<1>7. CASE UNCHANGED vars
  BY <1>3, <1>7 DEF vars, streamVars, codecVars
<1> QED
  BY <1>1, <1>2, <1>4, <1>5, <1>6, <1>7 DEF Next

(* The messages that have been given are a prefix.                         *)
LEMMA GivenIsPrefix ==
    ASSUME NEW messages \in Sent, NEW list, IsList(list), Given(messages, list)
    PROVE  IsPrefix(list, [i \in DOMAIN messages |-> Received(messages[i])])
<1> DEFINE l == Len(messages)
           all == [i \in 1 .. l |-> Received(messages[i])]
           M == {Received(messages[i]) : i \in 1 .. l}
           n == Len(list)
<1>1. DOMAIN messages = 1 .. l /\ l \in Nat
  BY SentIs
<1>2. n \in Nat /\ n <= l
  BY <1>1 DEF Given
<1>3. all \in Seq(M) /\ Len(all) = l
  <2>1. all \in [1 .. l -> M]
    OBVIOUS
  <2> HIDE DEF all, M, l
  <2> QED
    BY <1>1, <2>1, FunctionIsSeq
<1>4. \A k \in 1 .. n : list[k] = all[k]
  BY <1>1, <1>2 DEF Given
<1> HIDE DEF all, M, l
<1>5. PICK N : list \in Seq(N)
  BY DEF IsList
<1>6. SubSeq(list, 1, n) = SubSeq(all, 1, n)
  <2>1. SubSeq(list, 1, n) = [k \in 1 .. n |-> list[k]]
    BY <1>2, <1>5
  <2>2. SubSeq(all, 1, n) = [k \in 1 .. n |-> all[k]]
    BY <1>2, <1>3
  <2> HIDE DEF n
  <2>3. [k \in 1 .. n |-> list[k]] = [k \in 1 .. n |-> all[k]]
    BY <1>4
  <2> QED
    BY <2>1, <2>2, <2>3
<1>7. IsPrefix(list, all)
  BY <1>2, <1>3, <1>6 DEF IsPrefix
<1> QED
  BY <1>1, <1>7 DEF all

(* The invariant implies the property.                                     *)
LEMMA SentInvHolds ==
    ASSUME BytesInv, TurnsInv, ChunkInv, SentInv
    PROVE  EncodedIsDecoded
<1>1. SUFFICES ASSUME sent # Raw PROVE EncodedIsDecoded
  BY DEF EncodedIsDecoded
<1>2. /\ sent \in Sent /\ Given(sent, out) /\ IsList(out)
      /\ ended \in {"no", "End", "UnexpectedEOF", "TimedOut", "TooManyTimers"}
      /\ Running => Expects(sent, Len(out), Codecs, buffer, Unread)
  BY <1>1 DEF SentInv, TurnsInv
<1>3. IsPrefix(out, [i \in DOMAIN sent |-> Received(sent[i])])
  BY <1>2, GivenIsPrefix
<1>4. ASSUME AllDecoded PROVE Len(out) = Len(sent) /\ ~Partial
  <2>1. Running /\ read = Len(input) /\ ~readable
    BY <1>4 DEF AllDecoded
  <2>2. TriedInVain(Codecs, buffer) /\ Unread = <<>> /\ buffer \in Text
    BY <2>1, UnreadIs DEF ChunkInv, BytesInv
  <2>3. Expects(sent, Len(out), Codecs, buffer, <<>>)
    BY <1>2, <2>1, <2>2
  <2>4. Len(out) = Len(sent) /\ buffer = <<>> /\ AtRest(Codecs)
    BY <2>2, <2>3, ExpectsEnd
  <2>5. Codecs.request = request /\ Codecs.response = response
    BY Pairs DEF Codecs
  <2> QED
    BY <2>4, <2>5 DEF Partial, InMessage, AtRest
<1> QED
  BY <1>2, <1>3, <1>4 DEF EncodedIsDecoded

(* What the encoder writes, this side's decoders read back, message for    *)
(* message and with nothing left over, however the bytes are cut into      *)
(* chunks (encoder/request.rs and encoder/response.rs, encode;             *)
(* decoder/request.rs, decoder/response.rs and codec/mod.rs, decode): no   *)
(* sequence of messages that Fits allows is ever refused.                  *)
THEOREM EncodedMessagesAreDecoded ==
    ASSUME HeaderNameMaxLength > 0
    PROVE  Spec => []EncodedIsDecoded
<1>1. Init => BytesInv /\ TurnsInv /\ ChunkInv /\ SentInv
  BY InitBytes, InitChunks, InitSent
<1>2. BytesInv /\ TurnsInv /\ ChunkInv /\ SentInv /\ [Next]_vars
        => BytesInv' /\ TurnsInv' /\ ChunkInv' /\ SentInv'
  BY NextBytes, NextChunks, NextSent
<1>3. BytesInv /\ TurnsInv /\ ChunkInv /\ SentInv => EncodedIsDecoded
  BY SentInvHolds
<1> QED
  BY <1>1, <1>2, <1>3, PTL DEF Spec
==============================================================================
