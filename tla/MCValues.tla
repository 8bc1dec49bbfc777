------------------------------ MODULE MCValues ------------------------------
(***************************************************************************)
(* The parts of the library that keep no state in common, side by side: a  *)
(* URI, a request and a response under sequences of operations, the pure   *)
(* conversions on every input of a small set, and the sender with its      *)
(* sink.  A behaviour is about one of them, its mode.                      *)
(***************************************************************************)
EXTENDS RequestUri, Server, Sender

VARIABLES mode, input

allVars == <<uriVars, messageVars, senderVars, mode, input>>

NoInput == <<>>

-----------------------------------------------------------------------------
(* Inputs of the conversions.                                              *)
Words ==
    {Word(w, s, shape) : w \in StandardHeaderNames \cup StandardMethods, s \in {"as written"},
                         shape \in {"token"}}
    \cup {Word(w, "as written", shape) :
              w \in {"vias", "", "content-lengt", "PLAYS"}, shape \in Shapes}

StatusBytes == [1 .. 3 -> (47 .. 58) \cup {0, 255}]

Texts == UNION {[1 .. n -> {CR, LF, SP, CTL, "a"}] : n \in 0 .. 5}

NumberTexts ==
    {<<>>, <<"0">>, <<"9">>, <<"+", "9">>, <<"1", "0">>, <<"+">>, <<"-", "1">>, <<"5", "0">>,
     <<"5", "1">>, <<"9", "9">>, <<"1", "0", "0">>, <<"0", "0", "7">>, <<SP, "1">>}
SessionTexts ==
    {i \o t : i \in {<<"u">>, <<"u", "i">>, <<"u", SP>>, <<SP, "u", "i", SP>>, <<"u", "$", "9">>,
                     <<"u", "i", "u", "i">>, <<"u", CTL>>},
              t \in {<<>>, <<";">>, <<";", "T", "=", "6">>, <<";", SP, "t", SP, "=", SP, "7">>,
                     <<";", "T", "=", "2", "0">>, <<";", "T", "=", "2", "1">>,
                     <<";", "T", "=", "9", "1">>, <<";", "x", "=", "7">>, <<";", "T", "7">>}}
ListTexts ==
    {<<>>, <<"A">>, <<"a", ",", SP, "A">>, <<"A", ",", "B", ",", "a">>, <<"B", ",", SP>>,
     <<",">>, <<"$">>, <<"A", SP, ",", HT, "B">>, <<"A", ";">>, <<CR, LF, SP, "B">>}

TextsOf(name) ==
    CASE name \in {"Content-Length", "CSeq"} -> NumberTexts
      [] name = "Session" -> SessionTexts
      [] OTHER -> ListTexts

TypedInputs(name) ==
    {[name |-> name, values |-> v] :
        v \in UNION {[1 .. n -> TextsOf(name)] : n \in 0 .. (IF name = "Session" THEN 1 ELSE 2)}}

(* Typed headers that a program can make.                                  *)
HeadersOf(name) ==
    CASE name = "Content-Length" -> {0, MaxContentLength}
      [] name = "CSeq" -> {0, MaxCSeqNumber}
      [] name = "Session" ->
            {[id |-> <<"u", "i">>, timeout |-> t, nanos |-> f] :
                t \in {0, DefaultTimeout, MaxTimeout, MaxTimeout + 1, MaxU64}, f \in {0, 5}}
            \cup {[id |-> <<"u", "i">>, timeout |-> NoTimeout, nanos |-> 0]}
      [] OTHER -> {<<>>, <<<<"A">>>>, <<<<"B">>, <<"A">>>>}

Maps(name) ==
    UNION {[1 .. n -> {<<name, <<"x">>>>, <<name, <<"1">>>>,
                       <<"Via", <<"y">>>>, <<"Date", <<"z">>>>}]
           : n \in 0 .. 3}
MapInputs(name) ==
    {[name |-> name, map |-> m, header |-> h] : m \in Maps(name), h \in HeadersOf(name)}

-----------------------------------------------------------------------------
MCBytes == STRING

MCSchemes == {"rtsp", "rtsps", "rtspu", "http"}
MCAuthorities == {[host |-> "", port |-> Absent], [host |-> "HOST", port |-> 554],
                  [host |-> "host", port |-> 332], [host |-> "host", port |-> Absent]}
MCPaths == {[absolute |-> FALSE, segments |-> <<"a", ".">>],
            [absolute |-> TRUE, segments |-> <<"a">>],
            [absolute |-> FALSE, segments |-> <<"*">>]}
MCQueries == {"q", "Q"}

MCMethods == {<<"O">>, <<"S">>, <<"P">>}
MCURIs == {Asterisk, Components("rtsp", [host |-> "HOST", port |-> 554],
                                [absolute |-> TRUE, segments |-> <<"a">>], Absent)}
MCStatusCodes == {[tag |-> "Standard", value |-> 200], [tag |-> "Standard", value |-> 404],
                  [tag |-> "Extension", value |-> 250]}
MCCSeqTexts == {<<"1">>, <<"x">>}

ServiceInputs ==
    {[method |-> m, uri |-> u, version |-> "2.0", headers |-> h, body |-> b] :
        m \in MCMethods, u \in MCURIs, b \in Bodies,
        h \in {<<>>} \cup {<<<<"Accept-Ranges", t>>>> : t \in ListTexts}}

Init ==
    /\ UriInit /\ MessagesInit /\ SenderInit
    /\ \/ mode \in {"uri", "request", "response", "sender"} /\ input = NoInput
       \/ mode = "words" /\ input \in Words
       \/ mode = "digits" /\ input \in StatusBytes
       \/ mode = "texts" /\ input \in Texts
       \/ mode = "typed" /\ \E name \in TypedNames : input \in TypedInputs(name)
       \/ mode = "maps" /\ \E name \in TypedNames : input \in MapInputs(name)
       \/ mode = "service" /\ input \in ServiceInputs

Other(part) == UNCHANGED <<part, mode, input>>

UriStep == mode = "uri" /\ UriNext /\ Other(<<messageVars, senderVars>>)
RequestStep == mode = "request" /\ RequestNext /\ Other(<<uriVars, senderVars>>)
ResponseStep == mode = "response" /\ ResponseNext /\ Other(<<uriVars, senderVars>>)
SenderStep(action) == mode = "sender" /\ action /\ Other(<<uriVars, messageVars>>)

Next == UriStep \/ RequestStep \/ ResponseStep \/ SenderStep(SenderNext)

(* The executor polls a sender that was notified, and the peer reads.      *)
Fairness ==
    /\ WF_allVars(SenderStep(SenderPoll))
    /\ WF_allVars(SenderStep(TransportTakes))

Spec == Init /\ [][Next]_allVars /\ Fairness

-----------------------------------------------------------------------------
(* What is read off the wire means what it should: a standard name is      *)
(* found in the table of its length, and nothing else is (header/name.rs,  *)
(* method.rs); three digits make the code of their number (status.rs);     *)
(* white space is trimmed, all of it and nothing else (syntax.rs); and the *)
(* automaton of header values accepts exactly the folded lines (value.rs). *)
WireFormsExact ==
    CASE mode = "words" -> HeaderNameIsFound(input) /\ MethodIsFound(input)
      [] mode = "digits" -> StatusDigitsExact(input)
      [] mode = "texts" -> /\ TrimIsExact(input)
                           /\ IsOk(HeaderValueTryFrom(input)) <=> Folded(input)
      [] OTHER -> TRUE

(* What is decoded of a typed header can be encoded, to valid values that  *)
(* mean the same (header/types); one that is inserted comes out of the map *)
(* and leaves the other headers alone (header/map.rs), and stays the one   *)
(* that is read of a message through all that is done to it; and the       *)
(* service implements the methods that a client reads from its typed       *)
(* header (server.rs).                                                     *)
TypedHeadersRoundTrip ==
    CASE mode = "typed" -> DecodedIsEncodable(input.name, input.values)
      [] mode = "maps" -> InsertedIsRead(input.map, input.name, input.header)
      [] mode \in {"request", "response"} -> TypedHeaderIsRead
      [] mode = "service" -> ServedIsAnnounced(input) /\ StaticResponsesExist
      [] OTHER -> TRUE
=============================================================================
