------------------------------ MODULE Messages ------------------------------
(***************************************************************************)
(* Requests (request.rs) and responses (response.rs) with their builders,  *)
(* under every sequence of the operations that make and change them.       *)
(*                                                                         *)
(* A builder and a message are records of their parts; a part that was not *)
(* given is Absent.  A setter and its with_ form do the same.  There is    *)
(* one message at a time: either its builder is at work or it is built.    *)
(***************************************************************************)
EXTENDS Headers, Uri

CONSTANTS
    Methods,        \* methods of requests
    URIs,           \* URIs of requests
    Bodies,         \* bodies
    Versions,       \* protocol versions, one of them "2.0"
    StatusCodes,    \* status codes: [tag, value] with tag Standard or Extension
    Phrases,        \* custom reason phrases
    CSeqTexts,      \* values that a CSeq header is given as text
    CSeqs,          \* sequence numbers that it is given as a typed header
    MaxHeaders      \* bound: the headers of a builder

VARIABLES
    requestBuilder, request,    \* a builder and a request, if there is one
    responseBuilder, response,  \* a builder and a response, if there is one
    outcome,                    \* what the last operation returned
    mutated,                    \* the status or the phrase of the response was replaced
    typed                       \* the CSeq given last, if it was a typed header

requestVars == <<requestBuilder, request>>
responseVars == <<responseBuilder, response, mutated>>
messageVars == <<requestVars, responseVars, outcome, typed>>

(* The URIs that a request can come to have, since one can be normalized.  *)
URIForms == URIs \cup {Normalized(u) : u \in URIs}

(* None is not one of the values, and the normal form of a URI is normal   *)
(* (NormalFormReached in RequestUri).                                      *)
ASSUME MessagesAssumption ==
    /\ Absent \notin Methods /\ Absent \notin URIForms /\ Absent \notin Bodies
    /\ \A u \in URIs : Normalized(Normalized(u)) = Normalized(u)

-----------------------------------------------------------------------------
NewRequestBuilder ==
    [method |-> Absent, uri |-> Absent, version |-> "2.0", headers |-> <<>>, body |-> Absent]

Built(message) == [tag |-> "Ok", message |-> message]
NotBuilt(error) == [tag |-> error]

(* Builder::build of a request.                                            *)
RequestBuild(b) ==
    CASE b.method = Absent -> NotBuilt("MissingMethod")
      [] b.method # Absent /\ b.uri = Absent -> NotBuilt("MissingURI")
      [] b.method # Absent /\ b.uri # Absent /\ b.body = Absent -> NotBuilt("MissingBody")
      [] OTHER -> IF b.version # "2.0" THEN NotBuilt("UnsupportedVersion") ELSE Built(b)

(* into_builder, into_parts and from_parts.                                *)
RequestIntoBuilder(r) == r
RequestIntoParts(r) == <<r.method, r.uri, r.version, r.headers, r.body>>
RequestFromParts(parts) ==
    RequestBuild([method |-> parts[1], uri |-> parts[2], version |-> parts[3],
                  headers |-> parts[4], body |-> parts[5]])

NewResponseBuilder ==
    [version |-> "2.0", status |-> [tag |-> "Standard", value |-> 200],
     phrase |-> Absent, headers |-> <<>>, body |-> Absent]

(* Builder::build of a response: only an extension has a custom phrase.    *)
ResponseBuild(b) ==
    LET phrase == IF b.status.tag = "Extension" THEN b.phrase ELSE CanonicalReason(b.status)
    IN  CASE phrase = Absent -> NotBuilt("MissingReasonPhrase")
          [] phrase # Absent /\ b.body = Absent -> NotBuilt("MissingBody")
          [] OTHER -> IF b.version # "2.0" THEN NotBuilt("UnsupportedVersion")
                      ELSE Built([b EXCEPT !.phrase = phrase])

ResponseIntoBuilder(r) == r
ResponseIntoParts(r) == <<r.version, r.status, r.phrase, r.headers, r.body>>
\* Mutant: the phrase is not handed on.
ResponseFromPartsNoPhrase(parts) ==
    ResponseBuild([version |-> parts[1], status |-> parts[2], phrase |-> Absent,
                   headers |-> parts[4], body |-> parts[5]])

ResponseFromParts(parts) ==
    ResponseBuild([version |-> parts[1], status |-> parts[2], phrase |-> parts[3],
                   headers |-> parts[4], body |-> parts[5]])

(* header appends, typed_header replaces what is under its name.           *)
WithHeader(b, value) == [b EXCEPT !.headers = HeaderAppend(@, "CSeq", value)]
WithTypedHeader(b, cseq) == [b EXCEPT !.headers = TypedInsert(@, "CSeq", cseq)]

-----------------------------------------------------------------------------
MessagesInit ==
    /\ requestBuilder = NewRequestBuilder /\ request = Absent
    /\ responseBuilder = NewResponseBuilder /\ response = Absent
    /\ outcome = "Ok" /\ mutated = FALSE /\ typed = Absent

(* The setters of the request's builder.                                   *)
SetRequestPart(b) ==
    /\ request = Absent
    /\ requestBuilder' = b
    /\ outcome' = "Ok"
    /\ UNCHANGED <<request, responseVars>>

SetMethod(m) == SetRequestPart([requestBuilder EXCEPT !.method = m]) /\ UNCHANGED typed
SetURI(u) == SetRequestPart([requestBuilder EXCEPT !.uri = u]) /\ UNCHANGED typed
SetRequestBody(body) == SetRequestPart([requestBuilder EXCEPT !.body = body]) /\ UNCHANGED typed
SetRequestVersion(v) == SetRequestPart([requestBuilder EXCEPT !.version = v]) /\ UNCHANGED typed
AddRequestHeader(value) ==
    /\ Len(requestBuilder.headers) < MaxHeaders
    /\ SetRequestPart(WithHeader(requestBuilder, value)) /\ typed' = Absent
SetRequestTyped(cseq) ==
    SetRequestPart(WithTypedHeader(requestBuilder, cseq)) /\ typed' = cseq

(* build consumes the builder; an error loses the parts.                   *)
BuildRequest ==
    LET built == RequestBuild(requestBuilder)
    IN  /\ request = Absent
        /\ outcome' = built.tag
        /\ request' = IF built.tag = "Ok" THEN built.message ELSE request
        /\ typed' = IF built.tag = "Ok" THEN typed ELSE Absent
        /\ requestBuilder' = NewRequestBuilder
        /\ UNCHANGED responseVars

TakeRequestBuilder ==
    /\ request # Absent
    /\ requestBuilder' = RequestIntoBuilder(request)
    /\ request' = Absent /\ outcome' = "Ok"
    /\ UNCHANGED <<responseVars, typed>>

(* method_mut, uri_mut, body_mut, headers_mut and map: here, what the      *)
(* server's service does with them.                                        *)
ChangeRequest(r) ==
    /\ request # Absent
    /\ request' = r /\ outcome' = "Ok"
    /\ UNCHANGED <<requestBuilder, responseVars>>

MapRequest(body) == ChangeRequest([request EXCEPT !.body = body]) /\ UNCHANGED typed
NormalizeRequest == ChangeRequest([request EXCEPT !.uri = Normalized(@)]) /\ UNCHANGED typed
MethodMut(m) == ChangeRequest([request EXCEPT !.method = m]) /\ UNCHANGED typed
RequestHeadersMut(cseq) == ChangeRequest(WithTypedHeader(request, cseq)) /\ typed' = cseq

RequestNext ==
    \/ \E m \in Methods : SetMethod(m) \/ MethodMut(m)
    \/ \E u \in URIs : SetURI(u)
    \/ \E body \in Bodies : SetRequestBody(body) \/ MapRequest(body)
    \/ \E v \in Versions : SetRequestVersion(v)
    \/ \E value \in CSeqTexts : AddRequestHeader(value)
    \/ \E cseq \in CSeqs : SetRequestTyped(cseq) \/ RequestHeadersMut(cseq)
    \/ BuildRequest \/ TakeRequestBuilder \/ NormalizeRequest

-----------------------------------------------------------------------------
SetResponsePart(b) ==
    /\ response = Absent
    /\ responseBuilder' = b
    /\ outcome' = "Ok"
    /\ UNCHANGED <<response, mutated, requestVars>>

SetStatusCode(code) == SetResponsePart([responseBuilder EXCEPT !.status = code]) /\ UNCHANGED typed
SetReasonPhrase(p) == SetResponsePart([responseBuilder EXCEPT !.phrase = p]) /\ UNCHANGED typed
SetResponseBody(body) == SetResponsePart([responseBuilder EXCEPT !.body = body]) /\ UNCHANGED typed
SetResponseVersion(v) == SetResponsePart([responseBuilder EXCEPT !.version = v]) /\ UNCHANGED typed
AddResponseHeader(value) ==
    /\ Len(responseBuilder.headers) < MaxHeaders
    /\ SetResponsePart(WithHeader(responseBuilder, value)) /\ typed' = Absent
SetResponseTyped(cseq) ==
    SetResponsePart(WithTypedHeader(responseBuilder, cseq)) /\ typed' = cseq

BuildResponse ==
    LET built == ResponseBuild(responseBuilder)
    IN  /\ response = Absent
        /\ outcome' = built.tag
        /\ response' = IF built.tag = "Ok" THEN built.message ELSE response
        /\ typed' = IF built.tag = "Ok" THEN typed ELSE Absent
        /\ mutated' = FALSE
        /\ responseBuilder' = NewResponseBuilder
        /\ UNCHANGED requestVars

TakeResponseBuilder ==
    /\ response # Absent
    /\ responseBuilder' = ResponseIntoBuilder(response)
    /\ response' = Absent /\ mutated' = FALSE /\ outcome' = "Ok"
    /\ UNCHANGED <<requestVars, typed>>

ChangeResponse(r) ==
    /\ response # Absent
    /\ response' = r /\ outcome' = "Ok"
    /\ UNCHANGED <<responseBuilder, requestVars>>

MapResponse(body) ==
    ChangeResponse([response EXCEPT !.body = body]) /\ UNCHANGED <<mutated, typed>>
ResponseHeadersMut(cseq) ==
    ChangeResponse(WithTypedHeader(response, cseq)) /\ typed' = cseq /\ UNCHANGED mutated

(* status_code_mut and reason_phrase_mut change one without the other.     *)
StatusCodeMut(code) ==
    ChangeResponse([response EXCEPT !.status = code]) /\ mutated' = TRUE /\ UNCHANGED typed
ReasonPhraseMut(p) ==
    ChangeResponse([response EXCEPT !.phrase = p]) /\ mutated' = TRUE /\ UNCHANGED typed

ResponseNext ==
    \/ \E code \in StatusCodes : SetStatusCode(code) \/ StatusCodeMut(code)
    \/ \E p \in Phrases \cup {Absent} : SetReasonPhrase(p)
    \/ \E p \in Phrases : ReasonPhraseMut(p)
    \/ \E body \in Bodies : SetResponseBody(body) \/ MapResponse(body)
    \/ \E v \in Versions : SetResponseVersion(v)
    \/ \E value \in CSeqTexts : AddResponseHeader(value)
    \/ \E cseq \in CSeqs : SetResponseTyped(cseq) \/ ResponseHeadersMut(cseq)
    \/ BuildResponse \/ TakeResponseBuilder

MessagesSpec == MessagesInit /\ [][RequestNext \/ ResponseNext]_messageVars

-----------------------------------------------------------------------------
(* The inductive invariant.  A builder has all fields, whatever they hold; *)
(* a message has all its parts, which nothing takes away, and a response   *)
(* the phrase that its status code calls for.                              *)
RequestRecord(r) ==
    r = [method |-> r.method, uri |-> r.uri, version |-> r.version,
         headers |-> r.headers, body |-> r.body]
ResponseRecord(r) ==
    r = [version |-> r.version, status |-> r.status, phrase |-> r.phrase,
         headers |-> r.headers, body |-> r.body]

RequestInv ==
    /\ RequestRecord(requestBuilder) /\ requestBuilder.uri \in URIForms \cup {Absent}
    /\ request # Absent =>
          /\ RequestRecord(request) /\ request.uri \in URIForms
          /\ request.method # Absent /\ request.body # Absent /\ request.version = "2.0"

ResponseInv ==
    /\ ResponseRecord(responseBuilder)
    /\ response # Absent =>
          /\ ResponseRecord(response)
          /\ response.body # Absent /\ response.version = "2.0"
          /\ ~mutated => /\ response.phrase # Absent
                         /\ response.status.tag # "Extension"
                               => response.phrase = CanonicalReason(response.status)

(* However it was made, a message that is taken apart and put together     *)
(* again is the same one, except for a response whose status code or       *)
(* reason phrase was replaced in place (into_builder and build, into_parts *)
(* and from_parts: the examples of their documentation).  Since build puts *)
(* in the phrase of a standard status code, this also says that the phrase *)
(* of a response is never the one of another code that its builder held.   *)
RebuiltIsSame ==
    /\ request # Absent =>
          /\ RequestBuild(RequestIntoBuilder(request)) = Built(request)
          /\ RequestFromParts(RequestIntoParts(request)) = Built(request)
    /\ (response # Absent /\ ~mutated) =>
          /\ ResponseBuild(ResponseIntoBuilder(response)) = Built(response)
          /\ ResponseFromParts(ResponseIntoParts(response)) = Built(response)

(* A sequence number that was given as a typed header is the one that a    *)
(* receiver reads, whatever was under its name before, and through build,  *)
(* into_builder and map (typed_header, headers_mut().typed_insert).        *)
TypedHeaderIsRead ==
    \A m \in {requestBuilder, request, responseBuilder, response} :
        (typed # Absent /\ m # Absent /\ GetAll(m.headers, "CSeq") # <<>>)
            => GetAll(m.headers, "CSeq") = CSeqEncode(typed)
=============================================================================
