-------------------------------- MODULE Server --------------------------------
(***************************************************************************)
(* The service of the server (server.rs): what it answers to a request.    *)
(*                                                                         *)
(* The service keeps no state: run makes it without a session and nothing  *)
(* gives it one, so the touch in the answer to OPTIONS never happens.  The *)
(* methods OPTIONS and SETUP are the one-letter words O and S.             *)
(***************************************************************************)
EXTENDS Messages

SupportedMethods == <<<<"O">>, <<"S">>>>

(* A response of a status code, with headers and an empty body.            *)
StatusResponse(status, headers) ==
    ResponseBuild([NewResponseBuilder EXCEPT
        !.status = [tag |-> "Standard", value |-> status],
        !.headers = headers, !.body = <<>>])

(* The responses that are made once, by their status codes.                *)
StaticResponses == [status \in {100, 400, 403, 413, 414, 500, 501, 505} |->
                        StatusResponse(status, <<>>)]

(* handle_method_options: no media is served, so no other URI is found.    *)
HandleMethodOptions(r) ==
    IF r.uri.asterisk
    THEN StatusResponse(200, TypedInsert(<<>>, "Public", SupportedMethods))
    ELSE StatusResponse(404, <<>>)

(* handle_method_setup: Accept-Ranges may be missing but not malformed; no *)
(* range format is supported.                                              *)
HandleMethodSetup(r) ==
    IF IsOk(TypedTryGet(r.headers, "Accept-Ranges"))
    THEN StatusResponse(456, TypedInsert(<<>>, "Accept-Ranges", <<>>))
    ELSE StaticResponses[400]

(* Service::call.                                                          *)
Call(r) ==
    LET normalized == [r EXCEPT !.uri = Normalized(@), !.body = <<>>]
    IN  CASE r.method = <<"O">> -> HandleMethodOptions(normalized)
          [] r.method = <<"S">> -> HandleMethodSetup(normalized)
          [] OTHER -> StaticResponses[501]

-----------------------------------------------------------------------------
(* What the service should do.                                             *)

(* Every request has an answer: none of the builders fails, which the      *)
(* service unwraps; and a method is implemented exactly if it is among the *)
(* methods that a client reads from the answer to OPTIONS (call,           *)
(* handle_method_options, SUPPORTED_METHODS).                              *)
ServedIsAnnounced(r) ==
    LET options == Call([r EXCEPT !.method = <<"O">>, !.uri = Asterisk])
        announced == TypedTryGet(options.message.headers, "Public")
    IN  /\ Call(r).tag = "Ok"
        /\ options.tag = "Ok" /\ IsPresent(announced)
        /\ Call(r).message.status.value # 501
              <=> \E i \in DOMAIN announced.value.value : announced.value.value[i] = r.method

(* The responses that the handler and the receiver send on their own can   *)
(* be built (the expects of response.rs), with the phrase of their code.   *)
StaticResponsesExist ==
    \A status \in DOMAIN StaticResponses :
        /\ StaticResponses[status].tag = "Ok"
        /\ StaticResponses[status].message.phrase.of = status
=============================================================================
