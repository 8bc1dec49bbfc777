-------------------------------- MODULE Names --------------------------------
(***************************************************************************)
(* Methods (method.rs), header names (header/name.rs) and status codes     *)
(* (status.rs): the tables of the standard ones, and the conversions that  *)
(* find a standard one from what is on the wire.                           *)
(*                                                                         *)
(* The word on the wire is a record: word is its text with the case        *)
(* folded the way the conversion folds it, spelling the text as written,   *)
(* and shape says which of the checks on an extension it fails, if any.    *)
(***************************************************************************)
EXTENDS Integers, Sequences

Shapes == {"token", "empty", "dollar", "other"}

Word(word, spelling, shape) ==
    [word |-> word, spelling |-> spelling, shape |-> shape]

-----------------------------------------------------------------------------
(* The methods, by the text of as_str.                                     *)
StandardMethods ==
    {"DESCRIBE", "GET_PARAMETER", "OPTIONS", "PAUSE", "PLAY", "PLAY_NOTIFY",
     "REDIRECT", "SET_PARAMETER", "SETUP", "TEARDOWN"}

(* The methods that TryFrom compares with a text of each length.           *)
MethodsOfLength(n) ==
    CASE n = 4 -> {"PLAY"}
      [] n = 5 -> {"PAUSE", "SETUP"}
      [] n = 7 -> {"OPTIONS"}
      [] n = 8 -> {"DESCRIBE", "REDIRECT", "TEARDOWN"}
      [] n = 11 -> {"PLAY_NOTIFY"}
      [] n = 13 -> {"GET_PARAMETER", "SET_PARAMETER"}
      [] OTHER -> {}

(* Method::extension: the method keeps the text in upper case.             *)
MethodExtension(w) ==
    CASE w.shape = "empty" -> [tag |-> "Err", value |-> "Empty"]
      [] w.shape = "dollar" -> [tag |-> "Err", value |-> "StartsWithDollarSign"]
      [] w.shape = "other" -> [tag |-> "Err", value |-> "InvalidCharacter"]
      [] w.shape = "token" -> [tag |-> "Extension", value |-> w.word]

MethodTryFrom(w) ==
    IF w.word \in MethodsOfLength(Len(w.word))
    THEN [tag |-> "Standard", value |-> w.word]
    ELSE MethodExtension(w)

-----------------------------------------------------------------------------
(* The header names, by the text of as_str.                                *)
HeaderNamesAToL ==
    {"accept", "accept-credentials", "accept-encoding", "accept-language",
     "accept-ranges", "allow", "authentication-info", "authorization",
     "bandwidth", "blocksize", "cache-control", "connection",
     "connection-credentials", "content-base", "content-encoding",
     "content-language", "content-length", "content-location",
     "content-type", "cseq", "date", "expires", "from", "if-match",
     "if-modified-since", "if-none-match", "last-modified", "location"}

HeaderNamesMToZ ==
    {"media-properties", "media-range", "mtag", "notify-reason",
     "pipelined-requests", "proxy-authenticate",
     "proxy-authentication-info", "proxy-authorization", "proxy-require",
     "proxy-supported", "public", "range", "referrer", "request-status",
     "require", "retry-after", "rtp-info", "scale", "seek-style",
     "server", "session", "speed", "supported", "terminate-reason",
     "timestamp", "transport", "unsupported", "user-agent", "via",
     "www-authenticate"}

StandardHeaderNames == HeaderNamesAToL \cup HeaderNamesMToZ

(* The names that TryFrom compares with a text of each length.             *)
HeaderNamesOfLength(n) ==
    CASE n = 3 -> {"via"}
      [] n = 4 -> {"cseq", "date", "from", "mtag"}
      [] n = 5 -> {"allow", "range", "scale", "speed"}
      [] n = 6 -> {"accept", "public", "server"}
      [] n = 7 -> {"expires", "require", "session"}
      [] n = 8 -> {"if-match", "location", "referrer", "rtp-info"}
      [] n = 9 -> {"bandwidth", "blocksize", "supported", "timestamp", "transport"}
      [] n = 10 -> {"connection", "seek-style", "user-agent"}
      [] n = 11 -> {"media-range", "retry-after", "unsupported"}
      [] n = 12 -> {"content-base", "content-type"}
      [] n = 13 -> {"accept-ranges", "authorization", "cache-control",
                    "if-none-match", "last-modified", "notify-reason",
                    "proxy-require"}
      [] n = 14 -> {"content-length", "request-status"}
      [] n = 15 -> {"accept-encoding", "accept-language", "proxy-supported"}
      [] n = 16 -> {"content-encoding", "content-language", "content-location",
                    "media-properties", "terminate-reason", "www-authenticate"}
      [] n = 17 -> {"if-modified-since"}
      [] n = 18 -> {"accept-credentials", "pipelined-requests",
                    "proxy-authenticate"}
      [] n = 19 -> {"authentication-info", "proxy-authorization"}
      [] n = 22 -> {"connection-credentials"}
      [] n = 25 -> {"proxy-authentication-info"}
      [] OTHER -> {}

(* HeaderName::extension: the name keeps both spellings.                   *)
HeaderNameExtension(w) ==
    CASE w.shape = "empty" -> [tag |-> "Err", value |-> "Empty"]
      [] w.shape = "other" -> [tag |-> "Err", value |-> "InvalidCharacter"]
      [] w.shape \in {"token", "dollar"} ->
            [tag |-> "Extension", value |-> w.word, canonical |-> w.spelling]

HeaderNameTryFrom(w) ==
    IF w.word \in HeaderNamesOfLength(Len(w.word))
    THEN [tag |-> "Standard", value |-> w.word]
    ELSE HeaderNameExtension(w)

(* Two header names are equal when their lower-case texts are.             *)
SameHeaderName(a, b) == a.tag = b.tag /\ a.value = b.value

-----------------------------------------------------------------------------
(* The status codes that have a variant and a reason phrase of their own.  *)
StandardStatusCodes ==
    {100, 200, 301, 302, 304, 305} \cup (400 .. 408) \cup {410} \cup (412 .. 415)
    \cup {451} \cup (453 .. 466) \cup (470 .. 472) \cup (500 .. 505) \cup {551, 553}

(* TryFrom<u16>: what a number becomes.                                    *)
StatusCodeTryFrom(n) ==
    IF n < 100 \/ n >= 600 THEN [tag |-> "Err", value |-> "OutOfRange"]
    ELSE IF n \in {303, 352} THEN [tag |-> "Err", value |-> "Removed"]
    ELSE [tag |-> IF n \in StandardStatusCodes THEN "Standard" ELSE "Extension",
          value |-> n]

(* TryFrom for the other integer types: first to a u16.                    *)
MaxU16 == 256 * 256 - 1

StatusCodeTryFromInteger(n) ==
    IF n \notin 0 .. MaxU16 THEN [tag |-> "Err", value |-> "OutOfRange"]
    ELSE StatusCodeTryFrom(n)

(* TryFrom<&[u8]>: each byte less the byte of "0" modulo 256, put together *)
(* as a u16; that it is a digit is not checked.                            *)
StatusCodeNumber(bytes) ==
    LET digit(i) == (bytes[i] - 48) % 256
    IN  digit(1) * 100 + digit(2) * 10 + digit(3)

StatusCodeTryFromBytes(bytes) ==
    IF Len(bytes) # 3 THEN [tag |-> "Err", value |-> "Invalid"]
    ELSE StatusCodeTryFrom(StatusCodeNumber(bytes) % (MaxU16 + 1))

StatusCodeClasses ==
    {"Informational", "Success", "Redirection", "ClientError", "ServerError"}

StatusCodeClass(n) ==
    CASE n \in 100 .. 199 -> "Informational"
      [] n \in 200 .. 299 -> "Success"
      [] n \in 300 .. 399 -> "Redirection"
      [] n \in 400 .. 499 -> "ClientError"
      [] n \in 500 .. 599 -> "ServerError"

(* is_client_error, is_informational, is_redirection, is_server_error and  *)
(* is_success.                                                             *)
IsOfClass(n, class) == StatusCodeClass(n) = class

(* canonical_reason: the phrase is named by the number of its code.        *)
CanonicalReason(code) ==
    IF code.tag = "Standard" THEN [some |-> TRUE, of |-> code.value]
    ELSE [some |-> FALSE]

-----------------------------------------------------------------------------
(* What the conversions should do.                                         *)

(* Every standard name is found among the few names of its length that the *)
(* conversion compares it with, in whatever case it is written, and no     *)
(* other word becomes a standard name; two spellings of a name are equal.  *)
HeaderNameIsFound(w) ==
    /\ w.word \in StandardHeaderNames <=> HeaderNameTryFrom(w).tag = "Standard"
    /\ w.word \in StandardHeaderNames => HeaderNameTryFrom(w).value = w.word
    /\ HeaderNameTryFrom(w).tag # "Err" =>
          SameHeaderName(HeaderNameTryFrom(w), HeaderNameTryFrom([w EXCEPT !.spelling = w.word]))

(* The same for the methods.                                               *)
MethodIsFound(w) ==
    /\ w.word \in StandardMethods <=> MethodTryFrom(w).tag = "Standard"
    /\ w.word \in StandardMethods => MethodTryFrom(w).value = w.word

(* Three bytes of whatever kind fit in a u16, and no class is undefined    *)
(* for a code that came out of them.  Three decimal digits and the number  *)
(* they write become the same status code, which is written back as the    *)
(* same digits, or the same error.                                         *)
StatusDigitsExact(bytes) ==
    LET n == (bytes[1] - 48) * 100 + (bytes[2] - 48) * 10 + bytes[3] - 48
        code == StatusCodeTryFromBytes(bytes)
    IN  /\ StatusCodeNumber(bytes) \in 0 .. MaxU16
        /\ code.tag # "Err" =>
              /\ code.value \in 100 .. 599
              /\ \E class \in StatusCodeClasses : IsOfClass(code.value, class)
        /\ (\A i \in DOMAIN bytes : bytes[i] \in 48 .. 57) =>
              /\ code = StatusCodeTryFromInteger(n)
              /\ code.tag # "Err" => code.value = n
=============================================================================
