------------------------------- MODULE Headers -------------------------------
(***************************************************************************)
(* The header map (header/map.rs) and the typed headers that the           *)
(* connection and the server use: Content-Length, CSeq, Session, Public    *)
(* and Accept-Ranges (header/types).                                       *)
(*                                                                         *)
(* A header map is the sequence of its entries, <<name, value>>, in the    *)
(* order of insertion.  A value is a text (Syntax); the words methods,     *)
(* range formats and the parameter name "timeout" are one letter long.     *)
(***************************************************************************)
EXTENDS Syntax, Names

CONSTANTS
    MaxContentLength,   \* MAX_CONTENT_LENGTH
    MaxUsize,           \* usize::MAX, the largest number a length parses to
    MaxCSeqNumber,      \* MAX_CSEQ
    MaxU32,             \* u32::MAX, the largest number a CSeq parses to
    DefaultTimeout,     \* DEFAULT_SESSION_TIMEOUT, in seconds
    MaxTimeout,         \* MAX_SESSION_TIMEOUT, in seconds
    MaxU64,             \* u64::MAX, the largest number a timeout parses to
    MinIDLength,        \* the shortest and the longest session identifier
    MaxIDLength

ASSUME HeadersAssumption ==
    /\ MaxContentLength \in Nat /\ MaxUsize \in Nat
    /\ MaxCSeqNumber \in Nat /\ MaxU32 \in Nat /\ MaxCSeqNumber < MaxU32
    /\ DefaultTimeout \in Nat /\ MaxTimeout \in Nat /\ MaxU64 \in Nat
    /\ DefaultTimeout <= MaxTimeout /\ MaxTimeout < MaxU64
    /\ MinIDLength \in Nat /\ MaxIDLength \in Nat /\ MinIDLength <= MaxIDLength

-----------------------------------------------------------------------------
(* ListOrderedMultimap: append at the end; the values of one name.         *)
HeaderAppend(map, name, value) == Append(map, <<name, value>>)

GetAll(map, name) ==
    LET values[i \in 0 .. Len(map)] ==
            IF i = 0 THEN <<>>
            ELSE IF map[i][1] = name THEN Append(values[i - 1], map[i][2]) ELSE values[i - 1]
    IN  values[Len(map)]

(* The entries of all other names, in their order.                         *)
Without(map, name) ==
    LET others[i \in 0 .. Len(map)] ==
            IF i = 0 THEN <<>>
            ELSE IF map[i][1] # name THEN Append(others[i - 1], map[i]) ELSE others[i - 1]
    IN  others[Len(map)]

(* OccupiedEntry::insert: the first value is replaced where it stands and  *)
(* the other values of the name are removed.                               *)
HeaderInsert(map, name, value) ==
    LET first == CHOOSE i \in DOMAIN map :
                     map[i][1] = name /\ \A j \in 1 .. i - 1 : map[j][1] # name
    IN  SubSeq(map, 1, first - 1) \o <<<<name, value>>>>
        \o Without(SubSeq(map, first + 1, Len(map)), name)

(* ExtendWrapper::extend with the values that a typed header encodes to:   *)
(* the first one goes into the entry, the others are appended to it.       *)
ExtendEntry(map, name, values) ==
    LET first == IF GetAll(map, name) # <<>>
                 THEN HeaderInsert(map, name, values[1])
                 ELSE HeaderAppend(map, name, values[1])
    IN  IF values = <<>> THEN map
        ELSE first \o [i \in 1 .. Len(values) - 1 |-> <<name, values[i + 1]>>]

-----------------------------------------------------------------------------
Some(value) == Ok([some |-> TRUE, value |-> value])
None == Ok([some |-> FALSE])

(* The shape that the typed headers with a single value share.             *)
DecodeSingle(values, Parse(_)) ==
    CASE Len(values) = 0 -> None
      [] Len(values) > 1 -> Err("MoreThanOneHeader")
      [] OTHER -> Parse(values[1])

(* A number bounded by the header's maximum after it was parsed.           *)
BoundedNumber(text, typeMax, max) ==
    LET number == ParseUnsigned(text, typeMax)
    IN  CASE ~IsOk(number) -> Err(number.value)
          [] IsOk(number) /\ number.value > max -> Err("ExceedsMaximumLength")
          [] OTHER -> Some(number.value)

ContentLengthDecode(values) ==
    DecodeSingle(values, LAMBDA v : BoundedNumber(v, MaxUsize, MaxContentLength))

ContentLengthEncode(length) == <<FormatUnsigned(length)>>

CSeqDecode(values) ==
    DecodeSingle(values, LAMBDA v : BoundedNumber(v, MaxU32, MaxCSeqNumber))

CSeqEncode(cseq) == <<FormatUnsigned(cseq)>>

-----------------------------------------------------------------------------
(* SessionID::try_from; of the bytes used here "u" and "i" are letters.    *)
SessionIDBytes == {"u", "i", "$", "-", "_", ".", "+"} \cup DOMAIN Digit

SessionIDTryFrom(s) ==
    CASE Len(s) < MinIDLength -> Err("TooShort")
      [] Len(s) > MaxIDLength -> Err("TooLong")
      [] \E i \in DOMAIN s : s[i] \notin SessionIDBytes -> Err("InvalidCharacter")
      [] OTHER -> Ok(s)

(* A session is its identifier and its Option<Duration>: whole seconds,    *)
(* NoTimeout for None, and nanoseconds.                                    *)
NoTimeout == -1

(* The parameter after the first semicolon; "T" stands for "timeout".      *)
SessionTimeout(text) ==
    LET parts == [i \in DOMAIN SplitOnce(text, "=") |->
                     TrimWhitespace(SplitOnce(text, "=")[i])]
    IN  IF Len(parts) # 2 \/ parts[1] \notin {<<"T">>, <<"t">>}
        THEN Err("InvalidParameterSyntax")
        ELSE BoundedNumber(parts[2], MaxU64, MaxTimeout)

SessionDecode(values) ==
    DecodeSingle(values, LAMBDA v :
        LET parts == SplitOnce(v, ";")
            id == SessionIDTryFrom(TrimWhitespace(parts[1]))
            timeout == SessionTimeout(parts[2])
        IN  CASE ~IsOk(id) -> id
              [] IsOk(id) /\ Len(parts) = 1 ->
                    Some([id |-> id.value, timeout |-> NoTimeout, nanos |-> 0])
              [] IsOk(id) /\ Len(parts) = 2 /\ ~IsOk(timeout) -> timeout
              [] OTHER ->
                    Some([id |-> id.value, timeout |-> timeout.value.value, nanos |-> 0]))

\* Mutant: every timeout is left out.
SessionEncodeShort(session) == <<session.id>>

(* encode leaves out a timeout that is the default one, and writes the     *)
(* whole seconds of any other, however many they are.                      *)
SessionEncode(session) ==
    IF session.timeout \in {NoTimeout, DefaultTimeout} THEN <<session.id>>
    ELSE <<session.id \o <<";", SP, "T", SP, "=", SP>>
             \o FormatUnsigned(session.timeout)>>

-----------------------------------------------------------------------------
(* LinkedHashSet::insert: an element that is present moves to the end.     *)
LinkedInsert(set, element) ==
    Append(SelectSeq(set, LAMBDA e : e # element), element)

Fold(text) == [i \in DOMAIN text |-> IF text[i] = "a" THEN "A" ELSE text[i]]

MethodFromText(s) ==
    MethodExtension(Word(Fold(s), s, CASE s = <<>> -> "empty"
                                       [] s # <<>> /\ s[1] = "$" -> "dollar"
                                       [] s # <<>> /\ s[1] # "$" /\ IsToken(s) -> "token"
                                       [] OTHER -> "other"))

(* RangeFormat::extension.                                                 *)
RangeFormatFromText(s) ==
    CASE s = <<>> -> [tag |-> "Err", value |-> "Empty"]
      [] s # <<>> /\ ~IsToken(s) -> [tag |-> "Err", value |-> "InvalidCharacter"]
      [] OTHER -> [tag |-> "Extension", value |-> Fold(s)]

(* The elements of all values, up to the first one that is refused.        *)
DecodeList(values, TryFrom(_)) ==
    LET texts == FlattenSeq([i \in DOMAIN values |-> SplitAll(values[i], ",")])
        parsed == [i \in DOMAIN texts |-> TryFrom(TrimWhitespace(texts[i]))]
        bad == {i \in DOMAIN parsed : parsed[i].tag = "Err"}
    IN  IF values = <<>> THEN None
        ELSE IF bad # {} THEN parsed[CHOOSE i \in bad : \A j \in bad : i <= j]
        ELSE Some(FoldLeft(LAMBDA set, p : LinkedInsert(set, p.value), <<>>, parsed))

(* join(", ") of the elements, in one value.                               *)
JoinList(elements) ==
    LET joined[k \in 0 .. Len(elements)] ==
            CASE k = 0 -> <<>>
              [] k = 1 -> elements[1]
              [] OTHER -> joined[k - 1] \o <<",", SP>> \o elements[k]
    IN  joined[Len(elements)]

PublicDecode(values) == DecodeList(values, MethodFromText)
PublicEncode(methods) == <<JoinList(methods)>>

AcceptRangesDecode(values) == DecodeList(values, RangeFormatFromText)
AcceptRangesEncode(formats) == <<JoinList(formats)>>

-----------------------------------------------------------------------------
TypedNames == {"Content-Length", "CSeq", "Session", "Public", "Accept-Ranges"}

(* TypedHeader::decode and TypedHeader::encode of the header of each name. *)
TypedDecode(name, values) ==
    CASE name = "Content-Length" -> ContentLengthDecode(values)
      [] name = "CSeq" -> CSeqDecode(values)
      [] name = "Session" -> SessionDecode(values)
      [] name = "Public" -> PublicDecode(values)
      [] name = "Accept-Ranges" -> AcceptRangesDecode(values)

TypedEncode(name, header) ==
    CASE name = "Content-Length" -> ContentLengthEncode(header)
      [] name = "CSeq" -> CSeqEncode(header)
      [] name = "Session" -> SessionEncode(header)
      [] name = "Public" -> PublicEncode(header)
      [] name = "Accept-Ranges" -> AcceptRangesEncode(header)

(* HeaderMapExtension: typed_insert, typed_try_get and typed_get.          *)
TypedInsert(map, name, header) == ExtendEntry(map, name, TypedEncode(name, header))

TypedTryGet(map, name) == TypedDecode(name, GetAll(map, name))

TypedGet(map, name) ==
    IF IsOk(TypedTryGet(map, name)) THEN TypedTryGet(map, name) ELSE None

-----------------------------------------------------------------------------
(* What the typed headers should do.                                       *)

IsPresent(result) == IsOk(result) /\ result.value.some

(* What the peer should take a header for.  A session's timeout counts in  *)
(* whole seconds, and one that is left out means the default one.          *)
Meaning(name, header) ==
    IF name = "Session"
    THEN [id |-> header.id,
          timeout |-> IF header.timeout = NoTimeout THEN DefaultTimeout ELSE header.timeout]
    ELSE header

(* The headers that can be made and whose encoding decode refuses: a       *)
(* session with a timeout above the maximum, which only decode enforces,   *)
(* and a list without an element.                                          *)
Decodable(name, header) ==
    CASE name = "Session" -> header.timeout <= MaxTimeout
      [] name \in {"Public", "Accept-Ranges"} -> header # <<>>
      [] OTHER -> TRUE

(* Whatever a typed header is decoded from, what it is encoded to is read  *)
(* back as a header of the same meaning; and the values are valid header   *)
(* values, which encode takes for granted (from_string_unchecked).         *)
DecodedIsEncodable(name, values) ==
    LET header == TypedDecode(name, values)
        again == TypedEncode(name, header.value.value)
    IN  IsPresent(header) =>
            /\ \A i \in DOMAIN again : Folded(again[i])
            /\ IsPresent(TypedDecode(name, again))
            /\ Meaning(name, TypedDecode(name, again).value.value)
                  = Meaning(name, header.value.value)

(* A typed header that is inserted into a map is the one that comes out,   *)
(* whatever the map held under its name, unless decode refuses what encode *)
(* wrote: then typed_try_get reports an error, and never another header.   *)
(* typed_get hides the error, and agrees otherwise.  No other entry        *)
(* changes its value or its place among the others.                        *)
InsertedIsRead(map, name, header) ==
    LET after == TypedInsert(map, name, header)
        read == TypedTryGet(after, name)
    IN  /\ IsOk(read) <=> Decodable(name, header)
        /\ Decodable(name, header) =>
              IsPresent(read) /\ Meaning(name, read.value.value) = Meaning(name, header)
        /\ TypedGet(after, name) = IF Decodable(name, header) THEN read ELSE None
        /\ Without(after, name) = Without(map, name)
=============================================================================
