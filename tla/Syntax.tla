------------------------------- MODULE Syntax -------------------------------
(***************************************************************************)
(* The lexical helpers of the library (syntax.rs) and the checks that a    *)
(* header value, a reason phrase and a version go through when they are    *)
(* read off the wire.                                                      *)
(*                                                                         *)
(* A text is a sequence of bytes.  A byte is a string: a letter, a digit   *)
(* or a punctuation mark stands for itself; CR, LF, HT and SP are the four *)
(* bytes of white space; CTL is any other control byte, UTF any character  *)
(* outside of US-ASCII and NUTF a byte that is not valid UTF-8.  LPAR,     *)
(* RPAR, BSLASH, QUOTE and BTICK name punctuation marks that a string of   *)
(* TLA+ writes badly.                                                      *)
(***************************************************************************)
EXTENDS Integers, Sequences, SequencesExt

CONSTANT Bytes      \* the bytes, named by strings

Text == Seq(Bytes)

CR == "CR"
LF == "LF"
HT == "HT"
SP == "SP"
CTL == "CTL"
UTF == "UTF"
NUTF == "NUTF"
LPAR == "LPAR"
RPAR == "RPAR"
BSLASH == "BSLASH"
QUOTE == "QUOTE"
BTICK == "BTICK"

Blank == {SP, HT}

Digit == [d \in {"0", "1", "2", "3", "4", "5", "6", "7", "8", "9"} |->
            CASE d = "0" -> 0 [] d = "1" -> 1 [] d = "2" -> 2 [] d = "3" -> 3
              [] d = "4" -> 4 [] d = "5" -> 5 [] d = "6" -> 6 [] d = "7" -> 7
              [] d = "8" -> 8 [] d = "9" -> 9]

IsDigit(b) == b \in DOMAIN Digit

NumeralOf == [n \in 0 .. 9 |-> CHOOSE d \in DOMAIN Digit : Digit[d] = n]

(* The bytes that the library writes itself.                               *)
ASSUME BytesAssumption ==
    {CR, LF, SP, ":", ";", ",", "=", "L", "R", "T", "S", "P", "/", "."}
        \cup DOMAIN Digit \subseteq Bytes

(* The zero entries of TOKEN_CHAR_MAP, the ones of the bytes used here.    *)
NotTokenByte == {CR, LF, HT, SP, CTL, UTF, NUTF, LPAR, RPAR, BSLASH, QUOTE, "<",
                 ">", "@", ",", ";", ":", "/", "[", "]", "?", "=", "{", "}", BTICK}

IsToken(s) == s # <<>> /\ \A i \in DOMAIN s : s[i] \notin NotTokenByte

-----------------------------------------------------------------------------
(* CRLFAt(s, k): the line break starts at position k of s.                 *)
CRLFAt(s, k) == k >= 1 /\ k < Len(s) /\ s[k] = CR /\ s[k + 1] = LF

(* trim_whitespace_left and trim_bytes_whitespace_left: the loops strip    *)
(* line breaks and blanks until the length no longer changes.              *)
TrimWhitespaceLeft(s) ==
    LET first[k \in 1 .. Len(s) + 1] ==
            IF CRLFAt(s, k) THEN first[k + 2]
            ELSE IF k <= Len(s) /\ s[k] \in Blank THEN first[k + 1]
            ELSE k
    IN  SubSeq(s, first[1], Len(s))

(* trim_whitespace_right and trim_bytes_whitespace_right.                  *)
TrimWhitespaceRight(s) ==
    LET last[k \in 0 .. Len(s)] ==
            IF k >= 2 /\ CRLFAt(s, k - 1) THEN last[k - 2]
            ELSE IF k >= 1 /\ s[k] \in Blank THEN last[k - 1]
            ELSE k
    IN  SubSeq(s, 1, last[Len(s)])

TrimWhitespace(s) == TrimWhitespaceRight(TrimWhitespaceLeft(s))

(* F(value), with the value computed before F is applied to it.            *)
Once(value, F(_)) == CHOOSE result \in {F(v) : v \in {value}} : TRUE

(* str::split at every occurrence of a separator.                          *)
SplitAll(s, sep) ==
    LET cuts == {0, Len(s) + 1} \cup {i \in DOMAIN s : s[i] = sep}
        after(i) == CHOOSE j \in cuts : j > i /\ \A k \in cuts : k > i => j <= k
        piece(i) == SubSeq(s, i + 1, after(i) - 1)
        starts == SetToSortSeq(cuts \ {Len(s) + 1}, LAMBDA i, j : i < j)
    IN  [k \in DOMAIN starts |-> piece(starts[k])]

(* str::splitn(2, sep): at most one cut, at the first separator.           *)
SplitOnce(s, sep) ==
    IF \E i \in DOMAIN s : s[i] = sep
    THEN LET i == CHOOSE j \in DOMAIN s :
                      s[j] = sep /\ \A k \in 1 .. j - 1 : s[k] # sep
         IN  <<SubSeq(s, 1, i - 1), SubSeq(s, i + 1, Len(s))>>
    ELSE <<s>>

-----------------------------------------------------------------------------
Ok(value) == [tag |-> "Ok", value |-> value]
Err(error) == [tag |-> "Err", value |-> error]
IsOk(result) == result.tag = "Ok"

(* str::parse of an unsigned integer type whose largest value is max: an   *)
(* optional plus sign and decimal digits.                                  *)
ParseUnsigned(s, max) ==
    LET t == IF Len(s) > 1 /\ s[1] = "+" THEN Tail(s) ELSE s
        value[k \in 0 .. Len(t)] ==
            IF k = 0 THEN 0 ELSE value[k - 1] * 10 + Digit[t[k]]
    IN  IF s = <<>> THEN Err("Empty")
        ELSE IF \E i \in DOMAIN t : ~IsDigit(t[i]) THEN Err("InvalidDigit")
        ELSE IF value[Len(t)] > max THEN Err("Overflow")
        ELSE Ok(value[Len(t)])

(* to_string of an unsigned integer: its decimal digits.                   *)
FormatUnsigned(n) ==
    LET digits[m \in 0 .. n] ==
            IF m < 10 THEN <<NumeralOf[m]>>
            ELSE Append(digits[m \div 10], NumeralOf[m % 10])
    IN  digits[n]

\* Mutant: a value may end inside of a line break.
HeaderValueTryFromOpen(s) ==
    LET next(state, byte) ==
            CASE state = "Any" -> IF byte = CR THEN "LF"
                                  ELSE IF byte \in {LF, CTL} THEN "Invalid" ELSE "Any"
              [] state = "LF" -> IF byte = LF THEN "SpaceOrTab" ELSE "Invalid"
              [] state = "SpaceOrTab" -> IF byte \in Blank THEN "Any" ELSE "Invalid"
              [] OTHER -> state
        after[k \in 0 .. Len(s)] == IF k = 0 THEN "Any" ELSE next(after[k - 1], s[k])
    IN  IF after[Len(s)] = "Invalid" THEN Err("Invalid") ELSE Ok(s)

(* HeaderValue::try_from: the automaton over Any, LF and SpaceOrTab.  From *)
(* a byte string the UTF-8 check comes first.                              *)
HeaderValueTryFrom(s) ==
    LET next(state, byte) ==
            CASE state = "Any" -> IF byte = CR THEN "LF"
                                  ELSE IF byte \in {LF, CTL} THEN "InvalidASCII" ELSE "Any"
              [] state = "LF" -> IF byte = LF THEN "SpaceOrTab" ELSE "InvalidLineBreak"
              [] state = "SpaceOrTab" -> IF byte \in Blank THEN "Any" ELSE "InvalidLineBreak"
              [] OTHER -> state
        after[k \in 0 .. Len(s)] == IF k = 0 THEN "Any" ELSE next(after[k - 1], s[k])
        last == after[Len(s)]
    IN  IF \E i \in DOMAIN s : s[i] = NUTF THEN Err("InvalidUTF8")
        ELSE IF last = "Any" THEN Ok(s)
        ELSE IF last = "InvalidASCII" THEN Err("InvalidASCII")
        ELSE Err("InvalidLineBreak")

(* ReasonPhrase::try_from.                                                 *)
ReasonPhraseTryFrom(s) ==
    IF \E i \in DOMAIN s : s[i] = NUTF THEN Err("InvalidUTF8")
    ELSE IF s = <<>> THEN Err("Empty")
    ELSE IF \E i \in DOMAIN s : s[i] \in {CR, LF, CTL} THEN Err("InvalidASCII")
    ELSE Ok(s)

(* Version::try_decode, on eight bytes; the letters of the prefix may be   *)
(* of either case.                                                         *)
Rtsp20 == <<"R", "T", "S", "P", "/", "2", ".", "0">>
Rtsp10 == <<"R", "T", "S", "P", "/", "1", ".", "0">>
Upper == [b \in {"r", "t", "s", "p"} |->
            CASE b = "r" -> "R" [] b = "t" -> "T" [] b = "s" -> "S" [] b = "p" -> "P"]
ToUpper(s) == [i \in DOMAIN s |-> IF s[i] \in DOMAIN Upper THEN Upper[s[i]] ELSE s[i]]

VersionTryDecode(s) ==
    IF \/ Len(s) # 8
       \/ ToUpper(SubSeq(s, 1, 5)) # SubSeq(Rtsp20, 1, 5)
       \/ s[7] # "."
       \/ ~IsDigit(s[6])
       \/ ~IsDigit(s[8])
    THEN Err("Invalid")
    ELSE IF <<s[6], s[8]>> = <<"1", "0">> THEN Ok("Rtsp1_0")
    ELSE IF <<s[6], s[8]>> = <<"2", "0">> THEN Ok("Rtsp2_0")
    ELSE Err("Unknown")

-----------------------------------------------------------------------------
(* What the text operators should compute, stated without the loops.       *)

(* A white space unit, and the texts made of nothing else.                 *)
OnlyWhitespace(s) == TrimWhitespaceLeft(s) = <<>>

(* A trimmed text starts and ends with something else than white space,    *)
(* and only white space was cut off (syntax.rs, trim_whitespace).          *)
TrimIsExact(s) ==
    LET t == TrimWhitespace(s)
    IN  /\ t # <<>> => t[1] \notin Blank /\ t[Len(t)] \notin Blank
        /\ ~CRLFAt(t, 1)
        /\ ~CRLFAt(t, Len(t) - 1)
        /\ \E i, j \in 0 .. Len(s) :
              /\ i <= j
              /\ t = SubSeq(s, i + 1, j)
              /\ OnlyWhitespace(SubSeq(s, 1, i))
              /\ OnlyWhitespace(SubSeq(s, j + 1, Len(s)))

(* A header value is valid exactly when every CR and every LF belongs to a *)
(* line break that a blank follows, and there is no other control byte.    *)
Folded(s) ==
    /\ \A i \in DOMAIN s : s[i] \notin {CTL, NUTF}
    /\ \A i \in DOMAIN s : s[i] = CR =>
          i + 2 <= Len(s) /\ s[i + 1] = LF /\ s[i + 2] \in Blank
    /\ \A i \in DOMAIN s : s[i] = LF => i > 1 /\ s[i - 1] = CR
=============================================================================
