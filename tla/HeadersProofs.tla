---------------------------- MODULE HeadersProofs ----------------------------
(***************************************************************************)
(* What the operators on texts, numbers, header values and header maps     *)
(* compute, for every text: the facts about Syntax and Headers that the    *)
(* proofs of the codec and of the messages rest on; that white space is    *)
(* trimmed exactly; and that a typed header of a single value survives     *)
(* encoding, decoding and being put into a map.                            *)
(*                                                                         *)
(* The model defines these operators as recursive functions.  That such a  *)
(* function exists, and so takes the values that its definition says, is   *)
(* shown by induction over a set (SetInduction), since the provers cannot  *)
(* use an induction theorem with a predicate as its parameter.             *)
(***************************************************************************)
EXTENDS Headers, WellFoundedInduction, TLAPS

(* Induction over the natural numbers, for a set instead of a formula.     *)
LEMMA SetInduction ==
    ASSUME NEW S, 0 \in S, \A n \in Nat : n \in S => n + 1 \in S
    PROVE  Nat \subseteq S
<1> DEFINE R == OpToRel(<, Nat)
           T == Nat \ S
<1>1. IsWellFoundedOn(R, Nat)
  BY NatLessThanWellFounded
<1>2. SUFFICES ASSUME T # {} PROVE FALSE
  OBVIOUS
<1>3. \A y, x \in Nat : y < x => <<y, x>> \in R
  BY DEF OpToRel
<1>4. \E x \in T : \A y \in T : ~(<<y, x>> \in R)
  <2> HIDE DEF R, T
  <2>1. T \subseteq Nat
    BY DEF T
  <2> QED
    BY <1>1, <1>2, <2>1, WFMin
<1>5. PICK x \in T : \A y \in T : ~(<<y, x>> \in R)
  BY <1>4
<1>6. x # 0 /\ x - 1 \in Nat /\ x - 1 \notin S
  OBVIOUS
<1>7. x \in Nat /\ x - 1 \in T /\ x - 1 < x
  BY <1>6
<1> HIDE DEF R, T
<1>8. <<x - 1, x>> \in R
  BY <1>3, <1>6, <1>7
<1> QED
  BY <1>5, <1>7, <1>8

(* More bytes after a text change nothing at its positions.                *)
LEMMA Extended ==
    ASSUME NEW b \in Text, NEW x \in Text
    PROVE  /\ b \o x \in Text /\ Len(b \o x) = Len(b) + Len(x) /\ Len(b) \in Nat /\ Len(x) \in Nat
           /\ \A k \in 1 .. Len(b) : (b \o x)[k] = b[k]
           /\ \A k \in 1 .. Len(b) - 1 : CRLFAt(b \o x, k) <=> CRLFAt(b, k)
           /\ \A m, k \in Nat : m >= 1 /\ k <= Len(b) => SubSeq(b \o x, m, k) = SubSeq(b, m, k)
           /\ \A m \in Nat : m >= 1 /\ m <= Len(b) + 1 =>
                 SubSeq(b \o x, m, Len(b \o x)) = SubSeq(b, m, Len(b)) \o x
<1>1. /\ b \o x \in Text /\ Len(b \o x) = Len(b) + Len(x) /\ Len(b) \in Nat /\ Len(x) \in Nat
      /\ \A k \in 1 .. Len(b) : (b \o x)[k] = b[k]
  BY DEF Text
<1>2. \A k \in 1 .. Len(b) - 1 : CRLFAt(b \o x, k) <=> CRLFAt(b, k)
  BY <1>1 DEF CRLFAt
<1>3. ASSUME NEW m \in Nat, NEW k \in Nat, m >= 1, k <= Len(b) PROVE SubSeq(b \o x, m, k) = SubSeq(b, m, k)
  BY <1>1, <1>3, SMTT(30) DEF Text
<1>4. ASSUME NEW m \in Nat, m >= 1, m <= Len(b) + 1
      PROVE SubSeq(b \o x, m, Len(b \o x)) = SubSeq(b, m, Len(b)) \o x
  BY <1>1, <1>4, SMTT(30) DEF Text
<1> QED
  BY <1>1, <1>2, <1>3, <1>4

-----------------------------------------------------------------------------
(* Texts put one after another and cut apart.                              *)

(* Texts put one after another need no parentheses.                        *)
LEMMA Assoc ==
    ASSUME NEW a \in Text, NEW b \in Text, NEW c \in Text
    PROVE  (a \o b) \o c = a \o (b \o c)
BY DEF Text

(* The same fact, under a name that hides the concatenations.              *)
Associates(a, b, c) == (a \o b) \o c = a \o (b \o c)

LEMMA AlwaysAssociates ==
    ASSUME NEW a \in Text, NEW b \in Text, NEW c \in Text
    PROVE  Associates(a, b, c)
BY Assoc DEF Associates

(* Sequences of one, two and eight elements.                               *)
LEMMA OneElement ==
    ASSUME NEW S, NEW a \in S
    PROVE  <<a>> \in Seq(S) /\ Len(<<a>>) = 1 /\ <<a>>[1] = a
OBVIOUS

LEMMA TwoElements ==
    ASSUME NEW S, NEW a \in S, NEW b \in S
    PROVE  <<a, b>> \in Seq(S) /\ Len(<<a, b>>) = 2 /\ <<a, b>>[1] = a /\ <<a, b>>[2] = b
OBVIOUS

LEMMA EightElements ==
    ASSUME NEW S, NEW a \in S, NEW b \in S, NEW c \in S, NEW d \in S,
           NEW e \in S, NEW f \in S, NEW g \in S, NEW h \in S
    PROVE  <<a, b, c, d, e, f, g, h>> \in Seq(S) /\ Len(<<a, b, c, d, e, f, g, h>>) = 8
OBVIOUS

(* A text of one byte.                                                     *)
LEMMA OneByte ==
    ASSUME NEW b \in Bytes
    PROVE  <<b>> \in Text /\ Len(<<b>>) = 1 /\ <<b>>[1] = b
<1>1. <<b>> \in Text
  BY OneElement DEF Text
<1>2. Len(<<b>>) = 1
  OBVIOUS
<1>3. <<b>>[1] = b
  OBVIOUS
<1> QED
  BY <1>1, <1>2, <1>3

(* The separators.                                                         *)
LEMMA Separators ==
    /\ CR \in Bytes /\ LF \in Bytes /\ SP \in Bytes /\ ":" \in Bytes
    /\ <<SP>> \in Text /\ Len(<<SP>>) = 1 /\ <<SP>>[1] = SP
    /\ <<CR, LF>> \in Text /\ Len(<<CR, LF>>) = 2 /\ <<CR, LF>>[1] = CR /\ <<CR, LF>>[2] = LF
    /\ Rtsp20 \in Text /\ Len(Rtsp20) = 8
<1>1. /\ CR \in Bytes /\ LF \in Bytes /\ SP \in Bytes /\ ":" \in Bytes
      /\ "R" \in Bytes /\ "T" \in Bytes /\ "S" \in Bytes /\ "P" \in Bytes /\ "/" \in Bytes
      /\ "." \in Bytes
  BY BytesAssumption
<1>2. "2" \in Bytes /\ "0" \in Bytes
  BY BytesAssumption DEF Digit
<1>3. <<SP>> \in Text /\ Len(<<SP>>) = 1 /\ <<SP>>[1] = SP
  BY <1>1, OneByte
<1>4. <<CR, LF>> \in Text /\ Len(<<CR, LF>>) = 2 /\ <<CR, LF>>[1] = CR /\ <<CR, LF>>[2] = LF
  BY <1>1, TwoElements DEF Text
<1>5. Rtsp20 \in Text /\ Len(Rtsp20) = 8
  BY <1>1, <1>2, EightElements DEF Text, Rtsp20
<1> QED
  BY <1>1, <1>3, <1>4, <1>5

(* The two parts of a text.                                                *)
LEMMA FrontPart ==
    ASSUME NEW w \in Text, NEW r \in Text
    PROVE  SubSeq(w \o r, 1, Len(w)) = w
<1> DEFINE t == w \o r
           n == Len(w)
           u == SubSeq(t, 1, n)
<1>1. t \in Text /\ n \in Nat /\ Len(r) \in Nat /\ Len(t) = n + Len(r)
  BY DEF Text
<1>2. \A k \in 1 .. n : t[k] = w[k]
  BY DEF Text
<1>3. n = Len(w)
  OBVIOUS
<1> HIDE DEF t, n
<1>4. u \in Text /\ Len(u) = n
  BY <1>1 DEF Text
<1>5. \A k \in 1 .. n : u[k] = w[k]
  BY <1>1, <1>2 DEF Text
<1> HIDE DEF u
<1>6. u = w
  BY <1>3, <1>4, <1>5 DEF Text
<1>7. SubSeq(t, 1, n) = w
  BY <1>6 DEF u
<1> QED
  BY <1>7, Zenon DEF t, n

(* What follows the first of two texts is the second.                      *)
LEMMA BackPart ==
    ASSUME NEW w \in Text, NEW r \in Text
    PROVE  SubSeq(w \o r, Len(w) + 1, Len(w \o r)) = r
<1> DEFINE t == w \o r
           n == Len(w)
           l == Len(t)
           u == SubSeq(t, n + 1, l)
<1>1. t \in Text /\ l = n + Len(r) /\ n \in Nat /\ Len(r) \in Nat /\ l \in Nat
  BY DEF Text
<1>2. \A k \in 1 .. Len(r) : t[n + k] = r[k]
  BY DEF Text
<1>3. l = Len(t)
  OBVIOUS
<1> HIDE DEF t, n, l
<1>4. u \in Text
  BY <1>1, <1>3 DEF Text
<1>5. Len(u) = Len(r)
  BY <1>1, <1>3 DEF Text
<1>6. ASSUME NEW k \in 1 .. Len(r) PROVE u[k] = r[k]
  <2>1. k \in 1 .. l - (n + 1) + 1
    BY <1>1
  <2>2. u[k] = t[n + 1 + k - 1]
    BY <1>1, <1>3, <2>1 DEF Text
  <2>3. n + 1 + k - 1 = n + k
    BY <1>1
  <2> QED
    BY <1>2, <2>2, <2>3
<1> HIDE DEF u
<1>7. u = r
  BY <1>4, <1>5, <1>6 DEF Text
<1> QED
  BY <1>7 DEF u, t, n, l

(* A word, a separator and what follows.                                   *)
LEMMA Joined ==
    ASSUME NEW w \in Text, NEW s \in Text, NEW y \in Text
    PROVE  /\ w \o (s \o y) \in Text
           /\ Len(w) \in Nat /\ Len(s) \in Nat /\ Len(y) \in Nat
           /\ Len(w \o (s \o y)) = Len(w) + Len(s) + Len(y)
           /\ \A k \in 1 .. Len(w) : (w \o (s \o y))[k] = w[k]
           /\ \A k \in 1 .. Len(s) : (w \o (s \o y))[Len(w) + k] = s[k]
<1> DEFINE r == s \o y
<1>1. r \in Text /\ Len(r) = Len(s) + Len(y) /\ Len(s) \in Nat /\ Len(y) \in Nat
  BY DEF Text
<1>2. \A k \in 1 .. Len(s) : r[k] = s[k]
  BY DEF Text
<1> HIDE DEF r
<1>3. w \o r \in Text /\ Len(w \o r) = Len(w) + Len(r) /\ Len(w) \in Nat
  BY <1>1, SMTT(30) DEF Text
<1>4. \A k \in 1 .. Len(w) : (w \o r)[k] = w[k]
  BY <1>1 DEF Text
<1>5. \A k \in 1 .. Len(r) : (w \o r)[Len(w) + k] = r[k]
  BY <1>1 DEF Text
<1>6. \A k \in 1 .. Len(s) : (w \o r)[Len(w) + k] = s[k]
  BY <1>1, <1>2, <1>5
<1> QED
  BY <1>1, <1>3, <1>4, <1>6 DEF r

(* The word and what follows the separator are cut out of the text.        *)
LEMMA JoinedEnds ==
    ASSUME NEW w \in Text, NEW s \in Text, NEW y \in Text
    PROVE  /\ SubSeq(w \o (s \o y), 1, Len(w)) = w
           /\ SubSeq(w \o (s \o y), Len(w) + Len(s) + 1, Len(w \o (s \o y))) = y
<1>1. s \o y \in Text /\ w \o s \in Text /\ Len(w \o s) = Len(w) + Len(s)
  BY Extended
<1>2. SubSeq(w \o (s \o y), 1, Len(w)) = w
  <2> DEFINE r == s \o y
  <2>1. r \in Text
    BY <1>1
  <2> HIDE DEF r
  <2>2. SubSeq(w \o r, 1, Len(w)) = w
    BY <2>1, FrontPart
  <2> QED
    BY <2>2, Zenon DEF r
<1>3. (w \o s) \o y = w \o (s \o y)
  BY Assoc, Zenon
<1>4. SubSeq((w \o s) \o y, Len(w \o s) + 1, Len((w \o s) \o y)) = y
  <2> DEFINE v == w \o s
  <2>1. v \in Text
    BY <1>1
  <2> HIDE DEF v
  <2>2. SubSeq(v \o y, Len(v) + 1, Len(v \o y)) = y
    BY <2>1, BackPart
  <2> QED
    BY <2>2 DEF v
<1> QED
  BY <1>1, <1>2, <1>3, <1>4, Zenon

(* A text is a word, a separator and what follows.                         *)
Splits(t, w, s, y) ==
    /\ t \in Text /\ w \in Text /\ s \in Text /\ y \in Text
    /\ Len(t) = Len(w) + Len(s) + Len(y)
    /\ \A k \in 1 .. Len(w) : t[k] = w[k]
    /\ \A k \in 1 .. Len(s) : t[Len(w) + k] = s[k]
    /\ \A k \in 1 .. Len(y) : t[Len(w) + Len(s) + k] = y[k]
    /\ SubSeq(t, 1, Len(w)) = w
    /\ SubSeq(t, Len(w) + Len(s) + 1, Len(t)) = y

(* A word, a separator and a rest that are joined split again.             *)
LEMMA JoinSplits ==
    ASSUME NEW w \in Text, NEW s \in Text, NEW y \in Text
    PROVE  Splits(w \o (s \o y), w, s, y)
<1> DEFINE t == w \o (s \o y)
<1>1. /\ t \in Text /\ Len(w) \in Nat /\ Len(s) \in Nat /\ Len(y) \in Nat
      /\ Len(t) = Len(w) + Len(s) + Len(y)
      /\ \A k \in 1 .. Len(w) : t[k] = w[k]
      /\ \A k \in 1 .. Len(s) : t[Len(w) + k] = s[k]
  BY Joined, ZenonT(60)
<1>2. SubSeq(t, 1, Len(w)) = w
  BY JoinedEnds
<1>3. SubSeq(t, Len(w) + Len(s) + 1, Len(t)) = y
  BY JoinedEnds
<1> HIDE DEF t
<1>4. ASSUME NEW k \in 1 .. Len(y) PROVE t[Len(w) + Len(s) + k] = y[k]
  <2> DEFINE a == Len(w) + Len(s) + 1
  <2>1. a \in Nat /\ a >= 1 /\ Len(t) \in Nat /\ k \in 1 .. Len(t) - a + 1
    BY <1>1
  <2>2. SubSeq(t, a, Len(t))[k] = t[a + k - 1]
    BY <1>1, <2>1 DEF Text
  <2>3. a + k - 1 = Len(w) + Len(s) + k
    BY <1>1
  <2> QED
    BY <1>3, <2>2, <2>3
<1>5. Splits(t, w, s, y)
  BY <1>1, <1>2, <1>3, <1>4 DEF Splits
<1> QED
  BY <1>5 DEF t

-----------------------------------------------------------------------------
(* The digits of a number: FormatUnsigned and ParseUnsigned.               *)

(* A function that is defined by recursion over 1 .. n exists.             *)
IsStep(step, n, V) == step \in [1 .. n -> [V -> V]]
ByRecursion(f, n, V, v0, step) ==
    f \in [0 .. n -> V] /\ f[0] = v0 /\ \A k \in 1 .. n : f[k] = step[k][f[k - 1]]

(* By induction on the length: one more value from the last one.           *)
LEMMA RecursionExists ==
    ASSUME NEW n \in Nat, NEW V, NEW v0 \in V, NEW step, IsStep(step, n, V)
    PROVE  \E f : ByRecursion(f, n, V, v0, step)
<1>0. step \in [1 .. n -> [V -> V]]
  BY DEF IsStep
<1> DEFINE IsUpTo(f, m) == /\ f \in [0 .. m -> V] /\ f[0] = v0
                           /\ \A k \in 1 .. m : f[k] = step[k][f[k - 1]]
           S == {m \in Nat : m <= n => \E f : IsUpTo(f, m)}
<1>1. 0 \in S
  <2>1. IsUpTo([k \in 0 .. 0 |-> v0], 0)
    OBVIOUS
  <2> HIDE DEF IsUpTo
  <2> QED
    BY <2>1
<1>2. ASSUME NEW m \in Nat, m \in S PROVE m + 1 \in S
  <2> SUFFICES ASSUME m + 1 <= n PROVE \E f : IsUpTo(f, m + 1)
    OBVIOUS
  <2>1. PICK f : IsUpTo(f, m)
    BY <1>2
  <2> DEFINE g == [k \in 0 .. m + 1 |-> IF k = m + 1 THEN step[m + 1][f[m]] ELSE f[k]]
  <2>2. step[m + 1] \in [V -> V] /\ f[m] \in V
    BY <1>0, <2>1
  <2>3. step[m + 1][f[m]] \in V
    BY <2>2
  <2>4. g \in [0 .. m + 1 -> V] /\ g[0] = v0
    BY <2>1, <2>3
  <2>5. ASSUME NEW k \in 1 .. m + 1 PROVE g[k] = step[k][g[k - 1]]
    BY <2>1
  <2> HIDE DEF g
  <2>6. IsUpTo(g, m + 1)
    BY <2>4, <2>5
  <2> HIDE DEF IsUpTo
  <2> QED
    BY <2>6
<1> HIDE DEF S
<1>3. n \in S
  BY <1>1, <1>2, SetInduction
<1> QED
  BY <1>3 DEF S, ByRecursion

(* The numerals.                                                           *)
LEMMA NumeralIs ==
    ASSUME NEW k \in 0 .. 9
    PROVE  NumeralOf[k] \in DOMAIN Digit /\ Digit[NumeralOf[k]] = k
<1>1. \E c \in DOMAIN Digit : Digit[c] = k
  <2>1. /\ Digit["0"] = 0 /\ Digit["1"] = 1 /\ Digit["2"] = 2 /\ Digit["3"] = 3 /\ Digit["4"] = 4
        /\ Digit["5"] = 5 /\ Digit["6"] = 6 /\ Digit["7"] = 7 /\ Digit["8"] = 8 /\ Digit["9"] = 9
    BY DEF Digit
  <2>2. DOMAIN Digit = {"0", "1", "2", "3", "4", "5", "6", "7", "8", "9"}
    BY DEF Digit
  <2> QED
    BY <2>1, <2>2
<1> QED
  BY <1>1 DEF NumeralOf

(* A digit has a value and is no white space or sign.                      *)
LEMMA DigitsAre ==
    ASSUME NEW c \in DOMAIN Digit
    PROVE  /\ Digit[c] \in 0 .. 9 /\ IsDigit(c) /\ c \in Bytes
           /\ c \notin {"+", CR, LF, SP, HT, CTL, NUTF}
<1>1. DOMAIN Digit = {"0", "1", "2", "3", "4", "5", "6", "7", "8", "9"}
  BY DEF Digit
<1>2. c \notin {"+", CR, LF, SP, HT, CTL, NUTF}
  BY <1>1 DEF CR, LF, SP, HT, CTL, NUTF
<1>3. Digit[c] \in 0 .. 9
  BY <1>1 DEF Digit
<1>4. c \in Bytes
  BY BytesAssumption
<1> QED
  BY <1>2, <1>3, <1>4 DEF IsDigit

(* The digits of the numbers up to n.                                      *)
Digits == Seq(DOMAIN Digit)
DigitRule(f, n) ==
    \A m \in 0 .. n : f[m] = IF m < 10 THEN <<NumeralOf[m]>>
                             ELSE Append(f[m \div 10], NumeralOf[m % 10])
AreDigits(f, n) == f \in [0 .. n -> Digits] /\ DigitRule(f, n)

(* The digits of every number up to n, by RecursionExists.                 *)
LEMMA DigitsExist ==
    ASSUME NEW n \in Nat
    PROVE  \E f : AreDigits(f, n)
<1> DEFINE S == {m \in Nat : \E f : AreDigits(f, m)}
<1>1. 0 \in S
  <2> DEFINE c == NumeralOf[0]
             f == [k \in 0 .. 0 |-> <<c>>]
  <2>1. c \in DOMAIN Digit
    BY NumeralIs
  <2>2. <<c>> \in Digits
    <3> HIDE DEF c
    <3> QED
      BY <2>1, OneElement DEF Digits
  <2>3. f \in [0 .. 0 -> Digits]
    BY <2>2
  <2>4. AreDigits(f, 0)
    BY <2>3 DEF AreDigits, DigitRule
  <2> QED
    BY <2>4
<1>2. ASSUME NEW m \in Nat, m \in S PROVE m + 1 \in S
  <2>1. PICK f : AreDigits(f, m)
    BY <1>2
  <2>2. f \in [0 .. m -> Digits]
    BY <2>1 DEF AreDigits, DigitRule
  <2> DEFINE v == IF m + 1 < 10 THEN <<NumeralOf[m + 1]>>
                  ELSE Append(f[(m + 1) \div 10], NumeralOf[(m + 1) % 10])
             g == [k \in 0 .. m + 1 |-> IF k = m + 1 THEN v ELSE f[k]]
  <2>3. v \in Digits
    <3>1. CASE m + 1 < 10
      <4> DEFINE c == NumeralOf[m + 1]
      <4>1. c \in DOMAIN Digit
        BY <3>1, NumeralIs
      <4>2. <<c>> \in Digits
        <5> HIDE DEF c
        <5> QED
          BY <4>1, OneElement DEF Digits
      <4> QED
        BY <3>1, <4>2
    <3>2. CASE m + 1 >= 10
      <4> DEFINE c == NumeralOf[(m + 1) % 10]
                 u == f[(m + 1) \div 10]
      <4>1. (m + 1) % 10 \in 0 .. 9 /\ (m + 1) \div 10 \in 0 .. m
        BY <3>2
      <4>2. c \in DOMAIN Digit /\ u \in Digits
        BY <2>2, <4>1, NumeralIs
      <4>3. Append(u, c) \in Digits
        <5> HIDE DEF c, u
        <5> QED
          BY <4>2 DEF Digits
      <4> QED
        BY <3>2, <4>3
    <3> QED
      BY <3>1, <3>2
  <2>4. g \in [0 .. m + 1 -> Digits]
    <3> HIDE DEF v
    <3> QED
      BY <2>2, <2>3
  <2>5. ASSUME NEW k \in 0 .. m + 1
        PROVE  g[k] = IF k < 10 THEN <<NumeralOf[k]>>
                      ELSE Append(g[k \div 10], NumeralOf[k % 10])
    <3>1. k >= 10 => k \div 10 \in 0 .. m
      OBVIOUS
    <3>2. CASE k = m + 1
      <4>1. g[k] = v
        BY <3>2
      <4>2. k >= 10 => g[k \div 10] = f[k \div 10]
        BY <3>1
      <4> HIDE DEF g
      <4> QED
        BY <3>2, <4>1, <4>2
    <3>3. CASE k # m + 1
      <4>1. k \in 0 .. m
        BY <3>3
      <4>2. g[k] = f[k] /\ (k >= 10 => g[k \div 10] = f[k \div 10])
        BY <3>1, <3>3
      <4>3. f[k] = IF k < 10 THEN <<NumeralOf[k]>> ELSE Append(f[k \div 10], NumeralOf[k % 10])
        BY <2>1, <4>1 DEF AreDigits, DigitRule
      <4> HIDE DEF g
      <4> QED
        BY <4>2, <4>3
    <3> QED
      BY <3>2, <3>3
  <2> HIDE DEF g
  <2>6. AreDigits(g, m + 1)
    BY <2>4, <2>5 DEF AreDigits, DigitRule
  <2> QED
    BY <2>6
<1> HIDE DEF S
<1>3. n \in S
  BY <1>1, <1>2, SetInduction
<1> QED
  BY <1>3 DEF S

(* The digits of a number do not depend on where the recursion ends.       *)
LEMMA DigitsAgree ==
    ASSUME NEW n \in Nat, NEW m \in Nat, NEW f, NEW g, DigitRule(f, n), DigitRule(g, m), m <= n
    PROVE  f[m] = g[m]
<1> DEFINE S == {k \in Nat : \A j \in 0 .. k : j <= m => f[j] = g[j]}
<1>0. ASSUME NEW k \in 0 .. m
      PROVE  /\ k < 10 => f[k] = <<NumeralOf[k]>> /\ g[k] = <<NumeralOf[k]>>
             /\ k >= 10 => /\ f[k] = Append(f[k \div 10], NumeralOf[k % 10])
                           /\ g[k] = Append(g[k \div 10], NumeralOf[k % 10])
  <2>1. k \in 0 .. n /\ k \in Nat
    OBVIOUS
  <2>2. f[k] = IF k < 10 THEN <<NumeralOf[k]>> ELSE Append(f[k \div 10], NumeralOf[k % 10])
    BY <2>1 DEF DigitRule
  <2>3. g[k] = IF k < 10 THEN <<NumeralOf[k]>> ELSE Append(g[k \div 10], NumeralOf[k % 10])
    BY DEF DigitRule
  <2>4. k >= 10 => ~(k < 10)
    BY <2>1
  <2> QED
    BY <2>2, <2>3, <2>4, Zenon
<1>1. 0 \in S
  <2>1. 0 \in 0 .. m /\ 0 < 10
    OBVIOUS
  <2>2. f[0] = g[0]
    BY <1>0, <2>1
  <2> QED
    BY <2>2
<1>2. ASSUME NEW k \in Nat, k \in S PROVE k + 1 \in S
  <2> SUFFICES ASSUME k + 1 <= m PROVE f[k + 1] = g[k + 1]
    BY <1>2
  <2>1. k + 1 >= 10 => (k + 1) \div 10 \in 0 .. k
    OBVIOUS
  <2>2. k + 1 >= 10 => f[(k + 1) \div 10] = g[(k + 1) \div 10]
    BY <1>2, <2>1
  <2>3. k + 1 \in 0 .. m /\ (k + 1 < 10 \/ k + 1 >= 10)
    OBVIOUS
  <2> QED
    BY <1>0, <2>2, <2>3, Zenon
<1> HIDE DEF S
<1>3. m \in S
  BY <1>1, <1>2, SetInduction
<1> QED
  BY <1>3 DEF S

(* FormatUnsigned is the recursion that DigitsExist gives.                 *)
LEMMA FormatIs ==
    ASSUME NEW n \in Nat
    PROVE  \E f : AreDigits(f, n) /\ FormatUnsigned(n) = f[n]
<1> DEFINE rec(f) == [m \in 0 .. n |-> IF m < 10 THEN <<NumeralOf[m]>>
                                        ELSE Append(f[m \div 10], NumeralOf[m % 10])]
           digits == CHOOSE f : f = rec(f)
<1>1. FormatUnsigned(n) = digits[n]
  BY DEF FormatUnsigned
<1>2. PICK g : AreDigits(g, n)
  BY DigitsExist
<1>3. g = rec(g)
  BY <1>2 DEF AreDigits, DigitRule
<1>4. digits = rec(digits)
  <2> HIDE DEF rec
  <2> QED
    BY <1>3
<1>5. DigitRule(digits, n)
  <2> HIDE DEF digits
  <2> QED
    BY <1>4 DEF DigitRule
<1> HIDE DEF digits, rec
<1>6. digits[n] = g[n]
  BY <1>2, <1>5, DigitsAgree DEF AreDigits
<1> QED
  BY <1>1, <1>2, <1>6

(* The digits of a number are those of its tenth and the last one.         *)
LEMMA FormatStep ==
    ASSUME NEW n \in Nat
    PROVE  /\ FormatUnsigned(n) \in Digits
           /\ n < 10 => FormatUnsigned(n) = <<NumeralOf[n]>>
           /\ n >= 10 => FormatUnsigned(n) = Append(FormatUnsigned(n \div 10), NumeralOf[n % 10])
<1>1. PICK f : AreDigits(f, n) /\ FormatUnsigned(n) = f[n]
  BY FormatIs
<1>2. f[n] \in Digits
  BY <1>1 DEF AreDigits, DigitRule
<1>3. f[n] = IF n < 10 THEN <<NumeralOf[n]>> ELSE Append(f[n \div 10], NumeralOf[n % 10])
  BY <1>1 DEF AreDigits, DigitRule
<1>4. ASSUME n >= 10 PROVE f[n \div 10] = FormatUnsigned(n \div 10)
  <2> DEFINE m == n \div 10
  <2>1. m \in Nat /\ m <= n
    OBVIOUS
  <2> HIDE DEF m
  <2>2. PICK g : AreDigits(g, m) /\ FormatUnsigned(m) = g[m]
    BY <2>1, FormatIs
  <2>3. f[m] = FormatUnsigned(m)
    BY <1>1, <2>1, <2>2, DigitsAgree DEF AreDigits
  <2> QED
    BY <2>3 DEF m
<1> QED
  BY <1>1, <1>2, <1>3, <1>4

-----------------------------------------------------------------------------
(* A number that is formatted is parsed.                                   *)

(* What the digits of a number look like.                                  *)
LEMMA FormatText ==
    ASSUME NEW n \in Nat
    PROVE  /\ FormatUnsigned(n) \in Text /\ FormatUnsigned(n) \in Digits
           /\ Len(FormatUnsigned(n)) \in Nat /\ Len(FormatUnsigned(n)) >= 1
           /\ \A k \in 1 .. Len(FormatUnsigned(n)) : FormatUnsigned(n)[k] \in DOMAIN Digit
<1> DEFINE s == FormatUnsigned(n)
<1>1. s \in Digits
  BY FormatStep
<1>2. Len(s) >= 1
  <2>1. CASE n < 10
    BY <2>1, FormatStep
  <2>2. CASE n >= 10
    <3> DEFINE u == FormatUnsigned(n \div 10)
               c == NumeralOf[n % 10]
    <3>1. s = Append(u, c) /\ n \div 10 \in Nat
      BY <2>2, FormatStep
    <3>2. u \in Digits
      BY <3>1, FormatStep
    <3> HIDE DEF u, c, s
    <3> QED
      BY <3>1, <3>2 DEF Digits
  <2> QED
    BY <2>1, <2>2
<1> HIDE DEF s
<1>3. Len(s) \in Nat /\ \A k \in 1 .. Len(s) : s[k] \in DOMAIN Digit
  BY <1>1 DEF Digits
<1>4. DOMAIN Digit \subseteq Bytes
  BY BytesAssumption
<1>5. s \in Text
  BY <1>1, <1>4 DEF Digits, Text
<1> QED
  BY <1>1, <1>2, <1>3, <1>5 DEF s

(* The value of decimal digits, as parse computes it.                      *)
IsValue(f, s) == f[0] = 0 /\ \A k \in 1 .. Len(s) : f[k] = f[k - 1] * 10 + Digit[s[k]]

(* ParseUnsigned of digits is their value, unless it is too large.         *)
LEMMA ParseIs ==
    ASSUME NEW s \in Digits, Len(s) >= 1, NEW max
    PROVE  \E f : /\ IsValue(f, s)
                  /\ ParseUnsigned(s, max) = IF f[Len(s)] > max THEN Err("Overflow")
                                             ELSE Ok(f[Len(s)])
<1> DEFINE t == IF Len(s) > 1 /\ s[1] = "+" THEN Tail(s) ELSE s
           n == Len(s)
<1>1. n \in Nat /\ n >= 1 /\ n = Len(s)
  BY DEF Digits
<1>2. \A k \in 1 .. n : s[k] \in DOMAIN Digit
  BY DEF Digits
<1>3. t = s
  <2>1. 1 \in 1 .. n
    BY <1>1
  <2>2. s[1] # "+"
    BY <1>2, <2>1, DigitsAre
  <2> QED
    BY <2>2
<1>4. DOMAIN s = 1 .. n
  BY DEF Digits
<1> DEFINE rec(f) == [k \in 0 .. n |-> IF k = 0 THEN 0 ELSE f[k - 1] * 10 + Digit[s[k]]]
           value == CHOOSE f : f = rec(f)
           step == [k \in 1 .. n |-> [v \in Nat |-> v * 10 + Digit[s[k]]]]
<1> HIDE DEF n
<1>5. IsStep(step, n, Nat)
  <2>1. \A k \in 1 .. n : Digit[s[k]] \in Nat
    BY <1>2, DigitsAre
  <2> QED
    BY <2>1 DEF IsStep
<1>6. \A k \in 1 .. n : \A v \in Nat : step[k][v] = v * 10 + Digit[s[k]]
  OBVIOUS
<1> HIDE DEF step
<1>7. PICK f : ByRecursion(f, n, Nat, 0, step)
  BY <1>1, <1>5, RecursionExists
<1>8. f = rec(f)
  <2>1. f \in [0 .. n -> Nat] /\ f[0] = 0 /\ \A k \in 1 .. n : f[k] = step[k][f[k - 1]]
    BY <1>7 DEF ByRecursion
  <2>2. \A k \in 1 .. n : f[k - 1] \in Nat
    BY <1>1, <2>1, SMTT(30)
  <2>3. \A k \in 1 .. n : f[k] = f[k - 1] * 10 + Digit[s[k]]
    BY <1>6, <2>1, <2>2
  <2>4. \A k \in 0 .. n : f[k] = IF k = 0 THEN 0 ELSE f[k - 1] * 10 + Digit[s[k]]
    BY <1>1, <2>1, <2>3
  <2> QED
    BY <2>1, <2>4
<1>9. value = rec(value)
  <2> HIDE DEF rec
  <2> QED
    BY <1>8
<1>10. IsValue(value, s)
  <2> HIDE DEF value
  <2> QED
    BY <1>1, <1>9 DEF IsValue
<1>11. s # <<>>
  BY <1>1, <1>4
<1>12. ~ \E i \in DOMAIN t : ~IsDigit(t[i])
  BY <1>2, <1>3, <1>4, DigitsAre
<1>13. ParseUnsigned(s, max) = IF value[n] > max THEN Err("Overflow") ELSE Ok(value[n])
  <2> DEFINE val == CHOOSE g : g = [k \in 0 .. Len(t) |->
                        IF k = 0 THEN 0 ELSE g[k - 1] * 10 + Digit[t[k]]]
  <2>1. ParseUnsigned(s, max) = IF s = <<>> THEN Err("Empty")
           ELSE IF \E i \in DOMAIN t : ~IsDigit(t[i]) THEN Err("InvalidDigit")
           ELSE IF val[Len(t)] > max THEN Err("Overflow") ELSE Ok(val[Len(t)])
    BY DEF ParseUnsigned
  <2>2. val = value /\ Len(t) = n
    BY <1>1, <1>3
  <2> HIDE DEF val, value, t
  <2> QED
    BY <1>11, <1>12, <2>1, <2>2
<1> HIDE DEF value
<1> QED
  BY <1>1, <1>10, <1>13

(* The value of the digits of a number is the number, digit by digit.      *)
LEMMA ValueOfFormat ==
    ASSUME NEW n \in Nat, NEW f, IsValue(f, FormatUnsigned(n))
    PROVE  f[Len(FormatUnsigned(n))] = n
<1> DEFINE S == {k \in Nat : \A j \in 0 .. k : IsValue(f, FormatUnsigned(j))
                                => f[Len(FormatUnsigned(j))] = j}
<1>1. ASSUME NEW j \in Nat, j < 10, IsValue(f, FormatUnsigned(j))
      PROVE  f[Len(FormatUnsigned(j))] = j
  <2> DEFINE c == NumeralOf[j]
             s == <<c>>
  <2>1. Digit[c] = j
    BY <1>1, NumeralIs
  <2> HIDE DEF c
  <2>2. FormatUnsigned(j) = s /\ Len(s) = 1 /\ s[1] = c
    BY <1>1, FormatStep DEF c
  <2> HIDE DEF s
  <2>3. f[1] = f[0] * 10 + Digit[s[1]] /\ f[0] = 0
    BY <1>1, <2>2 DEF IsValue
  <2> QED
    BY <2>1, <2>2, <2>3
<1>2. 0 \in S
  BY <1>1
<1>3. ASSUME NEW k \in Nat, k \in S PROVE k + 1 \in S
  <2> SUFFICES ASSUME IsValue(f, FormatUnsigned(k + 1)), k + 1 >= 10
               PROVE  f[Len(FormatUnsigned(k + 1))] = k + 1
    BY <1>1, <1>3
  <2> DEFINE q == (k + 1) \div 10
             r == (k + 1) % 10
             u == FormatUnsigned(q)
             c == NumeralOf[r]
             s == FormatUnsigned(k + 1)
  <2>1. q \in 0 .. k /\ r \in 0 .. 9 /\ k + 1 = q * 10 + r /\ q \in Nat
    OBVIOUS
  <2> HIDE DEF q, r
  <2>2. Digit[c] = r /\ c \in DOMAIN Digit
    BY <2>1, NumeralIs
  <2>3. u \in Digits
    BY <2>1, FormatStep
  <2>4. s = Append(u, c)
    BY FormatStep DEF q, r
  <2>5. IsValue(f, s) /\ s = FormatUnsigned(k + 1)
    OBVIOUS
  <2> HIDE DEF c, s
  <2>6. IsValue(f, u) => f[Len(u)] = q
    BY <1>3, <2>1
  <2> HIDE DEF u
  <2>7. /\ Len(u) \in Nat /\ Len(s) = Len(u) + 1 /\ s[Len(u) + 1] = c
        /\ \A i \in 1 .. Len(u) : s[i] = u[i]
    BY <2>2, <2>3, <2>4 DEF Digits
  <2>8. /\ f[0] = 0 /\ \A i \in 1 .. Len(s) : f[i] = f[i - 1] * 10 + Digit[s[i]]
    BY <2>5 DEF IsValue
  <2>9. IsValue(f, u)
    BY <2>7, <2>8 DEF IsValue
  <2>10. f[Len(s)] = f[Len(u)] * 10 + Digit[c]
    <3>1. Len(u) + 1 \in 1 .. Len(s) /\ Len(u) + 1 - 1 = Len(u)
      BY <2>7
    <3>2. f[Len(u) + 1] = f[Len(u) + 1 - 1] * 10 + Digit[s[Len(u) + 1]]
      BY <2>8, <3>1
    <3> QED
      BY <2>7, <3>1, <3>2
  <2>11. f[Len(s)] = k + 1
    BY <2>1, <2>2, <2>6, <2>9, <2>10
  <2> QED
    BY <2>5, <2>11
<1> HIDE DEF S
<1>4. n \in S
  BY <1>2, <1>3, SetInduction
<1> QED
  BY <1>4 DEF S

(* What to_string writes for an unsigned number, parse reads as the same   *)
(* number, unless the number is larger than the type that is parsed to     *)
(* (header/types/content_length.rs, cseq.rs and session.rs, encode and     *)
(* decode).                                                                *)
THEOREM NumbersAreParsed ==
    ASSUME NEW n \in Nat, NEW max \in Nat
    PROVE  ParseUnsigned(FormatUnsigned(n), max) = IF n > max THEN Err("Overflow") ELSE Ok(n)
<1> DEFINE s == FormatUnsigned(n)
<1>1. s \in Digits /\ Len(s) >= 1
  BY FormatText
<1>2. \A f : IsValue(f, s) => f[Len(s)] = n
  BY ValueOfFormat
<1> HIDE DEF s
<1>3. PICK f : /\ IsValue(f, s)
               /\ ParseUnsigned(s, max) = IF f[Len(s)] > max THEN Err("Overflow")
                                          ELSE Ok(f[Len(s)])
  BY <1>1, ParseIs
<1>4. f[Len(s)] = n
  BY <1>2, <1>3
<1> QED
  BY <1>3, <1>4 DEF s

-----------------------------------------------------------------------------
(* The automaton of header values accepts the folded ones.                 *)

(* The states of the automaton over the bytes of a header value.           *)
ValueStates == {"Any", "LF", "SpaceOrTab", "InvalidASCII", "InvalidLineBreak"}
NextValueState(state, byte) ==
    CASE state = "Any" -> IF byte = CR THEN "LF"
                          ELSE IF byte \in {LF, CTL} THEN "InvalidASCII" ELSE "Any"
      [] state = "LF" -> IF byte = LF THEN "SpaceOrTab" ELSE "InvalidLineBreak"
      [] state = "SpaceOrTab" -> IF byte \in Blank THEN "Any" ELSE "InvalidLineBreak"
      [] OTHER -> state
IsValueRun(f, s) ==
    /\ f[0] = "Any" /\ \A k \in 0 .. Len(s) : f[k] \in ValueStates
    /\ \A k \in 1 .. Len(s) : f[k] = NextValueState(f[k - 1], s[k])

(* The automaton stays in its states.                                      *)
LEMMA NextValueStates ==
    ASSUME NEW state \in ValueStates, NEW byte
    PROVE  NextValueState(state, byte) \in ValueStates
BY DEF NextValueState, ValueStates

(* HeaderValueTryFrom accepts where the run of the automaton ends in Any.  *)
LEMMA ValueRun ==
    ASSUME NEW s \in Text
    PROVE  \E f : /\ IsValueRun(f, s)
                  /\ IsOk(HeaderValueTryFrom(s)) <=>
                        f[Len(s)] = "Any" /\ \A i \in 1 .. Len(s) : s[i] # NUTF
<1> DEFINE n == Len(s)
           next(state, byte) ==
              CASE state = "Any" -> IF byte = CR THEN "LF"
                                    ELSE IF byte \in {LF, CTL} THEN "InvalidASCII" ELSE "Any"
                [] state = "LF" -> IF byte = LF THEN "SpaceOrTab" ELSE "InvalidLineBreak"
                [] state = "SpaceOrTab" -> IF byte \in Blank THEN "Any" ELSE "InvalidLineBreak"
                [] OTHER -> state
           rec(f) == [k \in 0 .. n |-> IF k = 0 THEN "Any" ELSE next(f[k - 1], s[k])]
           after == CHOOSE f : f = rec(f)
           step == [k \in 1 .. n |-> [v \in ValueStates |-> NextValueState(v, s[k])]]
<1>1. n \in Nat /\ DOMAIN s = 1 .. n /\ n = Len(s)
  BY DEF Text
<1>2. HeaderValueTryFrom(s) = IF \E i \in DOMAIN s : s[i] = NUTF THEN Err("InvalidUTF8")
         ELSE IF after[n] = "Any" THEN Ok(s)
         ELSE IF after[n] = "InvalidASCII" THEN Err("InvalidASCII")
         ELSE Err("InvalidLineBreak")
  BY DEF HeaderValueTryFrom
<1>3. \A state, byte : next(state, byte) = NextValueState(state, byte)
  BY DEF NextValueState
<1> HIDE DEF next, n
<1>4. IsStep(step, n, ValueStates)
  BY NextValueStates DEF IsStep
<1>5. \A k \in 1 .. n : \A v \in ValueStates : step[k][v] = NextValueState(v, s[k])
  OBVIOUS
<1> HIDE DEF step
<1>6. PICK f : ByRecursion(f, n, ValueStates, "Any", step)
  <2>1. "Any" \in ValueStates
    BY DEF ValueStates
  <2> QED
    BY <1>1, <1>4, <2>1, RecursionExists
<1>7. f = rec(f)
  <2>1. /\ f \in [0 .. n -> ValueStates] /\ f[0] = "Any"
        /\ \A k \in 1 .. n : f[k] = step[k][f[k - 1]]
    BY <1>6 DEF ByRecursion
  <2>2. \A k \in 1 .. n : f[k - 1] \in ValueStates
    BY <1>1, <2>1
  <2>3. \A k \in 1 .. n : f[k] = next(f[k - 1], s[k])
    BY <1>3, <1>5, <2>1, <2>2
  <2>4. \A k \in 0 .. n : f[k] = IF k = 0 THEN "Any" ELSE next(f[k - 1], s[k])
    BY <1>1, <2>1, <2>3
  <2> QED
    BY <2>1, <2>4
<1>8. after = rec(after)
  <2> HIDE DEF rec
  <2> QED
    BY <1>7
<1> HIDE DEF after
<1>9. after[0] = "Any" /\ \A k \in 1 .. n : after[k] = NextValueState(after[k - 1], s[k])
  BY <1>1, <1>3, <1>8
<1> DEFINE S == {k \in Nat : k <= n => after[k] \in ValueStates}
<1>10. n \in Nat /\ \A k \in 0 .. n : after[k] \in ValueStates
  <2>1. 0 \in S
    BY <1>9 DEF ValueStates
  <2>2. ASSUME NEW k \in Nat, k \in S PROVE k + 1 \in S
    <3> SUFFICES ASSUME k + 1 <= n PROVE after[k + 1] \in ValueStates
      OBVIOUS
    <3>1. k + 1 \in 1 .. n /\ k + 1 - 1 = k /\ after[k] \in ValueStates
      BY <1>1, <2>2
    <3> QED
      BY <1>9, <3>1, NextValueStates
  <2> HIDE DEF S
  <2>3. Nat \subseteq S
    BY <2>1, <2>2, SetInduction
  <2> QED
    BY <1>1, <2>3 DEF S
<1>11. IsValueRun(after, s)
  BY <1>1, <1>9, <1>10 DEF IsValueRun
<1>12. Ok(s).tag = "Ok" /\ \A e : Err(e).tag = "Err"
  BY DEF Ok, Err
<1>13. IsOk(HeaderValueTryFrom(s)) <=> after[n] = "Any" /\ \A i \in 1 .. n : s[i] # NUTF
  BY <1>1, <1>2, <1>12 DEF IsOk
<1> QED
  BY <1>1, <1>11, <1>13

(* A folded text leaves the automaton where it started.                    *)
LEMMA FoldedRun ==
    ASSUME NEW s \in Text, Folded(s), NEW f, IsValueRun(f, s)
    PROVE  f[Len(s)] = "Any"
<1> DEFINE n == Len(s)
           at(k) == IF k >= 1 /\ s[k] = CR THEN "LF"
                    ELSE IF k >= 1 /\ s[k] = LF THEN "SpaceOrTab" ELSE "Any"
           S == {k \in Nat : k <= n => f[k] = at(k)}
<1>1. n \in Nat /\ DOMAIN s = 1 .. n
  BY DEF Text
<1>2. /\ \A i \in 1 .. n : s[i] \notin {CTL, NUTF}
      /\ \A i \in 1 .. n : s[i] = CR => i + 2 <= n /\ s[i + 1] = LF /\ s[i + 2] \in Blank
      /\ \A i \in 1 .. n : s[i] = LF => i > 1 /\ s[i - 1] = CR
  BY <1>1 DEF Folded
<1>3. f[0] = "Any" /\ \A k \in 1 .. n : f[k] = NextValueState(f[k - 1], s[k])
  BY DEF IsValueRun
<1>4. CR # LF /\ CR \notin Blank /\ LF \notin Blank /\ CTL \notin Blank
  BY DEF CR, LF, CTL, Blank, SP, HT
<1> HIDE DEF n
<1>5. 0 \in S
  BY <1>3
<1>6. ASSUME NEW k \in Nat, k \in S PROVE k + 1 \in S
  <2> SUFFICES ASSUME k + 1 <= n PROVE f[k + 1] = at(k + 1)
    OBVIOUS
  <2> DEFINE b == s[k + 1]
  <2>1. k + 1 \in 1 .. n /\ k + 1 - 1 = k /\ f[k] = at(k)
    BY <1>1, <1>6
  <2>2. f[k + 1] = NextValueState(f[k], b)
    BY <1>3, <2>1
  <2>3. b \notin {CTL, NUTF} /\ (b = LF => k >= 1 /\ s[k] = CR)
    BY <1>2, <2>1
  <2>4. CASE k >= 1 /\ s[k] = CR
    <3>1. b = LF /\ f[k] = "LF"
      BY <1>1, <1>2, <2>1, <2>4
    <3> QED
      BY <1>4, <2>2, <3>1 DEF NextValueState
  <2>5. CASE k >= 1 /\ s[k] = LF
    <3>1. k \in 1 .. n /\ k - 1 \in 1 .. n /\ s[k - 1] = CR
      BY <1>1, <1>2, <2>1, <2>5
    <3>2. s[k - 1 + 2] \in Blank /\ k - 1 + 2 = k + 1
      BY <1>2, <3>1
    <3>3. b \in Blank /\ f[k] = "SpaceOrTab"
      BY <1>4, <2>1, <2>5, <3>2
    <3> QED
      BY <1>4, <2>2, <3>3 DEF NextValueState
  <2>6. CASE ~(k >= 1 /\ s[k] \in {CR, LF})
    <3>1. f[k] = "Any" /\ b # LF
      BY <1>4, <2>1, <2>3, <2>6
    <3> QED
      BY <2>2, <2>3, <3>1 DEF NextValueState
  <2> QED
    BY <2>4, <2>5, <2>6
<1> HIDE DEF S
<1>7. Nat \subseteq S
  BY <1>5, <1>6, SetInduction
<1>8. f[n] = at(n)
  BY <1>1, <1>7 DEF S
<1>9. n >= 1 => s[n] # CR /\ s[n] # LF
  <2> SUFFICES ASSUME n >= 1 PROVE s[n] # CR /\ s[n] # LF
    OBVIOUS
  <2>1. s[n] # CR
    BY <1>1, <1>2
  <2>2. ASSUME s[n] = LF PROVE FALSE
    <3>1. n - 1 \in 1 .. n /\ s[n - 1] = CR
      BY <1>1, <1>2, <2>2
    <3> QED
      BY <1>1, <1>2, <3>1
  <2> QED
    BY <2>1, <2>2
<1> QED
  BY <1>8, <1>9 DEF n

(* And only a folded one does.                                             *)
LEMMA RunFolded ==
    ASSUME NEW s \in Text, NEW f, IsValueRun(f, s), f[Len(s)] = "Any",
           \A i \in 1 .. Len(s) : s[i] # NUTF
    PROVE  Folded(s)
<1> DEFINE n == Len(s)
           Upto(k) ==
              /\ \A i \in 1 .. k : s[i] # CTL
              /\ \A i \in 1 .. k : s[i] = CR =>
                    (i + 1 <= k => s[i + 1] = LF) /\ (i + 2 <= k => s[i + 2] \in Blank)
              /\ \A i \in 1 .. k : s[i] = LF => i > 1 /\ s[i - 1] = CR
              /\ f[k] = "LF" <=> k >= 1 /\ s[k] = CR
              /\ f[k] = "SpaceOrTab" <=> k >= 1 /\ s[k] = LF
           Valid(k) == f[k] \in {"Any", "LF", "SpaceOrTab"}
           S == {k \in Nat : k <= n /\ Valid(k) => Upto(k)}
<1>1. n \in Nat /\ DOMAIN s = 1 .. n /\ n = Len(s)
  BY DEF Text
<1>2. /\ f[0] = "Any" /\ \A k \in 1 .. n : f[k] = NextValueState(f[k - 1], s[k])
      /\ \A k \in 0 .. n : f[k] \in ValueStates
  BY DEF IsValueRun
<1>3. /\ CR # LF /\ CR \notin Blank /\ LF \notin Blank /\ CTL \notin Blank
      /\ CTL # CR /\ CTL # LF
  BY DEF CR, LF, CTL, Blank, SP, HT
<1> HIDE DEF n
<1>4. 0 \in S
  BY <1>2
<1>5. ASSUME NEW k \in Nat, k \in S PROVE k + 1 \in S
  <2> SUFFICES ASSUME k + 1 <= n, Valid(k + 1) PROVE Upto(k + 1)
    OBVIOUS
  <2> DEFINE b == s[k + 1]
  <2>1. k + 1 \in 1 .. n /\ k + 1 - 1 = k /\ k \in 0 .. n
    BY <1>1
  <2>2. f[k + 1] = NextValueState(f[k], b) /\ f[k] \in ValueStates
    BY <1>2, <2>1
  <2>3. \/ f[k] = "Any" /\ b = CR /\ f[k + 1] = "LF"
        \/ f[k] = "Any" /\ b \notin {CR, LF, CTL} /\ f[k + 1] = "Any"
        \/ f[k] = "LF" /\ b = LF /\ f[k + 1] = "SpaceOrTab"
        \/ f[k] = "SpaceOrTab" /\ b \in Blank /\ f[k + 1] = "Any"
    BY <2>2 DEF NextValueState, ValueStates
  <2>4. Upto(k)
    <3>1. k <= n /\ Valid(k)
      BY <2>1, <2>3
    <3> HIDE DEF Upto, Valid
    <3> QED
      BY <1>5, <3>1
  <2>5. \A i \in 1 .. k + 1 : s[i] # CTL
    <3>1. b # CTL
      BY <1>3, <2>3
    <3> QED
      BY <2>4, <3>1
  <2>6. \A i \in 1 .. k + 1 : s[i] = LF => i > 1 /\ s[i - 1] = CR
    <3>1. b = LF => f[k] = "LF"
      BY <1>3, <2>3
    <3>2. b = LF => k >= 1 /\ s[k] = CR
      BY <2>4, <3>1
    <3> QED
      BY <2>4, <3>2
  <2>7. f[k + 1] = "LF" <=> b = CR
    BY <1>3, <2>3
  <2>8. f[k + 1] = "SpaceOrTab" <=> b = LF
    BY <1>3, <2>3
  <2>9. ASSUME NEW i \in 1 .. k + 1, s[i] = CR
        PROVE  (i + 1 <= k + 1 => s[i + 1] = LF) /\ (i + 2 <= k + 1 => s[i + 2] \in Blank)
    <3>1. CASE i = k + 1
      BY <3>1
    <3>2. CASE i = k
      <4>1. f[k] = "LF"
        BY <2>4, <2>9, <3>2
      <4> QED
        BY <2>3, <3>2, <4>1
    <3>3. CASE i + 1 = k
      <4>1. i \in 1 .. k /\ s[k] = LF
        BY <2>4, <2>9, <3>3
      <4>2. f[k] = "SpaceOrTab"
        BY <2>4, <3>3, <4>1
      <4>3. i + 2 = k + 1 /\ i + 1 = k
        BY <3>3
      <4> QED
        BY <2>3, <4>1, <4>2, <4>3
    <3>4. CASE i + 1 < k
      <4>1. i \in 1 .. k /\ i + 1 <= k /\ i + 2 <= k
        BY <3>4
      <4> QED
        BY <2>4, <2>9, <4>1
    <3> QED
      BY <3>1, <3>2, <3>3, <3>4
  <2> QED
    BY <2>1, <2>5, <2>6, <2>7, <2>8, <2>9
<1> HIDE DEF S
<1>6. Nat \subseteq S
  BY <1>4, <1>5, SetInduction
<1>7. Upto(n)
  BY <1>1, <1>6 DEF S
<1>8. ASSUME NEW i \in 1 .. n, s[i] = CR
      PROVE  i + 2 <= n /\ s[i + 1] = LF /\ s[i + 2] \in Blank
  <2>1. f[n] = "Any"
    BY <1>1
  <2>2. i # n
    BY <1>7, <1>8, <2>1
  <2>0. (i + 1 <= n => s[i + 1] = LF) /\ (i + 2 <= n => s[i + 2] \in Blank)
    BY <1>7, <1>8
  <2>5. n \in Nat
    BY <1>1
  <2>6. i \in Nat /\ i <= n
    BY <2>5
  <2>7. i + 1 <= n
    BY <2>2, <2>5, <2>6
  <2>3. i + 1 <= n /\ s[i + 1] = LF
    BY <2>0, <2>7
  <2>4. i + 1 # n
    <3>1. s[n] # LF
      BY <1>1, <1>7, <2>1
    <3> QED
      BY <2>3, <3>1
  <2>8. i + 2 <= n
    BY <2>4, <2>5, <2>6, <2>7
  <2> QED
    BY <2>0, <2>3, <2>8
<1> QED
  BY <1>1, <1>7, <1>8 DEF Folded

(* HeaderValue::try_from, an automaton over the bytes (header/value.rs),   *)
(* accepts a text exactly when each of its line breaks is followed by a    *)
(* blank and nothing else of it is a control byte or invalid.              *)
THEOREM HeaderValuesAreFolded ==
    ASSUME NEW s \in Text
    PROVE  IsOk(HeaderValueTryFrom(s)) <=> Folded(s)
<1>1. PICK f : /\ IsValueRun(f, s)
               /\ IsOk(HeaderValueTryFrom(s)) <=>
                     f[Len(s)] = "Any" /\ \A i \in 1 .. Len(s) : s[i] # NUTF
  BY ValueRun
<1>2. Folded(s) => \A i \in 1 .. Len(s) : s[i] # NUTF
  BY DEF Folded, Text
<1> QED
  BY <1>1, <1>2, FoldedRun, RunFolded

-----------------------------------------------------------------------------
(* The values of a name in a header map, and the other entries.            *)

(* The headers that a message may carry.                                   *)
HeaderMaps == Seq(Text \X Text)

(* What an entry of a header map is.                                       *)
LEMMA Entries ==
    ASSUME NEW map \in HeaderMaps
    PROVE  /\ Len(map) \in Nat /\ DOMAIN map = 1 .. Len(map)
           /\ \A k \in 1 .. Len(map) : map[k] \in Text \X Text
           /\ \A k \in 1 .. Len(map) : map[k][1] \in Text /\ map[k][2] \in Text
           /\ \A k \in 1 .. Len(map) : map[k] = <<map[k][1], map[k][2]>>
<1>1. /\ Len(map) \in Nat /\ DOMAIN map = 1 .. Len(map)
      /\ \A k \in 1 .. Len(map) : map[k] \in Text \X Text
  BY DEF HeaderMaps
<1> QED
  BY <1>1

(* The values of a name, one entry after another.                          *)
AreValues(f, map, name) ==
    /\ f[0] = <<>>
    /\ \A k \in 1 .. Len(map) :
          f[k] = IF map[k][1] = name THEN Append(f[k - 1], map[k][2]) ELSE f[k - 1]

(* GetAll is the recursion over the entries.                               *)
LEMMA GetAllIs ==
    ASSUME NEW map \in HeaderMaps, NEW name
    PROVE  \E f : AreValues(f, map, name) /\ GetAll(map, name) = f[Len(map)]
<1> DEFINE n == Len(map)
           V == Seq(Text)
           next(v, k) == IF map[k][1] = name THEN Append(v, map[k][2]) ELSE v
           rec(f) == [k \in 0 .. n |-> IF k = 0 THEN <<>> ELSE next(f[k - 1], k)]
           values == CHOOSE f : f = rec(f)
           step == [k \in 1 .. n |-> [v \in V |-> next(v, k)]]
<1>1. n \in Nat /\ (\A k \in 1 .. n : map[k][2] \in Text) /\ n = Len(map)
  BY Entries
<1>2. GetAll(map, name) = values[n]
  BY DEF GetAll
<1> HIDE DEF n
<1>3. \A k \in 1 .. n : \A v \in V : next(v, k) \in V
  BY <1>1
<1>4. <<>> \in V
  OBVIOUS
<1>5. \A v, k : next(v, k) = IF map[k][1] = name THEN Append(v, map[k][2]) ELSE v
  OBVIOUS
<1> HIDE DEF V, next
<1>6. IsStep(step, n, V)
  BY <1>3 DEF IsStep
<1>7. \A k \in 1 .. n : \A v \in V : step[k][v] = next(v, k)
  OBVIOUS
<1> HIDE DEF step
<1>8. PICK f : ByRecursion(f, n, V, <<>>, step)
  BY <1>1, <1>4, <1>6, RecursionExists
<1>9. f = rec(f)
  <2>1. /\ f \in [0 .. n -> V] /\ f[0] = <<>>
        /\ \A k \in 1 .. n : f[k] = step[k][f[k - 1]]
    BY <1>8 DEF ByRecursion
  <2>2. \A k \in 1 .. n : f[k - 1] \in V
    BY <1>1, <2>1
  <2>3. \A k \in 1 .. n : f[k] = next(f[k - 1], k)
    BY <1>7, <2>1, <2>2
  <2>4. \A k \in 0 .. n : f[k] = IF k = 0 THEN <<>> ELSE next(f[k - 1], k)
    BY <1>1, <2>1, <2>3
  <2> QED
    BY <2>1, <2>4
<1>10. values = rec(values)
  <2> HIDE DEF rec
  <2> QED
    BY <1>9
<1> HIDE DEF values
<1>11. values[0] = <<>> /\ \A k \in 1 .. n : values[k] = next(values[k - 1], k)
  BY <1>1, <1>10
<1>12. AreValues(values, map, name)
  BY <1>1, <1>5, <1>11, Zenon DEF AreValues
<1> QED
  BY <1>1, <1>2, <1>12

(* A name that no entry has gives no value.                                *)
LEMMA GetAllNone ==
    ASSUME NEW map \in HeaderMaps, NEW name, \A k \in 1 .. Len(map) : map[k][1] # name
    PROVE  GetAll(map, name) = <<>>
<1>1. PICK f : AreValues(f, map, name) /\ GetAll(map, name) = f[Len(map)]
  BY GetAllIs
<1> DEFINE S == {k \in Nat : k <= Len(map) => f[k] = <<>>}
<1>2. 0 \in S
  BY <1>1 DEF AreValues
<1>3. ASSUME NEW k \in Nat, k \in S PROVE k + 1 \in S
  <2> SUFFICES ASSUME k + 1 <= Len(map) PROVE f[k + 1] = <<>>
    OBVIOUS
  <2>1. k + 1 \in 1 .. Len(map) /\ k + 1 - 1 = k /\ f[k] = <<>>
    BY <1>3, Entries
  <2>2. f[k + 1] = f[k + 1 - 1]
    BY <1>1, <2>1 DEF AreValues
  <2> QED
    BY <2>1, <2>2
<1> HIDE DEF S
<1>4. Len(map) \in S
  BY <1>2, <1>3, SetInduction, Entries
<1> QED
  BY <1>1, <1>4, Entries DEF S

(* A name that only the first entry has gives the value of that entry.     *)
LEMMA GetAllFirst ==
    ASSUME NEW map \in HeaderMaps, NEW name, Len(map) >= 1, map[1][1] = name,
           \A k \in 2 .. Len(map) : map[k][1] # name
    PROVE  GetAll(map, name) = <<map[1][2]>>
<1>1. PICK f : AreValues(f, map, name) /\ GetAll(map, name) = f[Len(map)]
  BY GetAllIs
<1> DEFINE one == <<map[1][2]>>
           S == {k \in Nat : k >= 1 /\ k <= Len(map) => f[k] = one}
<1>2. 0 \in S
  OBVIOUS
<1>3. ASSUME NEW k \in Nat, k \in S PROVE k + 1 \in S
  <2> SUFFICES ASSUME k + 1 <= Len(map) PROVE f[k + 1] = one
    OBVIOUS
  <2>1. k + 1 \in 1 .. Len(map) /\ k + 1 - 1 = k
    BY Entries
  <2>2. f[k + 1] = IF map[k + 1][1] = name THEN Append(f[k + 1 - 1], map[k + 1][2])
                   ELSE f[k + 1 - 1]
    BY <1>1, <2>1 DEF AreValues
  <2>3. CASE k = 0
    <3>1. f[1] = Append(f[0], map[1][2]) /\ f[0] = <<>>
      BY <1>1, <2>1, <2>2, <2>3 DEF AreValues
    <3>2. Append(<<>>, map[1][2]) = one
      OBVIOUS
    <3> QED
      BY <2>3, <3>1, <3>2
  <2>4. CASE k >= 1
    <3>1. map[k + 1][1] # name /\ f[k] = one
      BY <1>3, <2>1, <2>4
    <3> QED
      BY <2>1, <2>2, <3>1
  <2> QED
    BY <2>3, <2>4
<1> HIDE DEF S
<1>4. Len(map) \in S
  BY <1>2, <1>3, SetInduction, Entries
<1> QED
  BY <1>1, <1>4, Entries DEF S

(* The entries of all other names.                                         *)
LEMMA WithoutIs ==
    ASSUME NEW map \in HeaderMaps, NEW name
    PROVE  /\ Without(map, name) \in HeaderMaps
           /\ \A k \in 1 .. Len(Without(map, name)) : Without(map, name)[k][1] # name
<1> DEFINE n == Len(map)
           V == {s \in HeaderMaps : \A k \in 1 .. Len(s) : s[k][1] # name}
           next(v, k) == IF map[k][1] # name THEN Append(v, map[k]) ELSE v
           rec(f) == [k \in 0 .. n |-> IF k = 0 THEN <<>> ELSE next(f[k - 1], k)]
           others == CHOOSE f : f = rec(f)
           step == [k \in 1 .. n |-> [v \in V |-> next(v, k)]]
<1>1. n \in Nat /\ (\A k \in 1 .. n : map[k] \in Text \X Text) /\ n = Len(map)
  BY Entries
<1>2. Without(map, name) = others[n]
  BY DEF Without
<1> HIDE DEF n
<1>3. ASSUME NEW k \in 1 .. n, NEW v \in V
      PROVE  next(v, k) \in V
  <2> SUFFICES ASSUME map[k][1] # name PROVE Append(v, map[k]) \in V
    OBVIOUS
  <2> DEFINE u == Append(v, map[k])
             e == map[k]
  <2>1. e \in Text \X Text /\ e[1] # name
    BY <1>1
  <2>2. v \in HeaderMaps /\ \A i \in 1 .. Len(v) : v[i][1] # name
    OBVIOUS
  <2> HIDE DEF e
  <2>3. /\ Append(v, e) \in HeaderMaps /\ Len(Append(v, e)) = Len(v) + 1 /\ Len(v) \in Nat
        /\ Append(v, e)[Len(v) + 1] = e /\ \A i \in 1 .. Len(v) : Append(v, e)[i] = v[i]
    BY <2>1, <2>2 DEF HeaderMaps
  <2>4. u \in HeaderMaps /\ \A i \in 1 .. Len(u) : u[i][1] # name
    <3> DEFINE w == Append(v, e)
    <3> HIDE DEF w
    <3>1. ASSUME NEW i \in 1 .. Len(w) PROVE w[i][1] # name
      <4>1. CASE i = Len(v) + 1
        BY <2>1, <2>3, <4>1 DEF w
      <4>2. CASE i # Len(v) + 1
        <5>1. i \in 1 .. Len(v)
          BY <2>3, <4>2 DEF w
        <5> QED
          BY <2>2, <2>3, <5>1 DEF w
      <4> QED
        BY <4>1, <4>2
    <3> QED
      BY <2>3, <3>1 DEF w, e
  <2> QED
    BY <2>4
<1>4. <<>> \in V
  BY DEF HeaderMaps
<1> HIDE DEF V, next
<1>5. IsStep(step, n, V)
  BY <1>3 DEF IsStep
<1>6. \A k \in 1 .. n : \A v \in V : step[k][v] = next(v, k)
  OBVIOUS
<1> HIDE DEF step
<1>7. PICK f : ByRecursion(f, n, V, <<>>, step)
  BY <1>1, <1>4, <1>5, RecursionExists
<1>8. /\ f \in [0 .. n -> V] /\ f[0] = <<>>
      /\ \A k \in 1 .. n : f[k] = step[k][f[k - 1]]
  BY <1>7 DEF ByRecursion
<1>9. f = rec(f)
  <2>2. \A k \in 1 .. n : f[k - 1] \in V
    BY <1>1, <1>8
  <2>3. \A k \in 1 .. n : f[k] = next(f[k - 1], k)
    BY <1>6, <1>8, <2>2
  <2>4. \A k \in 0 .. n : f[k] = IF k = 0 THEN <<>> ELSE next(f[k - 1], k)
    BY <1>1, <1>8, <2>3
  <2> QED
    BY <1>8, <2>4
<1>10. others = rec(others)
  <2> HIDE DEF rec
  <2> QED
    BY <1>9
<1> HIDE DEF others
<1>11. others[0] = <<>> /\ \A k \in 1 .. n : others[k] = next(others[k - 1], k)
  BY <1>1, <1>10, SMTT(30)
<1> DEFINE S == {k \in Nat : k <= n => others[k] \in V}
<1>12. 0 \in S
  BY <1>4, <1>11
<1>13. ASSUME NEW k \in Nat, k \in S PROVE k + 1 \in S
  <2> SUFFICES ASSUME k + 1 <= n PROVE others[k + 1] \in V
    OBVIOUS
  <2>1. k + 1 \in 1 .. n /\ k + 1 - 1 = k /\ others[k] \in V
    BY <1>1, <1>13
  <2>2. others[k + 1] = next(others[k], k + 1)
    BY <1>11, <2>1
  <2> QED
    BY <1>3, <2>1, <2>2
<1> HIDE DEF S
<1>14. n \in S
  BY <1>1, <1>12, <1>13, SetInduction
<1>15. others[n] \in V
  BY <1>1, <1>14 DEF S
<1> DEFINE w == others[n]
<1> HIDE DEF w
<1>16. w \in HeaderMaps /\ \A k \in 1 .. Len(w) : w[k][1] # name
  BY <1>15 DEF V, w
<1> QED
  BY <1>2, <1>16 DEF w

-----------------------------------------------------------------------------
(* Lists of texts.                                                         *)

(* The texts before and after the i-th of some texts that are put one      *)
(* after another.                                                          *)
ArePrefixes(P, seqs) ==
    /\ P \in [0 .. Len(seqs) -> Text] /\ P[0] = <<>>
    /\ \A k \in 1 .. Len(seqs) : P[k] = P[k - 1] \o seqs[k]
AreSuffixes(R, seqs, z) ==
    /\ R \in [0 .. Len(seqs) -> Text] /\ R[Len(seqs)] = z
    /\ \A k \in 1 .. Len(seqs) : R[k - 1] = seqs[k] \o R[k]
TextLists == Seq(Text)

(* What a list of texts is.                                                *)
LEMMA TextsAre ==
    ASSUME NEW seqs \in TextLists
    PROVE  Len(seqs) \in Nat /\ \A k \in 1 .. Len(seqs) : seqs[k] \in Text
BY DEF TextLists

(* The empty text changes nothing that it is put before or after.          *)
LEMMA EmptyText ==
    /\ <<>> \in Text /\ Len(<<>>) = 0
    /\ \A t \in Text : <<>> \o t = t /\ t \o <<>> = t
BY DEF Text

(* Two texts, one after the other, are a text.                             *)
LEMMA Concats ==
    ASSUME NEW a \in Text, NEW b \in Text
    PROVE  a \o b \in Text
BY DEF Text

(* The texts before each of the texts, and the ones after it.              *)
LEMMA PrefixesExist ==
    ASSUME NEW seqs \in TextLists
    PROVE  \E P : ArePrefixes(P, seqs)
<1> DEFINE n == Len(seqs)
           V == Text
           step == [k \in 1 .. n |-> [v \in V |-> v \o seqs[k]]]
<1>1. n \in Nat /\ \A k \in 1 .. n : seqs[k] \in Text
  BY TextsAre
<1>2. \A k \in 1 .. n : \A v \in V : v \o seqs[k] \in V
  BY <1>1, Concats
<1>3. <<>> \in V
  BY EmptyText
<1> HIDE DEF n
<1>4. IsStep(step, n, V)
  BY <1>2 DEF IsStep
<1>5. \A k \in 1 .. n : \A v \in V : step[k][v] = v \o seqs[k]
  OBVIOUS
<1> HIDE DEF step, V
<1>6. PICK f : ByRecursion(f, n, V, <<>>, step)
  BY <1>1, <1>3, <1>4, RecursionExists
<1>7. /\ f \in [0 .. n -> V] /\ f[0] = <<>>
      /\ \A k \in 1 .. n : f[k] = step[k][f[k - 1]]
  BY <1>6 DEF ByRecursion
<1>8. \A k \in 1 .. n : f[k - 1] \in V
  BY <1>1, <1>7
<1>9. \A k \in 1 .. n : f[k] = f[k - 1] \o seqs[k]
  BY <1>5, <1>7, <1>8
<1>10. ArePrefixes(f, seqs)
  BY <1>7, <1>9 DEF ArePrefixes, V, n
<1> QED
  BY <1>10

LEMMA SuffixesExist ==
    ASSUME NEW seqs \in TextLists, NEW z \in Text
    PROVE  \E R : AreSuffixes(R, seqs, z)
<1> DEFINE n == Len(seqs)
           V == Text
           step == [k \in 1 .. n |-> [v \in V |-> seqs[n - k + 1] \o v]]
<1>1. n \in Nat /\ \A k \in 1 .. n : seqs[k] \in Text
  BY TextsAre
<1>2. \A k \in 1 .. n : \A v \in V : seqs[n - k + 1] \o v \in V
  <2>1. \A k \in 1 .. n : n - k + 1 \in 1 .. n
    BY <1>1
  <2> QED
    BY <1>1, <2>1, Concats
<1>3. z \in V
  OBVIOUS
<1>0. n = Len(seqs) /\ V = Text
  OBVIOUS
<1> HIDE DEF n
<1>4. IsStep(step, n, V)
  BY <1>2 DEF IsStep
<1>5. \A k \in 1 .. n : \A v \in V : step[k][v] = seqs[n - k + 1] \o v
  OBVIOUS
<1> HIDE DEF step, V
<1>6. PICK f : ByRecursion(f, n, V, z, step)
  BY <1>1, <1>3, <1>4, RecursionExists
<1>7. /\ f \in [0 .. n -> V] /\ f[0] = z
      /\ \A k \in 1 .. n : f[k] = step[k][f[k - 1]]
  BY <1>6 DEF ByRecursion
<1>8. \A k \in 1 .. n : f[k - 1] \in V
  BY <1>1, <1>7
<1>9. \A k \in 1 .. n : f[k] = seqs[n - k + 1] \o f[k - 1]
  BY <1>5, <1>7, <1>8
<1> DEFINE R == [k \in 0 .. n |-> f[n - k]]
<1>10. R \in [0 .. n -> V] /\ R[n] = z
  BY <1>1, <1>7
<1>11. ASSUME NEW k \in 1 .. n PROVE R[k - 1] = seqs[k] \o R[k]
  <2> DEFINE j == n - k + 1
  <2>1. j \in 1 .. n /\ n - j + 1 = k /\ n - (k - 1) = j /\ j - 1 = n - k /\ k - 1 \in 0 .. n /\ k \in 0 .. n
    BY <1>1
  <2>2. R[k - 1] = f[n - (k - 1)] /\ R[k] = f[n - k]
    BY <2>1
  <2> HIDE DEF j, R
  <2>3. f[j] = seqs[n - j + 1] \o f[j - 1]
    BY <1>9, <2>1
  <2> QED
    BY <2>1, <2>2, <2>3
<1> HIDE DEF R
<1>12. AreSuffixes(R, seqs, z)
  BY <1>0, <1>10, <1>11 DEF AreSuffixes
<1> QED
  BY <1>12

(* What they are put together to.                                          *)
LEMMA FlattenIs ==
    ASSUME NEW seqs \in TextLists, NEW P, ArePrefixes(P, seqs)
    PROVE  FlattenSeq(seqs) = P[Len(seqs)]
<1> DEFINE n == Len(seqs)
<1>1. n \in Nat /\ n = Len(seqs) /\ \A k \in 1 .. n : seqs[k] \in Text
  BY TextsAre
<1>2. /\ P \in [0 .. n -> Text] /\ P[0] = <<>>
      /\ \A k \in 1 .. n : P[k] = P[k - 1] \o seqs[k]
  BY DEF ArePrefixes
<1>3. CASE n = 0
  <2>1. seqs = <<>>
    BY <1>3 DEF TextLists
  <2>2. FlattenSeq(seqs) = seqs
    BY <1>3 DEF FlattenSeq
  <2> QED
    BY <1>2, <1>3, <2>1, <2>2
<1>4. CASE n # 0
  <2> DEFINE next(v, i) == v \o seqs[i]
             rec(f) == [i \in 1 .. n |-> IF i = 1 THEN seqs[i] ELSE next(f[i - 1], i)]
             flatten == CHOOSE f : f = rec(f)
             Q == [i \in 1 .. n |-> P[i]]
  <2>1. FlattenSeq(seqs) = flatten[n]
    BY <1>4 DEF FlattenSeq
  <2>0. n >= 1
    BY <1>1, <1>4
  <2> HIDE DEF n
  <2>2. P[1] = seqs[1]
    <3>1. 1 \in 1 .. n /\ 1 - 1 = 0
      BY <1>1, <2>0
    <3>2. P[1] = P[1 - 1] \o seqs[1] /\ seqs[1] \in Text
      BY <1>1, <1>2, <3>1
    <3> QED
      BY <1>2, <3>1, <3>2, EmptyText
  <2>3. \A i \in 1 .. n : P[i] = next(P[i - 1], i)
    BY <1>2
  <2> HIDE DEF next
  <2>4. Q = rec(Q)
    <3>1. \A i \in 1 .. n : i # 1 => P[i] = next(P[i - 1], i) /\ Q[i - 1] = P[i - 1]
      BY <1>1, <2>3
    <3>2. \A i \in 1 .. n : P[i] = IF i = 1 THEN seqs[i] ELSE next(Q[i - 1], i)
      BY <2>2, <3>1
    <3> QED
      BY <3>2
  <2>5. flatten = rec(flatten)
    <3> HIDE DEF rec, Q
    <3> QED
      BY <2>4
  <2> HIDE DEF flatten
  <2>6. /\ flatten[1] = seqs[1]
        /\ \A i \in 2 .. n : flatten[i] = next(flatten[i - 1], i)
    BY <1>1, <2>0, <2>5
  <2> DEFINE S == {k \in Nat : k >= 1 /\ k <= n => flatten[k] = P[k]}
  <2>7. 0 \in S
    OBVIOUS
  <2>8. ASSUME NEW k \in Nat, k \in S PROVE k + 1 \in S
    <3> SUFFICES ASSUME k + 1 <= n PROVE flatten[k + 1] = P[k + 1]
      OBVIOUS
    <3>1. CASE k = 0
      BY <2>2, <2>6, <3>1
    <3>2. CASE k # 0
      <4>1. k + 1 \in 2 .. n /\ k + 1 \in 1 .. n /\ k + 1 - 1 = k /\ flatten[k] = P[k]
        BY <1>1, <2>8, <3>2
      <4>2. flatten[k + 1] = next(flatten[k + 1 - 1], k + 1)
        BY <2>6, <4>1
      <4>3. P[k + 1] = next(P[k + 1 - 1], k + 1)
        BY <2>3, <4>1
      <4> QED
        BY <4>1, <4>2, <4>3
    <3> QED
      BY <3>1, <3>2
  <2> HIDE DEF S
  <2>9. n \in S
    BY <1>1, <2>7, <2>8, SetInduction
  <2> QED
    BY <1>1, <2>0, <2>1, <2>9 DEF S
<1> QED
  BY <1>3, <1>4

(* All the texts and what follows are what is after none of them.          *)
LEMMA FlattenInParts ==
    ASSUME NEW seqs \in TextLists, NEW z \in Text, NEW R, AreSuffixes(R, seqs, z)
    PROVE  FlattenSeq(seqs) \in Text /\ FlattenSeq(seqs) \o z = R[0]
<1> DEFINE n == Len(seqs)
<1>1. n \in Nat /\ \A k \in 1 .. n : seqs[k] \in Text
  BY TextsAre
<1>2. PICK P : ArePrefixes(P, seqs)
  BY PrefixesExist
<1>3. /\ P \in [0 .. n -> Text] /\ P[0] = <<>>
      /\ \A k \in 1 .. n : P[k] = P[k - 1] \o seqs[k]
  BY <1>2 DEF ArePrefixes
<1>4. /\ R \in [0 .. n -> Text] /\ R[n] = z
      /\ \A k \in 1 .. n : R[k - 1] = seqs[k] \o R[k]
  BY DEF AreSuffixes
<1>5. FlattenSeq(seqs) = P[n]
  BY <1>2, FlattenIs
<1> HIDE DEF n
<1>6. \A k \in 0 .. n : P[k] \in Text /\ R[k] \in Text
  BY <1>3, <1>4
<1> DEFINE whole(k) == P[k] \o R[k]
           longer(k) == P[k - 1] \o seqs[k]
           tail(k) == seqs[k] \o R[k]
           S == {k \in Nat : k <= n => whole(k) = R[0]}
<1>0. /\ \A k \in 1 .. n : P[k] = longer(k)
      /\ \A k \in 1 .. n : R[k - 1] = tail(k)
  BY <1>3, <1>4
<1>7. 0 \in S
  <2>1. R[0] \in Text
    BY <1>1, <1>6
  <2>2. P[0] \o R[0] = R[0]
    BY <1>3, <2>1, EmptyText
  <2> QED
    BY <2>2
<1>8. ASSUME NEW k \in Nat, k \in S PROVE k + 1 \in S
  <2> HIDE DEF whole, longer, tail
  <2> SUFFICES ASSUME k + 1 <= n PROVE whole(k + 1) = R[0]
    OBVIOUS
  <2> DEFINE m == k + 1
  <2>1. m \in 1 .. n /\ m - 1 = k /\ k \in 0 .. n /\ m \in 0 .. n /\ whole(k) = R[0]
    BY <1>1, <1>8
  <2>2. P[m] = longer(m) /\ R[m - 1] = tail(m)
    BY <1>0, <2>1
  <2>3. P[k] \in Text /\ R[m] \in Text /\ seqs[m] \in Text
    BY <1>1, <1>6, <2>1
  <2> HIDE DEF m
  <2>4. (P[k] \o seqs[m]) \o R[m] = P[k] \o (seqs[m] \o R[m])
    BY <2>3, Assoc, ZenonT(60)
  <2>5. longer(m) = P[k] \o seqs[m]
    BY <2>1 DEF longer
  <2>6. whole(m) = R[0]
    BY <2>1, <2>2, <2>4, <2>5, Zenon DEF whole, tail
  <2> QED
    BY <2>6 DEF m
<1> HIDE DEF S, whole
<1>9. n \in S
  BY <1>1, <1>7, <1>8, SetInduction
<1>10. P[n] \o R[n] = R[0] /\ P[n] \in Text
  <2>1. n <= n /\ n \in 0 .. n
    BY <1>1
  <2>2. whole(n) = R[0]
    BY <1>9, <2>1 DEF S
  <2> QED
    BY <1>6, <2>1, <2>2 DEF whole
<1> QED
  BY <1>4, <1>5, <1>10, Zenon

-----------------------------------------------------------------------------
(* The values of a name in a header map and the other entries, and what    *)
(* typed_insert makes of them (header/map.rs).                             *)

(* Induction over the sequences of a set, by appending to them.            *)
LEMMA ListInduction ==
    ASSUME NEW E, NEW S, <<>> \in S, \A w \in Seq(E), e \in E : w \in S => Append(w, e) \in S
    PROVE  Seq(E) \subseteq S
<1> DEFINE T == {n \in Nat : \A w \in Seq(E) : Len(w) = n => w \in S}
<1>1. 0 \in T
  <2>1. \A w \in Seq(E) : Len(w) = 0 => w = <<>>
    OBVIOUS
  <2> QED
    BY <2>1
<1>2. ASSUME NEW n \in Nat, n \in T PROVE n + 1 \in T
  <2> SUFFICES ASSUME NEW w \in Seq(E), Len(w) = n + 1 PROVE w \in S
    OBVIOUS
  <2> DEFINE v == SubSeq(w, 1, n)
             e == w[n + 1]
  <2>1. v \in Seq(E) /\ Len(v) = n /\ e \in E /\ \A k \in 1 .. n : v[k] = w[k]
    OBVIOUS
  <2>2. n + 1 \in 1 .. Len(w)
    OBVIOUS
  <2>3. w = Append(v, e)
    <3> HIDE DEF v
    <3>1. /\ Append(v, e) \in Seq(E) /\ Len(Append(v, e)) = n + 1
          /\ Append(v, e)[n + 1] = e /\ \A k \in 1 .. n : Append(v, e)[k] = v[k]
      BY <2>1
    <3> DEFINE u == Append(v, e)
    <3>2. \A k \in 1 .. n + 1 : u[k] = w[k]
      BY <2>1, <3>1
    <3> HIDE DEF u
    <3>3. u = w
      BY <3>1, <3>2 DEF u
    <3> QED
      BY <3>3 DEF u
  <2>4. v \in S
    BY <1>2, <2>1
  <2> HIDE DEF v, e
  <2> QED
    BY <2>1, <2>3, <2>4
<1> HIDE DEF T
<1>3. Nat \subseteq T
  BY <1>1, <1>2, SetInduction
<1>4. ASSUME NEW w \in Seq(E) PROVE w \in S
  <2>1. Len(w) \in T
    BY <1>3
  <2> QED
    BY <2>1 DEF T
<1> QED
  BY <1>4

(* What the entries of a map may be: pairs with these values.              *)
ValuesOf(E) == {e[2] : e \in E}

(* The entries of a map, and their values.                                 *)
LEMMA EntriesOf ==
    ASSUME NEW E, NEW map \in Seq(E)
    PROVE  /\ Len(map) \in Nat /\ DOMAIN map = 1 .. Len(map)
           /\ \A k \in 1 .. Len(map) : map[k] \in E /\ map[k][2] \in ValuesOf(E)
<1>1. Len(map) \in Nat /\ DOMAIN map = 1 .. Len(map) /\ \A k \in 1 .. Len(map) : map[k] \in E
  OBVIOUS
<1> QED
  BY <1>1 DEF ValuesOf

(* Both recursions over the entries of a map exist.                        *)
AreValuesIn(f, map, name, E) ==
    /\ f \in [0 .. Len(map) -> Seq(ValuesOf(E))] /\ AreValues(f, map, name)

(* The values of a name are those that such a recursion ends with.         *)
LEMMA GetAllOf ==
    ASSUME NEW E, NEW map \in Seq(E), NEW name
    PROVE  \E f : AreValuesIn(f, map, name, E) /\ GetAll(map, name) = f[Len(map)]
<1> DEFINE n == Len(map)
           V == Seq(ValuesOf(E))
           next(v, k) == IF map[k][1] = name THEN Append(v, map[k][2]) ELSE v
           rec(f) == [k \in 0 .. n |-> IF k = 0 THEN <<>> ELSE next(f[k - 1], k)]
           values == CHOOSE f : f = rec(f)
           step == [k \in 1 .. n |-> [v \in V |-> next(v, k)]]
<1>1. n \in Nat /\ (\A k \in 1 .. n : map[k][2] \in ValuesOf(E)) /\ n = Len(map)
  BY EntriesOf
<1>2. GetAll(map, name) = values[n]
  BY DEF GetAll
<1> HIDE DEF n
<1>3. \A k \in 1 .. n : \A v \in V : next(v, k) \in V
  BY <1>1
<1>4. <<>> \in V
  OBVIOUS
<1>5. \A v, k : next(v, k) = IF map[k][1] = name THEN Append(v, map[k][2]) ELSE v
  OBVIOUS
<1> HIDE DEF next
<1> HIDE DEF V
<1>6. IsStep(step, n, V)
  BY <1>3 DEF IsStep
<1>7. \A k \in 1 .. n : \A v \in V : step[k][v] = next(v, k)
  OBVIOUS
<1> HIDE DEF step
<1>8. PICK f : ByRecursion(f, n, V, <<>>, step)
  BY <1>1, <1>4, <1>6, RecursionExists
<1>9. /\ f \in [0 .. n -> V] /\ f[0] = <<>>
      /\ \A k \in 1 .. n : f[k] = next(f[k - 1], k)
  <2>1. /\ f \in [0 .. n -> V] /\ f[0] = <<>>
        /\ \A k \in 1 .. n : f[k] = step[k][f[k - 1]]
    BY <1>8 DEF ByRecursion
  <2>2. \A k \in 1 .. n : f[k - 1] \in V
    BY <1>1, <2>1, SMTT(30)
  <2> QED
    BY <1>7, <2>1, <2>2
<1>10. f = rec(f)
  <2>4. \A k \in 0 .. n : f[k] = IF k = 0 THEN <<>> ELSE next(f[k - 1], k)
    BY <1>1, <1>9
  <2> QED
    BY <1>9, <2>4
<1>11. values = rec(values)
  <2> HIDE DEF rec
  <2> QED
    BY <1>10
<1> HIDE DEF values
<1>12. values[0] = <<>> /\ \A k \in 1 .. n : values[k] = next(values[k - 1], k)
  BY <1>1, <1>11
<1>13. AreValues(values, map, name)
  BY <1>1, <1>5, <1>12, Zenon DEF AreValues
<1>14. values \in [0 .. n -> V]
  <2> DEFINE S == {k \in Nat : k <= n => values[k] \in V}
  <2>1. 0 \in S
    BY <1>4, <1>12
  <2>2. ASSUME NEW k \in Nat, k \in S PROVE k + 1 \in S
    <3> SUFFICES ASSUME k + 1 <= n PROVE values[k + 1] \in V
      OBVIOUS
    <3>1. k + 1 \in 1 .. n /\ k + 1 - 1 = k /\ values[k] \in V
      BY <1>1, <2>2
    <3>2. values[k + 1] = next(values[k], k + 1)
      BY <1>12, <3>1
    <3> QED
      BY <1>3, <3>1, <3>2
  <2> HIDE DEF S
  <2>3. Nat \subseteq S
    BY <2>1, <2>2, SetInduction
  <2>4. \A k \in 0 .. n : values[k] \in V
    BY <1>1, <2>3 DEF S
  <2>5. \E g : values = [k \in 0 .. n |-> g[k]]
    <3> DEFINE g == [k \in 0 .. n |-> IF k = 0 THEN <<>> ELSE next(values[k - 1], k)]
    <3>1. values = g
      BY <1>11
    <3> QED
      BY <3>1
  <2> QED
    BY <2>4, <2>5
<1> QED
  BY <1>1, <1>2, <1>13, <1>14 DEF AreValuesIn, V

(* The values of a name are values of entries; an empty map has none.      *)
LEMMA GetAllIn ==
    ASSUME NEW E, NEW map \in Seq(E), NEW name
    PROVE  GetAll(map, name) \in Seq(ValuesOf(E))
<1>1. PICK f : AreValuesIn(f, map, name, E) /\ GetAll(map, name) = f[Len(map)]
  BY GetAllOf
<1>2. Len(map) \in 0 .. Len(map)
  BY EntriesOf
<1> QED
  BY <1>1, <1>2 DEF AreValuesIn

(* An empty map has no value of any name.                                  *)
LEMMA GetAllEmpty ==
    ASSUME NEW map, map = <<>>, NEW name
    PROVE  GetAll(map, name) = <<>>
<1>1. map \in Seq({map}) /\ Len(map) = 0
  OBVIOUS
<1>2. PICK f : AreValuesIn(f, map, name, {map}) /\ GetAll(map, name) = f[Len(map)]
  BY <1>1, GetAllOf
<1> QED
  BY <1>1, <1>2 DEF AreValuesIn, AreValues

(* One more entry is one more value, if it is of the name.                 *)
LEMMA GetAllAppend ==
    ASSUME NEW E, NEW map \in Seq(E), NEW e \in E, NEW name
    PROVE  GetAll(Append(map, e), name)
              = IF e[1] = name THEN Append(GetAll(map, name), e[2]) ELSE GetAll(map, name)
<1> DEFINE a == Append(map, e)
           n == Len(map)
<1>1. /\ a \in Seq(E) /\ Len(a) = n + 1 /\ a[n + 1] = e /\ n \in Nat
      /\ \A k \in 1 .. n : a[k] = map[k]
  OBVIOUS
<1>2. PICK f : AreValuesIn(f, map, name, E) /\ GetAll(map, name) = f[n]
  BY GetAllOf
<1> HIDE DEF a
<1>3. PICK g : AreValuesIn(g, a, name, E) /\ GetAll(a, name) = g[Len(a)]
  BY <1>1, GetAllOf
<1>4. /\ f[0] = <<>>
      /\ \A k \in 1 .. n :
            f[k] = IF map[k][1] = name THEN Append(f[k - 1], map[k][2]) ELSE f[k - 1]
  BY <1>2 DEF AreValuesIn, AreValues
<1>5. /\ g[0] = <<>>
      /\ \A k \in 1 .. n + 1 :
            g[k] = IF a[k][1] = name THEN Append(g[k - 1], a[k][2]) ELSE g[k - 1]
  BY <1>1, <1>3 DEF AreValuesIn, AreValues
<1> DEFINE S == {k \in Nat : k <= n => g[k] = f[k]}
<1>6. 0 \in S
  BY <1>4, <1>5
<1>7. ASSUME NEW k \in Nat, k \in S PROVE k + 1 \in S
  <2> SUFFICES ASSUME k + 1 <= n PROVE g[k + 1] = f[k + 1]
    OBVIOUS
  <2>1. k + 1 \in 1 .. n /\ k + 1 \in 1 .. n + 1 /\ k + 1 - 1 = k /\ g[k] = f[k]
    BY <1>1, <1>7
  <2>2. a[k + 1] = map[k + 1]
    BY <1>1, <2>1
  <2>3. f[k + 1] = IF map[k + 1][1] = name THEN Append(f[k], map[k + 1][2]) ELSE f[k]
    BY <1>4, <2>1
  <2>4. g[k + 1] = IF a[k + 1][1] = name THEN Append(g[k], a[k + 1][2]) ELSE g[k]
    BY <1>5, <2>1
  <2> QED
    BY <2>1, <2>2, <2>3, <2>4, Zenon
<1> HIDE DEF S
<1>8. Nat \subseteq S
  BY <1>6, <1>7, SetInduction
<1>9. g[n] = f[n]
  BY <1>1, <1>8 DEF S
<1>10. n + 1 \in 1 .. n + 1 /\ n + 1 - 1 = n
  BY <1>1
<1>11. g[n + 1] = IF e[1] = name THEN Append(g[n], e[2]) ELSE g[n]
  BY <1>1, <1>5, <1>10
<1> QED
  BY <1>1, <1>2, <1>3, <1>9, <1>11 DEF a

(* The same for the other entries.                                         *)
AreOthersIn(f, map, name, E) ==
    /\ f \in [0 .. Len(map) -> Seq(E)] /\ f[0] = <<>>
    /\ \A k \in 1 .. Len(map) :
          f[k] = IF map[k][1] # name THEN Append(f[k - 1], map[k]) ELSE f[k - 1]

(* The other entries are those that such a recursion ends with.            *)
LEMMA WithoutOf ==
    ASSUME NEW E, NEW map \in Seq(E), NEW name
    PROVE  \E f : AreOthersIn(f, map, name, E) /\ Without(map, name) = f[Len(map)]
<1> DEFINE n == Len(map)
           V == Seq(E)
           next(v, k) == IF map[k][1] # name THEN Append(v, map[k]) ELSE v
           rec(f) == [k \in 0 .. n |-> IF k = 0 THEN <<>> ELSE next(f[k - 1], k)]
           others == CHOOSE f : f = rec(f)
           step == [k \in 1 .. n |-> [v \in V |-> next(v, k)]]
<1>1. n \in Nat /\ (\A k \in 1 .. n : map[k] \in E) /\ n = Len(map)
  BY EntriesOf
<1>2. Without(map, name) = others[n]
  BY DEF Without
<1> HIDE DEF n
<1>3. \A k \in 1 .. n : \A v \in V : next(v, k) \in V
  BY <1>1
<1>4. <<>> \in V
  OBVIOUS
<1>5. \A v, k : next(v, k) = IF map[k][1] # name THEN Append(v, map[k]) ELSE v
  OBVIOUS
<1> HIDE DEF next
<1> HIDE DEF V
<1>6. IsStep(step, n, V)
  BY <1>3 DEF IsStep
<1>7. \A k \in 1 .. n : \A v \in V : step[k][v] = next(v, k)
  OBVIOUS
<1> HIDE DEF step
<1>8. PICK f : ByRecursion(f, n, V, <<>>, step)
  BY <1>1, <1>4, <1>6, RecursionExists
<1>9. /\ f \in [0 .. n -> V] /\ f[0] = <<>>
      /\ \A k \in 1 .. n : f[k] = next(f[k - 1], k)
  <2>1. /\ f \in [0 .. n -> V] /\ f[0] = <<>>
        /\ \A k \in 1 .. n : f[k] = step[k][f[k - 1]]
    BY <1>8 DEF ByRecursion
  <2>2. \A k \in 1 .. n : f[k - 1] \in V
    BY <1>1, <2>1
  <2> QED
    BY <1>7, <2>1, <2>2
<1>10. f = rec(f)
  <2>4. \A k \in 0 .. n : f[k] = IF k = 0 THEN <<>> ELSE next(f[k - 1], k)
    BY <1>1, <1>9
  <2> QED
    BY <1>9, <2>4
<1>11. others = rec(others)
  <2> HIDE DEF rec
  <2> QED
    BY <1>10
<1> HIDE DEF others
<1>12. others[0] = <<>> /\ \A k \in 1 .. n : others[k] = next(others[k - 1], k)
  BY <1>1, <1>11
<1>14. others \in [0 .. n -> V]
  <2> DEFINE S == {k \in Nat : k <= n => others[k] \in V}
  <2>1. 0 \in S
    BY <1>4, <1>12
  <2>2. ASSUME NEW k \in Nat, k \in S PROVE k + 1 \in S
    <3> SUFFICES ASSUME k + 1 <= n PROVE others[k + 1] \in V
      OBVIOUS
    <3>1. k + 1 \in 1 .. n /\ k + 1 - 1 = k /\ others[k] \in V
      BY <1>1, <2>2
    <3>2. others[k + 1] = next(others[k], k + 1)
      BY <1>12, <3>1
    <3> QED
      BY <1>3, <3>1, <3>2
  <2> HIDE DEF S
  <2>3. Nat \subseteq S
    BY <2>1, <2>2, SetInduction
  <2>4. \A k \in 0 .. n : others[k] \in V
    BY <1>1, <2>3 DEF S
  <2>5. \E g : others = [k \in 0 .. n |-> g[k]]
    <3> DEFINE g == [k \in 0 .. n |-> IF k = 0 THEN <<>> ELSE next(others[k - 1], k)]
    <3>1. others = g
      BY <1>11
    <3> QED
      BY <3>1
  <2> QED
    BY <2>4, <2>5
<1>15. AreOthersIn(others, map, name, E)
  <2>1. \A k \in 1 .. n :
           others[k] = IF map[k][1] # name THEN Append(others[k - 1], map[k]) ELSE others[k - 1]
    BY <1>5, <1>12, Zenon
  <2> QED
    BY <1>1, <1>12, <1>14, <2>1, Zenon DEF AreOthersIn, V
<1> QED
  BY <1>1, <1>2, <1>15

(* The other entries are entries of the map.                               *)
LEMMA WithoutIn ==
    ASSUME NEW E, NEW map \in Seq(E), NEW name
    PROVE  Without(map, name) \in Seq(E)
<1>1. PICK f : AreOthersIn(f, map, name, E) /\ Without(map, name) = f[Len(map)]
  BY WithoutOf
<1>2. Len(map) \in 0 .. Len(map)
  BY EntriesOf
<1> QED
  BY <1>1, <1>2 DEF AreOthersIn

(* An empty map has no other entries.                                      *)
LEMMA WithoutEmpty ==
    ASSUME NEW map, map = <<>>, NEW name
    PROVE  Without(map, name) = <<>>
<1>1. map \in Seq({map}) /\ Len(map) = 0
  OBVIOUS
<1>2. PICK f : AreOthersIn(f, map, name, {map}) /\ Without(map, name) = f[Len(map)]
  BY <1>1, WithoutOf
<1> QED
  BY <1>1, <1>2 DEF AreOthersIn

(* One more entry is one more of the others, if it is not of the name.     *)
LEMMA WithoutAppend ==
    ASSUME NEW E, NEW map \in Seq(E), NEW e \in E, NEW name
    PROVE  Without(Append(map, e), name)
              = IF e[1] # name THEN Append(Without(map, name), e) ELSE Without(map, name)
<1> DEFINE a == Append(map, e)
           n == Len(map)
<1>1. /\ a \in Seq(E) /\ Len(a) = n + 1 /\ a[n + 1] = e /\ n \in Nat
      /\ \A k \in 1 .. n : a[k] = map[k]
  OBVIOUS
<1>2. PICK f : AreOthersIn(f, map, name, E) /\ Without(map, name) = f[n]
  BY WithoutOf
<1> HIDE DEF a
<1>3. PICK g : AreOthersIn(g, a, name, E) /\ Without(a, name) = g[Len(a)]
  BY <1>1, WithoutOf
<1>4. /\ f[0] = <<>>
      /\ \A k \in 1 .. n :
            f[k] = IF map[k][1] # name THEN Append(f[k - 1], map[k]) ELSE f[k - 1]
  BY <1>2 DEF AreOthersIn
<1>5. /\ g[0] = <<>>
      /\ \A k \in 1 .. n + 1 :
            g[k] = IF a[k][1] # name THEN Append(g[k - 1], a[k]) ELSE g[k - 1]
  BY <1>1, <1>3 DEF AreOthersIn
<1> DEFINE S == {k \in Nat : k <= n => g[k] = f[k]}
<1>6. 0 \in S
  BY <1>4, <1>5
<1>7. ASSUME NEW k \in Nat, k \in S PROVE k + 1 \in S
  <2> SUFFICES ASSUME k + 1 <= n PROVE g[k + 1] = f[k + 1]
    OBVIOUS
  <2>1. k + 1 \in 1 .. n /\ k + 1 \in 1 .. n + 1 /\ k + 1 - 1 = k /\ g[k] = f[k]
    BY <1>1, <1>7
  <2>2. a[k + 1] = map[k + 1]
    BY <1>1, <2>1
  <2>3. f[k + 1] = IF map[k + 1][1] # name THEN Append(f[k], map[k + 1]) ELSE f[k]
    BY <1>4, <2>1
  <2>4. g[k + 1] = IF a[k + 1][1] # name THEN Append(g[k], a[k + 1]) ELSE g[k]
    BY <1>5, <2>1
  <2> QED
    BY <2>1, <2>2, <2>3, <2>4, Zenon
<1> HIDE DEF S
<1>8. Nat \subseteq S
  BY <1>6, <1>7, SetInduction
<1>9. g[n] = f[n]
  BY <1>1, <1>8 DEF S
<1>10. n + 1 \in 1 .. n + 1 /\ n + 1 - 1 = n
  BY <1>1
<1>11. g[n + 1] = IF e[1] # name THEN Append(g[n], e) ELSE g[n]
  BY <1>1, <1>5, <1>10
<1> QED
  BY <1>1, <1>2, <1>3, <1>9, <1>11 DEF a

(* Appending to the second of two sequences appends to both together.      *)
LEMMA ConcatAppend ==
    ASSUME NEW E, NEW u \in Seq(E), NEW v \in Seq(E), NEW e \in E
    PROVE  /\ u \o v \in Seq(E) /\ Append(v, e) \in Seq(E)
           /\ u \o Append(v, e) = Append(u \o v, e)
OBVIOUS

(* The empty sequence adds nothing at either end.                          *)
LEMMA EmptyEnds ==
    ASSUME NEW E, NEW u \in Seq(E), NEW v, v = <<>>
    PROVE  u \o v = u /\ v \o u = u /\ v \in Seq(E)
OBVIOUS

(* The values of a name in two maps, one after the other.                  *)
LEMMA GetAllConcat ==
    ASSUME NEW E, NEW u \in Seq(E), NEW v \in Seq(E), NEW name
    PROVE  GetAll(u \o v, name) = GetAll(u, name) \o GetAll(v, name)
<1> DEFINE S == {w \in Seq(E) : GetAll(u \o w, name) = GetAll(u, name) \o GetAll(w, name)}
           V == ValuesOf(E)
           x == GetAll(u, name)
<1>1. x \in Seq(V)
  BY GetAllIn
<1>2. <<>> \in S
  <2> DEFINE w == <<>>
  <2>1. GetAll(w, name) = <<>>
    BY GetAllEmpty
  <2>2. w \in Seq(E) /\ u \o w = u
    BY EmptyEnds
  <2> HIDE DEF x
  <2>3. x \o <<>> = x
    BY <1>1, EmptyEnds
  <2>4. w \in S
    BY <2>1, <2>2, <2>3 DEF x
  <2> QED
    BY <2>4
<1>3. ASSUME NEW w \in Seq(E), NEW e \in E, w \in S PROVE Append(w, e) \in S
  <2> DEFINE y == GetAll(w, name)
             t == u \o w
             a == Append(w, e)
  <2>1. t \in Seq(E) /\ u \o a = Append(t, e) /\ a \in Seq(E)
    BY ConcatAppend
  <2>2. y \in Seq(V) /\ e[2] \in V
    BY GetAllIn DEF ValuesOf
  <2>3. GetAll(t, name) = x \o y
    BY <1>3
  <2>5. GetAll(a, name) = IF e[1] = name THEN Append(y, e[2]) ELSE y
    BY GetAllAppend
  <2> HIDE DEF t, x, y, a
  <2>4. GetAll(Append(t, e), name) = IF e[1] = name THEN Append(x \o y, e[2]) ELSE x \o y
    <3>1. GetAll(Append(t, e), name)
             = IF e[1] = name THEN Append(GetAll(t, name), e[2]) ELSE GetAll(t, name)
      BY <2>1, GetAllAppend
    <3> QED
      BY <2>3, <3>1, Zenon
  <2>6. x \o Append(y, e[2]) = Append(x \o y, e[2])
    BY <1>1, <2>2, ConcatAppend
  <2>7. GetAll(u \o a, name) = x \o GetAll(a, name)
    BY <2>1, <2>4, <2>5, <2>6, Zenon
  <2> QED
    BY <2>1, <2>7 DEF x, a
<1> HIDE DEF S, x
<1>4. Seq(E) \subseteq S
  BY <1>2, <1>3, ListInduction
<1> QED
  BY <1>4 DEF S

(* The other entries of two maps, one after the other.                     *)
LEMMA WithoutConcat ==
    ASSUME NEW E, NEW u \in Seq(E), NEW v \in Seq(E), NEW name
    PROVE  Without(u \o v, name) = Without(u, name) \o Without(v, name)
<1> DEFINE S == {w \in Seq(E) : Without(u \o w, name) = Without(u, name) \o Without(w, name)}
           x == Without(u, name)
<1>1. x \in Seq(E)
  BY WithoutIn
<1>2. <<>> \in S
  <2> DEFINE w == <<>>
  <2>1. Without(w, name) = <<>>
    BY WithoutEmpty
  <2>2. w \in Seq(E) /\ u \o w = u
    BY EmptyEnds
  <2> HIDE DEF x
  <2>3. x \o <<>> = x
    BY <1>1, EmptyEnds
  <2>4. w \in S
    BY <2>1, <2>2, <2>3 DEF x
  <2> QED
    BY <2>4
<1>3. ASSUME NEW w \in Seq(E), NEW e \in E, w \in S PROVE Append(w, e) \in S
  <2> DEFINE y == Without(w, name)
             t == u \o w
             a == Append(w, e)
  <2>1. t \in Seq(E) /\ u \o a = Append(t, e) /\ a \in Seq(E)
    BY ConcatAppend
  <2>2. y \in Seq(E)
    BY WithoutIn
  <2>3. Without(t, name) = x \o y
    BY <1>3
  <2>5. Without(a, name) = IF e[1] # name THEN Append(y, e) ELSE y
    BY WithoutAppend
  <2> HIDE DEF t, x, y, a
  <2>4. Without(Append(t, e), name) = IF e[1] # name THEN Append(x \o y, e) ELSE x \o y
    <3>1. Without(Append(t, e), name)
             = IF e[1] # name THEN Append(Without(t, name), e) ELSE Without(t, name)
      BY <2>1, WithoutAppend
    <3> QED
      BY <2>3, <3>1, Zenon
  <2>6. x \o Append(y, e) = Append(x \o y, e)
    BY <1>1, <2>2, ConcatAppend
  <2>7. Without(u \o a, name) = x \o Without(a, name)
    BY <2>1, <2>4, <2>5, <2>6, Zenon
  <2> QED
    BY <2>1, <2>7 DEF x, a
<1> HIDE DEF S, x
<1>4. Seq(E) \subseteq S
  BY <1>2, <1>3, ListInduction
<1> QED
  BY <1>4 DEF S

(* A map without entries of the name.                                      *)
Lacks(map, name) == \A k \in 1 .. Len(map) : map[k][1] # name

(* A longer map lacks the name when its new entry does too.                *)
LEMMA LacksAppend ==
    ASSUME NEW E, NEW map \in Seq(E), NEW e \in E, NEW name
    PROVE  Lacks(Append(map, e), name) <=> Lacks(map, name) /\ e[1] # name
<1> DEFINE a == Append(map, e)
           n == Len(map)
<1>1. /\ Len(a) = n + 1 /\ a[n + 1] = e /\ n \in Nat
      /\ \A k \in 1 .. n : a[k] = map[k]
  OBVIOUS
<1> HIDE DEF a
<1>2. ASSUME Lacks(a, name) PROVE Lacks(map, name) /\ e[1] # name
  <2>1. \A k \in 1 .. n + 1 : a[k][1] # name
    BY <1>1, <1>2 DEF Lacks
  <2>2. e[1] # name
    BY <1>1, <2>1
  <2>3. \A k \in 1 .. n : map[k][1] # name
    BY <1>1, <2>1
  <2> QED
    BY <2>2, <2>3 DEF Lacks
<1>3. ASSUME Lacks(map, name), e[1] # name PROVE Lacks(a, name)
  <2>1. ASSUME NEW k \in 1 .. n + 1 PROVE a[k][1] # name
    <3>1. CASE k = n + 1
      BY <1>1, <1>3, <3>1
    <3>2. CASE k # n + 1
      <4>1. k \in 1 .. n
        BY <1>1, <3>2
      <4> QED
        BY <1>1, <1>3, <4>1 DEF Lacks
    <3> QED
      BY <3>1, <3>2
  <2> QED
    BY <1>1, <2>1 DEF Lacks
<1> QED
  BY <1>2, <1>3 DEF a

(* Such a map has no value of the name, and all its entries are others.    *)
LEMMA LacksMeans ==
    ASSUME NEW E, NEW map \in Seq(E), NEW name, Lacks(map, name)
    PROVE  GetAll(map, name) = <<>> /\ Without(map, name) = map
<1> DEFINE S == {w \in Seq(E) : Lacks(w, name) =>
                                   GetAll(w, name) = <<>> /\ Without(w, name) = w}
<1>1. <<>> \in S
  <2> DEFINE w == <<>>
  <2>1. GetAll(w, name) = <<>> /\ Without(w, name) = <<>>
    BY GetAllEmpty, WithoutEmpty
  <2>2. w \in Seq(E)
    OBVIOUS
  <2>3. w \in S
    BY <2>1, <2>2
  <2> QED
    BY <2>3
<1>2. ASSUME NEW w \in Seq(E), NEW e \in E, w \in S PROVE Append(w, e) \in S
  <2>1. Append(w, e) \in Seq(E)
    OBVIOUS
  <2> SUFFICES ASSUME Lacks(Append(w, e), name)
               PROVE  GetAll(Append(w, e), name) = <<>> /\ Without(Append(w, e), name) = Append(w, e)
    BY <2>1
  <2>2. Lacks(w, name) /\ e[1] # name
    BY LacksAppend
  <2>3. GetAll(w, name) = <<>> /\ Without(w, name) = w
    BY <1>2, <2>2
  <2>4. GetAll(Append(w, e), name) = GetAll(w, name)
    BY <2>2, GetAllAppend
  <2>5. Without(Append(w, e), name) = Append(Without(w, name), e)
    BY <2>2, WithoutAppend
  <2> QED
    BY <2>3, <2>4, <2>5, Zenon
<1> HIDE DEF S
<1>3. map \in S
  BY <1>1, <1>2, ListInduction
<1> QED
  BY <1>3 DEF S

(* The other entries have none of the name among them.                     *)
LEMMA WithoutLacks ==
    ASSUME NEW E, NEW map \in Seq(E), NEW name
    PROVE  Lacks(Without(map, name), name)
<1> DEFINE S == {w \in Seq(E) : Lacks(Without(w, name), name)}
<1>1. <<>> \in S
  <2> DEFINE w == <<>>
  <2>1. Without(w, name) = <<>>
    BY WithoutEmpty
  <2>2. w \in Seq(E)
    OBVIOUS
  <2>3. w \in S
    BY <2>1, <2>2 DEF Lacks
  <2> QED
    BY <2>3
<1>2. ASSUME NEW w \in Seq(E), NEW e \in E, w \in S PROVE Append(w, e) \in S
  <2> DEFINE y == Without(w, name)
  <2>1. Append(w, e) \in Seq(E) /\ y \in Seq(E) /\ Lacks(y, name)
    BY <1>2, WithoutIn
  <2>2. Without(Append(w, e), name) = IF e[1] # name THEN Append(y, e) ELSE y
    BY WithoutAppend
  <2> HIDE DEF y
  <2>3. e[1] # name => Lacks(Append(y, e), name)
    BY <2>1, LacksAppend
  <2> QED
    BY <2>1, <2>2, <2>3
<1> HIDE DEF S
<1>3. map \in S
  BY <1>1, <1>2, ListInduction
<1> QED
  BY <1>3 DEF S

(* A map of one entry.                                                     *)
LEMMA OneEntry ==
    ASSUME NEW e, NEW name
    PROVE  /\ e[1] = name => GetAll(<<e>>, name) = <<e[2]>> /\ Without(<<e>>, name) = <<>>
           /\ e[1] # name => GetAll(<<e>>, name) = <<>> /\ Without(<<e>>, name) = <<e>>
<1> DEFINE w == <<>>
<1>1. w \in Seq({e}) /\ Append(w, e) = <<e>>
  OBVIOUS
<1>2. GetAll(w, name) = <<>> /\ Without(w, name) = <<>>
  BY GetAllEmpty, WithoutEmpty
<1>3. Append(<<>>, e[2]) = <<e[2]>>
  OBVIOUS
<1> HIDE DEF w
<1>4. GetAll(Append(w, e), name)
         = IF e[1] = name THEN Append(GetAll(w, name), e[2]) ELSE GetAll(w, name)
  BY <1>1, GetAllAppend, ZenonT(60)
<1>5. Without(Append(w, e), name)
         = IF e[1] # name THEN Append(Without(w, name), e) ELSE Without(w, name)
  BY <1>1, WithoutAppend, ZenonT(60)
<1> QED
  BY <1>1, <1>2, <1>3, <1>4, <1>5, Zenon DEF w

(* The entry that is replaced, and what stands before and after it.        *)
IsFirstOf(map, name, i) ==
    i \in DOMAIN map /\ map[i][1] = name /\ \A j \in 1 .. i - 1 : map[j][1] # name

(* A name that has a value has a first entry.                              *)
LEMMA FirstExists ==
    ASSUME NEW E, NEW map \in Seq(E), NEW name, GetAll(map, name) # <<>>
    PROVE  \E i : IsFirstOf(map, name, i)
<1>1. PICK k \in 1 .. Len(map) : map[k][1] = name
  BY LacksMeans DEF Lacks
<1> DEFINE P == {i \in Nat : \A j \in 1 .. Len(map) : j <= i => map[j][1] # name}
<1>2. 0 \in P
  OBVIOUS
<1>3. SUFFICES ASSUME ~ \E i : IsFirstOf(map, name, i) PROVE FALSE
  OBVIOUS
<1>4. ASSUME NEW i \in Nat, i \in P PROVE i + 1 \in P
  <2> SUFFICES ASSUME NEW j \in 1 .. Len(map), j <= i + 1, map[j][1] = name PROVE FALSE
    OBVIOUS
  <2>1. Len(map) \in Nat /\ DOMAIN map = 1 .. Len(map)
    BY EntriesOf
  <2>2. j = i + 1
    BY <1>4, <2>1
  <2>3. \A l \in 1 .. j - 1 : map[l][1] # name
    BY <1>4, <2>1, <2>2
  <2>4. IsFirstOf(map, name, j)
    BY <2>1, <2>3 DEF IsFirstOf
  <2> QED
    BY <1>3, <2>4
<1> HIDE DEF P
<1>5. Nat \subseteq P
  BY <1>2, <1>4, SetInduction
<1>6. k \in Nat /\ k <= k
  BY EntriesOf
<1>7. k \in P
  BY <1>5, <1>6
<1> QED
  BY <1>1, <1>6, <1>7 DEF P

(* A map is what stands before an entry, the entry, and what stands after. *)
LEMMA MapParts ==
    ASSUME NEW E, NEW map \in Seq(E), NEW i \in 1 .. Len(map)
    PROVE  LET before == SubSeq(map, 1, i - 1)
               after == SubSeq(map, i + 1, Len(map))
           IN  /\ before \in Seq(E) /\ after \in Seq(E) /\ map[i] \in E
               /\ Len(before) = i - 1 /\ (\A j \in 1 .. i - 1 : before[j] = map[j])
               /\ map = before \o <<map[i]>> \o after
<1> DEFINE before == SubSeq(map, 1, i - 1)
           after == SubSeq(map, i + 1, Len(map))
           n == Len(map)
<1>1. n \in Nat /\ i \in Nat /\ i >= 1 /\ i <= n /\ map[i] \in E
  OBVIOUS
<1>2. before \in Seq(E) /\ Len(before) = i - 1 /\ \A j \in 1 .. i - 1 : before[j] = map[j]
  OBVIOUS
<1>3. after \in Seq(E) /\ Len(after) = n - i /\ \A j \in 1 .. n - i : after[j] = map[i + j]
  OBVIOUS
<1> HIDE DEF before, after
<1> DEFINE x == before \o <<map[i]>>
<1>4. x \in Seq(E) /\ Len(x) = i /\ x[i] = map[i] /\ \A j \in 1 .. i - 1 : x[j] = before[j]
  BY <1>1, <1>2
<1> HIDE DEF x
<1> DEFINE y == x \o after
<1>5. /\ y \in Seq(E) /\ Len(y) = n /\ (\A j \in 1 .. i : y[j] = x[j])
      /\ \A j \in i + 1 .. n : y[j] = after[j - i]
  BY <1>1, <1>3, <1>4
<1> HIDE DEF y
<1>6. ASSUME NEW j \in 1 .. n PROVE y[j] = map[j]
  <2>1. CASE j < i
    <3>1. j \in 1 .. i /\ j \in 1 .. i - 1
      BY <1>1, <2>1
    <3> QED
      BY <1>2, <1>4, <1>5, <3>1
  <2>2. CASE j = i
    BY <1>1, <1>4, <1>5, <2>2
  <2>3. CASE j > i
    <3>1. j \in i + 1 .. n /\ j - i \in 1 .. n - i /\ i + (j - i) = j
      BY <1>1, <2>3
    <3> QED
      BY <1>3, <1>5, <3>1
  <2> QED
    BY <1>1, <2>1, <2>2, <2>3
<1>7. y = map
  BY <1>1, <1>5, <1>6
<1> QED
  BY <1>1, <1>2, <1>3, <1>7 DEF x, y, before, after, n

(* The values of a name and the other entries of maps in a row.            *)
Adds(u, v, name) ==
    /\ GetAll(u \o v, name) = GetAll(u, name) \o GetAll(v, name)
    /\ Without(u \o v, name) = Without(u, name) \o Without(v, name)

(* The same for three.                                                     *)
AddsThree(u, v, w, name) ==
    /\ GetAll(u \o v \o w, name) = GetAll(u, name) \o GetAll(v, name) \o GetAll(w, name)
    /\ Without(u \o v \o w, name) = Without(u, name) \o Without(v, name) \o Without(w, name)

(* Two maps in a row have the values and the others of both.               *)
LEMMA InTwo ==
    ASSUME NEW E, NEW u \in Seq(E), NEW v \in Seq(E), NEW name
    PROVE  Adds(u, v, name)
<1>1. GetAll(u \o v, name) = GetAll(u, name) \o GetAll(v, name)
  BY GetAllConcat
<1>2. Without(u \o v, name) = Without(u, name) \o Without(v, name)
  BY WithoutConcat
<1> QED
  BY <1>1, <1>2, Zenon DEF Adds

(* So do three.                                                            *)
LEMMA InThree ==
    ASSUME NEW E, NEW u \in Seq(E), NEW v \in Seq(E), NEW w \in Seq(E), NEW name
    PROVE  AddsThree(u, v, w, name)
<1> DEFINE x == u \o v
<1>1. x \in Seq(E)
  OBVIOUS
<1>2. Adds(u, v, name)
  BY InTwo
<1> HIDE DEF x
<1>3. Adds(x, w, name)
  BY <1>1, InTwo
<1> QED
  BY <1>2, <1>3, Zenon DEF x, Adds, AddsThree

(* insert replaces what a name had by one value and keeps the others.      *)
LEMMA InsertOne ==
    ASSUME NEW E, NEW map \in Seq(E), NEW name, NEW value, <<name, value>> \in E,
           GetAll(map, name) # <<>>
    PROVE  /\ HeaderInsert(map, name, value) \in Seq(E)
           /\ GetAll(HeaderInsert(map, name, value), name) = <<value>>
           /\ Without(HeaderInsert(map, name, value), name) = Without(map, name)
<1> DEFINE i == CHOOSE i \in DOMAIN map :
                    map[i][1] = name /\ \A j \in 1 .. i - 1 : map[j][1] # name
           b == SubSeq(map, 1, i - 1)
           a == SubSeq(map, i + 1, Len(map))
           d == Without(a, name)
           e == <<name, value>>
           c == <<e>>
<1>1. HeaderInsert(map, name, value) = b \o c \o d
  BY DEF HeaderInsert
<1>2. IsFirstOf(map, name, i)
  <2>1. \E k \in DOMAIN map : map[k][1] = name /\ \A j \in 1 .. k - 1 : map[j][1] # name
    BY FirstExists DEF IsFirstOf
  <2> QED
    BY <2>1 DEF IsFirstOf
<1> HIDE DEF i
<1>3. i \in 1 .. Len(map) /\ map[i][1] = name /\ \A j \in 1 .. i - 1 : map[j][1] # name
  BY <1>2, EntriesOf DEF IsFirstOf
<1>4. /\ b \in Seq(E) /\ a \in Seq(E) /\ map[i] \in E
      /\ Len(b) = i - 1 /\ (\A j \in 1 .. i - 1 : b[j] = map[j])
      /\ map = b \o <<map[i]>> \o a
  BY <1>3, MapParts
<1> HIDE DEF b, a
<1>5. Lacks(b, name)
  BY <1>3, <1>4 DEF Lacks
<1>6. GetAll(b, name) = <<>> /\ Without(b, name) = b
  BY <1>4, <1>5, LacksMeans
<1>7. d \in Seq(E) /\ Lacks(d, name)
  BY <1>4, WithoutIn, WithoutLacks
<1>8. GetAll(d, name) = <<>> /\ Without(d, name) = d
  <2> HIDE DEF d
  <2> QED
    BY <1>7, LacksMeans
<1>9. /\ c \in Seq(E) /\ e[1] = name /\ e[2] = value
      /\ GetAll(c, name) = <<e[2]>> /\ Without(c, name) = <<>>
  <2>1. e[1] = name /\ e[2] = value /\ e \in E
    OBVIOUS
  <2> HIDE DEF e
  <2> QED
    BY <2>1, OneEntry
<1> DEFINE m == map[i]
           q == <<m>>
<1>10. m[1] = name /\ m \in E /\ map = b \o q \o a
  BY <1>3, <1>4
<1> HIDE DEF m
<1>11. q \in Seq(E) /\ Without(q, name) = <<>>
  BY <1>10, OneEntry
<1> HIDE DEF q, c, e
<1>12. Without(map, name) = b \o <<>> \o d
  <2>1. Without(b \o q \o a, name) = Without(b, name) \o Without(q, name) \o Without(a, name)
    <3>1. AddsThree(b, q, a, name)
      BY <1>4, <1>11, InThree
    <3> QED
      BY <3>1, Zenon DEF AddsThree
  <2> QED
    BY <1>6, <1>10, <1>11, <2>1, Zenon DEF d
<1> HIDE DEF d
<1>13. /\ GetAll(b \o c \o d, name) = <<>> \o <<value>> \o <<>>
       /\ Without(b \o c \o d, name) = b \o <<>> \o d
  <2>1. /\ GetAll(b \o c \o d, name) = GetAll(b, name) \o GetAll(c, name) \o GetAll(d, name)
        /\ Without(b \o c \o d, name) = Without(b, name) \o Without(c, name) \o Without(d, name)
    <3>1. AddsThree(b, c, d, name)
      BY <1>4, <1>7, <1>9, InThree
    <3> QED
      BY <3>1, Zenon DEF AddsThree
  <2> QED
    BY <1>6, <1>8, <1>9, <2>1, Zenon
<1>14. <<>> \o <<value>> \o <<>> = <<value>>
  OBVIOUS
<1>15. b \o c \o d \in Seq(E)
  BY <1>4, <1>7, <1>9
<1> QED
  BY <1>1, <1>12, <1>13, <1>14, <1>15, Zenon

(* append gives a name that had no value its only one.                     *)
LEMMA AppendOne ==
    ASSUME NEW E, NEW map \in Seq(E), NEW name, NEW value, <<name, value>> \in E,
           GetAll(map, name) = <<>>
    PROVE  /\ HeaderAppend(map, name, value) \in Seq(E)
           /\ GetAll(HeaderAppend(map, name, value), name) = <<value>>
           /\ Without(HeaderAppend(map, name, value), name) = Without(map, name)
<1> DEFINE e == <<name, value>>
<1>1. e \in E /\ e[1] = name /\ e[2] = value /\ HeaderAppend(map, name, value) = Append(map, e)
  BY DEF HeaderAppend
<1> HIDE DEF e
<1>2. GetAll(Append(map, e), name)
         = IF e[1] = name THEN Append(GetAll(map, name), e[2]) ELSE GetAll(map, name)
  BY <1>1, GetAllAppend
<1>3. Without(Append(map, e), name)
         = IF e[1] # name THEN Append(Without(map, name), e) ELSE Without(map, name)
  BY <1>1, WithoutAppend
<1>4. Append(<<>>, value) = <<value>>
  OBVIOUS
<1>5. Append(map, e) \in Seq(E)
  BY <1>1
<1> QED
  BY <1>1, <1>2, <1>3, <1>4, <1>5, Zenon

(* A single value that is put under a name is all that the name then has.  *)
LEMMA ExtendOne ==
    ASSUME NEW E, NEW map \in Seq(E), NEW name, NEW value, <<name, value>> \in E
    PROVE  /\ ExtendEntry(map, name, <<value>>) \in Seq(E)
           /\ GetAll(ExtendEntry(map, name, <<value>>), name) = <<value>>
           /\ Without(ExtendEntry(map, name, <<value>>), name) = Without(map, name)
<1> DEFINE first == IF GetAll(map, name) # <<>> THEN HeaderInsert(map, name, value)
                    ELSE HeaderAppend(map, name, value)
           v == <<value>>
           rest == [i \in 1 .. Len(v) - 1 |-> <<name, v[i + 1]>>]
<1>1. v # <<>> /\ v[1] = value /\ Len(v) = 1
  OBVIOUS
<1> HIDE DEF v
<1>2. ExtendEntry(map, name, v) = first \o rest
  BY <1>1 DEF ExtendEntry
<1>3. rest = <<>>
  BY <1>1
<1> HIDE DEF rest
<1>4. /\ first \in Seq(E) /\ GetAll(first, name) = <<value>>
      /\ Without(first, name) = Without(map, name)
  <2>1. CASE GetAll(map, name) # <<>>
    BY <2>1, InsertOne
  <2>2. CASE GetAll(map, name) = <<>>
    BY <2>2, AppendOne
  <2> QED
    BY <2>1, <2>2
<1> HIDE DEF first
<1>5. first \o rest = first
  BY <1>3, <1>4, EmptyEnds
<1>6. ExtendEntry(map, name, v) = first
  BY <1>2, <1>5, Zenon
<1> QED
  BY <1>4, <1>6, Zenon DEF v

-----------------------------------------------------------------------------
(* The headers that are numbers (header/types/content_length.rs, cseq.rs). *)

(* What parse reads is a number of the type that is parsed to.             *)
LEMMA ParsedIsNumber ==
    ASSUME NEW E, NEW s \in Seq(E), NEW max \in Nat, IsOk(ParseUnsigned(s, max))
    PROVE  ParseUnsigned(s, max).value \in 0 .. max
<1> DEFINE cut(u) == IF Len(u) > 1 /\ u[1] = "+" THEN Tail(u) ELSE u
           bad(u) == \E i \in DOMAIN u : ~IsDigit(u[i])
           number(u) == LET value[k \in 0 .. Len(u)] ==
                                IF k = 0 THEN 0 ELSE value[k - 1] * 10 + Digit[u[k]]
                        IN  value[Len(u)]
           t == cut(s)
<1>1. \A u : ParseUnsigned(u, max) = IF u = <<>> THEN Err("Empty")
                                     ELSE IF bad(cut(u)) THEN Err("InvalidDigit")
                                     ELSE IF number(cut(u)) > max THEN Err("Overflow")
                                     ELSE Ok(number(cut(u)))
  BY Zenon DEF ParseUnsigned
<1> HIDE DEF number
<1>2. s # <<>> /\ ~bad(t)
  <2>1. ParseUnsigned(s, max) = IF s = <<>> THEN Err("Empty")
                                ELSE IF bad(t) THEN Err("InvalidDigit")
                                ELSE IF number(t) > max THEN Err("Overflow")
                                ELSE Ok(number(t))
    BY <1>1
  <2> HIDE DEF bad, t
  <2>2. Err("Empty").tag # "Ok" /\ Err("InvalidDigit").tag # "Ok"
    BY DEF Err
  <2> QED
    BY <2>1, <2>2, Zenon DEF IsOk
<1>3. t \in Seq(E) /\ Len(t) >= 1
  BY <1>2
<1>4. t \in Digits
  <2> HIDE DEF t
  <2>1. Len(t) \in Nat /\ DOMAIN t = 1 .. Len(t) /\ t = [k \in 1 .. Len(t) |-> t[k]]
    BY <1>3
  <2>2. \A k \in 1 .. Len(t) : t[k] \in DOMAIN Digit
    BY <1>2, <2>1 DEF IsDigit
  <2> HIDE DEF bad
  <2> QED
    BY <2>1, <2>2 DEF Digits
<1>5. cut(t) = t
  <2> HIDE DEF t
  <2>1. t[1] \in DOMAIN Digit
    BY <1>3, <1>4 DEF Digits
  <2>2. "+" \notin DOMAIN Digit
    BY DEF Digit
  <2> QED
    BY <2>1, <2>2
<1> HIDE DEF t, bad
<1>6. t # <<>>
  BY <1>3
<1>7. ParseUnsigned(t, max) = ParseUnsigned(s, max)
  <2>1. cut(s) = t
    BY DEF t
  <2> HIDE DEF cut
  <2> QED
    BY <1>1, <1>2, <1>5, <1>6, <2>1, Zenon
<1>8. PICK f : /\ IsValue(f, t)
               /\ ParseUnsigned(t, max) = IF f[Len(t)] > max THEN Err("Overflow")
                                          ELSE Ok(f[Len(t)])
  BY <1>3, <1>4, ParseIs
<1>9. f[Len(t)] \in Nat
  <2>1. Len(t) \in Nat /\ \A k \in 1 .. Len(t) : Digit[t[k]] \in Nat
    <3>1. \A k \in 1 .. Len(t) : t[k] \in DOMAIN Digit
      BY <1>4 DEF Digits
    <3>2. \A d \in DOMAIN Digit : Digit[d] \in Nat
      BY DEF Digit
    <3> QED
      BY <1>3, <3>1, <3>2
  <2>2. f[0] = 0 /\ \A k \in 1 .. Len(t) : f[k] = f[k - 1] * 10 + Digit[t[k]]
    BY <1>8 DEF IsValue
  <2> DEFINE S == {k \in Nat : k <= Len(t) => f[k] \in Nat}
  <2>3. 0 \in S
    BY <2>2
  <2>4. ASSUME NEW k \in Nat, k \in S PROVE k + 1 \in S
    <3> SUFFICES ASSUME k + 1 <= Len(t) PROVE f[k + 1] \in Nat
      OBVIOUS
    <3>1. k + 1 \in 1 .. Len(t) /\ k + 1 - 1 = k /\ f[k] \in Nat
      BY <2>1, <2>4
    <3>2. f[k + 1] = f[k] * 10 + Digit[t[k + 1]]
      BY <2>2, <3>1
    <3>3. Digit[t[k + 1]] \in Nat
      BY <2>1, <3>1
    <3> QED
      BY <3>1, <3>2, <3>3
  <2> HIDE DEF S
  <2>5. Nat \subseteq S
    BY <2>3, <2>4, SetInduction
  <2> QED
    BY <2>1, <2>5 DEF S
<1>10. ~(f[Len(t)] > max)
  BY <1>7, <1>8 DEF IsOk, Err
<1>11. ParseUnsigned(s, max).value = f[Len(t)]
  BY <1>7, <1>8, <1>10 DEF Ok
<1> QED
  BY <1>9, <1>10, <1>11

(* Digits are a valid header value.                                        *)
LEMMA NumbersAreFolded ==
    ASSUME NEW n \in Nat
    PROVE  Folded(FormatUnsigned(n))
<1> DEFINE s == FormatUnsigned(n)
<1>1. s \in Digits /\ Len(s) \in Nat /\ \A k \in 1 .. Len(s) : s[k] \in DOMAIN Digit
  BY FormatText
<1> HIDE DEF s
<1>2. DOMAIN s = 1 .. Len(s)
  BY <1>1 DEF Digits
<1>3. CR \notin DOMAIN Digit /\ LF \notin DOMAIN Digit
      /\ CTL \notin DOMAIN Digit /\ NUTF \notin DOMAIN Digit
  BY DEF CR, LF, CTL, NUTF, Digit
<1>4. Folded(s)
  BY <1>1, <1>2, <1>3 DEF Folded
<1> QED
  BY <1>4 DEF s

(* Every typed header is encoded to a single value.                        *)
LEMMA EncodedOnce ==
    ASSUME NEW name \in TypedNames, NEW header
    PROVE  \E value : TypedEncode(name, header) = <<value>>
<1>1. CASE name = "Content-Length"
  <2>1. TypedEncode(name, header) = <<FormatUnsigned(header)>>
    BY <1>1 DEF TypedEncode, ContentLengthEncode
  <2> QED
    BY <2>1
<1>2. CASE name = "CSeq"
  <2>1. TypedEncode(name, header) = <<FormatUnsigned(header)>>
    BY <1>2 DEF TypedEncode, CSeqEncode
  <2> QED
    BY <2>1
<1>3. CASE name = "Session"
  <2>1. TypedEncode(name, header) = SessionEncode(header)
    BY <1>3 DEF TypedEncode
  <2> DEFINE long == header.id \o <<";", SP, "T", SP, "=", SP>> \o FormatUnsigned(header.timeout)
  <2>2. SessionEncode(header) = <<header.id>> \/ SessionEncode(header) = <<long>>
    BY DEF SessionEncode
  <2> HIDE DEF long
  <2> QED
    BY <2>1, <2>2
<1>4. CASE name = "Public"
  <2>1. TypedEncode(name, header) = <<JoinList(header)>>
    BY <1>4 DEF TypedEncode, PublicEncode
  <2> QED
    BY <2>1
<1>5. CASE name = "Accept-Ranges"
  <2>1. TypedEncode(name, header) = <<JoinList(header)>>
    BY <1>5 DEF TypedEncode, AcceptRangesEncode
  <2> QED
    BY <2>1
<1> QED
  BY <1>1, <1>2, <1>3, <1>4, <1>5 DEF TypedNames

(* HeaderMap::typed_insert: under its name the map then holds the encoded  *)
(* header and nothing else, however many values it held there before, and  *)
(* the entries of the other names are as they were, in their order.        *)
THEOREM TypedInsertReplaces ==
    ASSUME NEW Pairs, NEW map \in Seq(Pairs), NEW name \in TypedNames, NEW header
    PROVE  /\ GetAll(TypedInsert(map, name, header), name) = TypedEncode(name, header)
           /\ Without(TypedInsert(map, name, header), name) = Without(map, name)
<1>1. PICK value : TypedEncode(name, header) = <<value>>
  BY EncodedOnce
<1> DEFINE entry == <<name, value>>
           E == Pairs \cup {entry}
<1>2. map \in Seq(E) /\ entry \in E
  OBVIOUS
<1> HIDE DEF E
<1>3. /\ GetAll(ExtendEntry(map, name, <<value>>), name) = <<value>>
      /\ Without(ExtendEntry(map, name, <<value>>), name) = Without(map, name)
  BY <1>2, ExtendOne
<1> QED
  BY <1>1, <1>3, Zenon DEF TypedInsert

(* The bounds of the two headers that are numbers.                         *)
NumberNames == {"Content-Length", "CSeq"}
TypeMax(name) == IF name = "CSeq" THEN MaxU32 ELSE MaxUsize
HeaderMax(name) == IF name = "CSeq" THEN MaxCSeqNumber ELSE MaxContentLength

(* They are natural numbers.                                               *)
LEMMA NumberMaxima ==
    ASSUME NEW name \in NumberNames
    PROVE  TypeMax(name) \in Nat /\ HeaderMax(name) \in Nat
BY HeadersAssumption DEF TypeMax, HeaderMax

(* Both are decoded the same way, each within its bounds.                  *)
LEMMA NumberDecode ==
    ASSUME NEW name \in NumberNames, NEW values
    PROVE  TypedDecode(name, values)
              = CASE Len(values) = 0 -> None
                  [] Len(values) > 1 -> Err("MoreThanOneHeader")
                  [] OTHER -> BoundedNumber(values[1], TypeMax(name), HeaderMax(name))
<1>1. CASE name = "Content-Length"
  <2>1. TypedDecode(name, values) = ContentLengthDecode(values)
    BY <1>1 DEF TypedDecode
  <2>2. TypeMax(name) = MaxUsize /\ HeaderMax(name) = MaxContentLength
    BY <1>1 DEF TypeMax, HeaderMax
  <2> QED
    BY <2>1, <2>2 DEF ContentLengthDecode, DecodeSingle
<1>2. CASE name = "CSeq"
  <2>1. TypedDecode(name, values) = CSeqDecode(values)
    BY <1>2 DEF TypedDecode
  <2>2. TypeMax(name) = MaxU32 /\ HeaderMax(name) = MaxCSeqNumber
    BY <1>2 DEF TypeMax, HeaderMax
  <2> QED
    BY <2>1, <2>2 DEF CSeqDecode, DecodeSingle
<1> QED
  BY <1>1, <1>2 DEF NumberNames

(* Both are encoded as their digits, and stand for themselves.             *)
LEMMA NumberEncode ==
    ASSUME NEW name \in NumberNames, NEW n
    PROVE  TypedEncode(name, n) = <<FormatUnsigned(n)>> /\ name \in TypedNames
           /\ Meaning(name, n) = n
<1>1. TypedEncode(name, n) = <<FormatUnsigned(n)>>
  BY DEF TypedEncode, ContentLengthEncode, CSeqEncode, NumberNames
<1> QED
  BY <1>1 DEF NumberNames, TypedNames, Meaning

(* A number of the header, formatted, is decoded as itself.                *)
LEMMA FormattedIsDecoded ==
    ASSUME NEW name \in NumberNames, NEW n \in Nat, n <= TypeMax(name), n <= HeaderMax(name)
    PROVE  TypedDecode(name, <<FormatUnsigned(n)>>) = Some(n)
<1> DEFINE s == FormatUnsigned(n)
           v == <<s>>
           max == TypeMax(name)
           top == HeaderMax(name)
<1>1. max \in Nat /\ top \in Nat
  BY NumberMaxima
<1>2. ParseUnsigned(s, max) = Ok(n)
  <2>1. ParseUnsigned(s, max) = IF n > max THEN Err("Overflow") ELSE Ok(n)
    <3> HIDE DEF max
    <3> QED
      BY <1>1, NumbersAreParsed
  <2>2. ~(n > max)
    BY <1>1
  <2> QED
    BY <2>1, <2>2
<1>3. Len(v) = 1 /\ v[1] = s
  OBVIOUS
<1> HIDE DEF v
<1>4. TypedDecode(name, v) = BoundedNumber(s, max, top)
  <2>1. TypedDecode(name, v) = CASE Len(v) = 0 -> None
                                 [] Len(v) > 1 -> Err("MoreThanOneHeader")
                                 [] OTHER -> BoundedNumber(v[1], max, top)
    BY NumberDecode
  <2> HIDE DEF s, max, top
  <2> QED
    BY <1>3, <2>1
<1>5. ~(n > top) /\ n <= top
  BY <1>1
<1> HIDE DEF s, max, top
<1>6. IsOk(Ok(n)) /\ Ok(n).value = n
  BY DEF IsOk, Ok
<1>7. BoundedNumber(s, max, top) = Some(n)
  BY <1>2, <1>5, <1>6 DEF BoundedNumber
<1> QED
  BY <1>4, <1>7, Zenon DEF v, s

(* A header that was decoded is there, and is the one inside.              *)
LEMMA SomeIsPresent ==
    ASSUME NEW n
    PROVE  IsPresent(Some(n)) /\ IsOk(Some(n)) /\ Some(n).value.value = n
BY DEF IsPresent, IsOk, Some, Ok

(* The only value of a list.                                               *)
LEMMA OneIn ==
    ASSUME NEW S, NEW w \in Seq(S), Len(w) = 1
    PROVE  w[1] \in S
OBVIOUS

(* What InsertedIsRead takes of a header that is decoded again, and of one *)
(* that is refused.                                                        *)
LEMMA ReadAsInserted ==
    ASSUME NEW map, NEW name, NEW header, NEW r,
           Decodable(name, header), Meaning(name, r) = Meaning(name, header),
           TypedTryGet(TypedInsert(map, name, header), name) = Some(r),
           Without(TypedInsert(map, name, header), name) = Without(map, name)
    PROVE  InsertedIsRead(map, name, header)
<1> DEFINE after == TypedInsert(map, name, header)
           read == TypedTryGet(after, name)
<1>1. read = Some(r) /\ Without(after, name) = Without(map, name)
  OBVIOUS
<1>2. IsOk(read) /\ IsPresent(read) /\ read.value.value = r
  BY <1>1, SomeIsPresent, Zenon
<1>3. TypedGet(after, name) = read
  BY <1>2, Zenon DEF TypedGet
<1> HIDE DEF after, read
<1>4. /\ IsOk(read) <=> Decodable(name, header)
      /\ Decodable(name, header) =>
            IsPresent(read) /\ Meaning(name, read.value.value) = Meaning(name, header)
      /\ TypedGet(after, name) = IF Decodable(name, header) THEN read ELSE None
      /\ Without(after, name) = Without(map, name)
  BY <1>1, <1>2, <1>3, Zenon
<1> QED
  BY <1>4, Zenon DEF InsertedIsRead, after, read

LEMMA RefusedAsInserted ==
    ASSUME NEW map, NEW name, NEW header, NEW e,
           ~Decodable(name, header),
           TypedTryGet(TypedInsert(map, name, header), name) = Err(e),
           Without(TypedInsert(map, name, header), name) = Without(map, name)
    PROVE  InsertedIsRead(map, name, header)
<1> DEFINE after == TypedInsert(map, name, header)
           read == TypedTryGet(after, name)
<1>1. read = Err(e) /\ Without(after, name) = Without(map, name)
  OBVIOUS
<1>2. ~IsOk(Err(e))
  BY DEF IsOk, Err
<1>3. ~IsOk(read)
  BY <1>1, <1>2, Zenon
<1>4. TypedGet(after, name) = None
  BY <1>3, Zenon DEF TypedGet
<1> HIDE DEF after, read
<1>5. /\ IsOk(read) <=> Decodable(name, header)
      /\ Decodable(name, header) =>
            IsPresent(read) /\ Meaning(name, read.value.value) = Meaning(name, header)
      /\ TypedGet(after, name) = IF Decodable(name, header) THEN read ELSE None
      /\ Without(after, name) = Without(map, name)
  BY <1>1, <1>3, <1>4, Zenon
<1> QED
  BY <1>5, Zenon DEF InsertedIsRead, after, read

(* Number headers: insert then read.                                       *)
LEMMA NumbersAreRead ==
    ASSUME NEW Pairs, NEW map \in Seq(Pairs), NEW name \in NumberNames,
           NEW n \in Nat, n <= TypeMax(name), n <= HeaderMax(name)
    PROVE  InsertedIsRead(map, name, n)
<1> DEFINE after == TypedInsert(map, name, n)
<1>1. TypedEncode(name, n) = <<FormatUnsigned(n)>> /\ name \in TypedNames /\ Meaning(name, n) = n
  BY NumberEncode
<1>2. GetAll(after, name) = TypedEncode(name, n) /\ Without(after, name) = Without(map, name)
  BY <1>1, TypedInsertReplaces
<1> HIDE DEF after
<1>3. TypedTryGet(after, name) = Some(n)
  <2>1. TypedDecode(name, <<FormatUnsigned(n)>>) = Some(n)
    BY FormattedIsDecoded
  <2> QED
    BY <1>1, <1>2, <2>1, Zenon DEF TypedTryGet
<1>4. Decodable(name, n)
  BY DEF Decodable, NumberNames
<1> QED
  BY <1>2, <1>3, <1>4, ReadAsInserted, Zenon DEF after

(* A number that was decoded is encoded to digits that decode to it.       *)
LEMMA NumbersAreEncodable ==
    ASSUME NEW Letters, NEW values \in Seq(Seq(Letters)), NEW name \in NumberNames
    PROVE  DecodedIsEncodable(name, values)
<1> DEFINE header == TypedDecode(name, values)
           again == TypedEncode(name, header.value.value)
           n == header.value.value
           v == values[1]
           number == ParseUnsigned(v, TypeMax(name))
<1> SUFFICES ASSUME IsPresent(header)
             PROVE  /\ \A i \in DOMAIN again : Folded(again[i])
                    /\ IsPresent(TypedDecode(name, again))
                    /\ Meaning(name, TypedDecode(name, again).value.value) = Meaning(name, n)
  BY DEF DecodedIsEncodable
<1>1. ~IsPresent(None) /\ \A e : ~IsPresent(Err(e))
  BY DEF IsPresent, None, IsOk, Ok, Err
<1>2. header = CASE Len(values) = 0 -> None
                 [] Len(values) > 1 -> Err("MoreThanOneHeader")
                 [] OTHER -> BoundedNumber(v, TypeMax(name), HeaderMax(name))
  BY NumberDecode
<1> HIDE DEF header
<1>3. Len(values) = 1
  <2>1. Len(values) \in Nat
    OBVIOUS
  <2>2. Len(values) # 0
    BY <1>1, <1>2
  <2>3. ~(Len(values) > 1)
    BY <1>1, <1>2
  <2> QED
    <3>1. \A k \in Nat : k # 0 /\ ~(k > 1) => k = 1
      OBVIOUS
    <3> QED
      BY <2>1, <2>2, <2>3, <3>1, Zenon
<1>4. v \in Seq(Letters)
  BY <1>3, OneIn, Zenon
<1>5. header = BoundedNumber(v, TypeMax(name), HeaderMax(name))
  BY <1>2, <1>3
<1> HIDE DEF v, n
<1>6. /\ IsOk(number) /\ ~(number.value > HeaderMax(name)) /\ header = Some(number.value)
  <2>1. header = CASE ~IsOk(number) -> Err(number.value)
                   [] IsOk(number) /\ number.value > HeaderMax(name) -> Err("ExceedsMaximumLength")
                   [] OTHER -> Some(number.value)
    BY <1>5 DEF BoundedNumber
  <2> HIDE DEF number
  <2>2. IsOk(number)
    BY <1>1, <2>1
  <2>3. ~(number.value > HeaderMax(name))
    BY <1>1, <2>1, <2>2
  <2> QED
    BY <2>1, <2>2, <2>3
<1>7. number.value \in 0 .. TypeMax(name)
  BY <1>4, <1>6, NumberMaxima, ParsedIsNumber
<1>8. n = number.value
  BY <1>6, SomeIsPresent, Zenon DEF n
<1> HIDE DEF number
<1>9. n \in Nat /\ n <= TypeMax(name) /\ n <= HeaderMax(name)
  BY <1>6, <1>7, <1>8, NumberMaxima
<1>10. again = <<FormatUnsigned(n)>>
  BY NumberEncode DEF n
<1> HIDE DEF again
<1>11. \A i \in DOMAIN again : Folded(again[i])
  BY <1>9, <1>10, NumbersAreFolded
<1>12. TypedDecode(name, again) = Some(n)
  <2>1. TypedDecode(name, <<FormatUnsigned(n)>>) = Some(n)
    BY <1>9, FormattedIsDecoded
  <2> QED
    BY <1>10, <2>1, Zenon
<1> QED
  BY <1>11, <1>12, SomeIsPresent, Zenon

-----------------------------------------------------------------------------
(* What trim_whitespace takes away (syntax.rs).                            *)

(* Induction from the top of an interval down, and from its bottom up.     *)
LEMMA DownInduction ==
    ASSUME NEW n \in Nat, NEW S,
           \A k \in 1 .. n : (\A j \in k + 1 .. n : j \in S) => k \in S
    PROVE  1 .. n \subseteq S
<1> DEFINE T == {m \in Nat : \A j \in 1 .. n : j > n - m => j \in S}
<1>1. 0 \in T
  OBVIOUS
<1>2. ASSUME NEW m \in Nat, m \in T PROVE m + 1 \in T
  <2> SUFFICES ASSUME NEW j \in 1 .. n, j > n - (m + 1) PROVE j \in S
    OBVIOUS
  <2>1. \A i \in j + 1 .. n : i \in 1 .. n /\ i > n - m
    OBVIOUS
  <2>2. \A i \in j + 1 .. n : i \in S
    BY <1>2, <2>1
  <2> QED
    BY <2>2
<1> HIDE DEF T
<1>3. Nat \subseteq T
  BY <1>1, <1>2, SetInduction
<1>4. ASSUME NEW j \in 1 .. n PROVE j \in S
  <2>1. n \in T /\ j > n - n
    BY <1>3
  <2> QED
    BY <2>1 DEF T
<1> QED
  BY <1>4

(* The same from its bottom up.                                            *)
LEMMA UpInduction ==
    ASSUME NEW n \in Nat, NEW S,
           \A k \in 0 .. n : (\A j \in 0 .. k - 1 : j \in S) => k \in S
    PROVE  0 .. n \subseteq S
<1> DEFINE T == {m \in Nat : \A j \in 0 .. n : j < m => j \in S}
<1>1. 0 \in T
  OBVIOUS
<1>2. ASSUME NEW m \in Nat, m \in T PROVE m + 1 \in T
  <2> SUFFICES ASSUME NEW j \in 0 .. n, j < m + 1 PROVE j \in S
    OBVIOUS
  <2>1. \A i \in 0 .. j - 1 : i \in 0 .. n /\ i < m
    OBVIOUS
  <2>2. \A i \in 0 .. j - 1 : i \in S
    BY <1>2, <2>1
  <2> QED
    BY <2>2
<1> HIDE DEF T
<1>3. Nat \subseteq T
  BY <1>1, <1>2, SetInduction
<1>4. ASSUME NEW j \in 0 .. n PROVE j \in S
  <2>1. n + 1 \in T /\ j < n + 1
    BY <1>3
  <2> QED
    BY <2>1 DEF T
<1> QED
  BY <1>4

-----------------------------------------------------------------------------
(* Where a loop that strips white space stops: C holds the positions of    *)
(* line breaks, B those of blanks.                                         *)
SkipRule(f, n, C, B) ==
    \A k \in 1 .. n + 1 : f[k] = IF k \in C THEN f[k + 2] ELSE IF k \in B THEN f[k + 1] ELSE k

(* The loop from the left stops, whatever the white space.                 *)
LEMMA SkipExists ==
    ASSUME NEW n \in Nat, NEW C, NEW B, C \subseteq 1 .. n - 1, B \subseteq 1 .. n
    PROVE  \E f : f \in [1 .. n + 1 -> 1 .. n + 1] /\ SkipRule(f, n, C, B)
<1> DEFINE Rule(f, p) == \A k \in p .. n + 1 :
                            f[k] = IF k \in C THEN f[k + 2] ELSE IF k \in B THEN f[k + 1] ELSE k
           IsFrom(f, p) == f \in [p .. n + 1 -> 1 .. n + 1] /\ Rule(f, p)
           S == {m \in Nat : m <= n => \E f : IsFrom(f, n + 1 - m)}
<1>1. 0 \in S
  <2> DEFINE f == [k \in n + 1 .. n + 1 |-> n + 1]
  <2>1. f \in [n + 1 .. n + 1 -> 1 .. n + 1]
    OBVIOUS
  <2>2. n + 1 \notin C /\ n + 1 \notin B
    OBVIOUS
  <2>3. Rule(f, n + 1)
    BY <2>2
  <2> QED
    BY <2>1, <2>3
<1>2. ASSUME NEW m \in Nat, m \in S PROVE m + 1 \in S
  <2> SUFFICES ASSUME m + 1 <= n PROVE \E f : IsFrom(f, n + 1 - (m + 1))
    OBVIOUS
  <2> DEFINE p == n + 1 - m
             q == n + 1 - (m + 1)
  <2>1. p \in Nat /\ q \in Nat /\ p = q + 1 /\ q >= 1 /\ p <= n + 1
    OBVIOUS
  <2>2. PICK f : IsFrom(f, p)
    BY <1>2
  <2> DEFINE v == IF q \in C THEN f[q + 2] ELSE IF q \in B THEN f[q + 1] ELSE q
             g == [k \in q .. n + 1 |-> IF k = q THEN v ELSE f[k]]
  <2>3. f \in [p .. n + 1 -> 1 .. n + 1] /\ Rule(f, p)
    BY <2>2
  <2> HIDE DEF p, q
  <2>4. v \in 1 .. n + 1
    BY <2>1, <2>3
  <2>5. \A k \in C : k + 2 \in 1 .. n + 1
    OBVIOUS
  <2>6. g \in [q .. n + 1 -> 1 .. n + 1]
    <3> HIDE DEF v
    <3> QED
      BY <2>1, <2>3, <2>4
  <2>7. ASSUME NEW k \in q .. n + 1
        PROVE  g[k] = IF k \in C THEN g[k + 2] ELSE IF k \in B THEN g[k + 1] ELSE k
    <3>1. k \in C => k + 2 \in q .. n + 1 /\ k + 2 # q /\ g[k + 2] = f[k + 2]
      BY <2>1, <2>5
    <3>2. k \in B => k + 1 \in q .. n + 1 /\ k + 1 # q /\ g[k + 1] = f[k + 1]
      BY <2>1
    <3>3. CASE k = q
      <4>1. g[k] = v
        BY <3>3
      <4> HIDE DEF g
      <4> QED
        BY <3>1, <3>2, <3>3, <4>1
    <3>4. CASE k # q
      <4>1. k \in p .. n + 1 /\ g[k] = f[k]
        BY <2>1, <3>4
      <4>2. f[k] = IF k \in C THEN f[k + 2] ELSE IF k \in B THEN f[k + 1] ELSE k
        BY <2>3, <4>1
      <4> HIDE DEF g
      <4> QED
        BY <3>1, <3>2, <4>1, <4>2
    <3> QED
      BY <3>3, <3>4
  <2> HIDE DEF g
  <2>8. IsFrom(g, q)
    BY <2>6, <2>7
  <2> HIDE DEF IsFrom
  <2> QED
    BY <2>8 DEF q
<1> HIDE DEF S
<1>3. Nat \subseteq S
  BY <1>1, <1>2, SetInduction
<1>4. n \in S
  BY <1>3
<1>5. \E f : IsFrom(f, n + 1 - n)
  <2> HIDE DEF IsFrom
  <2> QED
    BY <1>4 DEF S
<1>6. n + 1 - n = 1
  OBVIOUS
<1>7. PICK f : IsFrom(f, 1)
  <2> HIDE DEF IsFrom
  <2> QED
    BY <1>5, <1>6
<1> QED
  BY <1>7 DEF SkipRule

(* The same from the end: D holds the positions where line breaks end.     *)
BackRule(f, n, D, B) ==
    \A k \in 0 .. n : f[k] = IF k \in D THEN f[k - 2] ELSE IF k \in B THEN f[k - 1] ELSE k

(* So does the loop from the right.                                        *)
LEMMA BackExists ==
    ASSUME NEW n \in Nat, NEW D, NEW B, D \subseteq 2 .. n, B \subseteq 1 .. n
    PROVE  \E f : f \in [0 .. n -> 0 .. n] /\ BackRule(f, n, D, B)
<1> DEFINE Rule(f, p) == \A k \in 0 .. p :
                            f[k] = IF k \in D THEN f[k - 2] ELSE IF k \in B THEN f[k - 1] ELSE k
           IsTo(f, p) == f \in [0 .. p -> 0 .. n] /\ Rule(f, p)
           S == {m \in Nat : m <= n => \E f : IsTo(f, m)}
<1>1. 0 \in S
  <2> DEFINE f == [k \in 0 .. 0 |-> 0]
  <2>1. f \in [0 .. 0 -> 0 .. n]
    OBVIOUS
  <2>2. 0 \notin D /\ 0 \notin B
    OBVIOUS
  <2>3. Rule(f, 0)
    BY <2>2
  <2> QED
    BY <2>1, <2>3
<1>2. ASSUME NEW m \in Nat, m \in S PROVE m + 1 \in S
  <2> SUFFICES ASSUME m + 1 <= n PROVE \E f : IsTo(f, m + 1)
    OBVIOUS
  <2> DEFINE q == m + 1
  <2>1. q \in Nat /\ q = m + 1 /\ q >= 1 /\ q <= n
    OBVIOUS
  <2>2. PICK f : IsTo(f, m)
    BY <1>2
  <2> DEFINE v == IF q \in D THEN f[q - 2] ELSE IF q \in B THEN f[q - 1] ELSE q
             g == [k \in 0 .. q |-> IF k = q THEN v ELSE f[k]]
  <2>3. f \in [0 .. m -> 0 .. n] /\ Rule(f, m)
    BY <2>2
  <2> HIDE DEF q
  <2>4. v \in 0 .. n
    BY <2>1, <2>3
  <2>5. \A k \in D : k - 2 \in 0 .. n
    OBVIOUS
  <2>6. g \in [0 .. q -> 0 .. n]
    <3> HIDE DEF v
    <3> QED
      BY <2>1, <2>3, <2>4
  <2>7. ASSUME NEW k \in 0 .. q
        PROVE  g[k] = IF k \in D THEN g[k - 2] ELSE IF k \in B THEN g[k - 1] ELSE k
    <3>1. k \in D => k - 2 \in 0 .. q /\ k - 2 # q /\ g[k - 2] = f[k - 2]
      BY <2>1, <2>5
    <3>2. k \in B => k - 1 \in 0 .. q /\ k - 1 # q /\ g[k - 1] = f[k - 1]
      BY <2>1
    <3>3. CASE k = q
      <4>1. g[k] = v
        BY <3>3
      <4> HIDE DEF g
      <4> QED
        BY <3>1, <3>2, <3>3, <4>1
    <3>4. CASE k # q
      <4>1. k \in 0 .. m /\ g[k] = f[k]
        BY <2>1, <3>4
      <4>2. f[k] = IF k \in D THEN f[k - 2] ELSE IF k \in B THEN f[k - 1] ELSE k
        BY <2>3, <4>1
      <4> HIDE DEF g
      <4> QED
        BY <3>1, <3>2, <4>1, <4>2
    <3> QED
      BY <3>3, <3>4
  <2> HIDE DEF g
  <2>8. IsTo(g, q)
    BY <2>6, <2>7
  <2> HIDE DEF IsTo
  <2> QED
    BY <2>8 DEF q
<1> HIDE DEF S
<1>3. n \in S
  BY <1>1, <1>2, SetInduction
<1>4. PICK f : IsTo(f, n)
  <2> HIDE DEF IsTo
  <2> QED
    BY <1>3 DEF S
<1> QED
  BY <1>4 DEF BackRule

-----------------------------------------------------------------------------
(* The white space of a text, by position.                                 *)
Breaks(s) == {k \in 1 .. Len(s) : CRLFAt(s, k)}
BreakEnds(s) == {k \in 2 .. Len(s) : CRLFAt(s, k - 1)}
Blanks(s) == {k \in 1 .. Len(s) : s[k] \in Blank}

(* Where trim_whitespace_left and trim_whitespace_right stop.              *)
FirstRule(f, s) == SkipRule(f, Len(s), Breaks(s), Blanks(s))
LastRule(f, s) == BackRule(f, Len(s), BreakEnds(s), Blanks(s))

(* These are positions of the text; a break takes two of them.             *)
LEMMA Positions ==
    ASSUME NEW E, NEW s \in Seq(E)
    PROVE  /\ Len(s) \in Nat
           /\ Breaks(s) \subseteq 1 .. Len(s) - 1 /\ BreakEnds(s) \subseteq 2 .. Len(s)
           /\ Blanks(s) \subseteq 1 .. Len(s)
BY DEF Breaks, BreakEnds, Blanks, CRLFAt

(* trim_whitespace_left keeps the text from where its loop stops.          *)
LEMMA LeftIs ==
    ASSUME NEW E, NEW s \in Seq(E)
    PROVE  \E f : FirstRule(f, s) /\ TrimWhitespaceLeft(s) = SubSeq(s, f[1], Len(s))
<1> DEFINE n == Len(s)
           rec(f) == [k \in 1 .. Len(s) + 1 |->
                         IF CRLFAt(s, k) THEN f[k + 2]
                         ELSE IF k <= Len(s) /\ s[k] \in Blank THEN f[k + 1]
                         ELSE k]
           first == CHOOSE f : f = rec(f)
<1>1. TrimWhitespaceLeft(s) = SubSeq(s, first[1], Len(s))
  BY DEF TrimWhitespaceLeft
<1>2. n \in Nat /\ n = Len(s)
  OBVIOUS
<1>3. \A k \in 1 .. n + 1 : /\ CRLFAt(s, k) <=> k \in Breaks(s)
                            /\ k <= Len(s) /\ s[k] \in Blank <=> k \in Blanks(s)
  BY <1>2 DEF CRLFAt, Breaks, Blanks
<1>4. \A f : \A k \in 1 .. n + 1 :
         rec(f)[k] = IF k \in Breaks(s) THEN f[k + 2] ELSE IF k \in Blanks(s) THEN f[k + 1] ELSE k
  BY <1>2, <1>3
<1>5. PICK f : f \in [1 .. n + 1 -> 1 .. n + 1] /\ SkipRule(f, n, Breaks(s), Blanks(s))
  BY <1>2, Positions, SkipExists
<1>6. f = rec(f)
  <2>1. \A k \in 1 .. n + 1 : f[k] = rec(f)[k]
    BY <1>4, <1>5 DEF SkipRule
  <2> DEFINE g == rec(f)
  <2>2. g = [k \in 1 .. n + 1 |-> g[k]]
    BY <1>2
  <2> HIDE DEF g
  <2> QED
    BY <1>5, <2>1, <2>2 DEF g
<1>7. first = rec(first)
  <2> HIDE DEF rec
  <2> QED
    BY <1>6
<1> HIDE DEF first
<1>8. \A k \in 1 .. n + 1 : first[k]
         = IF k \in Breaks(s) THEN first[k + 2] ELSE IF k \in Blanks(s) THEN first[k + 1] ELSE k
  <2>1. \A k \in 1 .. n + 1 : rec(first)[k]
         = IF k \in Breaks(s) THEN first[k + 2] ELSE IF k \in Blanks(s) THEN first[k + 1] ELSE k
    BY <1>4
  <2> HIDE DEF rec
  <2> QED
    BY <1>7, <2>1, Zenon
<1>9. FirstRule(first, s)
  BY <1>8 DEF FirstRule, SkipRule
<1> QED
  BY <1>1, <1>9

(* trim_whitespace_right keeps the text up to where its loop stops.        *)
LEMMA RightIs ==
    ASSUME NEW E, NEW s \in Seq(E)
    PROVE  \E f : LastRule(f, s) /\ TrimWhitespaceRight(s) = SubSeq(s, 1, f[Len(s)])
<1> DEFINE n == Len(s)
           rec(f) == [k \in 0 .. Len(s) |->
                         IF k >= 2 /\ CRLFAt(s, k - 1) THEN f[k - 2]
                         ELSE IF k >= 1 /\ s[k] \in Blank THEN f[k - 1]
                         ELSE k]
           last == CHOOSE f : f = rec(f)
<1>1. TrimWhitespaceRight(s) = SubSeq(s, 1, last[Len(s)])
  BY DEF TrimWhitespaceRight
<1>2. n \in Nat /\ n = Len(s)
  OBVIOUS
<1>3. \A k \in 0 .. n : /\ k >= 2 /\ CRLFAt(s, k - 1) <=> k \in BreakEnds(s)
                        /\ k >= 1 /\ s[k] \in Blank <=> k \in Blanks(s)
  BY <1>2 DEF CRLFAt, BreakEnds, Blanks
<1>4. \A f : \A k \in 0 .. n :
         rec(f)[k] = IF k \in BreakEnds(s) THEN f[k - 2]
                     ELSE IF k \in Blanks(s) THEN f[k - 1] ELSE k
  BY <1>2, <1>3
<1>5. PICK f : f \in [0 .. n -> 0 .. n] /\ BackRule(f, n, BreakEnds(s), Blanks(s))
  BY <1>2, Positions, BackExists
<1>6. f = rec(f)
  <2>1. \A k \in 0 .. n : f[k] = rec(f)[k]
    BY <1>4, <1>5 DEF BackRule
  <2> DEFINE g == rec(f)
  <2>2. g = [k \in 0 .. n |-> g[k]]
    BY <1>2
  <2> HIDE DEF g
  <2> QED
    BY <1>5, <2>1, <2>2 DEF g
<1>7. last = rec(last)
  <2> HIDE DEF rec
  <2> QED
    BY <1>6
<1> HIDE DEF last
<1>8. \A k \in 0 .. n : last[k]
         = IF k \in BreakEnds(s) THEN last[k - 2] ELSE IF k \in Blanks(s) THEN last[k - 1] ELSE k
  <2>1. \A k \in 0 .. n : rec(last)[k]
         = IF k \in BreakEnds(s) THEN last[k - 2] ELSE IF k \in Blanks(s) THEN last[k - 1] ELSE k
    BY <1>4
  <2> HIDE DEF rec
  <2> QED
    BY <1>7, <2>1, Zenon
<1>9. LastRule(last, s)
  BY <1>8 DEF LastRule, BackRule
<1> QED
  BY <1>1, <1>9

(* The left loop stops at no break and no blank, not before it began.      *)
LEMMA StopsFirst ==
    ASSUME NEW E, NEW s \in Seq(E), NEW f, FirstRule(f, s)
    PROVE  \A k \in 1 .. Len(s) + 1 :
              f[k] \in k .. Len(s) + 1 /\ f[k] \notin Breaks(s) /\ f[k] \notin Blanks(s)
<1> DEFINE n == Len(s)
           C == Breaks(s)
           B == Blanks(s)
           S == {k \in 1 .. n + 1 : f[k] \in k .. n + 1 /\ f[k] \notin C /\ f[k] \notin B}
<1>1. n \in Nat /\ C \subseteq 1 .. n - 1 /\ B \subseteq 1 .. n
  BY Positions
<1>2. \A k \in 1 .. n + 1 : f[k] = IF k \in C THEN f[k + 2] ELSE IF k \in B THEN f[k + 1] ELSE k
  BY DEF FirstRule, SkipRule
<1> HIDE DEF n, C, B
<1>3. ASSUME NEW k \in 1 .. n + 1, \A j \in k + 1 .. n + 1 : j \in S PROVE k \in S
  <2>1. CASE k \in C
    <3>1. k + 2 \in k + 1 .. n + 1
      BY <1>1, <2>1
    <3>2. k + 2 \in S /\ f[k] = f[k + 2]
      BY <1>2, <1>3, <2>1, <3>1
    <3> QED
      BY <1>1, <3>1, <3>2
  <2>2. CASE k \notin C /\ k \in B
    <3>1. k + 1 \in k + 1 .. n + 1
      BY <1>1, <2>2
    <3>2. k + 1 \in S /\ f[k] = f[k + 1]
      BY <1>2, <1>3, <2>2, <3>1
    <3> QED
      BY <1>1, <3>1, <3>2
  <2>3. CASE k \notin C /\ k \notin B
    BY <1>1, <1>2, <2>3
  <2> QED
    BY <2>1, <2>2, <2>3
<1> HIDE DEF S
<1>4. 1 .. n + 1 \subseteq S
  <2> DEFINE top == n + 1
  <2>1. top \in Nat
    BY <1>1
  <2>2. \A k \in 1 .. top : (\A j \in k + 1 .. top : j \in S) => k \in S
    BY <1>3
  <2> HIDE DEF top
  <2>3. 1 .. top \subseteq S
    BY <2>1, <2>2, DownInduction
  <2> QED
    BY <2>3 DEF top
<1> QED
  BY <1>4 DEF S, n, C, B

(* The right loop does the same, not after it began.                       *)
LEMMA StopsLast ==
    ASSUME NEW E, NEW s \in Seq(E), NEW f, LastRule(f, s)
    PROVE  \A k \in 0 .. Len(s) :
              f[k] \in 0 .. k /\ f[k] \notin BreakEnds(s) /\ f[k] \notin Blanks(s)
<1> DEFINE n == Len(s)
           D == BreakEnds(s)
           B == Blanks(s)
           S == {k \in 0 .. n : f[k] \in 0 .. k /\ f[k] \notin D /\ f[k] \notin B}
<1>1. n \in Nat /\ D \subseteq 2 .. n /\ B \subseteq 1 .. n
  BY Positions
<1>2. \A k \in 0 .. n : f[k] = IF k \in D THEN f[k - 2] ELSE IF k \in B THEN f[k - 1] ELSE k
  BY DEF LastRule, BackRule
<1> HIDE DEF n, D, B
<1>3. ASSUME NEW k \in 0 .. n, \A j \in 0 .. k - 1 : j \in S PROVE k \in S
  <2>1. CASE k \in D
    <3>1. k - 2 \in 0 .. k - 1
      BY <1>1, <2>1
    <3>2. k - 2 \in S /\ f[k] = f[k - 2]
      BY <1>2, <1>3, <2>1, <3>1
    <3> QED
      BY <1>1, <3>1, <3>2
  <2>2. CASE k \notin D /\ k \in B
    <3>1. k - 1 \in 0 .. k - 1
      BY <1>1, <2>2
    <3>2. k - 1 \in S /\ f[k] = f[k - 1]
      BY <1>2, <1>3, <2>2, <3>1
    <3> QED
      BY <1>1, <3>1, <3>2
  <2>3. CASE k \notin D /\ k \notin B
    BY <1>1, <1>2, <2>3
  <2> QED
    BY <2>1, <2>2, <2>3
<1> HIDE DEF S
<1>4. 0 .. n \subseteq S
  BY <1>1, <1>3, UpInduction
<1> QED
  BY <1>4 DEF S, n, D, B

(* The piece of a text from p to q, and its white space.                   *)
LEMMA Piece ==
    ASSUME NEW E, NEW s \in Seq(E), NEW p \in 1 .. Len(s) + 1, NEW q \in p - 1 .. Len(s)
    PROVE  LET u == SubSeq(s, p, q)
           IN  /\ u \in Seq(E) /\ Len(u) = q - p + 1
               /\ \A k \in 1 .. q - p + 1 : u[k] = s[p - 1 + k]
OBVIOUS

(* The piece has the white space of the text, a break at its end apart.    *)
SpaceAsIn(u, s, p, q) ==
    \A k \in 1 .. q - p + 1 :
       /\ k \in Breaks(u) <=> p - 1 + k \in Breaks(s) /\ p - 1 + k < q
       /\ k \in Blanks(u) <=> p - 1 + k \in Blanks(s)
       /\ k \in BreakEnds(u) <=> p - 1 + k \in BreakEnds(s) /\ k >= 2

(* A text is a piece of another.                                           *)
IsPiece(u, s, p, q) ==
    p \in 1 .. Len(s) + 1 /\ q \in p - 1 .. Len(s) /\ u = SubSeq(s, p, q)

(* A piece has the white space that the text has there.                    *)
LEMMA PieceSpace ==
    ASSUME NEW E, NEW s \in Seq(E), NEW p, NEW q, NEW u, IsPiece(u, s, p, q)
    PROVE  u \in Seq(E) /\ Len(u) = q - p + 1 /\ SpaceAsIn(u, s, p, q)
<1>0. p \in 1 .. Len(s) + 1 /\ q \in p - 1 .. Len(s) /\ u = SubSeq(s, p, q)
  BY DEF IsPiece
<1>1. /\ u \in Seq(E) /\ Len(u) = q - p + 1
      /\ \A k \in 1 .. q - p + 1 : u[k] = s[p - 1 + k]
  BY <1>0, Piece
<1>2. Len(s) \in Nat /\ p \in Nat /\ p >= 1 /\ q \in Nat /\ q <= Len(s) /\ q >= p - 1
  BY <1>0
<1> DEFINE m == q - p + 1
<1>3. m \in Nat /\ p - 1 + m = q
  BY <1>2
<1>4. ASSUME NEW k \in 1 .. m
      PROVE  /\ k \in Breaks(u) <=> p - 1 + k \in Breaks(s) /\ p - 1 + k < q
             /\ k \in Blanks(u) <=> p - 1 + k \in Blanks(s)
             /\ k \in BreakEnds(u) <=> p - 1 + k \in BreakEnds(s) /\ k >= 2
  <2> DEFINE j == p - 1 + k
  <2>1. j \in 1 .. Len(s) /\ u[k] = s[j]
    BY <1>1, <1>2
  <2>2. k < m <=> j < q
    BY <1>2
  <2>3. k < m => u[k + 1] = s[j + 1]
    <3>1. k < m => k + 1 \in 1 .. m /\ p - 1 + (k + 1) = j + 1
      BY <1>2, <1>3
    <3> HIDE DEF j
    <3> QED
      BY <1>1, <3>1
  <2>4. k >= 2 => u[k - 1] = s[j - 1] /\ j >= 2
    <3>1. k >= 2 => k - 1 \in 1 .. m /\ p - 1 + (k - 1) = j - 1 /\ j >= 2
      BY <1>2, <1>3
    <3> HIDE DEF j
    <3> QED
      BY <1>1, <3>1
  <2>5. k \in 1 .. Len(u) /\ Len(u) = m /\ j \in Nat /\ k \in Nat /\ k <= m /\ j <= q
    BY <1>1, <1>2
  <2> HIDE DEF j, m
  <2>6. k \in Breaks(u) <=> j \in Breaks(s) /\ j < q
    <3>1. k \in Breaks(u) <=> k < m /\ u[k] = CR /\ u[k + 1] = LF
      BY <2>5 DEF Breaks, CRLFAt
    <3>2. j \in Breaks(s) <=> j < Len(s) /\ s[j] = CR /\ s[j + 1] = LF
      BY <2>1 DEF Breaks, CRLFAt
    <3>3. j < q => j < Len(s)
      BY <1>2, <2>5
    <3> QED
      BY <2>1, <2>2, <2>3, <3>1, <3>2, <3>3
  <2>7. k \in Blanks(u) <=> j \in Blanks(s)
    BY <2>1, <2>5 DEF Blanks
  <2>8. k \in BreakEnds(u) <=> j \in BreakEnds(s) /\ k >= 2
    <3>1. k \in BreakEnds(u) <=> k >= 2 /\ u[k - 1] = CR /\ u[k] = LF
      <4>1. k >= 2 => k \in 2 .. Len(u) /\ k - 1 >= 1 /\ k - 1 < Len(u) /\ k - 1 + 1 = k
        BY <2>5
      <4>2. k \in BreakEnds(u) <=> k >= 2 /\ CRLFAt(u, k - 1)
        BY <2>5, <4>1 DEF BreakEnds
      <4> QED
        BY <4>1, <4>2 DEF CRLFAt
    <3>2. k >= 2 => (j \in BreakEnds(s) <=> s[j - 1] = CR /\ s[j] = LF)
      <4>1. k >= 2 => j \in 2 .. Len(s) /\ j - 1 >= 1 /\ j - 1 < Len(s) /\ j - 1 + 1 = j
        BY <1>2, <2>1, <2>4
      <4>2. k >= 2 => (j \in BreakEnds(s) <=> CRLFAt(s, j - 1))
        BY <4>1 DEF BreakEnds
      <4> QED
        BY <4>1, <4>2 DEF CRLFAt
    <3> QED
      BY <2>1, <2>4, <3>1, <3>2
  <2> QED
    BY <2>6, <2>7, <2>8 DEF j
<1> QED
  BY <1>1, <1>4 DEF SpaceAsIn

(* What the left loop runs over is white space.                            *)
LEMMA PrefixIsWhite ==
    ASSUME NEW E, NEW s \in Seq(E), NEW f, FirstRule(f, s)
    PROVE  OnlyWhitespace(SubSeq(s, 1, f[1] - 1))
<1> DEFINE n == Len(s)
           i == f[1] - 1
           u == SubSeq(s, 1, i)
           C == Breaks(s)
           B == Blanks(s)
<1>1. n \in Nat /\ C \subseteq 1 .. n - 1 /\ B \subseteq 1 .. n
  BY Positions
<1>2. \A k \in 1 .. n + 1 : f[k] \in k .. n + 1
  BY StopsFirst
<1>3. i \in 0 .. n /\ f[1] = i + 1
  <2>1. 1 \in 1 .. n + 1
    BY <1>1
  <2>2. f[1] \in 1 .. n + 1
    BY <1>2, <2>1
  <2> QED
    BY <1>1, <2>2
<1>4. \A k \in 1 .. n + 1 : f[k] = IF k \in C THEN f[k + 2] ELSE IF k \in B THEN f[k + 1] ELSE k
  BY DEF FirstRule, SkipRule
<1> HIDE DEF i
<1>5. /\ u \in Seq(E) /\ Len(u) = i
      /\ \A k \in 1 .. i : /\ k \in Breaks(u) <=> k \in C /\ k < i
                           /\ k \in Blanks(u) <=> k \in B
  <2> DEFINE p == 1
  <2>1. p \in 1 .. Len(s) + 1 /\ i \in p - 1 .. Len(s) /\ i - p + 1 = i
    BY <1>1, <1>3
  <2>2. \A k \in 1 .. i : p - 1 + k = k
    BY <1>3
  <2> HIDE DEF p
  <2>3. u = SubSeq(s, p, i)
    BY DEF p
  <2> HIDE DEF u
  <2>4. IsPiece(u, s, p, i)
    BY <2>1, <2>3 DEF IsPiece
  <2>5. u \in Seq(E) /\ Len(u) = i - p + 1 /\ SpaceAsIn(u, s, p, i)
    BY <2>4, PieceSpace
  <2> QED
    BY <2>1, <2>2, <2>5 DEF SpaceAsIn
<1>6. PICK g : FirstRule(g, u) /\ TrimWhitespaceLeft(u) = SubSeq(u, g[1], Len(u))
  BY <1>5, LeftIs
<1> HIDE DEF n, C, B, u
<1>7. \A k \in 1 .. i + 1 : g[k] = IF k \in Breaks(u) THEN g[k + 2]
                                   ELSE IF k \in Blanks(u) THEN g[k + 1] ELSE k
  BY <1>5, <1>6 DEF FirstRule, SkipRule
<1>8. i + 1 \notin Breaks(u) /\ i + 1 \notin Blanks(u)
  BY <1>3, <1>5, Positions
<1> DEFINE top == i + 1
           S == {k \in 1 .. top : f[k] = top => g[k] = top}
<1>9. ASSUME NEW k \in 1 .. top, \A j \in k + 1 .. top : j \in S PROVE k \in S
  <2> SUFFICES ASSUME f[k] = top PROVE g[k] = top
    OBVIOUS
  <2>0. k \in 1 .. n + 1 /\ k \in Nat /\ top \in Nat /\ top <= n + 1
    BY <1>1, <1>3
  <2>1. CASE k = top
    BY <1>7, <1>8, <2>1
  <2>2. CASE k # top /\ k \in C
    <3>1. f[k + 2] = top /\ k + 2 \in 1 .. n + 1
      BY <1>1, <1>4, <2>0, <2>2
    <3>2. f[k + 2] \in k + 2 .. n + 1
      BY <1>2, <3>1
    <3>3. k + 2 \in k + 1 .. top /\ k < i /\ k \in 1 .. i
      BY <1>1, <1>3, <2>0, <3>1, <3>2
    <3>4. k \in Breaks(u)
      BY <1>5, <2>2, <3>3
    <3>5. g[k] = g[k + 2]
      BY <1>7, <3>4
    <3>6. k + 2 \in S
      BY <1>9, <3>3
    <3> QED
      BY <3>1, <3>5, <3>6
  <2>3. CASE k # top /\ k \notin C /\ k \in B
    <3>1. f[k + 1] = top /\ k + 1 \in 1 .. n + 1
      BY <1>1, <1>4, <2>0, <2>3
    <3>2. f[k + 1] \in k + 1 .. n + 1
      BY <1>2, <3>1
    <3>3. k + 1 \in k + 1 .. top /\ k \in 1 .. i
      BY <1>1, <1>3, <2>0, <3>1, <3>2
    <3>4. k \in Blanks(u) /\ k \notin Breaks(u)
      BY <1>5, <2>3, <3>3
    <3>5. g[k] = g[k + 1]
      BY <1>7, <3>4
    <3>6. k + 1 \in S
      BY <1>9, <3>3
    <3> QED
      BY <3>1, <3>5, <3>6
  <2>4. CASE k # top /\ k \notin C /\ k \notin B
    BY <1>4, <2>0, <2>4
  <2> QED
    BY <2>1, <2>2, <2>3, <2>4
<1>10. top \in Nat /\ 1 \in 1 .. top /\ f[1] = top
  BY <1>3
<1> HIDE DEF top, S
<1>11. 1 .. top \subseteq S
  BY <1>9, <1>10, DownInduction
<1>12. g[1] = top
  BY <1>10, <1>11 DEF S
<1>13. SubSeq(u, i + 1, i) = <<>>
  BY <1>3, <1>5
<1> QED
  BY <1>5, <1>6, <1>12, <1>13 DEF OnlyWhitespace, top, u, i

(* A break starts where no blank is, and before it ends.                   *)
LEMMA BreakIs ==
    ASSUME NEW E, NEW s \in Seq(E), NEW k
    PROVE  /\ k \in Blanks(s) => k \notin Breaks(s)
           /\ k \in BreakEnds(s) => k - 1 \in Breaks(s)
<1>1. CR \notin Blank
  BY DEF CR, Blank, SP, HT
<1> QED
  BY <1>1 DEF Blanks, Breaks, BreakEnds, CRLFAt

(* What the right loop runs over is white space.                           *)
LEMMA SuffixIsWhite ==
    ASSUME NEW E, NEW w \in Seq(E), NEW h, LastRule(h, w)
    PROVE  OnlyWhitespace(SubSeq(w, h[Len(w)] + 1, Len(w)))
<1> DEFINE n == Len(w)
           L == h[n]
           p == L + 1
           x == SubSeq(w, p, n)
           m == n - L
           D == BreakEnds(w)
           B == Blanks(w)
<1>1. n \in Nat /\ D \subseteq 2 .. n /\ B \subseteq 1 .. n
  BY Positions
<1>2. \A k \in 0 .. n : h[k] \in 0 .. k
  BY StopsLast
<1>3. L \in 0 .. n /\ m \in Nat /\ p \in 1 .. n + 1 /\ n \in p - 1 .. n /\ n - p + 1 = m
  <2>1. n \in 0 .. n
    BY <1>1
  <2>2. L \in 0 .. n
    BY <1>2, <2>1
  <2> HIDE DEF L
  <2> QED
    BY <1>1, <2>2
<1>4. \A k \in 0 .. n : h[k] = IF k \in D THEN h[k - 2] ELSE IF k \in B THEN h[k - 1] ELSE k
  BY DEF LastRule, BackRule
<1>5. IsPiece(x, w, p, n)
  BY <1>3 DEF IsPiece
<1> HIDE DEF L, x
<1>6. x \in Seq(E) /\ Len(x) = n - p + 1 /\ SpaceAsIn(x, w, p, n)
  BY <1>5, PieceSpace
<1>7. /\ Len(x) = m
      /\ \A k \in 1 .. m : /\ k \in Breaks(x) <=> L + k \in Breaks(w) /\ L + k < n
                           /\ k \in Blanks(x) <=> L + k \in B
  <2>1. \A k \in 1 .. m : p - 1 + k = L + k
    BY <1>3
  <2> QED
    BY <1>3, <1>6, <2>1 DEF SpaceAsIn
<1>8. PICK g : FirstRule(g, x) /\ TrimWhitespaceLeft(x) = SubSeq(x, g[1], Len(x))
  BY <1>6, LeftIs
<1>9. \A k \in 1 .. m + 1 : g[k] = IF k \in Breaks(x) THEN g[k + 2]
                                   ELSE IF k \in Blanks(x) THEN g[k + 1] ELSE k
  BY <1>7, <1>8 DEF FirstRule, SkipRule
<1>10. m + 1 \notin Breaks(x) /\ m + 1 \notin Blanks(x)
  <2>1. Breaks(x) \subseteq 1 .. Len(x) - 1 /\ Blanks(x) \subseteq 1 .. Len(x)
    BY <1>6, Positions
  <2> HIDE DEF m
  <2> QED
    BY <1>3, <1>7, <2>1
<1> DEFINE K == {k \in L .. n : h[k] = L /\ g[k - L + 1] = m + 1}
<1>11. ASSUME NEW k \in K, k # L PROVE \E j \in K : j < k
  <2>1. k \in 0 .. n /\ k > L /\ h[k] = L /\ g[k - L + 1] = m + 1 /\ L \in Nat
    BY <1>1, <1>3, <1>11
  <2>2. CASE k \in D
    <3>1. h[k - 2] = L /\ k - 2 \in 0 .. n /\ h[k - 2] \in 0 .. k - 2
      BY <1>1, <1>2, <1>4, <2>1, <2>2
    <3>2. k - 1 \in Breaks(w)
      BY <2>2, BreakIs
    <3> DEFINE i == k - 1 - L
    <3>3. i \in 1 .. m /\ L + i = k - 1 /\ L + i < n /\ i + 2 = k - L + 1 /\ k - 2 - L + 1 = i
      BY <1>1, <1>3, <2>1, <3>1
    <3> HIDE DEF i
    <3>4. i \in Breaks(x)
      BY <1>7, <3>2, <3>3
    <3>5. i \in 1 .. m + 1
      BY <1>3, <3>3
    <3>6. g[i] = g[i + 2]
      BY <1>9, <3>4, <3>5
    <3>7. k - 2 \in L .. n /\ k - 2 < k
      BY <1>1, <1>3, <2>1, <3>1
    <3> QED
      BY <2>1, <3>1, <3>3, <3>6, <3>7
  <2>3. CASE k \notin D /\ k \in B
    <3>1. h[k - 1] = L /\ k - 1 \in 0 .. n /\ h[k - 1] \in 0 .. k - 1
      BY <1>1, <1>2, <1>4, <2>1, <2>3
    <3>2. k \notin Breaks(w)
      BY <2>3, BreakIs
    <3> DEFINE i == k - L
    <3>3. i \in 1 .. m /\ L + i = k /\ i + 1 = k - L + 1 /\ k - 1 - L + 1 = i
      BY <1>1, <1>3, <2>1
    <3> HIDE DEF i
    <3>4. i \in Blanks(x) /\ i \notin Breaks(x)
      BY <1>7, <2>3, <3>2, <3>3
    <3>5. i \in 1 .. m + 1
      BY <1>3, <3>3
    <3>6. g[i] = g[i + 1]
      BY <1>9, <3>4, <3>5
    <3>7. k - 1 \in L .. n /\ k - 1 < k
      BY <1>1, <1>3, <2>1
    <3> QED
      BY <2>1, <3>1, <3>3, <3>6, <3>7
  <2>4. CASE k \notin D /\ k \notin B
    BY <1>4, <2>1, <2>4
  <2> QED
    BY <2>2, <2>3, <2>4
<1>12. n \in K
  <2>1. m + 1 \in 1 .. m + 1 /\ n - L + 1 = m + 1
    BY <1>3
  <2>2. g[m + 1] = m + 1
    BY <1>9, <1>10, <2>1
  <2> QED
    BY <1>1, <1>3, <2>1, <2>2 DEF L
<1>13. K \subseteq 0 .. n
  BY <1>1, <1>3
<1> HIDE DEF K
<1>14. L \in K
  <2> SUFFICES ASSUME L \notin K PROVE FALSE
    OBVIOUS
  <2> DEFINE S == {k \in 0 .. n : k \notin K}
  <2>1. ASSUME NEW k \in 0 .. n, \A j \in 0 .. k - 1 : j \in S PROVE k \in S
    <3> SUFFICES ASSUME k \in K PROVE FALSE
      OBVIOUS
    <3>1. PICK j \in K : j < k
      BY <1>11
    <3>2. j \in 0 .. k - 1
      BY <1>1, <1>13, <3>1
    <3> QED
      BY <2>1, <3>1, <3>2
  <2> HIDE DEF S
  <2>2. 0 .. n \subseteq S
    BY <1>1, <2>1, UpInduction
  <2>3. n \in S
    BY <1>1, <2>2
  <2> QED
    BY <1>12, <2>3 DEF S
<1>15. g[1] = m + 1
  <2>1. g[L - L + 1] = m + 1 /\ L - L + 1 = 1
    BY <1>3, <1>14 DEF K
  <2> QED
    BY <2>1
<1>16. SubSeq(x, m + 1, m) = <<>>
  BY <1>3, <1>6
<1>17. OnlyWhitespace(x)
  <2> HIDE DEF m
  <2> QED
    BY <1>7, <1>8, <1>15, <1>16 DEF OnlyWhitespace
<1> QED
  BY <1>17 DEF x, L

(* A piece of a piece.                                                     *)
LEMMA PieceOfPiece ==
    ASSUME NEW E, NEW s \in Seq(E), NEW a \in 1 .. Len(s) + 1, NEW w,
           w = SubSeq(s, a, Len(s)), NEW p \in 1 .. Len(w) + 1, NEW q \in p - 1 .. Len(w)
    PROVE  SubSeq(w, p, q) = SubSeq(s, a - 1 + p, a - 1 + q)
<1> DEFINE n == Len(s)
           m == n - a + 1
<1>1. n \in Nat /\ a \in Nat /\ a >= 1 /\ a <= n + 1 /\ m \in Nat /\ n \in a - 1 .. n
  OBVIOUS
<1>2. w \in Seq(E) /\ Len(w) = m /\ \A k \in 1 .. m : w[k] = s[a - 1 + k]
  BY <1>1, Piece
<1>3. p \in Nat /\ q \in Nat /\ p >= 1 /\ q <= m /\ q >= p - 1
  BY <1>1, <1>2
<1> DEFINE u == SubSeq(w, p, q)
           P == a - 1 + p
           Q == a - 1 + q
           v == SubSeq(s, P, Q)
           d == q - p + 1
<1>4. u \in Seq(E) /\ Len(u) = d /\ \A k \in 1 .. d : u[k] = w[p - 1 + k]
  BY <1>2, Piece
<1>5. P \in 1 .. n + 1 /\ Q \in P - 1 .. n /\ Q - P + 1 = d
  BY <1>1, <1>3
<1> HIDE DEF P, Q
<1>6. v \in Seq(E) /\ Len(v) = Q - P + 1 /\ \A k \in 1 .. Q - P + 1 : v[k] = s[P - 1 + k]
  BY <1>5, Piece
<1> HIDE DEF u, v
<1>7. ASSUME NEW k \in 1 .. d PROVE u[k] = v[k]
  <2>1. p - 1 + k \in 1 .. m /\ a - 1 + (p - 1 + k) = P - 1 + k
    BY <1>1, <1>3 DEF P
  <2>2. u[k] = w[p - 1 + k]
    BY <1>4
  <2>3. w[p - 1 + k] = s[a - 1 + (p - 1 + k)]
    BY <1>2, <2>1
  <2>4. v[k] = s[P - 1 + k]
    BY <1>5, <1>6
  <2> QED
    BY <2>1, <2>2, <2>3, <2>4
<1>8. u = v
  <2>1. Len(u) = d /\ Len(v) = d /\ d \in Nat
    BY <1>3, <1>4, <1>5, <1>6
  <2> HIDE DEF d
  <2> QED
    BY <1>4, <1>6, <1>7, <2>1
<1> QED
  BY <1>8 DEF u, v, P, Q

(* syntax::trim_whitespace: whatever the text, what is left has no blank   *)
(* and no line break at either end, is one piece of the text, and all that *)
(* was cut off before it and after it is white space.                      *)
THEOREM TrimmingIsExact ==
    ASSUME NEW E, NEW s \in Seq(E)
    PROVE  TrimIsExact(s)
<1> DEFINE n == Len(s)
<1>1. PICK f : FirstRule(f, s) /\ TrimWhitespaceLeft(s) = SubSeq(s, f[1], Len(s))
  BY LeftIs
<1> DEFINE a == f[1]
           w == SubSeq(s, a, n)
<1>2. n \in Nat /\ a \in 1 .. n + 1 /\ a \notin Breaks(s) /\ a \notin Blanks(s)
  <2>1. n \in Nat /\ 1 \in 1 .. n + 1
    BY Positions
  <2> QED
    BY <1>1, <2>1, StopsFirst
<1>3. OnlyWhitespace(SubSeq(s, 1, a - 1))
  BY <1>1, PrefixIsWhite
<1>4. TrimWhitespaceLeft(s) = w
  BY <1>1
<1> HIDE DEF a
<1>5. IsPiece(w, s, a, n)
  BY <1>2 DEF IsPiece
<1>w. w = SubSeq(s, a, n)
  OBVIOUS
<1> HIDE DEF w
<1>6. w \in Seq(E) /\ Len(w) = n - a + 1 /\ SpaceAsIn(w, s, a, n)
  BY <1>5, PieceSpace
<1>7. PICK h : LastRule(h, w) /\ TrimWhitespaceRight(w) = SubSeq(w, 1, h[Len(w)])
  BY <1>6, RightIs
<1> DEFINE m == Len(w)
           L == h[m]
           one == 1
           t == SubSeq(w, one, L)
<1>8. m \in Nat /\ m = n - a + 1 /\ L \in 0 .. m /\ L \notin BreakEnds(w) /\ L \notin Blanks(w)
  <2>1. m \in Nat /\ m \in 0 .. m
    BY <1>2, <1>6
  <2> QED
    BY <1>6, <1>7, <2>1, StopsLast
<1>9. OnlyWhitespace(SubSeq(w, L + 1, m))
  BY <1>6, <1>7, SuffixIsWhite
<1>10. TrimWhitespace(s) = t
  BY <1>4, <1>7 DEF TrimWhitespace
<1> HIDE DEF L, m
<1>11. IsPiece(t, w, one, L)
  BY <1>8 DEF IsPiece, m
<1>t. t = SubSeq(w, one, L) /\ one = 1
  OBVIOUS
<1> HIDE DEF t, one
<1>12. t \in Seq(E) /\ Len(t) = L - one + 1 /\ SpaceAsIn(t, w, one, L)
  BY <1>6, <1>11, PieceSpace
<1>13. Len(t) = L /\ L \in Nat
  BY <1>8, <1>12, <1>t
<1>14. \A k \in 1 .. L : /\ k \in Breaks(t) => k \in Breaks(w)
                         /\ k \in Blanks(t) <=> k \in Blanks(w)
                         /\ k \in BreakEnds(t) => k \in BreakEnds(w)
  <2>1. L - one + 1 = L /\ \A k \in 1 .. L : one - 1 + k = k
    BY <1>13, <1>t
  <2> QED
    BY <1>12, <2>1 DEF SpaceAsIn
<1>15. m >= 1 => (1 \in Breaks(w) => a \in Breaks(s)) /\ (1 \in Blanks(w) <=> a \in Blanks(s))
  <2>1. m >= 1 => 1 \in 1 .. n - a + 1 /\ a - 1 + 1 = a
    BY <1>2, <1>8
  <2> QED
    BY <1>6, <2>1 DEF SpaceAsIn
<1>16. ASSUME t # <<>> PROVE L >= 1 /\ m >= 1
  BY <1>8, <1>12, <1>13, <1>16
<1>17. ASSUME t # <<>> PROVE t[1] \notin Blank /\ t[Len(t)] \notin Blank
  <2>1. L >= 1 /\ m >= 1
    BY <1>16, <1>17
  <2>2. 1 \in 1 .. L /\ L \in 1 .. L
    BY <1>13, <2>1
  <2>3. 1 \notin Blanks(t) /\ L \notin Blanks(t)
    BY <1>2, <1>8, <1>14, <1>15, <2>1, <2>2
  <2> QED
    BY <1>13, <2>2, <2>3 DEF Blanks
<1>18. ~CRLFAt(t, 1)
  <2> SUFFICES ASSUME CRLFAt(t, 1) PROVE FALSE
    OBVIOUS
  <2>1. L >= 1 /\ m >= 1
    BY <1>8, <1>13 DEF CRLFAt
  <2>2. 1 \in 1 .. L
    BY <1>13, <2>1
  <2>3. 1 \in Breaks(t)
    BY <1>13, <2>2 DEF Breaks
  <2> QED
    BY <1>2, <1>14, <1>15, <2>1, <2>2, <2>3
<1>19. ~CRLFAt(t, Len(t) - 1)
  <2> SUFFICES ASSUME CRLFAt(t, L - 1) PROVE FALSE
    BY <1>13
  <2>1. L >= 2
    BY <1>13 DEF CRLFAt
  <2>2. L \in 1 .. L /\ L \in 2 .. Len(t)
    BY <1>13, <2>1
  <2>3. L \in BreakEnds(t)
    BY <2>2 DEF BreakEnds
  <2> QED
    BY <1>8, <1>14, <2>2, <2>3
<1> DEFINE i == a - 1
           j == a - 1 + L
<1>20. i \in 0 .. n /\ j \in 0 .. n /\ i <= j
  BY <1>2, <1>8
<1>21. t = SubSeq(s, i + 1, j)
  <2>1. one \in 1 .. Len(w) + 1 /\ L \in one - 1 .. Len(w) /\ a - 1 + one = i + 1
    BY <1>2, <1>8, <1>t DEF m
  <2>2. SubSeq(w, one, L) = SubSeq(s, a - 1 + one, a - 1 + L)
    <3> DEFINE l == L
    <3> HIDE DEF l
    <3> QED
      BY <1>2, <1>w, <2>1, PieceOfPiece
  <2> HIDE DEF i
  <2> QED
    BY <1>t, <2>1, <2>2, Zenon
<1>22. SubSeq(w, L + 1, m) = SubSeq(s, j + 1, n)
  <2> DEFINE p == L + 1
  <2>1. p \in 1 .. Len(w) + 1 /\ m \in p - 1 .. Len(w) /\ a - 1 + p = j + 1 /\ a - 1 + m = n
    BY <1>2, <1>8 DEF m
  <2> HIDE DEF p
  <2>2. SubSeq(w, p, m) = SubSeq(s, a - 1 + p, a - 1 + m)
    BY <1>2, <1>w, <2>1, PieceOfPiece
  <2> HIDE DEF j
  <2> QED
    BY <2>1, <2>2, Zenon DEF p
<1>23. \E x, y \in 0 .. n :
          /\ x <= y
          /\ t = SubSeq(s, x + 1, y)
          /\ OnlyWhitespace(SubSeq(s, 1, x))
          /\ OnlyWhitespace(SubSeq(s, y + 1, n))
  <2>1. OnlyWhitespace(SubSeq(s, 1, i)) /\ OnlyWhitespace(SubSeq(s, j + 1, n))
    BY <1>3, <1>9, <1>22, Zenon
  <2> HIDE DEF i, j
  <2> QED
    BY <1>20, <1>21, <2>1, Zenon
<1> QED
  BY <1>10, <1>17, <1>18, <1>19, <1>23, Zenon DEF TrimIsExact

-----------------------------------------------------------------------------
(* The session (header/types/session.rs): what trimming and splitting make *)
(* of the value that is written.                                           *)

(* White space bytes; the ends of a text that are none are not trimmed.    *)
White == {SP, HT, CR, LF}

(* At most one space before a byte that is no white space is trimmed.      *)
LEMMA TrimLeftTo ==
    ASSUME NEW E, NEW s \in Seq(E), NEW p \in {1, 2}, p <= Len(s) + 1,
           p = 2 => s[1] = SP, p <= Len(s) => s[p] \notin White
    PROVE  TrimWhitespaceLeft(s) = SubSeq(s, p, Len(s))
<1>1. PICK f : FirstRule(f, s) /\ TrimWhitespaceLeft(s) = SubSeq(s, f[1], Len(s))
  BY LeftIs
<1>2. \A k \in 1 .. Len(s) + 1 :
         f[k] = IF k \in Breaks(s) THEN f[k + 2] ELSE IF k \in Blanks(s) THEN f[k + 1] ELSE k
  BY <1>1 DEF FirstRule, SkipRule
<1>3. Len(s) \in Nat /\ 1 \in 1 .. Len(s) + 1 /\ p \in 1 .. Len(s) + 1
  OBVIOUS
<1>4. p \notin Breaks(s) /\ p \notin Blanks(s)
  <2>1. CASE p <= Len(s)
    BY <2>1 DEF Breaks, Blanks, CRLFAt, White, Blank
  <2>2. CASE p > Len(s)
    BY <1>3, <2>2 DEF Breaks, Blanks
  <2> QED
    BY <1>3, <2>1, <2>2
<1>5. f[p] = p
  BY <1>2, <1>3, <1>4
<1>6. f[1] = p
  <2>1. CASE p = 1
    BY <1>5, <2>1
  <2>2. CASE p = 2
    <3>1. 1 \in Blanks(s)
      BY <1>3, <2>2 DEF Blanks, Blank
    <3>2. 1 \notin Breaks(s)
      BY <3>1, BreakIs
    <3>3. f[1] = f[1 + 1]
      BY <1>2, <1>3, <3>1, <3>2
    <3> QED
      BY <1>5, <2>2, <3>3
  <2> QED
    BY <2>1, <2>2
<1> QED
  BY <1>1, <1>6

(* The same at the end.                                                    *)
LEMMA TrimRightTo ==
    ASSUME NEW E, NEW s \in Seq(E), NEW d \in {0, 1}, d <= Len(s),
           d = 1 => s[Len(s)] = SP, Len(s) - d >= 1 => s[Len(s) - d] \notin White
    PROVE  TrimWhitespaceRight(s) = SubSeq(s, 1, Len(s) - d)
<1> DEFINE n == Len(s)
           q == n - d
<1>1. PICK f : LastRule(f, s) /\ TrimWhitespaceRight(s) = SubSeq(s, 1, f[n])
  BY RightIs
<1>2. \A k \in 0 .. n :
         f[k] = IF k \in BreakEnds(s) THEN f[k - 2] ELSE IF k \in Blanks(s) THEN f[k - 1] ELSE k
  BY <1>1 DEF LastRule, BackRule
<1>3. n \in Nat /\ n \in 0 .. n /\ q \in 0 .. n /\ (q >= 1 => s[q] \notin White)
  OBVIOUS
<1>4. q \notin BreakEnds(s) /\ q \notin Blanks(s)
  <2> HIDE DEF q
  <2>1. q \in BreakEnds(s) => q >= 2 /\ s[q] = LF
    BY <1>3 DEF BreakEnds, CRLFAt
  <2>2. q \in Blanks(s) => q >= 1 /\ s[q] \in Blank
    BY <1>3 DEF Blanks
  <2> QED
    BY <1>3, <2>1, <2>2 DEF White, Blank
<1>5. f[q] = q
  BY <1>2, <1>3, <1>4
<1>6. f[n] = q
  <2>1. CASE d = 0
    BY <1>3, <1>5, <2>1
  <2>2. CASE d = 1
    <3>1. n \in Blanks(s)
      BY <1>3, <2>2 DEF Blanks, Blank
    <3>2. n \notin BreakEnds(s)
      <4>1. n \in BreakEnds(s) => s[n] = LF
        BY <1>3 DEF BreakEnds, CRLFAt
      <4> QED
        BY <2>2, <4>1 DEF LF, SP
    <3>3. f[n] = f[n - 1]
      BY <1>2, <1>3, <3>1, <3>2
    <3> QED
      BY <1>5, <2>2, <3>3
  <2> QED
    BY <2>1, <2>2
<1> QED
  BY <1>1, <1>6

(* A text without white space is not changed, nor is one after a space.    *)
NoWhite(s) == \A k \in 1 .. Len(s) : s[k] \notin White

(* A text without white space stays as it is.                              *)
LEMMA TrimNothing ==
    ASSUME NEW E, NEW s \in Seq(E), NoWhite(s)
    PROVE  TrimWhitespace(s) = s
<1>1. Len(s) \in Nat /\ SubSeq(s, 1, Len(s)) = s
  OBVIOUS
<1>2. TrimWhitespaceLeft(s) = SubSeq(s, 1, Len(s))
  <2> DEFINE p == 1
  <2>1. p \in {1, 2} /\ p <= Len(s) + 1 /\ p # 2 /\ (p <= Len(s) => s[p] \notin White)
    BY <1>1 DEF NoWhite
  <2> HIDE DEF p
  <2>2. TrimWhitespaceLeft(s) = SubSeq(s, p, Len(s))
    BY <2>1, TrimLeftTo
  <2> QED
    BY <2>2 DEF p
<1>3. TrimWhitespaceRight(s) = SubSeq(s, 1, Len(s))
  <2> DEFINE d == 0
  <2>1. d \in {0, 1} /\ d <= Len(s) /\ d # 1 /\ Len(s) - d = Len(s)
    BY <1>1
  <2>2. Len(s) >= 1 => s[Len(s)] \notin White
    BY <1>1 DEF NoWhite
  <2> HIDE DEF d
  <2>3. TrimWhitespaceRight(s) = SubSeq(s, 1, Len(s) - d)
    BY <2>1, <2>2, TrimRightTo
  <2> QED
    BY <2>1, <2>3
<1> QED
  BY <1>1, <1>2, <1>3, Zenon DEF TrimWhitespace

(* A single space before such a text is taken away.                        *)
LEMMA TrimOneSpace ==
    ASSUME NEW E, NEW s \in Seq(E), NEW w, w = <<SP>> \o s, SP \in E, Len(s) >= 1, NoWhite(s)
    PROVE  TrimWhitespace(w) = s
<1>1. /\ w \in Seq(E) /\ Len(w) = Len(s) + 1 /\ w[1] = SP /\ w[2] = s[1]
      /\ SubSeq(w, 2, Len(w)) = s
  OBVIOUS
<1>2. TrimWhitespaceLeft(w) = SubSeq(w, 2, Len(w))
  <2> DEFINE p == 2
  <2>1. p \in {1, 2} /\ p <= Len(w) + 1 /\ w[p] \notin White /\ p = 2
    BY <1>1 DEF NoWhite
  <2> HIDE DEF p
  <2>2. TrimWhitespaceLeft(w) = SubSeq(w, p, Len(w))
    BY <1>1, <2>1, TrimLeftTo
  <2> QED
    BY <2>2 DEF p
<1>3. TrimWhitespaceRight(s) = SubSeq(s, 1, Len(s))
  <2> DEFINE d == 0
  <2>1. d \in {0, 1} /\ d <= Len(s) /\ d # 1 /\ Len(s) - d = Len(s)
    BY <1>1
  <2>2. Len(s) >= 1 => s[Len(s)] \notin White
    BY <1>1 DEF NoWhite
  <2> HIDE DEF d
  <2>3. TrimWhitespaceRight(s) = SubSeq(s, 1, Len(s) - d)
    BY <2>1, <2>2, TrimRightTo
  <2> QED
    BY <2>1, <2>3
<1>4. SubSeq(s, 1, Len(s)) = s
  OBVIOUS
<1> QED
  BY <1>1, <1>2, <1>3, <1>4, Zenon DEF TrimWhitespace

(* So are the spaces around a single byte.                                 *)
LEMMA TrimTwoSpaces ==
    ASSUME NEW b, b \notin White, NEW w, w = <<SP, b, SP>>
    PROVE  TrimWhitespace(w) = <<b>>
<1> DEFINE E == {SP, b}
           v == <<b, SP>>
<1>0. w \in Seq(E) /\ Len(w) = 3 /\ w[1] = SP /\ w[2] = b /\ w[3] = SP
  OBVIOUS
<1>2. v \in Seq(E) /\ Len(v) = 2 /\ v[1] = b /\ v[2] = SP
  OBVIOUS
<1> HIDE DEF E, v
<1>1. SubSeq(w, 2, Len(w)) = v
  <2> DEFINE u == SubSeq(w, 2, 3)
  <2>1. u \in Seq(E) /\ Len(u) = 2 /\ u[1] = w[2] /\ u[2] = w[3]
    BY <1>0
  <2> HIDE DEF u
  <2>2. u = v
    BY <1>0, <1>2, <2>1
  <2> QED
    BY <1>0, <2>2 DEF u
<1>5. SubSeq(v, 1, 1) = <<b>>
  <2> DEFINE u == SubSeq(v, 1, 1)
             o == <<b>>
  <2>1. u \in Seq(E) /\ Len(u) = 1 /\ u[1] = b
    BY <1>2
  <2>2. o \in Seq(E) /\ Len(o) = 1 /\ o[1] = b
    BY DEF E
  <2> HIDE DEF u, o
  <2>3. u = o
    BY <2>1, <2>2
  <2> QED
    BY <2>3 DEF u, o
<1>3. TrimWhitespaceLeft(w) = v
  <2> DEFINE p == 2
  <2>1. p \in {1, 2} /\ p <= Len(w) + 1 /\ w[p] \notin White /\ p = 2
    BY <1>0
  <2> HIDE DEF p
  <2>2. TrimWhitespaceLeft(w) = SubSeq(w, p, Len(w))
    BY <1>0, <2>1, TrimLeftTo
  <2> QED
    BY <1>1, <2>2 DEF p
<1>4. TrimWhitespaceRight(v) = <<b>>
  <2> DEFINE d == 1
  <2>1. d \in {0, 1} /\ d <= Len(v) /\ d = 1 /\ v[Len(v) - d] \notin White /\ v[Len(v)] = SP
    BY <1>2
  <2>2. Len(v) - d = 1
    BY <1>2
  <2> HIDE DEF d
  <2>3. TrimWhitespaceRight(v) = SubSeq(v, 1, Len(v) - d)
    BY <1>2, <2>1, TrimRightTo
  <2> QED
    BY <1>5, <2>2, <2>3
<1> QED
  BY <1>3, <1>4, Zenon DEF TrimWhitespace

(* splitn(2, sep) cuts at the first separator, if there is one.            *)
LEMMA SplitAtFirst ==
    ASSUME NEW E, NEW u \in Seq(E), NEW v \in Seq(E), NEW sep \in E, NEW s,
           s = u \o <<sep>> \o v, \A k \in 1 .. Len(u) : u[k] # sep
    PROVE  SplitOnce(s, sep) = <<u, v>>
<1> DEFINE n == Len(u)
           i == n + 1
<1>1. /\ s \in Seq(E) /\ Len(s) = n + 1 + Len(v) /\ n \in Nat /\ s[i] = sep
      /\ \A k \in 1 .. n : s[k] = u[k]
  OBVIOUS
<1>2. i \in DOMAIN s /\ DOMAIN s = 1 .. Len(s)
  BY <1>1
<1>3. \A k \in 1 .. n : s[k] # sep
  BY <1>1
<1> DEFINE c == CHOOSE j \in DOMAIN s : s[j] = sep /\ \A k \in 1 .. j - 1 : s[k] # sep
<1>4. s[i] = sep /\ \A k \in 1 .. i - 1 : s[k] # sep
  BY <1>1, <1>3
<1>5. c \in DOMAIN s /\ s[c] = sep /\ \A k \in 1 .. c - 1 : s[k] # sep
  BY <1>2, <1>4
<1>6. SplitOnce(s, sep) = <<SubSeq(s, 1, c - 1), SubSeq(s, c + 1, Len(s))>>
  BY <1>1, <1>2 DEF SplitOnce
<1> HIDE DEF c
<1>7. c = i
  <2>1. c \in Nat /\ c >= 1 /\ i \in Nat /\ i >= 1
    BY <1>1, <1>2, <1>5
  <2> HIDE DEF i
  <2>2. c < i => c \in 1 .. i - 1
    BY <2>1
  <2>3. c > i => i \in 1 .. c - 1
    BY <2>1
  <2> QED
    BY <1>4, <1>5, <2>1, <2>2, <2>3
<1>8. SubSeq(s, 1, i - 1) = u
  BY <1>1
<1>9. SubSeq(s, i + 1, Len(s)) = v
  BY <1>1
<1> QED
  BY <1>6, <1>7, <1>8, <1>9

(* Without a separator the text stays whole.                               *)
LEMMA SplitNowhere ==
    ASSUME NEW E, NEW s \in Seq(E), NEW sep, \A k \in 1 .. Len(s) : s[k] # sep
    PROVE  SplitOnce(s, sep) = <<s>>
<1>1. ~\E i \in DOMAIN s : s[i] = sep
  OBVIOUS
<1> QED
  BY <1>1 DEF SplitOnce

(* A number within the bounds is read back from its digits.                *)
LEMMA FormattedIsBounded ==
    ASSUME NEW n \in Nat, NEW max \in Nat, NEW top \in Nat, n <= max, n <= top
    PROVE  BoundedNumber(FormatUnsigned(n), max, top) = Some(n)
<1> DEFINE s == FormatUnsigned(n)
<1>1. ParseUnsigned(s, max) = Ok(n)
  <2>1. ParseUnsigned(s, max) = IF n > max THEN Err("Overflow") ELSE Ok(n)
    BY NumbersAreParsed
  <2>2. ~(n > max)
    OBVIOUS
  <2> QED
    BY <2>1, <2>2
<1>2. ~(n > top)
  OBVIOUS
<1> HIDE DEF s
<1>3. IsOk(Ok(n)) /\ Ok(n).value = n
  BY DEF IsOk, Ok
<1>4. BoundedNumber(s, max, top) = Some(n)
  BY <1>1, <1>2, <1>3 DEF BoundedNumber
<1> QED
  BY <1>4 DEF s

(* A number above the header's maximum is refused.                         *)
LEMMA FormattedExceeds ==
    ASSUME NEW n \in Nat, NEW max \in Nat, NEW top \in Nat, n <= max, n > top
    PROVE  BoundedNumber(FormatUnsigned(n), max, top) = Err("ExceedsMaximumLength")
<1> DEFINE s == FormatUnsigned(n)
<1>1. ParseUnsigned(s, max) = Ok(n)
  <2>1. ParseUnsigned(s, max) = IF n > max THEN Err("Overflow") ELSE Ok(n)
    BY NumbersAreParsed
  <2>2. ~(n > max)
    OBVIOUS
  <2> QED
    BY <2>1, <2>2
<1> HIDE DEF s
<1>2. IsOk(Ok(n)) /\ Ok(n).value = n
  BY DEF IsOk, Ok
<1>3. BoundedNumber(s, max, top) = Err("ExceedsMaximumLength")
  BY <1>1, <1>2 DEF BoundedNumber
<1> QED
  BY <1>3 DEF s

(* What is read within the bounds is a number within them.                 *)
LEMMA BoundedIsNumber ==
    ASSUME NEW E, NEW v \in Seq(E), NEW max \in Nat, NEW top \in Nat,
           IsOk(BoundedNumber(v, max, top))
    PROVE  \E n \in Nat : n <= max /\ n <= top /\ BoundedNumber(v, max, top) = Some(n)
<1> DEFINE number == ParseUnsigned(v, max)
           n == number.value
<1>1. BoundedNumber(v, max, top)
         = CASE ~IsOk(number) -> Err(n)
             [] IsOk(number) /\ n > top -> Err("ExceedsMaximumLength")
             [] OTHER -> Some(n)
  BY DEF BoundedNumber
<1>2. \A e : ~IsOk(Err(e))
  BY DEF IsOk, Err
<1> HIDE DEF n, number
<1>3. IsOk(number)
  BY <1>1, <1>2
<1>4. ~(n > top)
  BY <1>1, <1>2, <1>3
<1>5. BoundedNumber(v, max, top) = Some(n)
  BY <1>1, <1>3, <1>4
<1>6. n \in 0 .. max
  BY <1>3, ParsedIsNumber DEF number, n
<1> QED
  BY <1>4, <1>5, <1>6

(* Trimming adds no byte.                                                  *)
LEMMA TrimIn ==
    ASSUME NEW E, NEW s \in Seq(E)
    PROVE  TrimWhitespace(s) \in Seq(E)
<1>1. PICK i \in 0 .. Len(s), j \in 0 .. Len(s) : TrimWhitespace(s) = SubSeq(s, i + 1, j)
  BY TrimmingIsExact DEF TrimIsExact
<1>2. SubSeq(s, i + 1, j) \in Seq(E)
  OBVIOUS
<1> QED
  BY <1>1, <1>2

(* Splitting gives the whole text or two texts of its bytes.               *)
LEMMA SplitIn ==
    ASSUME NEW E, NEW s \in Seq(E), NEW sep
    PROVE  \/ SplitOnce(s, sep) = <<s>>
           \/ \E u, v \in Seq(E) : SplitOnce(s, sep) = <<u, v>>
<1>1. CASE \E i \in DOMAIN s : s[i] = sep
  <2> DEFINE i == CHOOSE j \in DOMAIN s : s[j] = sep /\ \A k \in 1 .. j - 1 : s[k] # sep
             u == SubSeq(s, 1, i - 1)
             v == SubSeq(s, i + 1, Len(s))
  <2>1. SplitOnce(s, sep) = <<u, v>>
    BY <1>1 DEF SplitOnce
  <2>2. \E j \in DOMAIN s : s[j] = sep /\ \A k \in 1 .. j - 1 : s[k] # sep
    <3> SUFFICES ASSUME \A j \in DOMAIN s : s[j] = sep => ~\A k \in 1 .. j - 1 : s[k] # sep
                 PROVE  FALSE
      OBVIOUS
    <3> DEFINE S == {k \in 0 .. Len(s) : k >= 1 => s[k] # sep}
    <3>1. ASSUME NEW k \in 0 .. Len(s), \A j \in 0 .. k - 1 : j \in S PROVE k \in S
      <4>1. CASE k >= 1
        <5>1. k \in DOMAIN s /\ \A j \in 1 .. k - 1 : j \in 0 .. k - 1 /\ j >= 1
          BY <4>1
        <5>2. \A j \in 1 .. k - 1 : s[j] # sep
          BY <3>1, <5>1
        <5> QED
          BY <5>1, <5>2
      <4> QED
        BY <4>1
    <3> HIDE DEF S
    <3>2. 0 .. Len(s) \subseteq S
      <4> DEFINE n == Len(s)
      <4>1. n \in Nat
        OBVIOUS
      <4>2. \A k \in 0 .. n : (\A j \in 0 .. k - 1 : j \in S) => k \in S
        BY <3>1
      <4> HIDE DEF n
      <4>3. 0 .. n \subseteq S
        BY <4>1, <4>2, UpInduction
      <4> QED
        BY <4>3 DEF n
    <3>3. \A j \in DOMAIN s : j \in 0 .. Len(s) /\ j >= 1
      OBVIOUS
    <3> QED
      BY <1>1, <3>2, <3>3 DEF S
  <2>3. i \in DOMAIN s
    BY <2>2
  <2> HIDE DEF i
  <2>4. u \in Seq(E) /\ v \in Seq(E)
    BY <2>3
  <2> HIDE DEF u, v
  <2> QED
    BY <2>1, <2>4
<1>2. CASE ~\E i \in DOMAIN s : s[i] = sep
  BY <1>2 DEF SplitOnce
<1> QED
  BY <1>1, <1>2

(* A text without line breaks and control bytes is a valid header value.   *)
LEMMA PlainIsFolded ==
    ASSUME NEW E, NEW s \in Seq(E), CR \notin E, LF \notin E, CTL \notin E, NUTF \notin E
    PROVE  Folded(s)
<1>1. \A i \in DOMAIN s : s[i] \in E
  OBVIOUS
<1> QED
  BY <1>1 DEF Folded

(* Texts are put together in any order.                                    *)
LEMMA AssociatesIn ==
    ASSUME NEW E, NEW a \in Seq(E), NEW b \in Seq(E), NEW c \in Seq(E)
    PROVE  Associates(a, b, c)
BY DEF Associates

(* A list of one value.                                                    *)
LEMMA SingleIs ==
    ASSUME NEW x, NEW v, v = <<x>>
    PROVE  Len(v) = 1 /\ v[1] = x
OBVIOUS

(* A text of three bytes.                                                  *)
LEMMA ThreeElements ==
    ASSUME NEW S, NEW a \in S, NEW b \in S, NEW c \in S
    PROVE  /\ <<a, b, c>> \in Seq(S) /\ Len(<<a, b, c>>) = 3
           /\ <<a, b, c>>[1] = a /\ <<a, b, c>>[2] = b /\ <<a, b, c>>[3] = c
OBVIOUS

(* A text of six bytes.                                                    *)
LEMMA SixElements ==
    ASSUME NEW S, NEW a \in S, NEW b \in S, NEW c \in S, NEW d \in S, NEW e \in S, NEW f \in S,
           NEW v, v = <<a, b, c, d, e, f>>
    PROVE  /\ v \in Seq(S) /\ Len(v) = 6
           /\ v[1] = a /\ v[2] = b /\ v[3] = c /\ v[4] = d /\ v[5] = e /\ v[6] = f
OBVIOUS

(* One more byte at the end, and one more at the start.                    *)
AddsLast(w, u, x) ==
    /\ Len(w) = Len(u) + 1 /\ w[Len(u) + 1] = x
    /\ \A k \in 1 .. Len(u) : w[k] = u[k]
AddsFirst(w, u, x) ==
    /\ Len(w) = Len(u) + 1 /\ w[1] = x
    /\ \A k \in 1 .. Len(u) : w[k + 1] = u[k]

(* Joining a single byte at the end adds it there.                         *)
LEMMA JoinLast ==
    ASSUME NEW S, NEW u \in Seq(S), NEW x \in S
    PROVE  u \o <<x>> \in Seq(S) /\ AddsLast(u \o <<x>>, u, x)
BY DEF AddsLast

(* Joining a single byte at the start adds it there.                       *)
LEMMA JoinFirst ==
    ASSUME NEW S, NEW u \in Seq(S), NEW x \in S
    PROVE  <<x>> \o u \in Seq(S) /\ AddsFirst(<<x>> \o u, u, x)
BY DEF AddsFirst

(* Six bytes make a text.                                                  *)
LEMMA SixIn ==
    ASSUME NEW S, NEW a \in S, NEW b \in S, NEW c \in S, NEW d \in S, NEW e \in S, NEW f \in S
    PROVE  <<a, b, c, d, e, f>> \in Seq(S)
OBVIOUS

(* The text between the ID and the digits of a timeout, cut in pieces.     *)
SixSplits(a, b, c, d, e, f) ==
    <<a, b, c, d, e, f>> = <<a>> \o (<<b, c, d>> \o <<e>> \o <<f>>)

(* It is its pieces together.                                              *)
LEMMA SixSplit ==
    ASSUME NEW S, NEW a \in S, NEW b \in S, NEW c \in S, NEW d \in S, NEW e \in S, NEW f \in S
    PROVE  SixSplits(a, b, c, d, e, f)
<1> DEFINE v == <<a, b, c, d, e, f>>
           x == <<b, c, d>>
           xe == x \o <<e>>
           y == xe \o <<f>>
           w == <<a>> \o y
<1>1. /\ v \in Seq(S) /\ Len(v) = 6
      /\ v[1] = a /\ v[2] = b /\ v[3] = c /\ v[4] = d /\ v[5] = e /\ v[6] = f
  BY SixElements
<1>2. x \in Seq(S) /\ Len(x) = 3 /\ x[1] = b /\ x[2] = c /\ x[3] = d
  BY ThreeElements
<1> HIDE DEF x, v
<1>x. xe = x \o <<e>>
  OBVIOUS
<1>y. y = xe \o <<f>>
  OBVIOUS
<1>w. w = <<a>> \o y
  OBVIOUS
<1> HIDE DEF xe, y, w
<1>3. xe \in Seq(S) /\ Len(xe) = 4 /\ xe[4] = e /\ \A k \in 1 .. 3 : xe[k] = x[k]
  <2>1. xe \in Seq(S) /\ AddsLast(xe, x, e)
    BY <1>2, <1>x, JoinLast, Zenon
  <2> QED
    BY <1>2, <2>1 DEF AddsLast
<1>4. y \in Seq(S) /\ Len(y) = 5 /\ y[5] = f /\ \A k \in 1 .. 4 : y[k] = xe[k]
  <2>1. y \in Seq(S) /\ AddsLast(y, xe, f)
    BY <1>3, <1>y, JoinLast, Zenon
  <2> QED
    BY <1>3, <2>1 DEF AddsLast
<1>5. /\ w \in Seq(S) /\ Len(w) = 6
      /\ w[1] = a /\ w[2] = b /\ w[3] = c /\ w[4] = d /\ w[5] = e /\ w[6] = f
  <2>1. w \in Seq(S) /\ AddsFirst(w, y, a)
    BY <1>4, <1>w, JoinFirst, Zenon
  <2>2. /\ Len(w) = 6 /\ w[1] = a
        /\ w[2] = y[1] /\ w[3] = y[2] /\ w[4] = y[3] /\ w[5] = y[4] /\ w[6] = y[5]
    BY <1>4, <2>1 DEF AddsFirst
  <2>3. y[1] = x[1] /\ y[2] = x[2] /\ y[3] = x[3] /\ y[4] = e
    BY <1>3, <1>4
  <2> QED
    BY <1>2, <1>4, <2>1, <2>2, <2>3
<1>6. ASSUME NEW k \in 1 .. 6 PROVE v[k] = w[k]
  <2>1. k = 1 \/ k = 2 \/ k = 3 \/ k = 4 \/ k = 5 \/ k = 6
    OBVIOUS
  <2> QED
    BY <1>1, <1>5, <2>1
<1>7. v = w
  BY <1>1, <1>5, <1>6
<1> QED
  BY <1>7 DEF v, w, y, xe, x, SixSplits

(* The sessions that the constructors and the setters allow, whose timeout *)
(* is any Duration, and the ones among them that decode accepts.           *)
SessionIDs == {id \in Seq(SessionIDBytes) : Len(id) \in MinIDLength .. MaxIDLength}
AnySessions == [id : SessionIDs, timeout : {NoTimeout} \cup 0 .. MaxU64, nanos : Nat]
Sessions == [id : SessionIDs, timeout : {NoTimeout} \cup 0 .. MaxTimeout, nanos : Nat]

(* What SessionDecode does with a single value.                            *)
SessionOf(v) ==
    LET parts == SplitOnce(v, ";")
        id == SessionIDTryFrom(TrimWhitespace(parts[1]))
        timeout == SessionTimeout(parts[2])
    IN  CASE ~IsOk(id) -> id
          [] IsOk(id) /\ Len(parts) = 1 ->
                Some([id |-> id.value, timeout |-> NoTimeout, nanos |-> 0])
          [] IsOk(id) /\ Len(parts) = 2 /\ ~IsOk(timeout) -> timeout
          [] OTHER -> Some([id |-> id.value, timeout |-> timeout.value.value, nanos |-> 0])

(* SessionDecode takes one value, and does this with it.                   *)
LEMMA SessionDecodes ==
    ASSUME NEW values
    PROVE  SessionDecode(values) = CASE Len(values) = 0 -> None
                                     [] Len(values) > 1 -> Err("MoreThanOneHeader")
                                     [] OTHER -> SessionOf(values[1])
BY DEF SessionDecode, DecodeSingle, SessionOf

(* The bytes of an ID are neither white space nor a separator.             *)
LEMMA IDBytes ==
    /\ SessionIDBytes \cap White = {} /\ ";" \notin SessionIDBytes
    /\ CR \notin SessionIDBytes /\ LF \notin SessionIDBytes
    /\ CTL \notin SessionIDBytes /\ NUTF \notin SessionIDBytes
    /\ DOMAIN Digit \subseteq SessionIDBytes
BY DEF SessionIDBytes, White, CR, LF, SP, HT, CTL, NUTF, Digit

(* An ID is found in its text as it is written.                            *)
LEMMA IDIs ==
    ASSUME NEW id \in SessionIDs
    PROVE  /\ id \in Seq(SessionIDBytes) /\ Len(id) \in Nat
           /\ TrimWhitespace(id) = id /\ SessionIDTryFrom(id) = Ok(id)
           /\ \A k \in 1 .. Len(id) : id[k] # ";"
<1>1. id \in Seq(SessionIDBytes) /\ Len(id) \in MinIDLength .. MaxIDLength
  BY DEF SessionIDs
<1>2. Len(id) \in Nat /\ ~(Len(id) < MinIDLength) /\ ~(Len(id) > MaxIDLength)
  BY <1>1, HeadersAssumption
<1>3. \A k \in DOMAIN id : id[k] \in SessionIDBytes
  BY <1>1
<1>4. DOMAIN id = 1 .. Len(id)
  BY <1>1
<1>5. NoWhite(id)
  BY <1>3, <1>4, IDBytes DEF NoWhite
<1>6. TrimWhitespace(id) = id
  BY <1>1, <1>5, TrimNothing
<1>7. SessionIDTryFrom(id) = Ok(id)
  BY <1>2, <1>3 DEF SessionIDTryFrom
<1>8. \A k \in 1 .. Len(id) : id[k] # ";"
  BY <1>3, <1>4, IDBytes
<1> QED
  BY <1>1, <1>2, <1>6, <1>7, <1>8

(* The value of a session without a timeout of its own.                    *)
LEMMA ShortSession ==
    ASSUME NEW id \in SessionIDs
    PROVE  SessionOf(id) = Some([id |-> id, timeout |-> NoTimeout, nanos |-> 0])
<1>1. /\ id \in Seq(SessionIDBytes)
      /\ TrimWhitespace(id) = id /\ SessionIDTryFrom(id) = Ok(id)
      /\ \A k \in 1 .. Len(id) : id[k] # ";"
  BY IDIs
<1>2. SplitOnce(id, ";") = <<id>>
  BY <1>1, SplitNowhere
<1> DEFINE parts == SplitOnce(id, ";")
           it == SessionIDTryFrom(TrimWhitespace(parts[1]))
           timeout == SessionTimeout(parts[2])
<1>3. SessionOf(id) =
         CASE ~IsOk(it) -> it
           [] IsOk(it) /\ Len(parts) = 1 ->
                 Some([id |-> it.value, timeout |-> NoTimeout, nanos |-> 0])
           [] IsOk(it) /\ Len(parts) = 2 /\ ~IsOk(timeout) -> timeout
           [] OTHER -> Some([id |-> it.value, timeout |-> timeout.value.value, nanos |-> 0])
  BY DEF SessionOf
<1>4. Len(parts) = 1 /\ parts[1] = id
  BY <1>2, SingleIs
<1> HIDE DEF parts
<1>5. it = Ok(id)
  BY <1>1, <1>4
<1>6. IsOk(Ok(id)) /\ Ok(id).value = id
  BY DEF IsOk, Ok
<1> HIDE DEF it, timeout
<1> QED
  BY <1>3, <1>4, <1>5, <1>6

(* The value of a session with one.                                        *)
SessionBytes == SessionIDBytes \cup {";", SP, "T", "="}
LongValue(id, n) == id \o <<";", SP, "T", SP, "=", SP>> \o FormatUnsigned(n)
Parameter(n) == <<SP, "T", SP>> \o <<"=">> \o (<<SP>> \o FormatUnsigned(n))

(* Digits are bytes of a session and no white space.                       *)
LEMMA DigitsIn ==
    ASSUME NEW n \in Nat
    PROVE  /\ FormatUnsigned(n) \in Seq(SessionBytes) /\ Len(FormatUnsigned(n)) >= 1
           /\ NoWhite(FormatUnsigned(n))
<1> DEFINE s == FormatUnsigned(n)
<1>1. /\ s \in Digits /\ Len(s) \in Nat /\ Len(s) >= 1
      /\ \A k \in 1 .. Len(s) : s[k] \in DOMAIN Digit
  BY FormatText
<1> HIDE DEF s
<1>2. s \in Seq(SessionBytes)
  <2>1. \A d \in DOMAIN Digit : d \in SessionBytes
    BY IDBytes DEF SessionBytes
  <2>2. s = [k \in 1 .. Len(s) |-> s[k]] /\ \A k \in 1 .. Len(s) : s[k] \in SessionBytes
    BY <1>1, <2>1 DEF Digits
  <2> QED
    BY <1>1, <2>2
<1>3. NoWhite(s)
  BY <1>1, IDBytes DEF NoWhite
<1> QED
  BY <1>1, <1>2, <1>3 DEF s

(* The value is the ID, a semicolon and the parameter.                     *)
LEMMA LongIs ==
    ASSUME NEW id \in SessionIDs, NEW n \in Nat
    PROVE  /\ LongValue(id, n) = id \o <<";">> \o Parameter(n)
           /\ Parameter(n) \in Seq(SessionBytes) /\ id \in Seq(SessionBytes)
           /\ LongValue(id, n) \in Seq(SessionBytes)
<1> DEFINE d == FormatUnsigned(n)
           a == <<SP, "T", SP>>
           e == <<"=">>
           b == <<SP>>
           c == <<";">>
           six == <<";", SP, "T", SP, "=", SP>>
           E == SessionBytes
<1>1. d \in Seq(E)
  BY DigitsIn
<1>2. id \in Seq(E)
  <2>1. id \in Seq(SessionIDBytes)
    BY IDIs
  <2>2. SessionIDBytes \subseteq E
    BY DEF SessionBytes
  <2> HIDE DEF E
  <2> QED
    BY <2>1, <2>2
<1>3. a \in Seq(E) /\ e \in Seq(E) /\ b \in Seq(E) /\ c \in Seq(E) /\ six \in Seq(E)
  <2>1. SP \in E /\ "T" \in E /\ "=" \in E /\ ";" \in E
    BY DEF SessionBytes
  <2> HIDE DEF E
  <2> QED
    <3>1. e \in Seq(E) /\ b \in Seq(E) /\ c \in Seq(E)
      BY <2>1, OneElement
    <3>2. a \in Seq(E)
      BY <2>1, ThreeElements
    <3>3. six \in Seq(E)
      BY <2>1, SixIn, Zenon
    <3> QED
      BY <3>1, <3>2, <3>3
<1>4. six = c \o (a \o e \o b)
  <2>1. SP \in E /\ "T" \in E /\ "=" \in E /\ ";" \in E
    BY DEF SessionBytes
  <2> HIDE DEF E
  <2>2. SixSplits(";", SP, "T", SP, "=", SP)
    BY <2>1, SixSplit
  <2> QED
    BY <2>2 DEF SixSplits
<1> HIDE DEF d, a, e, b, c, six, E
<1> DEFINE ae == a \o e
           aeb == ae \o b
           bd == b \o d
<1>5. ae \in Seq(E) /\ bd \in Seq(E)
  BY <1>1, <1>3
<1> HIDE DEF ae
<1>6. aeb \in Seq(E)
  BY <1>3, <1>5
<1>7. Associates(ae, b, d)
  BY <1>1, <1>3, <1>5, AssociatesIn
<1>8. aeb \o d = ae \o bd
  BY <1>7, Zenon DEF Associates
<1> HIDE DEF aeb, bd
<1> DEFINE p == aeb \o d
           ic == id \o c
<1>9. p \in Seq(E) /\ ic \in Seq(E)
  BY <1>1, <1>2, <1>3, <1>6
<1>10. Associates(c, aeb, d)
  BY <1>1, <1>3, <1>6, AssociatesIn
<1> DEFINE ca == c \o aeb
<1>11. ca \in Seq(E)
  BY <1>3, <1>6
<1>12. ca \o d = c \o p
  BY <1>10, Zenon DEF Associates
<1> HIDE DEF ca, p
<1>13. Associates(id, ca, d) /\ Associates(id, c, p)
  BY <1>1, <1>2, <1>3, <1>9, <1>11, AssociatesIn
<1>14. (id \o ca) \o d = (id \o c) \o p
  <2>1. (id \o ca) \o d = id \o (ca \o d) /\ (id \o c) \o p = id \o (c \o p)
    BY <1>13, Zenon DEF Associates
  <2> QED
    BY <1>12, <2>1, Zenon
<1>15. Parameter(n) = p
  BY <1>8, Zenon DEF Parameter, p, ae, bd, a, e, b, d
<1>16. LongValue(id, n) = (id \o ca) \o d
  BY <1>4, Zenon DEF LongValue, ca, aeb, ae, six, d
<1>17. (id \o c) \o p \in Seq(E)
  BY <1>9
<1> QED
  BY <1>2, <1>9, <1>14, <1>15, <1>16, <1>17, Zenon DEF c, E

(* A list of two values.                                                   *)
LEMMA PairIs ==
    ASSUME NEW x, NEW y, NEW v, v = <<x, y>>
    PROVE  Len(v) = 2 /\ v[1] = x /\ v[2] = y /\ DOMAIN v = 1 .. 2
OBVIOUS

(* The parameter is read as the number that was written.                   *)
LEMMA ParameterIsRead ==
    ASSUME NEW n \in 0 .. MaxU64
    PROVE  SessionTimeout(Parameter(n))
              = BoundedNumber(FormatUnsigned(n), MaxU64, MaxTimeout)
<1> DEFINE d == FormatUnsigned(n)
           a == <<SP, "T", SP>>
           bd == <<SP>> \o d
           s == Parameter(n)
           E == SessionBytes
           q == SplitOnce(s, "=")
           parts == [i \in DOMAIN q |-> TrimWhitespace(q[i])]
<1>0. n \in Nat
  BY HeadersAssumption
<1>1. d \in Seq(E) /\ Len(d) >= 1 /\ NoWhite(d)
  BY <1>0, DigitsIn
<1>3. SessionTimeout(s) = IF Len(parts) # 2 \/ parts[1] \notin {<<"T">>, <<"t">>}
                          THEN Err("InvalidParameterSyntax")
                          ELSE BoundedNumber(parts[2], MaxU64, MaxTimeout)
  BY DEF SessionTimeout
<1>4. s = a \o <<"=">> \o bd
  BY Zenon DEF Parameter
<1> HIDE DEF d
<1>5. SP \in E /\ "T" \in E /\ "=" \in E
  BY DEF SessionBytes
<1> HIDE DEF E, s
<1>6. a \in Seq(E) /\ Len(a) = 3 /\ a[1] = SP /\ a[2] = "T" /\ a[3] = SP
  BY <1>5, ThreeElements
<1>7. bd \in Seq(E)
  BY <1>1, <1>5, OneElement
<1>8. TrimWhitespace(bd) = d
  BY <1>1, <1>5, TrimOneSpace
<1>9. TrimWhitespace(a) = <<"T">>
  <2>1. "T" \notin White
    BY DEF White, SP, HT, CR, LF
  <2> QED
    BY <2>1, TrimTwoSpaces
<1> HIDE DEF a, bd
<1>10. \A k \in 1 .. Len(a) : a[k] # "="
  <2>1. SP # "=" /\ "T" # "="
    BY DEF SP
  <2>2. \A k \in 1 .. 3 : k = 1 \/ k = 2 \/ k = 3
    OBVIOUS
  <2> QED
    BY <1>6, <2>1, <2>2
<1>11. q = <<a, bd>>
  <2> DEFINE sep == "="
  <2>1. sep \in E /\ s = a \o <<sep>> \o bd /\ \A k \in 1 .. Len(a) : a[k] # sep
    BY <1>4, <1>5, <1>10
  <2> HIDE DEF sep
  <2>2. SplitOnce(s, sep) = <<a, bd>>
    BY <1>6, <1>7, <2>1, SplitAtFirst
  <2> QED
    BY <2>2 DEF sep
<1>12. Len(q) = 2 /\ q[1] = a /\ q[2] = bd /\ DOMAIN q = 1 .. 2
  <2> HIDE DEF q
  <2> QED
    BY <1>11, PairIs
<1> HIDE DEF q
<1>13. parts[1] = <<"T">> /\ parts[2] = d
  <2>1. parts[1] = TrimWhitespace(q[1]) /\ parts[2] = TrimWhitespace(q[2])
    BY <1>12
  <2> HIDE DEF parts
  <2> QED
    BY <1>8, <1>9, <1>12, <2>1, Zenon
<1>14. Len(parts) = 2
  BY <1>12
<1> HIDE DEF parts
<1>15. SessionTimeout(s) = BoundedNumber(parts[2], MaxU64, MaxTimeout)
  BY <1>3, <1>13, <1>14
<1> QED
  BY <1>13, <1>15, Zenon DEF s, d

(* A session with a timeout is read as it was written.                     *)
LEMMA LongSession ==
    ASSUME NEW id \in SessionIDs, NEW n \in 0 .. MaxTimeout
    PROVE  SessionOf(LongValue(id, n)) = Some([id |-> id, timeout |-> n, nanos |-> 0])
<1> DEFINE v == LongValue(id, n)
           c == ";"
           p == Parameter(n)
           E == SessionBytes
           parts == SplitOnce(v, c)
           it == SessionIDTryFrom(TrimWhitespace(parts[1]))
           timeout == SessionTimeout(parts[2])
<1>0. n \in Nat
  BY HeadersAssumption
<1>1. v = id \o <<c>> \o p /\ p \in Seq(E) /\ id \in Seq(E) /\ c \in E
  BY <1>0, LongIs DEF SessionBytes
<1>2. /\ TrimWhitespace(id) = id /\ SessionIDTryFrom(id) = Ok(id)
      /\ \A k \in 1 .. Len(id) : id[k] # c
  BY IDIs
<1>3. SessionTimeout(p) = Some(n)
  <2>1. n \in 0 .. MaxU64 /\ n <= MaxU64 /\ n <= MaxTimeout
        /\ MaxU64 \in Nat /\ MaxTimeout \in Nat
    BY HeadersAssumption
  <2>2. SessionTimeout(p) = BoundedNumber(FormatUnsigned(n), MaxU64, MaxTimeout)
    BY <2>1, ParameterIsRead
  <2>3. BoundedNumber(FormatUnsigned(n), MaxU64, MaxTimeout) = Some(n)
    BY <1>0, <2>1, FormattedIsBounded
  <2> QED
    BY <2>2, <2>3, Zenon
<1>4. SessionOf(v) =
         CASE ~IsOk(it) -> it
           [] IsOk(it) /\ Len(parts) = 1 ->
                 Some([id |-> it.value, timeout |-> NoTimeout, nanos |-> 0])
           [] IsOk(it) /\ Len(parts) = 2 /\ ~IsOk(timeout) -> timeout
           [] OTHER -> Some([id |-> it.value, timeout |-> timeout.value.value, nanos |-> 0])
  BY DEF SessionOf
<1> HIDE DEF v, c, p, E
<1>5. parts = <<id, p>>
  BY <1>1, <1>2, SplitAtFirst
<1> HIDE DEF parts
<1>6. Len(parts) = 2 /\ parts[1] = id /\ parts[2] = p
  BY <1>5, PairIs
<1>7. it = Ok(id) /\ timeout = Some(n)
  BY <1>2, <1>3, <1>6, Zenon
<1>8. IsOk(Ok(id)) /\ Ok(id).value = id
  BY DEF IsOk, Ok
<1>9. IsOk(Some(n)) /\ Some(n).value.value = n
  BY SomeIsPresent
<1> HIDE DEF it, timeout
<1>10. SessionOf(v) = Some([id |-> it.value, timeout |-> timeout.value.value, nanos |-> 0])
  BY <1>4, <1>6, <1>7, <1>8, <1>9
<1> QED
  BY <1>7, <1>8, <1>9, <1>10, Zenon DEF v

(* A session with a timeout above the maximum is refused.                  *)
LEMMA TooLongSession ==
    ASSUME NEW id \in SessionIDs, NEW n \in 0 .. MaxU64, n > MaxTimeout
    PROVE  SessionOf(LongValue(id, n)) = Err("ExceedsMaximumLength")
<1> DEFINE v == LongValue(id, n)
           c == ";"
           p == Parameter(n)
           E == SessionBytes
           parts == SplitOnce(v, c)
           it == SessionIDTryFrom(TrimWhitespace(parts[1]))
           timeout == SessionTimeout(parts[2])
           e == Err("ExceedsMaximumLength")
<1>0. n \in Nat /\ n <= MaxU64 /\ MaxU64 \in Nat /\ MaxTimeout \in Nat
  BY HeadersAssumption
<1>1. v = id \o <<c>> \o p /\ p \in Seq(E) /\ id \in Seq(E) /\ c \in E
  BY <1>0, LongIs DEF SessionBytes
<1>2. /\ TrimWhitespace(id) = id /\ SessionIDTryFrom(id) = Ok(id)
      /\ \A k \in 1 .. Len(id) : id[k] # c
  BY IDIs
<1>3. SessionTimeout(p) = e
  <2>1. SessionTimeout(p) = BoundedNumber(FormatUnsigned(n), MaxU64, MaxTimeout)
    BY ParameterIsRead
  <2>2. BoundedNumber(FormatUnsigned(n), MaxU64, MaxTimeout) = e
    BY <1>0, FormattedExceeds
  <2> QED
    BY <2>1, <2>2, Zenon
<1>4. SessionOf(v) =
         CASE ~IsOk(it) -> it
           [] IsOk(it) /\ Len(parts) = 1 ->
                 Some([id |-> it.value, timeout |-> NoTimeout, nanos |-> 0])
           [] IsOk(it) /\ Len(parts) = 2 /\ ~IsOk(timeout) -> timeout
           [] OTHER -> Some([id |-> it.value, timeout |-> timeout.value.value, nanos |-> 0])
  BY DEF SessionOf
<1> HIDE DEF v, c, p, E
<1>5. parts = <<id, p>>
  BY <1>1, <1>2, SplitAtFirst
<1> HIDE DEF parts
<1>6. Len(parts) = 2 /\ parts[1] = id /\ parts[2] = p
  BY <1>5, PairIs
<1>7. it = Ok(id) /\ timeout = e
  BY <1>2, <1>3, <1>6, Zenon
<1>8. IsOk(Ok(id)) /\ ~IsOk(e)
  BY DEF IsOk, Ok, Err
<1> HIDE DEF it, timeout, e
<1>9. SessionOf(v) = timeout
  BY <1>4, <1>6, <1>7, <1>8
<1> QED
  BY <1>7, <1>9, Zenon DEF v, e

(* The session that comes back: the default timeout is left out, and so is *)
(* a part of a second.                                                     *)
SessionReceived(session) ==
    [id |-> session.id,
     timeout |-> IF session.timeout = DefaultTimeout THEN NoTimeout ELSE session.timeout,
     nanos |-> 0]

(* Every session is written as one value, which is read as the session.    *)
LEMMA SessionIsRead ==
    ASSUME NEW session \in Sessions
    PROVE  \E v \in Seq(SessionBytes) :
              SessionEncode(session) = <<v>> /\ SessionOf(v) = Some(SessionReceived(session))
<1> DEFINE id == session.id
           n == session.timeout
<1>1. id \in SessionIDs /\ n \in {NoTimeout} \cup 0 .. MaxTimeout
  BY DEF Sessions
<1>2. CASE n \in {NoTimeout, DefaultTimeout}
  <2>1. SessionEncode(session) = <<id>>
    BY <1>2 DEF SessionEncode
  <2>2. SessionReceived(session) = [id |-> id, timeout |-> NoTimeout, nanos |-> 0]
    BY <1>2 DEF SessionReceived
  <2>3. SessionOf(id) = Some([id |-> id, timeout |-> NoTimeout, nanos |-> 0])
    BY <1>1, ShortSession
  <2>4. id \in Seq(SessionBytes)
    <3> DEFINE zero == 0
    <3>1. zero \in Nat
      OBVIOUS
    <3> HIDE DEF zero, id
    <3> QED
      BY <1>1, <3>1, LongIs
  <2> HIDE DEF id, n
  <2> QED
    BY <2>1, <2>2, <2>3, <2>4, Zenon
<1>3. CASE n \notin {NoTimeout, DefaultTimeout}
  <2> DEFINE v == LongValue(id, n)
  <2>0. n \in 0 .. MaxTimeout /\ n \in Nat
    BY <1>1, <1>3, HeadersAssumption
  <2>1. SessionEncode(session) = <<v>>
    BY <1>3, Zenon DEF SessionEncode, LongValue
  <2>2. SessionReceived(session) = [id |-> id, timeout |-> n, nanos |-> 0]
    BY <1>3 DEF SessionReceived
  <2>3. SessionOf(v) = Some([id |-> id, timeout |-> n, nanos |-> 0])
    BY <1>1, <2>0, LongSession
  <2>4. v \in Seq(SessionBytes)
    BY <1>1, <2>0, LongIs
  <2> HIDE DEF id, n, v
  <2> QED
    BY <2>1, <2>2, <2>3, <2>4, Zenon
<1> QED
  BY <1>2, <1>3

(* What comes back stands for the session that was sent.                   *)
LEMMA SessionMeaning ==
    ASSUME NEW session \in Sessions
    PROVE  Meaning("Session", SessionReceived(session)) = Meaning("Session", session)
<1> DEFINE id == session.id
           n == session.timeout
           r == SessionReceived(session)
           Understood(t) == IF t = NoTimeout THEN DefaultTimeout ELSE t
<1>1. Meaning("Session", session) = [id |-> id, timeout |-> Understood(n)]
  BY DEF Meaning
<1>2. Meaning("Session", r) = [id |-> r.id, timeout |-> Understood(r.timeout)]
  <2> HIDE DEF r
  <2> QED
    BY DEF Meaning
<1>3. r.id = id /\ r.timeout = IF n = DefaultTimeout THEN NoTimeout ELSE n
  BY DEF SessionReceived
<1> HIDE DEF id, n, r
<1>4. Understood(r.timeout) = Understood(n)
  BY <1>3, HeadersAssumption DEF NoTimeout
<1> HIDE DEF Understood
<1>5. Meaning("Session", r) = Meaning("Session", session)
  BY <1>1, <1>2, <1>3, <1>4, Zenon
<1> QED
  BY <1>5, Zenon DEF r

(* The encoded session is a valid header value that decodes to it.         *)
LEMMA SessionRoundTrip ==
    ASSUME NEW session \in Sessions
    PROVE  /\ TypedDecode("Session", TypedEncode("Session", session))
                 = Some(SessionReceived(session))
           /\ \A i \in DOMAIN TypedEncode("Session", session) :
                 Folded(TypedEncode("Session", session)[i])
<1>1. PICK v \in Seq(SessionBytes) :
         SessionEncode(session) = <<v>> /\ SessionOf(v) = Some(SessionReceived(session))
  BY SessionIsRead
<1> DEFINE w == <<v>>
<1>2. TypedEncode("Session", session) = w
  BY <1>1 DEF TypedEncode
<1>3. TypedDecode("Session", w) = SessionDecode(w)
  BY DEF TypedDecode
<1>4. Len(w) = 1 /\ w[1] = v
  BY SingleIs
<1>5. \A i \in DOMAIN w : w[i] = v
  OBVIOUS
<1> HIDE DEF w
<1>6. SessionDecode(w) = SessionOf(v)
  <2>1. SessionDecode(w) = CASE Len(w) = 0 -> None
                             [] Len(w) > 1 -> Err("MoreThanOneHeader")
                             [] OTHER -> SessionOf(w[1])
    BY SessionDecodes
  <2> QED
    BY <1>4, <2>1
<1>7. Folded(v)
  <2>1. /\ CR \notin SessionBytes /\ LF \notin SessionBytes
        /\ CTL \notin SessionBytes /\ NUTF \notin SessionBytes
    BY IDBytes DEF SessionBytes, CR, LF, CTL, NUTF, SP
  <2> QED
    BY <2>1, PlainIsFolded
<1> QED
  BY <1>1, <1>2, <1>3, <1>5, <1>6, <1>7, Zenon

(* A session that was decoded is one of the sessions.                      *)
LEMMA DecodedSession ==
    ASSUME NEW E, NEW v \in Seq(E), IsPresent(SessionOf(v))
    PROVE  \E session \in Sessions : SessionOf(v) = Some(session)
<1> DEFINE parts == SplitOnce(v, ";")
           t == TrimWhitespace(parts[1])
           it == SessionIDTryFrom(t)
           timeout == SessionTimeout(parts[2])
<1>1. SessionOf(v) =
         CASE ~IsOk(it) -> it
           [] IsOk(it) /\ Len(parts) = 1 ->
                 Some([id |-> it.value, timeout |-> NoTimeout, nanos |-> 0])
           [] IsOk(it) /\ Len(parts) = 2 /\ ~IsOk(timeout) -> timeout
           [] OTHER -> Some([id |-> it.value, timeout |-> timeout.value.value, nanos |-> 0])
  BY DEF SessionOf
<1>2. \/ Len(parts) = 1 /\ parts[1] \in Seq(E)
      \/ Len(parts) = 2 /\ parts[1] \in Seq(E) /\ parts[2] \in Seq(E)
  <2>1. CASE parts = <<v>>
    <3> HIDE DEF parts
    <3> QED
      BY <2>1, SingleIs
  <2>2. CASE \E x, y \in Seq(E) : parts = <<x, y>>
    <3>1. PICK x \in Seq(E), y \in Seq(E) : parts = <<x, y>>
      BY <2>2
    <3> HIDE DEF parts
    <3>2. Len(parts) = 2 /\ parts[1] = x /\ parts[2] = y
      BY <3>1, PairIs
    <3> QED
      BY <3>2
  <2> QED
    BY <2>1, <2>2, SplitIn
<1> HIDE DEF parts
<1>3. t \in Seq(E)
  BY <1>2, TrimIn
<1> HIDE DEF t
<1>4. IsOk(it)
  <2>1. ~IsPresent(it) \/ IsOk(it)
    BY DEF IsPresent
  <2> HIDE DEF it
  <2> QED
    BY <1>1, <2>1
<1>5. it.value \in SessionIDs
  <2>1. it = CASE Len(t) < MinIDLength -> Err("TooShort")
               [] Len(t) > MaxIDLength -> Err("TooLong")
               [] \E i \in DOMAIN t : t[i] \notin SessionIDBytes -> Err("InvalidCharacter")
               [] OTHER -> Ok(t)
    BY DEF SessionIDTryFrom
  <2>2. \A e : ~IsOk(Err(e))
    BY DEF IsOk, Err
  <2> HIDE DEF it
  <2>3. /\ ~(Len(t) < MinIDLength) /\ ~(Len(t) > MaxIDLength)
        /\ \A i \in DOMAIN t : t[i] \in SessionIDBytes
    BY <1>4, <2>1, <2>2
  <2>4. it = Ok(t)
    BY <2>1, <2>3
  <2>5. it.value = t
    BY <2>4 DEF Ok
  <2>6. Len(t) \in Nat /\ DOMAIN t = 1 .. Len(t) /\ t = [k \in 1 .. Len(t) |-> t[k]]
    BY <1>3
  <2>7. t \in Seq(SessionIDBytes)
    BY <2>3, <2>6
  <2>8. Len(t) \in MinIDLength .. MaxIDLength
    BY <2>3, <2>6, HeadersAssumption
  <2> QED
    BY <2>5, <2>7, <2>8 DEF SessionIDs
<1> HIDE DEF it
<1>6. CASE Len(parts) = 1
  <2> DEFINE session == [id |-> it.value, timeout |-> NoTimeout, nanos |-> 0]
  <2>1. SessionOf(v) = Some(session)
    <3> HIDE DEF timeout
    <3> QED
      BY <1>1, <1>4, <1>6
  <2>2. session \in Sessions
    BY <1>5 DEF Sessions
  <2> HIDE DEF session
  <2> QED
    BY <2>1, <2>2
<1>7. CASE Len(parts) = 2
  <2> DEFINE text == parts[2]
             q == SplitOnce(text, "=")
             pieces == [i \in DOMAIN q |-> TrimWhitespace(q[i])]
  <2>1. IsOk(timeout)
    <3>1. ~IsPresent(timeout) \/ IsOk(timeout)
      BY DEF IsPresent
    <3> HIDE DEF timeout
    <3> QED
      BY <1>1, <1>4, <1>7, <3>1
  <2>2. timeout = IF Len(pieces) # 2 \/ pieces[1] \notin {<<"T">>, <<"t">>}
                  THEN Err("InvalidParameterSyntax")
                  ELSE BoundedNumber(pieces[2], MaxU64, MaxTimeout)
    BY DEF SessionTimeout
  <2>3. text \in Seq(E)
    BY <1>2, <1>7
  <2> HIDE DEF timeout, text
  <2>4. Len(pieces) = 2 /\ timeout = BoundedNumber(pieces[2], MaxU64, MaxTimeout)
    <3> HIDE DEF pieces
    <3>1. ~IsOk(Err("InvalidParameterSyntax"))
      BY DEF IsOk, Err
    <3> QED
      BY <2>1, <2>2, <3>1
  <2>5. pieces[2] \in Seq(E)
    <3>1. CASE q = <<text>>
      <4> HIDE DEF q
      <4>1. DOMAIN q = 1 .. 1
        BY <3>1
      <4>2. Len(pieces) = 1
        BY <4>1
      <4> HIDE DEF pieces
      <4> QED
        BY <2>4, <4>2
    <3>2. CASE \E x, y \in Seq(E) : q = <<x, y>>
      <4>1. PICK x \in Seq(E), y \in Seq(E) : q = <<x, y>>
        BY <3>2
      <4> HIDE DEF q
      <4>2. q[2] = y /\ DOMAIN q = 1 .. 2
        BY <4>1, PairIs
      <4>3. pieces[2] = TrimWhitespace(y)
        BY <4>2
      <4> QED
        BY <4>3, TrimIn
    <3> QED
      BY <2>3, <3>1, <3>2, SplitIn
  <2> HIDE DEF pieces
  <2>6. PICK n \in Nat : n <= MaxU64 /\ n <= MaxTimeout /\ timeout = Some(n)
    <3> DEFINE z == pieces[2]
    <3>1. z \in Seq(E) /\ IsOk(BoundedNumber(z, MaxU64, MaxTimeout))
      BY <2>1, <2>4, <2>5
    <3>2. timeout = BoundedNumber(z, MaxU64, MaxTimeout)
      BY <2>4
    <3> HIDE DEF z
    <3>3. \E n \in Nat : n <= MaxU64 /\ n <= MaxTimeout
                         /\ BoundedNumber(z, MaxU64, MaxTimeout) = Some(n)
      BY <3>1, HeadersAssumption, BoundedIsNumber
    <3> QED
      BY <3>2, <3>3
  <2>7. timeout.value.value = n
    BY <2>6, SomeIsPresent
  <2> DEFINE session == [id |-> it.value, timeout |-> n, nanos |-> 0]
  <2>8. SessionOf(v) = Some(session)
    BY <1>1, <1>4, <1>7, <2>1, <2>7
  <2>9. session \in Sessions
    <3>1. n \in 0 .. MaxTimeout
      BY <2>6, HeadersAssumption
    <3> QED
      BY <1>5, <3>1 DEF Sessions
  <2> HIDE DEF session
  <2> QED
    BY <2>8, <2>9
<1> QED
  BY <1>2, <1>6, <1>7

(* The encoding of a session with a timeout above the maximum is refused.  *)
LEMMA SessionIsRefused ==
    ASSUME NEW session \in AnySessions, session.timeout > MaxTimeout
    PROVE  TypedDecode("Session", TypedEncode("Session", session))
              = Err("ExceedsMaximumLength")
<1> DEFINE id == session.id
           n == session.timeout
           v == LongValue(id, n)
           w == <<v>>
           e == Err("ExceedsMaximumLength")
<1>1. id \in SessionIDs /\ n \in {NoTimeout} \cup 0 .. MaxU64 /\ n > MaxTimeout
  BY DEF AnySessions
<1> HIDE DEF id, n
<1>2. n \in 0 .. MaxU64 /\ n \notin {NoTimeout, DefaultTimeout}
  BY <1>1, HeadersAssumption DEF NoTimeout
<1>3. SessionEncode(session) = w
  BY <1>2, Zenon DEF SessionEncode, LongValue, id, n
<1>4. SessionOf(v) = e
  BY <1>1, <1>2, TooLongSession
<1> HIDE DEF v, e
<1>5. TypedEncode("Session", session) = w
  BY <1>3 DEF TypedEncode
<1>6. TypedDecode("Session", w) = SessionDecode(w)
  BY DEF TypedDecode
<1>7. Len(w) = 1 /\ w[1] = v
  BY SingleIs
<1> HIDE DEF w
<1>8. SessionDecode(w) = SessionOf(v)
  <2>1. SessionDecode(w) = CASE Len(w) = 0 -> None
                             [] Len(w) > 1 -> Err("MoreThanOneHeader")
                             [] OTHER -> SessionOf(w[1])
    BY SessionDecodes
  <2> QED
    BY <1>7, <2>1
<1> QED
  BY <1>4, <1>5, <1>6, <1>8, Zenon DEF e

(* A session that is inserted into a map is the one that comes out, unless *)
(* its timeout is above the maximum: then it is refused.                   *)
LEMMA SessionsAreRead ==
    ASSUME NEW Pairs, NEW map \in Seq(Pairs), NEW session \in AnySessions
    PROVE  InsertedIsRead(map, "Session", session)
<1> DEFINE name == "Session"
           after == TypedInsert(map, name, session)
           r == SessionReceived(session)
           e == "ExceedsMaximumLength"
<1>1. GetAll(after, name) = TypedEncode(name, session) /\ Without(after, name) = Without(map, name)
  <2>1. name \in TypedNames
    BY DEF TypedNames
  <2> HIDE DEF name
  <2> QED
    BY <2>1, TypedInsertReplaces
<1>2. Decodable(name, session) <=> session.timeout <= MaxTimeout
  BY DEF Decodable
<1>3. TypedTryGet(after, name) = TypedDecode(name, TypedEncode(name, session))
  BY <1>1, Zenon DEF TypedTryGet
<1>4. session.timeout \in Int /\ MaxTimeout \in Int
  <2>1. session.timeout \in {NoTimeout} \cup 0 .. MaxU64
    BY DEF AnySessions
  <2> QED
    BY <2>1, HeadersAssumption DEF NoTimeout
<1>5. CASE session.timeout <= MaxTimeout
  <2>1. session \in Sessions
    <3> DEFINE t == session.timeout
    <3>1. t \in {NoTimeout} \cup 0 .. MaxU64 /\ session.id \in SessionIDs /\ session.nanos \in Nat
          /\ session = [id |-> session.id, timeout |-> t, nanos |-> session.nanos]
      BY DEF AnySessions
    <3>2. t \in {NoTimeout} \cup 0 .. MaxTimeout
      BY <1>5, <3>1, HeadersAssumption
    <3> HIDE DEF t
    <3> QED
      BY <3>1, <3>2 DEF Sessions
  <2>2. TypedDecode(name, TypedEncode(name, session)) = Some(r)
    BY <2>1, SessionRoundTrip
  <2>3. Meaning(name, r) = Meaning(name, session)
    BY <2>1, SessionMeaning
  <2> HIDE DEF name, r
  <2>4. TypedTryGet(after, name) = Some(r)
    BY <1>3, <2>2, Zenon
  <2>5. InsertedIsRead(map, name, session)
    BY <1>1, <1>2, <1>5, <2>3, <2>4, ReadAsInserted, Zenon DEF after
  <2> QED
    BY <2>5 DEF name
<1>6. CASE session.timeout > MaxTimeout
  <2>1. TypedDecode(name, TypedEncode(name, session)) = Err(e)
    BY <1>6, SessionIsRefused
  <2>2. ~Decodable(name, session)
    BY <1>2, <1>4, <1>6
  <2> HIDE DEF name, e
  <2>3. TypedTryGet(after, name) = Err(e)
    BY <1>3, <2>1, Zenon
  <2>4. InsertedIsRead(map, name, session)
    BY <1>1, <2>2, <2>3, RefusedAsInserted, Zenon DEF after
  <2> QED
    BY <2>4 DEF name
<1> QED
  BY <1>4, <1>5, <1>6

(* A session that was decoded is encoded to a value that decodes to it.    *)
LEMMA SessionsAreEncodable ==
    ASSUME NEW E, NEW values \in Seq(Seq(E))
    PROVE  DecodedIsEncodable("Session", values)
<1> DEFINE name == "Session"
           header == TypedDecode(name, values)
           again == TypedEncode(name, header.value.value)
<1> SUFFICES ASSUME IsPresent(header)
             PROVE  /\ \A i \in DOMAIN again : Folded(again[i])
                    /\ IsPresent(TypedDecode(name, again))
                    /\ Meaning(name, TypedDecode(name, again).value.value)
                          = Meaning(name, header.value.value)
  BY DEF DecodedIsEncodable
<1>1. ~IsPresent(None) /\ \A e : ~IsPresent(Err(e))
  BY DEF IsPresent, None, IsOk, Ok, Err
<1>2. header = CASE Len(values) = 0 -> None
                 [] Len(values) > 1 -> Err("MoreThanOneHeader")
                 [] OTHER -> SessionOf(values[1])
  <2>1. header = SessionDecode(values)
    BY DEF TypedDecode
  <2> QED
    BY <2>1, SessionDecodes
<1> HIDE DEF header
<1>3. Len(values) = 1
  <2>1. Len(values) \in Nat
    OBVIOUS
  <2>2. Len(values) # 0
    BY <1>1, <1>2
  <2>3. ~(Len(values) > 1)
    BY <1>1, <1>2
  <2> QED
    <3>1. \A k \in Nat : k # 0 /\ ~(k > 1) => k = 1
      OBVIOUS
    <3> QED
      BY <2>1, <2>2, <2>3, <3>1, Zenon
<1> DEFINE v == values[1]
<1>4. v \in Seq(E)
  BY <1>3, OneIn, Zenon
<1>5. header = SessionOf(v)
  BY <1>2, <1>3
<1> HIDE DEF v
<1>6. PICK session \in Sessions : SessionOf(v) = Some(session)
  <2>1. IsPresent(SessionOf(v))
    BY <1>5
  <2> QED
    BY <1>4, <2>1, DecodedSession
<1>7. header.value.value = session
  BY <1>5, <1>6, SomeIsPresent, Zenon
<1>8. again = TypedEncode(name, session)
  BY <1>7
<1>9. /\ TypedDecode(name, TypedEncode(name, session)) = Some(SessionReceived(session))
      /\ \A i \in DOMAIN TypedEncode(name, session) : Folded(TypedEncode(name, session)[i])
  BY SessionRoundTrip
<1>10. Meaning(name, SessionReceived(session)) = Meaning(name, session)
  BY SessionMeaning
<1> HIDE DEF again, name
<1>11. \A i \in DOMAIN again : Folded(again[i])
  BY <1>8, <1>9, Zenon
<1>12. TypedDecode(name, again) = Some(SessionReceived(session))
  BY <1>8, <1>9, Zenon
<1> QED
  BY <1>7, <1>10, <1>11, <1>12, SomeIsPresent, Zenon

-----------------------------------------------------------------------------
(* The typed headers of a single value.                                    *)

(* The typed headers of one value, and the headers of each name that a     *)
(* program can make.                                                       *)
SingleNames == NumberNames \cup {"Session"}
HeadersNamed(name) ==
    IF name = "Session" THEN AnySessions
    ELSE {n \in Nat : n <= TypeMax(name) /\ n <= HeaderMax(name)}

(* HeaderMap::typed_insert, typed_try_get and typed_get: whatever the map  *)
(* held, a Content-Length, CSeq or Session header that is inserted is the  *)
(* one that is read, in every order of the other entries, which do not     *)
(* change.  A session's default timeout, which is not written, still means *)
(* the same; a timeout above the maximum, which encode writes and decode   *)
(* refuses, is reported as an error and never read as another one.         *)
THEOREM InsertedHeadersAreRead ==
    ASSUME NEW Pairs, NEW map \in Seq(Pairs), NEW name \in SingleNames,
           NEW header \in HeadersNamed(name)
    PROVE  InsertedIsRead(map, name, header)
<1>1. CASE name = "Session"
  <2>1. header \in AnySessions
    BY <1>1 DEF HeadersNamed
  <2>2. InsertedIsRead(map, "Session", header)
    BY <2>1, SessionsAreRead
  <2> QED
    BY <1>1, <2>2, Zenon
<1>2. CASE name # "Session"
  <2>1. name \in NumberNames
    BY <1>2, SMTT(30) DEF SingleNames
  <2>2. header \in Nat /\ header <= TypeMax(name) /\ header <= HeaderMax(name)
    BY <1>2 DEF HeadersNamed
  <2> QED
    BY <2>1, <2>2, NumbersAreRead
<1> QED
  BY <1>1, <1>2

(* TypedHeader::decode and encode of the three headers: whatever values    *)
(* were received, a header that is decoded from them is encoded to a valid *)
(* header value, and that is decoded to a header with the same meaning.    *)
THEOREM DecodedHeadersAreEncodable ==
    ASSUME NEW E, NEW values \in Seq(Seq(E)), NEW name \in SingleNames
    PROVE  DecodedIsEncodable(name, values)
<1>1. CASE name = "Session"
  BY <1>1, SessionsAreEncodable, Zenon
<1>2. CASE name # "Session"
  <2>1. name \in NumberNames
    BY <1>2, SMTT(30) DEF SingleNames
  <2> QED
    BY <2>1, NumbersAreEncodable
<1> QED
  BY <1>1, <1>2

-----------------------------------------------------------------------------
(* Status codes (status.rs).                                               *)

(* The numbers that three digits write, and that three bytes may make.     *)
WrittenCodes == 0 .. 999
WrappedCodes == 0 .. MaxU16

(* None of the former is too large for a u16.                              *)
LEMMA ThreeDigitCode ==
    ASSUME NEW n \in WrittenCodes
    PROVE  StatusCodeTryFromInteger(n) = StatusCodeTryFrom(n)
<1>1. n \in 0 .. MaxU16
  BY DEF WrittenCodes, MaxU16
<1> QED
  BY <1>1, SMTT(30) DEF StatusCodeTryFromInteger

(* A u8 that wraps around, and the number of three of them.                *)
LEMMA WrappedByte ==
    ASSUME NEW x \in Int
    PROVE  x % 256 \in 0 .. 255
OBVIOUS

LEMMA ThreeBytesFit ==
    ASSUME NEW a \in 0 .. 255, NEW b \in 0 .. 255, NEW c \in 0 .. 255
    PROVE  a * 100 + b * 10 + c \in 0 .. 256 * 256 - 1
<1> DEFINE m == a * 100 + b * 10 + c
           k == 256 * 256
<1>1. m < k
  OBVIOUS
<1>2. m \in Nat /\ k \in Nat
  OBVIOUS
<1> HIDE DEF m, k
<1>3. m \in 0 .. k - 1
  BY <1>1, <1>2
<1> QED
  BY <1>3, Zenon DEF m, k

(* The elements of a list of three.                                        *)
LEMMA ThreeIn ==
    ASSUME NEW S, NEW w \in Seq(S), Len(w) = 3
    PROVE  w[1] \in S /\ w[2] \in S /\ w[3] \in S
<1>1. \A k \in 1 .. Len(w) : w[k] \in S
  BY SMTT(30)
<1>2. 1 \in 1 .. Len(w) /\ 2 \in 1 .. Len(w) /\ 3 \in 1 .. Len(w)
  BY SMTT(30)
<1> QED
  BY <1>1, <1>2, Zenon

(* Nor is any number that three bytes make.                                *)
LEMMA ThreeByteCode ==
    ASSUME NEW bytes \in Seq(0 .. 255), Len(bytes) = 3
    PROVE  /\ StatusCodeNumber(bytes) \in WrappedCodes
           /\ StatusCodeTryFromBytes(bytes) = StatusCodeTryFrom(StatusCodeNumber(bytes))
<1> DEFINE a == (bytes[1] - 48) % 256
           b == (bytes[2] - 48) % 256
           c == (bytes[3] - 48) % 256
           m == StatusCodeNumber(bytes)
<1>1. bytes[1] - 48 \in Int /\ bytes[2] - 48 \in Int /\ bytes[3] - 48 \in Int
  <2>1. ASSUME NEW x \in 0 .. 255
        PROVE  x - 48 \in Int
    OBVIOUS
  <2>2. bytes[1] \in 0 .. 255 /\ bytes[2] \in 0 .. 255 /\ bytes[3] \in 0 .. 255
    BY ThreeIn, Zenon
  <2> QED
    BY <2>1, <2>2, Zenon
<1>2. a \in 0 .. 255 /\ b \in 0 .. 255 /\ c \in 0 .. 255
  BY <1>1, WrappedByte, ZenonT(60)
<1>3. a * 100 + b * 10 + c \in 0 .. 256 * 256 - 1
  <2> HIDE DEF a, b, c
  <2> QED
    BY <1>2, ThreeBytesFit, ZenonT(60)
<1>4. m = a * 100 + b * 10 + c
  BY DEF StatusCodeNumber
<1>5. StatusCodeTryFromBytes(bytes) = StatusCodeTryFrom(m % (MaxU16 + 1))
  BY Zenon DEF StatusCodeTryFromBytes
<1> HIDE DEF a, b, c, m
<1>6. m \in 0 .. MaxU16
  BY <1>3, <1>4, Zenon DEF MaxU16
<1>7. m % (MaxU16 + 1) = m
  <2>1. MaxU16 \in Nat
    BY DEF MaxU16
  <2> QED
    BY <1>6, <2>1, SMTT(30)
<1> QED
  BY <1>5, <1>6, <1>7 DEF m, WrappedCodes

(* A number that becomes a code is the code's, and has a class.            *)
LEMMA CodeHasClass ==
    ASSUME NEW n \in WrappedCodes, StatusCodeTryFrom(n).tag # "Err"
    PROVE  /\ StatusCodeTryFrom(n).value = n /\ n \in 100 .. 599
           /\ \E class \in StatusCodeClasses : IsOfClass(n, class)
<1> DEFINE code == StatusCodeTryFrom(n)
<1>0. n \in Nat
  BY DEF WrappedCodes
<1>1. n >= 100 /\ n < 600 /\ code.value = n
  <2>1. CASE n < 100 \/ n >= 600
    BY <2>1 DEF StatusCodeTryFrom
  <2>2. CASE n \in {303, 352}
    BY <2>2 DEF StatusCodeTryFrom
  <2>3. CASE ~(n < 100 \/ n >= 600) /\ n \notin {303, 352}
    BY <1>0, <2>3, SMTT(30) DEF StatusCodeTryFrom
  <2> QED
    BY <2>1, <2>2, <2>3
<1>2. \A m \in 100 .. 599 : \/ StatusCodeClass(m) = "Informational" \/ StatusCodeClass(m) = "Success"
                            \/ StatusCodeClass(m) = "Redirection" \/ StatusCodeClass(m) = "ClientError"
                            \/ StatusCodeClass(m) = "ServerError"
  BY DEF StatusCodeClass
<1>3. n \in 100 .. 599
  BY <1>0, <1>1
<1>4. \E class \in StatusCodeClasses : IsOfClass(n, class)
  BY <1>2, <1>3, ZenonT(60) DEF StatusCodeClasses, IsOfClass
<1> QED
  BY <1>1, <1>3, <1>4

(* StatusCode::try_from(&[u8]): whatever the three bytes, their number     *)
(* stays within a u16, and every code that comes out has one of the        *)
(* classes; and three digits give the code of the number they write, or    *)
(* the same error as from the number.                                      *)
THEOREM StatusDigitsAreRead ==
    ASSUME NEW bytes \in Seq(0 .. 255), Len(bytes) = 3
    PROVE  StatusDigitsExact(bytes)
<1> DEFINE n == (bytes[1] - 48) * 100 + (bytes[2] - 48) * 10 + bytes[3] - 48
           m == StatusCodeNumber(bytes)
           code == StatusCodeTryFromBytes(bytes)
           Written == \A i \in DOMAIN bytes : bytes[i] \in 48 .. 57
<1>1. m \in WrappedCodes /\ code = StatusCodeTryFrom(m)
  BY ThreeByteCode
<1>2. ASSUME Written
      PROVE  m = n /\ n \in WrittenCodes
  <2> DEFINE a == bytes[1] - 48
             b == bytes[2] - 48
             c == bytes[3] - 48
  <2>1. bytes[1] \in 48 .. 57 /\ bytes[2] \in 48 .. 57 /\ bytes[3] \in 48 .. 57
    BY <1>2
  <2>2. a \in 0 .. 9 /\ b \in 0 .. 9 /\ c \in 0 .. 9
    BY <2>1
  <2>3. m = (a % 256) * 100 + (b % 256) * 10 + (c % 256)
    BY DEF StatusCodeNumber
  <2>4. n = a * 100 + b * 10 + c
    BY <2>1
  <2> HIDE DEF a, b, c, n, m
  <2>5. a % 256 = a /\ b % 256 = b /\ c % 256 = c
    <3>1. \A d \in 0 .. 9 : d % 256 = d
      OBVIOUS
    <3> QED
      BY <2>2, <3>1
  <2>6. m = n
    BY <2>3, <2>4, <2>5
  <2>7. n \in WrittenCodes
    BY <2>2, <2>4 DEF WrittenCodes
  <2> QED
    BY <2>6, <2>7
<1> HIDE DEF code, n, m
<1>3. ASSUME code.tag # "Err"
      PROVE  /\ code.value = m /\ code.value \in 100 .. 599
             /\ \E class \in StatusCodeClasses : IsOfClass(code.value, class)
  <2>1. /\ StatusCodeTryFrom(m).value = m /\ m \in 100 .. 599
        /\ \E class \in StatusCodeClasses : IsOfClass(m, class)
    BY <1>1, <1>3, CodeHasClass
  <2>2. code.value = m
    BY <1>1, <2>1
  <2> HIDE DEF Written
  <2> QED
    BY <2>1, <2>2
<1>4. ASSUME Written
      PROVE  code = StatusCodeTryFromInteger(n) /\ (code.tag # "Err" => code.value = n)
  <2>1. m = n /\ StatusCodeTryFromInteger(n) = StatusCodeTryFrom(n)
    BY <1>2, <1>4, ThreeDigitCode
  <2> QED
    BY <1>1, <1>3, <2>1
<1>5. m \in 0 .. MaxU16
  BY <1>1 DEF WrappedCodes
<1> QED
  BY <1>3, <1>4, <1>5 DEF StatusDigitsExact, code, n, m
==============================================================================
