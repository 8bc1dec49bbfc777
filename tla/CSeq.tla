-------------------------------- MODULE CSeq --------------------------------
(***************************************************************************)
(* The sequence number of an RTSP message, header/types/cseq.rs: a number  *)
(* of at most nine decimal digits, 0 .. MAX_CSEQ, and its arithmetic.      *)
(***************************************************************************)
EXTENDS Integers

CONSTANT MaxCSeq        \* MAX_CSEQ, 999_999_999 in the code

ASSUME MaxCSeqAssumption == MaxCSeq \in Nat \ {0}

-----------------------------------------------------------------------------
CSeqs == 0 .. MaxCSeq

\* The absence of a sequence number: Option::None of an Option<CSeq>.
NoCSeq == -1

OptionalCSeqs == CSeqs \cup {NoCSeq}

\* Mutant: the increment does not wrap.
IncrementWithoutWrap(c) == c + 1

\* CSeq::wrapping_increment
WrappingIncrement(c) == (c + 1) % (MaxCSeq + 1)

\* impl Sub for CSeq. Across the wrap the code answers MAX_CSEQ - (other -
\* self), one less than the number of increments that lead from b to a.
CSeqSub(a, b) == IF a >= b THEN a - b ELSE MaxCSeq - (b - a)

-----------------------------------------------------------------------------
\* The reference notion: the number of increments that lead from b to a.
Distance(a, b) == IF a >= b THEN a - b ELSE MaxCSeq + 1 - (b - a)

=============================================================================
