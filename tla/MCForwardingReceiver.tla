------------------------ MODULE MCForwardingReceiver ------------------------
(***************************************************************************)
(* Small instances of ForwardingReceiver. The sequence numbers wrap after  *)
(* MaxCSeq = 7, and the peer starts close to the wrap.                     *)
(***************************************************************************)
EXTENDS ForwardingReceiver, SequencesExt

CONSTANT MaxArrivals    \* bound on the length of arbitrary arrivals

\* Any requests in any order: duplicates, stale and far-off numbers, and
\* requests without a number, on both sides of the wrap; and two longer runs,
\* which block the forward loop several times.
AnyArrivals ==
    SeqOf({6, 7, 0, 1, 2, NoCSeq}, MaxArrivals)
        \cup {<<5, 6, 7, 0, 1, 2>>, <<5, 7, 6, 1, 0, 2>>}

\* A peer that numbers its requests without a gap, of which one is overtaken by
\* RequestBufferSize = 2 others.
ReorderedByBufferSize == {<<3, 5, 6, 4>>}

=============================================================================
