-------------------------- MODULE OrderedDelivery --------------------------
(***************************************************************************)
(* What the request path of a connection promises the request handler,     *)
(* whatever the order the requests arrive in: the first request fixes the  *)
(* starting sequence number, requests that lie at most Window increments   *)
(* ahead of the next expected one may be held back, and the handler is     *)
(* given a run of consecutive sequence numbers, each of them held before   *)
(* it is delivered. Closing forgets what is held back.                     *)
(***************************************************************************)
EXTENDS CSeq, Sequences

CONSTANT Window         \* how far ahead of its turn a request may be held

VARIABLES
    next,               \* the sequence number to deliver next, or NoCSeq
    held,               \* the requests accepted and not yet delivered
    delivered,          \* the requests delivered, in order
    open                \* whether requests are still accepted and delivered

vars == <<next, held, delivered, open>>

Init ==
    /\ next = NoCSeq
    /\ held = {}
    /\ delivered = << >>
    /\ open = TRUE

Accept(c) ==
    /\ open
    /\ c \notin held
    /\ next # NoCSeq => Distance(c, next) <= Window
    /\ next' = IF next = NoCSeq THEN c ELSE next
    /\ held' = held \cup {c}
    /\ UNCHANGED <<delivered, open>>

Deliver ==
    /\ open
    /\ next \in held
    /\ delivered' = Append(delivered, next)
    /\ held' = held \ {next}
    /\ next' = WrappingIncrement(next)
    /\ UNCHANGED open

Close ==
    /\ open
    /\ open' = FALSE
    /\ held' = {}
    /\ next' = NoCSeq
    /\ UNCHANGED delivered

Next == (\E c \in CSeqs : Accept(c)) \/ Deliver \/ Close

Spec == Init /\ [][Next]_vars

=============================================================================
