------------------------- MODULE MCPendingRequests -------------------------
(***************************************************************************)
(* Small instances of PendingRequests.                                     *)
(***************************************************************************)
EXTENDS PendingRequests, TLC

\* The requests are interchangeable.
Symmetry == Permutations(Requests)

=============================================================================
