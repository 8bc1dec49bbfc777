-------------------------- MODULE MCRequestHandler --------------------------
(***************************************************************************)
(* Small instances of RequestHandler.                                      *)
(***************************************************************************)
EXTENDS RequestHandler

=============================================================================
