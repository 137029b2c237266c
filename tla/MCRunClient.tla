---------------------------- MODULE MCRunClient ----------------------------
(* RunClient with small values for its constants. *)
EXTENDS RunClient

=============================================================================
