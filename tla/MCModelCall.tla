---------------------------- MODULE MCModelCall ----------------------------
(***************************************************************************)
(* Small instances of ModelCall.                                           *)
(***************************************************************************)
EXTENDS ModelCall

=============================================================================
