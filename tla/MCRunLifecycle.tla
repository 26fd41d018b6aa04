--------------------------- MODULE MCRunLifecycle ---------------------------
(***************************************************************************)
(* A small instance of RunLifecycle for TLC; RunLifecycle.cfg has it.      *)
(***************************************************************************)
EXTENDS RunLifecycle
=============================================================================
