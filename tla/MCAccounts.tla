----------------------------- MODULE MCAccounts -----------------------------
(***************************************************************************)
(* Small instances of Accounts for TLC.  The requests are interchangeable: *)
(* no definition names one of them, so their permutations are symmetries.  *)
(***************************************************************************)
EXTENDS Accounts, TLC

RequestSymmetry == Permutations(Requests)

=============================================================================
