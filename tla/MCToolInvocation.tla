-------------------------- MODULE MCToolInvocation --------------------------
(***************************************************************************)
(* Small instances of ToolInvocation.  Call 1 and call 2 may be gated; the *)
(* message asks for input "m" everywhere and "x" is an edited payload.     *)
(***************************************************************************)
EXTENDS ToolInvocation, TLC

BothGated == <<1, 2>>
FirstGated == <<1>>
OneMessage == {[c \in Calls |-> "m"]}
TwoMessages == {[c \in Calls |-> "m"], [c \in Calls |-> "x"]}

(* Also a message in which the gated call is the same and the other is not. *)
OtherUngated ==
    TwoMessages \cup {[c \in Calls |-> IF c = 1 THEN "m" ELSE "x"]}

AttemptSymmetry == Permutations(Attempts)
=============================================================================
