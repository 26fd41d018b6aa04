------------------------------ MODULE ToolGate ------------------------------
(***************************************************************************)
(* What the durable tool state promises, without attempts, transactions or *)
(* failures: a gated call waits, the human decides all waiting calls at    *)
(* once, a granted call is begun once and acts at most once, with exactly  *)
(* the payload that was granted.  ToolInvocation implements it.            *)
(***************************************************************************)
CONSTANTS
    Calls,    \* tool calls of one AI message
    Gated,    \* those a human decides about
    Inputs,   \* payloads
    Actors    \* who may execute a call

VARIABLES
    phase,    \* "new", "waiting", "granted", "refused", "running", "ended"
    grant,    \* the payload that may be executed
    effects   \* what was executed, and by whom

vars == <<phase, grant, effects>>

Init ==
    /\ phase = [c \in Calls |-> "new"]
    /\ grant \in [Calls -> Inputs]
    /\ effects = [c \in Calls |-> {}]

(* The gated calls are put before the human.                               *)
Ask ==
    /\ \A c \in Gated : phase[c] = "new"
    /\ phase' = [c \in Calls |-> IF c \in Gated THEN "waiting" ELSE phase[c]]
    /\ grant' \in [Calls -> Inputs]
    /\ \A c \in Calls \ Gated : grant'[c] = grant[c]
    /\ UNCHANGED effects

(* The human answers all of them, by a grant or a refusal each.            *)
Decide ==
    /\ \A c \in Gated : phase[c] = "waiting" /\ phase'[c] \in {"granted", "refused"}
    /\ phase' \in [Calls -> {"new", "granted", "refused", "running", "ended"}]
    /\ grant' \in [Calls -> Inputs]
    /\ \A c \in Calls \ Gated : phase'[c] = phase[c] /\ grant'[c] = grant[c]
    /\ UNCHANGED effects

BeginGranted(c) ==
    /\ c \in Gated /\ phase[c] = "granted"
    /\ phase' = [phase EXCEPT ![c] = "running"]
    /\ UNCHANGED <<grant, effects>>

BeginUngated(c, input) ==
    /\ c \notin Gated /\ phase[c] = "new"
    /\ phase' = [phase EXCEPT ![c] = "running"]
    /\ grant' = [grant EXCEPT ![c] = input]
    /\ UNCHANGED effects

(* The tool acts: once, and as granted.                                    *)
Act(c, w) ==
    /\ phase[c] = "running" /\ effects[c] = {}
    /\ effects' = [effects EXCEPT ![c] = {<<w, grant[c]>>}]
    /\ UNCHANGED <<phase, grant>>

End(c) ==
    /\ phase[c] = "running"
    /\ phase' = [phase EXCEPT ![c] = "ended"]
    /\ UNCHANGED <<grant, effects>>

Next ==
    \/ Ask
    \/ Decide
    \/ \E c \in Calls : BeginGranted(c) \/ End(c)
    \/ \E c \in Calls, input \in Inputs : BeginUngated(c, input)
    \/ \E c \in Calls, w \in Actors : Act(c, w)

Spec == Init /\ [][Next]_vars
=============================================================================
