--------------------------- MODULE ToolInvocation ---------------------------
(***************************************************************************)
(* The durable state of the tool calls of one AI message, and the human    *)
(* approvals that gate some of them.                                       *)
(*                                                                         *)
(*   app/services/tool_invocation_service.py   rows, decisions, claims     *)
(*   app/agents/chat.py                        the two middlewares         *)
(*                                                                         *)
(* An attempt is one execution of the graph from the checkpoint that holds *)
(* the AI message: the first run (which pauses at the interrupt), a resume *)
(* with human decisions, a second resume of the same interrupt from        *)
(* another tab or a retried request, or a replay.  Attempts run            *)
(* concurrently in different server processes and meet only in PostgreSQL, *)
(* at its default isolation READ COMMITTED: every statement sees what is   *)
(* committed when it starts, an UPDATE waits for the transaction that      *)
(* holds the row and then tests its WHERE clause again, and a transaction  *)
(* that dies leaves nothing.  An INSERT ... ON CONFLICT DO NOTHING waits   *)
(* for a competing insert of the same key, so a transaction that only      *)
(* inserts (or updates the row it has just inserted) is one step here.     *)
(***************************************************************************)
EXTENDS Integers, Sequences, FiniteSets

CONSTANTS
    Attempts,   \* executions of the graph from the checkpoint
    Calls,      \* tool calls of the AI message
    Batch,      \* the calls HITL_TOOL_CONFIG interrupts, in message order
    Inputs,     \* tool name and arguments of a call, as one value
    Reasons,    \* what a human says with a rejection
    Messages    \* what the checkpoint may hold: [Calls -> Inputs]

ASSUME BatchAssumption ==
    /\ Batch \in Seq(Calls)
    /\ \A i, j \in 1..Len(Batch) : Batch[i] = Batch[j] => i = j

ASSUME InputAssumption ==
    Inputs # {} /\ Reasons # {} /\ Messages \subseteq [Calls -> Inputs]

Gated == {Batch[i] : i \in 1..Len(Batch)}

VARIABLES
    \* Committed rows.
    status,         \* ToolInvocation.status, or "absent"
    attemptCount,   \* ToolInvocation.attempt_count
    requested,      \* ToolInvocation.tool_name and requested_input
    effective,      \* ToolInvocation.effective_tool_name and effective_input
    approval,       \* Approval.status, or "absent"
    reason,         \* what of Approval.decision_payload the other columns leave open
    \* Open transactions of record_approval_decisions.
    held,           \* rows an attempt has updated and not committed
    \* One attempt: the HITL middleware.
    pc, up,         \* where it is; whether its process is alive
    asked,          \* the calls' payloads in its AI message
    decision,       \* the human decisions it resumes with
    cursor, seen,   \* the decision being recorded; the invocation row it read
    \* One tool call of one attempt: the policy middleware.
    task,           \* where it is
    expected,       \* the status its claim has read
    reply,          \* the ToolMessage it returned
    trace,          \* its TraceSpan
    \* History.
    executed        \* which attempts ran the tool, and with what payload

rows == <<status, attemptCount, requested, effective, approval, reason>>
middle == <<pc, up, asked, decision, cursor, seen>>
tools == <<task, expected, reply, trace, executed>>
vars == <<rows, held, middle, tools>>

InvocationStatus == {"pending", "pending_approval", "approved", "rejected",
                     "running", "succeeded", "failed"}
ApprovalStatus == {"pending", "approved", "edited", "rejected"}
Decisions == [type : {"none", "approve", "edit", "reject"}, input : Inputs,
              reason : Reasons]
PcStates == {"idle", "ensure", "paused", "load", "match", "update", "recheck",
             "tools", "failed"}
TaskStates == {"off", "ready", "claiming", "existing", "claimed",
               "called", "returned", "raised", "broken"}
Replies == {"none", "denied", "conflict", "success", "error", "busy",
            "waiting", "refused"}

TypeOK ==
    /\ status \in [Calls -> InvocationStatus \cup {"absent"}]
    /\ attemptCount \in [Calls -> Nat]
    /\ requested \in [Calls -> Inputs]
    /\ effective \in [Calls -> Inputs]
    /\ approval \in [Gated -> ApprovalStatus \cup {"absent"}]
    /\ reason \in [Gated -> Reasons]
    /\ held \in [Attempts -> SUBSET Gated]
    /\ pc \in [Attempts -> PcStates]
    /\ up \in [Attempts -> BOOLEAN]
    /\ asked \in [Attempts -> [Calls -> Inputs]]
    /\ decision \in [Attempts -> [Gated -> Decisions]]
    /\ cursor \in [Attempts -> 1..(Len(Batch) + 1)]
    /\ seen \in [Attempts -> [status : InvocationStatus \cup {"absent"},
                              effective : Inputs]]
    /\ task \in [Attempts -> [Calls -> TaskStates]]
    /\ expected \in [Attempts -> [Calls -> InvocationStatus \cup {"absent"}]]
    /\ reply \in [Attempts -> [Calls -> Replies]]
    /\ trace \in [Attempts -> [Calls -> {"none", "running", "success", "error"}]]
    /\ executed \in [Calls -> SUBSET (Attempts \X Inputs)]

-----------------------------------------------------------------------------
(* Helpers.                                                                *)

AnyInput == CHOOSE i \in Inputs : TRUE
AnyReason == CHOOSE w \in Reasons : TRUE
NoDecision == [type |-> "none", input |-> AnyInput, reason |-> AnyReason]

Undecided(a) == \A c \in Gated : decision[a][c].type = "none"
Complete(a) == \A c \in Gated : decision[a][c].type # "none"

(* What the call carries once after_model has revised the AI message.      *)
Payload(a, c) ==
    IF c \in Gated THEN decision[a][c].input ELSE asked[a][c]

ApprovalStatusOf(type) ==
    CASE type = "approve" -> "approved"
      [] type = "edit"    -> "edited"
      [] OTHER            -> "rejected"

Rejects(a, c) == c \in Gated /\ decision[a][c].type = "reject"

(* _decision_matches.  Of the decision's own JSON only the words of a       *)
(* rejection are not in its type and its payload.                          *)
DecisionMatches(a, c, row) ==
    /\ approval[c] = ApprovalStatusOf(decision[a][c].type)
    /\ reason[c] = decision[a][c].reason
    /\ row.status \in IF Rejects(a, c)
                        THEN {"rejected"}
                        ELSE {"approved", "running", "succeeded", "failed"}
    /\ row.effective = decision[a][c].input

Row(c) == [status |-> status[c], effective |-> effective[c]]

(* No open transaction of another attempt holds the rows of c.             *)
Free(a, c) == \A b \in Attempts \ {a} : c \notin held[b]

Advance(a, to) == pc' = [pc EXCEPT ![a] = to]
Move(a, c, to) == task' = [task EXCEPT ![a][c] = to]

-----------------------------------------------------------------------------
Init ==
    /\ status = [c \in Calls |-> "absent"]
    /\ attemptCount = [c \in Calls |-> 0]
    /\ requested = [c \in Calls |-> AnyInput]
    /\ effective = [c \in Calls |-> AnyInput]
    /\ approval = [c \in Gated |-> "absent"] /\ reason = [c \in Gated |-> AnyReason]
    /\ held = [a \in Attempts |-> {}]
    /\ pc = [a \in Attempts |-> "idle"]
    /\ up = [a \in Attempts |-> TRUE]
    /\ asked = [a \in Attempts |-> [c \in Calls |-> AnyInput]]
    /\ decision = [a \in Attempts |-> [c \in Gated |-> NoDecision]]
    /\ cursor = [a \in Attempts |-> 1]
    /\ seen = [a \in Attempts |-> [status |-> "absent", effective |-> AnyInput]]
    /\ task = [a \in Attempts |-> [c \in Calls |-> "off"]]
    /\ expected = [a \in Attempts |-> [c \in Calls |-> "absent"]]
    /\ reply = [a \in Attempts |-> [c \in Calls |-> "none"]]
    /\ trace = [a \in Attempts |-> [c \in Calls |-> "none"]]
    /\ executed = [c \in Calls |-> {}]

-----------------------------------------------------------------------------
(* PersistentHumanInTheLoopMiddleware.after_model                          *)

(* The calls that go on to the tool node: a rejected call has its          *)
(* artificial ToolMessage already and is not sent there.                   *)
Dispatch(a) ==
    /\ Advance(a, "tools")
    /\ task' = [task EXCEPT ![a] =
                  [c \in Calls |-> IF Rejects(a, c) THEN "off" ELSE "ready"]]

(* A run reaches after_model with an AI message.  Without an interrupted   *)
(* call it goes straight to the tools.                                     *)
Run(a, m) ==
    /\ pc[a] = "idle"
    /\ asked' = [asked EXCEPT ![a] = m]
    /\ IF Gated = {} THEN Dispatch(a) ELSE Advance(a, "ensure") /\ task' = task
    /\ UNCHANGED <<rows, held, up, decision, cursor, seen, expected, reply,
                   trace, executed>>

(* The answers a human can give to the interrupt of message m: one per     *)
(* call, or too few of them.                                               *)
Answers(m) ==
    {d \in [Gated -> Decisions] :
        \A c \in Gated :
            /\ \/ d[c].type = "none" /\ d[c].input = AnyInput
               \/ d[c].type \in {"approve", "reject"} /\ d[c].input = m[c]
               \/ d[c].type = "edit"
            /\ d[c].type = "reject" \/ d[c].reason = AnyReason}

(* A resume of an interrupt: the node runs again from its first line, in   *)
(* another process or in the one that paused.                              *)
Resume(a, b, d) ==
    /\ pc[b] = "paused" /\ (pc[a] = "idle" \/ a = b)
    /\ d \in Answers(asked[b]) /\ \E c \in Gated : d[c].type # "none"
    /\ asked' = [asked EXCEPT ![a] = asked[b]]
    /\ decision' = [decision EXCEPT ![a] = d]
    /\ Advance(a, "ensure")
    /\ UNCHANGED <<rows, held, up, cursor, seen, tools>>

(* _ensure_invocation refuses a row whose payload is another one.          *)
SamePayload(a, c) == status[c] = "absent" \/ requested[c] = asked[a][c]

(* A new row, or one that was created without an approval and not claimed. *)
BeforeApproval(c) ==
    \/ status[c] = "absent"
    \/ status[c] = "pending" /\ attemptCount[c] = 0

(* ensure_pending_approvals: rows for the whole batch in one transaction,  *)
(* then interrupt().  With decisions at hand interrupt() returns them, and *)
(* a wrong number of them ends the run.                                    *)
EnsurePendingApprovals(a) ==
    /\ up[a] /\ pc[a] = "ensure"
    /\ \A c \in Gated : SamePayload(a, c)
    /\ status' = [c \in Calls |->
          IF c \in Gated /\ BeforeApproval(c) THEN "pending_approval" ELSE status[c]]
    /\ requested' = [c \in Calls |->
          IF c \in Gated /\ status[c] = "absent" THEN asked[a][c] ELSE requested[c]]
    /\ effective' = [c \in Calls |->
          IF c \in Gated /\ status[c] = "absent" THEN asked[a][c] ELSE effective[c]]
    /\ approval' = [c \in Gated |->
          IF approval[c] = "absent" THEN "pending" ELSE approval[c]]
    /\ Advance(a, IF Undecided(a) THEN "paused"
                  ELSE IF Complete(a) THEN "load" ELSE "failed")
    /\ UNCHANGED <<attemptCount, reason, held, up, asked, decision, cursor, seen, tools>>

EnsureConflict(a) ==
    /\ up[a] /\ pc[a] = "ensure"
    /\ \E c \in Gated : ~SamePayload(a, c)
    /\ Advance(a, "failed")
    /\ UNCHANGED <<rows, held, up, asked, decision, cursor, seen, tools>>

-----------------------------------------------------------------------------
(* record_approval_decisions: a loop over the batch in one transaction.    *)

Current(a) == Batch[cursor[a]]

(* _load_decision_rows, first SELECT: the invocation.                      *)
LoadInvocation(a) ==
    /\ up[a] /\ pc[a] = "load" /\ cursor[a] <= Len(Batch)
    /\ seen' = [seen EXCEPT ![a] = Row(Current(a))]
    /\ Advance(a, "match")
    /\ UNCHANGED <<rows, held, up, asked, decision, cursor, tools>>

(* Mutant: a decided approval is skipped, whatever was decided.            *)
MutLoadApproval(a) ==
    /\ up[a] /\ pc[a] = "match"
    /\ \/ approval[Current(a)] = "pending" /\ Advance(a, "update") /\ UNCHANGED cursor
       \/ /\ approval[Current(a)] # "pending" /\ Advance(a, "load")
          /\ cursor' = [cursor EXCEPT ![a] = @ + 1]
    /\ UNCHANGED <<rows, held, up, asked, decision, seen, tools>>

(* _load_decision_rows, second SELECT: the approval.  A pending one is     *)
(* updated next; a decided one must be this very decision.                 *)
LoadApproval(a) ==
    /\ up[a] /\ pc[a] = "match"
    /\ \/ /\ approval[Current(a)] = "pending"
          /\ Advance(a, "update")
          /\ UNCHANGED <<held, cursor>>
       \/ /\ approval[Current(a)] # "pending"
          /\ DecisionMatches(a, Current(a), seen[a])
          /\ cursor' = [cursor EXCEPT ![a] = @ + 1]
          /\ Advance(a, "load")
          /\ UNCHANGED held
       \/ /\ approval[Current(a)] # "pending"
          /\ ~DecisionMatches(a, Current(a), seen[a])
          /\ held' = [held EXCEPT ![a] = {}]
          /\ Advance(a, "failed")
          /\ UNCHANGED cursor
    /\ UNCHANGED <<rows, up, asked, decision, seen, tools>>

(* Mutant: the UPDATEs have no status in their WHERE clause.               *)
MutUpdateAnyway(a) ==
    /\ up[a] /\ pc[a] = "update"
    /\ Free(a, Current(a))
    /\ held' = [held EXCEPT ![a] = @ \cup {Current(a)}]
    /\ cursor' = [cursor EXCEPT ![a] = @ + 1]
    /\ Advance(a, "load")
    /\ UNCHANGED <<rows, up, asked, decision, seen, tools>>

(* Mutant: db.commit() inside the loop.                                    *)
MutUpdateAndCommit(a) ==
    /\ up[a] /\ pc[a] = "update"
    /\ approval[Current(a)] = "pending"
    /\ status' = [status EXCEPT ![Current(a)] =
                    IF Rejects(a, Current(a)) THEN "rejected" ELSE "approved"]
    /\ effective' = [effective EXCEPT ![Current(a)] = decision[a][Current(a)].input]
    /\ approval' = [approval EXCEPT ![Current(a)] =
                      ApprovalStatusOf(decision[a][Current(a)].type)]
    /\ reason' = [reason EXCEPT ![Current(a)] = decision[a][Current(a)].reason]
    /\ cursor' = [cursor EXCEPT ![a] = @ + 1]
    /\ Advance(a, "load")
    /\ UNCHANGED <<attemptCount, requested, held, up, asked, decision, seen, tools>>

(* The two conditional UPDATEs: both rows are still undecided.             *)
UpdateDecision(a) ==
    /\ up[a] /\ pc[a] = "update"
    /\ Free(a, Current(a))
    /\ approval[Current(a)] = "pending"
    /\ status[Current(a)] = "pending_approval"
    /\ held' = [held EXCEPT ![a] = @ \cup {Current(a)}]
    /\ cursor' = [cursor EXCEPT ![a] = @ + 1]
    /\ Advance(a, "load")
    /\ UNCHANGED <<rows, up, asked, decision, seen, tools>>

(* _ConcurrentDecision: an UPDATE found no row; the batch is rolled back.  *)
UpdateLost(a) ==
    /\ up[a] /\ pc[a] = "update"
    /\ Free(a, Current(a))
    /\ \/ approval[Current(a)] # "pending"
       \/ status[Current(a)] # "pending_approval"
    /\ held' = [held EXCEPT ![a] = {}]
    /\ Advance(a, "recheck")
    /\ UNCHANGED <<rows, up, asked, decision, cursor, seen, tools>>

(* The commit of the loop: every decision of the batch becomes visible.    *)
CommitDecisions(a) ==
    /\ up[a] /\ pc[a] = "load" /\ cursor[a] > Len(Batch)
    /\ status' = [c \in Calls |->
          IF c \in held[a]
            THEN IF Rejects(a, c) THEN "rejected" ELSE "approved"
            ELSE status[c]]
    /\ effective' = [c \in Calls |->
          IF c \in held[a] THEN decision[a][c].input ELSE effective[c]]
    /\ approval' = [c \in Gated |->
          IF c \in held[a] THEN ApprovalStatusOf(decision[a][c].type) ELSE approval[c]]
    /\ reason' = [c \in Gated |-> IF c \in held[a] THEN decision[a][c].reason ELSE reason[c]]
    /\ held' = [held EXCEPT ![a] = {}]
    /\ Dispatch(a)
    /\ UNCHANGED <<attemptCount, requested, up, asked, decision, cursor, seen,
                   expected, reply, trace, executed>>

(* The second pass after a lost race: every row must hold this decision.   *)
Recheck(a) ==
    /\ up[a] /\ pc[a] = "recheck"
    /\ IF \A c \in Gated : DecisionMatches(a, c, Row(c))
         THEN Dispatch(a)
         ELSE Advance(a, "failed") /\ UNCHANGED task
    /\ UNCHANGED <<rows, held, up, asked, decision, cursor, seen, expected,
                   reply, trace, executed>>

-----------------------------------------------------------------------------
(* PolicyTraceMiddleware.wrap_tool_call and awrap_tool_call: each call     *)
(* sent to the tool node is a task of its own.                             *)

InTools(a, c, at) == up[a] /\ pc[a] = "tools" /\ task[a][c] = at

Return(a, c, message) ==
    /\ Move(a, c, "returned")
    /\ reply' = [reply EXCEPT ![a][c] = message]

(* enforce_tool raises PolicyViolation before anything is claimed.         *)
DenyTool(a, c) ==
    /\ InTools(a, c, "ready")
    /\ Return(a, c, "denied")
    /\ UNCHANGED <<rows, held, middle, expected, trace, executed>>

(* claim_tool_invocation of a call without a row: insert, claim, commit.   *)
(* Nobody else sees the "pending" row in between.                          *)
ClaimNew(a, c) ==
    /\ InTools(a, c, "ready")
    /\ status[c] = "absent"
    /\ status' = [status EXCEPT ![c] = "running"]
    /\ attemptCount' = [attemptCount EXCEPT ![c] = 1]
    /\ requested' = [requested EXCEPT ![c] = Payload(a, c)]
    /\ effective' = [effective EXCEPT ![c] = Payload(a, c)]
    /\ Move(a, c, "claimed")
    /\ UNCHANGED <<approval, reason, held, middle, expected, reply, trace, executed>>

(* Mutant: the payload of the row is not compared.                         *)
MutReadClaimUnchecked(a, c) ==
    /\ InTools(a, c, "ready") /\ status[c] # "absent"
    /\ \/ status[c] # "approved" /\ Move(a, c, "existing") /\ UNCHANGED expected
       \/ /\ status[c] = "approved" /\ Move(a, c, "claiming")
          /\ expected' = [expected EXCEPT ![a][c] = status[c]]
    /\ UNCHANGED <<rows, held, middle, reply, trace, executed>>

(* claim_tool_invocation of a call with a row: the SELECT.  The row must   *)
(* hold the payload to be executed; only an unclaimed row is claimed.      *)
ReadClaim(a, c) ==
    /\ InTools(a, c, "ready")
    /\ status[c] # "absent"
    /\ \/ /\ effective[c] # Payload(a, c)
          /\ Return(a, c, "conflict")
          /\ UNCHANGED expected
       \/ /\ effective[c] = Payload(a, c)
          /\ status[c] \notin {"pending", "approved"}
          /\ Move(a, c, "existing")
          /\ UNCHANGED <<expected, reply>>
       \/ /\ effective[c] = Payload(a, c)
          /\ status[c] \in {"pending", "approved"}
          /\ expected' = [expected EXCEPT ![a][c] = status[c]]
          /\ Move(a, c, "claiming")
          /\ UNCHANGED reply
    /\ UNCHANGED <<rows, held, middle, trace, executed>>

(* Mutant: the UPDATE does not repeat the status it has read.              *)
MutClaim(a, c) ==
    /\ InTools(a, c, "claiming")
    /\ status' = [status EXCEPT ![c] = "running"]
    /\ attemptCount' = [attemptCount EXCEPT ![c] = @ + 1]
    /\ Move(a, c, "claimed")
    /\ UNCHANGED <<requested, effective, approval, reason, held, middle,
                   expected, reply, trace, executed>>

(* The conditional UPDATE that claims the row, or finds it taken.          *)
Claim(a, c) ==
    /\ InTools(a, c, "claiming")
    /\ Free(a, c)
    /\ \/ /\ status[c] = expected[a][c]
          /\ status' = [status EXCEPT ![c] = "running"]
          /\ attemptCount' = [attemptCount EXCEPT ![c] = @ + 1]
          /\ Move(a, c, "claimed")
       \/ /\ status[c] # expected[a][c]
          /\ Move(a, c, "existing")
          /\ UNCHANGED <<status, attemptCount>>
    /\ UNCHANGED <<requested, effective, approval, reason, held, middle,
                   expected, reply, trace, executed>>

(* Mutant: a call that is still running counts as done.                    *)
MutExistingMessage(st) == IF st \in {"running", "succeeded"} THEN "success" ELSE "error"

(* _existing_invocation_message: the state of a call that this task does   *)
(* not execute.                                                            *)
ExistingMessage(st) ==
    CASE st = "succeeded"        -> "success"
      [] st = "failed"           -> "error"
      [] st = "pending_approval" -> "waiting"
      [] st = "rejected"         -> "refused"
      [] OTHER                   -> "busy"

(* The row is read again after the transaction, a span is written and the  *)
(* message returned.                                                       *)
ReplyExisting(a, c) ==
    /\ InTools(a, c, "existing")
    /\ Return(a, c, ExistingMessage(status[c]))
    /\ trace' = [trace EXCEPT ![a][c] =
                    IF status[c] = "succeeded" THEN "success" ELSE "error"]
    /\ UNCHANGED <<rows, held, middle, expected, executed>>

(* The claimed call gets its span, then handler(request): the tool runs,   *)
(* with whatever it does to the world.                                     *)
CallHandler(a, c) ==
    /\ InTools(a, c, "claimed")
    /\ Move(a, c, "called")
    /\ trace' = [trace EXCEPT ![a][c] = "running"]
    /\ executed' = [executed EXCEPT ![c] = @ \cup {<<a, Payload(a, c)>>}]
    /\ UNCHANGED <<rows, held, middle, expected, reply>>

(* complete_tool_invocation and fail_tool_invocation: only a running row.  *)
FinishRow(c, final) ==
    status' = [status EXCEPT ![c] = IF @ = "running" THEN final ELSE @]

(* _finish_tool_call: the handler returned a result, which may be an error.*)
FinishToolCall(a, c, result) ==
    /\ InTools(a, c, "called")
    /\ FinishRow(c, IF result = "error" THEN "failed" ELSE "succeeded")
    /\ trace' = [trace EXCEPT ![a][c] = result]
    /\ Return(a, c, result)
    /\ UNCHANGED <<attemptCount, requested, effective, approval, reason, held, middle,
                   expected, executed>>

(* Mutant: the failed call is given back for a retry.                      *)
MutFailAndReopen(a, c) ==
    /\ InTools(a, c, "called")
    /\ FinishRow(c, "approved")
    /\ Move(a, c, "raised")
    /\ UNCHANGED <<attemptCount, requested, effective, approval, reason, held, middle,
                   expected, reply, trace, executed>>

(* Mutant: only the span is marked, the row stays running.                 *)
MutFailTraceOnly(a, c) ==
    /\ InTools(a, c, "called")
    /\ trace' = [trace EXCEPT ![a][c] = "error"]
    /\ Move(a, c, "raised")
    /\ UNCHANGED <<rows, held, middle, expected, reply, executed>>

(* _fail_trace: the handler raised; the exception goes on to the graph.    *)
FailToolCall(a, c) ==
    /\ InTools(a, c, "called")
    /\ FinishRow(c, "failed")
    /\ trace' = [trace EXCEPT ![a][c] = "error"]
    /\ Move(a, c, "raised")
    /\ UNCHANGED <<attemptCount, requested, effective, approval, reason, held, middle,
                   expected, reply, executed>>

-----------------------------------------------------------------------------
(* Failures.                                                               *)

(* The database refuses a statement of a task.  The transaction is lost    *)
(* and the exception leaves the task; a claim committed before stays.      *)
DatabaseFails(a, c) ==
    /\ up[a] /\ pc[a] = "tools"
    /\ task[a][c] \in {"ready", "claiming", "existing", "claimed", "called"}
    /\ Move(a, c, "broken")
    /\ UNCHANGED <<rows, held, middle, expected, reply, trace, executed>>

TaskOver(a, c) == task[a][c] \in {"off", "returned", "raised", "broken"}

Settled(a) ==
    \/ pc[a] \in {"paused", "failed"}
    \/ pc[a] = "tools" /\ \A c \in Calls : TaskOver(a, c)

(* Mutant: the rows of a dead process stay locked.                         *)
MutCrash(a) ==
    /\ up[a] /\ pc[a] # "idle" /\ ~Settled(a)
    /\ up' = [up EXCEPT ![a] = FALSE]
    /\ UNCHANGED <<rows, held, pc, asked, decision, cursor, seen, tools>>

(* The server process dies, or the run is cancelled: CancelledError is no  *)
(* Exception, so no handler runs.  PostgreSQL rolls the transaction back.  *)
Crash(a) ==
    /\ up[a] /\ pc[a] # "idle" /\ ~Settled(a)
    /\ up' = [up EXCEPT ![a] = FALSE]
    /\ held' = [held EXCEPT ![a] = {}]
    /\ UNCHANGED <<rows, pc, asked, decision, cursor, seen, tools>>

-----------------------------------------------------------------------------
HitlStep(a) ==
    \/ EnsurePendingApprovals(a)
    \/ EnsureConflict(a)
    \/ LoadInvocation(a)
    \/ LoadApproval(a)
    \/ UpdateDecision(a)
    \/ UpdateLost(a)
    \/ CommitDecisions(a)
    \/ Recheck(a)

ToolStep(a, c) ==
    \/ DenyTool(a, c)
    \/ ClaimNew(a, c)
    \/ ReadClaim(a, c)
    \/ Claim(a, c)
    \/ ReplyExisting(a, c)
    \/ CallHandler(a, c)
    \/ \E result \in {"success", "error"} : FinishToolCall(a, c, result)
    \/ FailToolCall(a, c)

(* Every attempt is over or was never started.                             *)
Quiescent ==
    /\ \A a \in Attempts : ~up[a] \/ pc[a] = "idle" \/ Settled(a)
    /\ UNCHANGED vars

Next ==
    \/ \E a \in Attempts, m \in Messages : Run(a, m)
    \/ \E a, b \in Attempts : \E d \in [Gated -> Decisions] : Resume(a, b, d)
    \/ \E a \in Attempts : HitlStep(a)
    \/ \E a \in Attempts, c \in Calls : ToolStep(a, c)
    \/ \E a \in Attempts, c \in Calls : DatabaseFails(a, c)
    \/ \E a \in Attempts : Crash(a)
    \/ Quiescent

Spec == Init /\ [][Next]_vars

(* A live process goes on executing its statements, PostgreSQL answers     *)
(* them, and a tool returns or raises (every tool call has its own         *)
(* timeout).  Nobody has to start an attempt.                              *)
FairSpec ==
    /\ Spec
    /\ \A a \in Attempts : WF_vars(HitlStep(a))
    /\ \A a \in Attempts, c \in Calls : WF_vars(ToolStep(a, c))

-----------------------------------------------------------------------------
(* Properties.                                                             *)

(* A tool call is executed at most once, whatever the number of resumes,   *)
(* replays and crashes: claim_tool_invocation hands a call to one executor *)
(* only, and attempt_count says how many claims there were.                *)
AtMostOnce ==
    \A c \in Calls :
        /\ \A x, y \in executed[c] : x = y
        /\ attemptCount[c] <= 1
        /\ executed[c] # {} => attemptCount[c] = 1

(* A gated tool runs only after a recorded approval, and with exactly the  *)
(* payload that approval recorded: a rejected call never runs, an edited   *)
(* one never runs with the model's own arguments.                          *)
ExecutedAsDecided ==
    \A c \in Gated : \A x \in executed[c] :
        /\ approval[c] \in {"approved", "edited"}
        /\ x[2] = effective[c]

(* The decisions of one interrupt are recorded together or not at all, in  *)
(* one transaction over the batch (record_approval_decisions).             *)
DecidedTogether ==
    \A c, d \in Gated :
        approval[c] \in {"approved", "edited", "rejected"}
            => approval[d] \in {"approved", "edited", "rejected"}

(* Approval and invocation rows tell the same story in every committed     *)
(* state, although two UPDATEs write them.                                 *)
RowsAgree ==
    \A c \in Gated :
        /\ approval[c] = "absent" <=> status[c] = "absent"
        /\ approval[c] = "pending" <=> status[c] = "pending_approval"
        /\ approval[c] = "rejected" <=> status[c] = "rejected"

(* An attempt that reaches the tool node past a human decision works with  *)
(* the decision that is on record, not merely with its own.                *)
ToolsFollowRecord ==
    \A a \in Attempts : pc[a] = "tools" =>
        \A c \in Gated : DecisionMatches(a, c, Row(c))

(* A human decision is written once and never again (db/models.py: "One    *)
(* immutable human decision"), and neither are its words and the payload   *)
(* it approved.                                                            *)
DecisionIsFinal ==
    [][\A c \in Gated :
        approval[c] \in {"approved", "edited", "rejected"} =>
            /\ approval'[c] = approval[c] /\ effective'[c] = effective[c]
            /\ reason'[c] = reason[c]]_vars

(* Every reply that reports the outcome of a call reports the same one,    *)
(* the one in the row: replays reuse the stored result, and no trace span  *)
(* reports a success that is not there.                                    *)
RepliesAgree ==
    \A a \in Attempts, c \in Calls :
        /\ reply[a][c] = "success" => status[c] = "succeeded"
        /\ reply[a][c] = "error" => status[c] = "failed"
        /\ trace[a][c] = "success" => status[c] = "succeeded"

(* An outcome is never handed to a call with another payload: the same     *)
(* tool_call_id with other arguments is a conflict, not a cached result.   *)
RepliesMatchPayload ==
    \A a \in Attempts, c \in Calls :
        reply[a][c] \in {"success", "error"} => Payload(a, c) = effective[c]

(* A live attempt comes to an end: no UPDATE waits for ever for a row, not *)
(* even for one held by a process that died.                               *)
AttemptsSettle ==
    \A a \in Attempts : pc[a] # "idle" ~> (Settled(a) \/ ~up[a])

(* The executor of a running call.                                         *)
Executes(a, c) == task[a][c] \in {"claimed", "called"}

(* A running call is finished unless its executor dies or loses the        *)
(* database: no error path of the middleware forgets the row.              *)
RunningIsFinished ==
    \A a \in Attempts, c \in Calls :
        Executes(a, c) ~>
            \/ status[c] \in {"succeeded", "failed"}
            \/ ~up[a] \/ task[a][c] = "broken"

(* A duplicate resume with the decision that is on record is accepted; a   *)
(* conflict is reported only for another decision (the comment above the   *)
(* second pass of record_approval_decisions: "Treat only an exact match as *)
(* idempotent; a different decision is a hard conflict").                  *)
ConflictMeansDifferent ==
    \A a \in Attempts :
        pc[a] = "failed" /\ Complete(a) /\ (\A c \in Gated : SamePayload(a, c))
            => \E c \in Gated : ~DecisionMatches(a, c, Row(c))

-----------------------------------------------------------------------------
(* The abstract promise, and how the rows implement it.                    *)

Phase(st) ==
    CASE st \in {"absent", "pending"}     -> "new"
      [] st = "pending_approval"          -> "waiting"
      [] st = "approved"                  -> "granted"
      [] st = "rejected"                  -> "refused"
      [] st = "running"                   -> "running"
      [] OTHER                            -> "ended"

Gate == INSTANCE ToolGate
          WITH Actors <- Attempts, grant <- effective, effects <- executed,
               phase <- [c \in Calls |-> Phase(status[c])]

(* The rows, seen through Phase, behave as ToolGate: the interrupt is one  *)
(* question with one answer for the batch, and a tool acts once, as        *)
(* granted.                                                                *)
ImplementsGate == Gate!Spec

-----------------------------------------------------------------------------
(* The inductive invariant of the proofs.                                  *)

Decided(c) == approval[c] \in {"approved", "edited", "rejected"}
Recording(a) == up[a] /\ pc[a] \in {"load", "match", "update"}

LifeCycle ==
    /\ \A c \in Calls : status[c] # "pending"
    /\ \A c \in Calls \ Gated :
          status[c] \in {"absent", "running", "succeeded", "failed"}
    /\ \A c \in Calls : attemptCount[c] =
          IF status[c] \in {"running", "succeeded", "failed"} THEN 1 ELSE 0
    /\ \A c, d \in Gated : approval[c] = "absent" => approval[d] = "absent"

(* Open transactions hold undecided rows, from the first of the batch on,  *)
(* and no row twice; one that holds nothing has found the batch decided.   *)
Transactions ==
    /\ \A a \in Attempts : held[a] # {} => Recording(a)
    /\ \A a \in Attempts : \A c \in held[a] : approval[c] = "pending"
    /\ \A a, b \in Attempts : a # b => held[a] \cap held[b] = {}
    /\ \A a \in Attempts : Recording(a) =>
          \/ held[a] = {Batch[i] : i \in 1..(cursor[a] - 1)}
          \/ held[a] = {} /\ \A c \in Gated : Decided(c)

(* What an attempt has recorded, matched or read about its decisions.      *)
Recorded ==
    /\ \A a \in Attempts : pc[a] \in {"load", "match", "update", "recheck", "tools"}
          => Complete(a) /\ \A c \in Gated : approval[c] # "absent"
    /\ \A a \in Attempts :
          /\ pc[a] \in {"idle", "ensure", "paused"} => cursor[a] = 1
          /\ pc[a] \in {"match", "update"} => cursor[a] <= Len(Batch)
    /\ \A a \in Attempts : Recording(a) =>
          \A i \in 1..(cursor[a] - 1) :
              Batch[i] \in held[a] \/ DecisionMatches(a, Batch[i], Row(Batch[i]))
    /\ \A a \in Attempts : pc[a] = "match" =>
          \/ seen[a].status = "pending_approval"
          \/ /\ seen[a].effective = effective[Current(a)]
             /\ \/ seen[a].status = "rejected" /\ status[Current(a)] = "rejected"
                \/ /\ seen[a].status \in {"approved", "running", "succeeded", "failed"}
                   /\ status[Current(a)] \in {"approved", "running", "succeeded", "failed"}

(* A claim in progress, and the one executor of a running call.            *)
Executors ==
    /\ \A a \in Attempts, c \in Calls : task[a][c] # "off" => pc[a] = "tools"
    /\ \A a \in Attempts, c \in Calls : task[a][c] = "claiming" =>
          expected[a][c] = "approved" /\ effective[c] = Payload(a, c)
             /\ status[c] \notin {"absent", "pending_approval"}
    /\ \A a \in Attempts, c \in Calls : Executes(a, c) =>
          status[c] = "running" /\ effective[c] = Payload(a, c)
    /\ \A a, b \in Attempts, c \in Calls :
          Executes(a, c) /\ Executes(b, c) => a = b
    /\ \A a \in Attempts, c \in Calls : task[a][c] = "claimed" => executed[c] = {}
    /\ \A c \in Calls : executed[c] # {} =>
          status[c] \in {"running", "succeeded", "failed"}
    /\ \A c \in Calls : \A x \in executed[c] : x[2] = effective[c]

IInv ==
    /\ TypeOK
    /\ RowsAgree
    /\ LifeCycle
    /\ Transactions
    /\ Recorded
    /\ DecidedTogether
    /\ ToolsFollowRecord
    /\ Executors
    /\ AtMostOnce
    /\ RepliesAgree

=============================================================================
