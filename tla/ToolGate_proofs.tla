-------------------------- MODULE ToolGate_proofs --------------------------
(***************************************************************************)
(* ToolInvocation implements ToolGate, for any number of attempts, calls   *)
(* and payloads, with two properties that rest on the same facts.          *)
(*                                                                         *)
(* The rows change in few steps only: a batch is asked for, or decided, as *)
(* a whole (CommitWholeBatch), a call is claimed, and a running row is     *)
(* finished (StepsOfNoRow names them).  So a payload is never written      *)
(* again once a row is decided (PayloadsStay), whoever has compared its    *)
(* payload with the row's may rely on it (Answered), and every step is one *)
(* of ToolGate's or leaves what ToolGate sees alone (GateStep).            *)
(***************************************************************************)
EXTENDS ToolInvocation_proofs

(***************************************************************************)
(* What the steps do to the rows.                                          *)
(***************************************************************************)

(* A decided row has been asked for, and an open transaction holds the     *)
(* whole batch when it commits, or nothing.                                *)
LEMMA CommitWholeBatch ==
  ASSUME IInv, NEW a \in Attempts, CommitDecisions(a)
  PROVE  \/ held[a] = {}
         \/ held[a] = Gated /\ \A c \in Gated : status[c] = "pending_approval"
<1>1. Recording(a)
  BY DEF CommitDecisions, Recording
<1>2. CASE held[a] = {Batch[i] : i \in 1..(cursor[a] - 1)}
  <2>1. cursor[a] = Len(Batch) + 1
    BY BatchAssumption DEF CommitDecisions, IInv, TypeOK
  <2>2. held[a] = Gated
    BY <1>2, <2>1, BatchAssumption DEF Gated
  <2>3. \A c \in Gated : approval[c] = "pending"
    BY <2>2 DEF IInv, Transactions
  <2>. QED BY <2>2, <2>3 DEF IInv, RowsAgree
<1>. QED BY <1>1, <1>2 DEF IInv, Transactions

(* The steps that write no row.                                            *)
LEMMA StepsOfNoRow ==
  ASSUME IInv, [Next]_vars
  PROVE  \/ UNCHANGED rows
         \/ \E a \in Attempts : EnsurePendingApprovals(a) \/ CommitDecisions(a)
         \/ \E a \in Attempts, c \in Calls : ClaimNew(a, c) \/ Claim(a, c)
         \/ \E a \in Attempts, c \in Calls, final \in {"succeeded", "failed"} :
               /\ InTools(a, c, "called") /\ FinishRow(c, final)
               /\ UNCHANGED <<attemptCount, requested, effective, approval, reason, executed>>
<1>1. CASE UNCHANGED vars
  BY <1>1 DEF vars
<1>2. ASSUME NEW a \in Attempts, NEW m \in Messages, Run(a, m) PROVE UNCHANGED rows
  BY <1>2 DEF Run
<1>3. ASSUME NEW a \in Attempts, NEW b \in Attempts, NEW d, Resume(a, b, d) PROVE UNCHANGED rows
  BY <1>3 DEF Resume
<1>4. ASSUME NEW a \in Attempts, HitlStep(a)
      PROVE  UNCHANGED rows \/ EnsurePendingApprovals(a) \/ CommitDecisions(a)
  BY <1>4 DEF HitlStep, EnsureConflict, LoadInvocation, LoadApproval, UpdateDecision, UpdateLost,
     Recheck
<1>5. ASSUME NEW a \in Attempts, NEW c \in Calls, ToolStep(a, c)
      PROVE  \/ UNCHANGED rows \/ ClaimNew(a, c) \/ Claim(a, c)
             \/ \E final \in {"succeeded", "failed"} :
                  /\ InTools(a, c, "called") /\ FinishRow(c, final)
                  /\ UNCHANGED <<attemptCount, requested, effective, approval, reason, executed>>
  <2>1. CASE DenyTool(a, c) \/ ReadClaim(a, c) \/ ReplyExisting(a, c) \/ CallHandler(a, c)
    BY <2>1 DEF DenyTool, ReadClaim, ReplyExisting, CallHandler
  <2>2. CASE \E result \in {"success", "error"} : FinishToolCall(a, c, result)
    <3>1. PICK result \in {"success", "error"} : FinishToolCall(a, c, result)
      BY <2>2
    <3>. QED BY <3>1 DEF FinishToolCall
  <2>3. CASE FailToolCall(a, c)
    BY <2>3 DEF FailToolCall
  <2>. QED BY <1>5, <2>1, <2>2, <2>3 DEF ToolStep
<1>6. ASSUME NEW a \in Attempts, NEW c \in Calls, DatabaseFails(a, c) PROVE UNCHANGED rows
  BY <1>6 DEF DatabaseFails
<1>7. ASSUME NEW a \in Attempts, Crash(a) PROVE UNCHANGED rows
  BY <1>7 DEF Crash
<1>. QED BY <1>1, <1>2, <1>3, <1>4, <1>5, <1>6, <1>7 DEF Next, Quiescent

(* A row once decided keeps its payload: nothing but asking, deciding and  *)
(* the claim of a call without a row writes one.                           *)
LEMMA PayloadsStay ==
  ASSUME IInv, [Next]_vars, NEW c \in Calls, status[c] \notin {"absent", "pending_approval"}
  PROVE  effective'[c] = effective[c] /\ status'[c] \notin {"absent", "pending_approval"}
<1> USE GatedCalls
<1>0. status \in [Calls -> InvocationStatus \cup {"absent"}] /\ effective \in [Calls -> Inputs]
      /\ status[c] # "pending"
  BY DEF IInv, TypeOK, LifeCycle
<1>1. CASE UNCHANGED rows
  BY <1>1 DEF rows
<1>2. ASSUME NEW a \in Attempts, EnsurePendingApprovals(a)
      PROVE  effective'[c] = effective[c] /\ status'[c] = status[c]
  BY <1>0, <1>2 DEF EnsurePendingApprovals, BeforeApproval
<1>3. ASSUME NEW a \in Attempts, CommitDecisions(a)
      PROVE  effective'[c] = effective[c] /\ status'[c] = status[c]
  BY <1>0, <1>3, CommitWholeBatch DEF CommitDecisions
<1>4. ASSUME NEW a \in Attempts, NEW d \in Calls, ClaimNew(a, d) \/ Claim(a, d)
      PROVE  effective'[c] = effective[c] /\ status'[c] \in {status[c], "running"}
  BY <1>0, <1>4 DEF ClaimNew, Claim
<1>5. ASSUME NEW d \in Calls, NEW final \in {"succeeded", "failed"}, FinishRow(d, final),
             UNCHANGED effective
      PROVE  effective'[c] = effective[c] /\ status'[c] \in {status[c], final}
  BY <1>0, <1>5 DEF FinishRow
<1>. QED BY <1>1, <1>2, <1>3, <1>4, <1>5, StepsOfNoRow

(* A human decision is written once and never again, and neither are its   *)
(* words and the payload it approved.                                      *)
THEOREM DecisionsAreFinal == Spec => DecisionIsFinal
<1>1. ASSUME IInv, [Next]_vars, NEW c \in Gated, approval[c] \in {"approved", "edited", "rejected"}
      PROVE  /\ approval'[c] = approval[c] /\ effective'[c] = effective[c]
             /\ reason'[c] = reason[c]
  <2>1. c \in Calls /\ status[c] \notin {"absent", "pending_approval"}
    BY <1>1, GatedCalls DEF IInv, RowsAgree
  <2>2. effective'[c] = effective[c]
    BY <1>1, <2>1, PayloadsStay
  <2>3. CASE \E a \in Attempts : EnsurePendingApprovals(a) \/ CommitDecisions(a)
    BY <1>1, <2>1, <2>3, CommitWholeBatch DEF EnsurePendingApprovals, CommitDecisions
  <2>4. CASE UNCHANGED <<approval, reason>>
    BY <2>2, <2>4
  <2>. QED BY <1>1, <2>2, <2>3, <2>4, StepsOfNoRow DEF rows, ClaimNew, Claim
<1>2. IInv /\ [Next]_vars =>
        [\A c \in Gated : approval[c] \in {"approved", "edited", "rejected"} =>
            /\ approval'[c] = approval[c] /\ effective'[c] = effective[c]
            /\ reason'[c] = reason[c]]_vars
  BY <1>1
<1>. QED BY <1>2, Invariance, PTL DEF Spec, DecisionIsFinal
(* Who has found a row, or reported an outcome, has its payload.           *)
Answered(a, c) ==
    task[a][c] = "existing" \/ reply[a][c] \in {"success", "error"} =>
        /\ pc[a] = "tools" /\ Payload(a, c) = effective[c]
        /\ status[c] \notin {"absent", "pending_approval"}

AllAnswered == \A a \in Attempts, c \in Calls : Answered(a, c)

(* An attempt that has come to the tools keeps its payloads.                *)
LEMMA PayloadsOfTools ==
  ASSUME IInv, [Next]_vars, NEW a \in Attempts, pc[a] = "tools"
  PROVE  pc'[a] = "tools" /\ \A c \in Calls : Payload(a, c)' = Payload(a, c)
<1>0. pc \in [Attempts -> PcStates] /\ asked \in [Attempts -> [Calls -> Inputs]]
      /\ decision \in [Attempts -> [Gated -> Decisions]]
  BY DEF IInv, TypeOK
<1>1. SUFFICES pc'[a] = pc[a] /\ asked'[a] = asked[a] /\ decision'[a] = decision[a]
  BY DEF Payload
<1>2. CASE UNCHANGED <<pc, asked, decision>>
  BY <1>2
<1>3. ASSUME NEW b \in Attempts, NEW m \in Messages, Run(b, m)
      PROVE  pc'[a] = pc[a] /\ asked'[a] = asked[a] /\ decision'[a] = decision[a]
  BY <1>0, <1>3 DEF Run, Dispatch, Advance
<1>4. ASSUME NEW b \in Attempts, NEW e \in Attempts, NEW d, Resume(b, e, d)
      PROVE  pc'[a] = pc[a] /\ asked'[a] = asked[a] /\ decision'[a] = decision[a]
  BY <1>0, <1>4 DEF Resume, Advance
<1>5. ASSUME NEW b \in Attempts, HitlStep(b)
      PROVE  pc'[a] = pc[a] /\ asked'[a] = asked[a] /\ decision'[a] = decision[a]
  BY <1>0, <1>5 DEF HitlStep, EnsurePendingApprovals, EnsureConflict, LoadInvocation,
     LoadApproval, UpdateDecision, UpdateLost, CommitDecisions, Recheck, Advance, Dispatch
<1>6. ASSUME NEW b \in Attempts, NEW c \in Calls, ToolStep(b, c)
      PROVE  UNCHANGED <<pc, asked, decision>>
  BY <1>6 DEF ToolStep, DenyTool, ClaimNew, ReadClaim, Claim, ReplyExisting, CallHandler,
     FinishToolCall, FailToolCall, middle
<1>7. ASSUME NEW b \in Attempts, NEW c \in Calls, DatabaseFails(b, c) PROVE UNCHANGED <<pc, asked, decision>>
  BY <1>7 DEF DatabaseFails, middle
<1>8. ASSUME NEW b \in Attempts, Crash(b) PROVE UNCHANGED <<pc, asked, decision>>
  BY <1>8 DEF Crash
<1>9. CASE UNCHANGED vars
  BY <1>2, <1>9 DEF vars, middle
<1>. QED BY <1>2, <1>3, <1>4, <1>5, <1>6, <1>7, <1>8, <1>9 DEF Next, Quiescent

(* A task finds a row, or reports an outcome, in one of three steps.        *)
LEMMA AnsweringSteps ==
  ASSUME IInv, [Next]_vars, NEW a \in Attempts, NEW c \in Calls
  PROVE  \/ task'[a][c] = "existing" => task[a][c] = "existing"
         \/ ReadClaim(a, c) \/ Claim(a, c)
<1>0. task \in [Attempts -> [Calls -> TaskStates]]
  BY DEF IInv, TypeOK
<1>1. CASE task'[a][c] # "existing"
  BY <1>1
<1>2. CASE UNCHANGED task
  BY <1>2
<1>3. ASSUME NEW b \in Attempts, Dispatch(b) PROVE task'[a][c] \in {task[a][c], "off", "ready"}
  BY <1>0, <1>3 DEF Dispatch
<1>4. ASSUME NEW b \in Attempts, NEW d \in Calls, ToolStep(b, d)
      PROVE  (task'[a][c] = "existing" => task[a][c] = "existing") \/ ReadClaim(a, c) \/ Claim(a, c)
  <2>1. CASE b = a /\ d = c
    BY <1>0, <1>4, <2>1 DEF ToolStep, DenyTool, ClaimNew, ReadClaim, Claim, ReplyExisting,
       CallHandler, FinishToolCall, FailToolCall, Move, Return
  <2>2. ASSUME b # a \/ d # c, NEW to, Move(b, d, to) PROVE task'[a][c] = task[a][c]
    BY <1>0, <2>2 DEF Move
  <2>. QED BY <1>4, <2>1, <2>2 DEF ToolStep, DenyTool, ClaimNew, ReadClaim, Claim, ReplyExisting,
              CallHandler, FinishToolCall, FailToolCall, Return
<1>5. ASSUME NEW b \in Attempts, NEW d \in Calls, DatabaseFails(b, d)
      PROVE  task'[a][c] \in {task[a][c], "broken"}
  BY <1>0, <1>5 DEF DatabaseFails, Move
<1>6. ASSUME NEW b \in Attempts, HitlStep(b) PROVE UNCHANGED task \/ Dispatch(b)
  BY <1>6 DEF HitlStep, EnsurePendingApprovals, EnsureConflict, LoadInvocation, LoadApproval,
     UpdateDecision, UpdateLost, CommitDecisions, Recheck, tools
<1>7. ASSUME NEW b \in Attempts, NEW m \in Messages, Run(b, m) PROVE UNCHANGED task \/ Dispatch(b)
  BY <1>7 DEF Run
<1>8. ASSUME NEW b \in Attempts, NEW e \in Attempts, NEW d, Resume(b, e, d) PROVE UNCHANGED task
  BY <1>8 DEF Resume, tools
<1>9. ASSUME NEW b \in Attempts, Crash(b) PROVE UNCHANGED task
  BY <1>9 DEF Crash, tools
<1>10. CASE UNCHANGED vars
  BY <1>2, <1>10 DEF vars, tools
<1>. QED BY <1>2, <1>3, <1>4, <1>5, <1>6, <1>7, <1>8, <1>9, <1>10 DEF Next, Quiescent

LEMMA ReplyingSteps ==
  ASSUME IInv, [Next]_vars, NEW a \in Attempts, NEW c \in Calls
  PROVE  \/ reply'[a][c] = reply[a][c]
         \/ reply'[a][c] \notin {"success", "error"}
         \/ ReplyExisting(a, c)
         \/ InTools(a, c, "called")
<1>0. reply \in [Attempts -> [Calls -> Replies]]
  BY DEF IInv, TypeOK
<1>1. CASE UNCHANGED reply
  BY <1>1
<1>2. ASSUME NEW b \in Attempts, NEW d \in Calls, ToolStep(b, d)
      PROVE  \/ reply'[a][c] = reply[a][c] \/ reply'[a][c] \notin {"success", "error"}
             \/ ReplyExisting(a, c) \/ InTools(a, c, "called")
  <2>1. CASE ReplyExisting(b, d) \/ InTools(b, d, "called")
    <3>1. CASE b = a /\ d = c
      BY <2>1, <3>1
    <3>2. ASSUME b # a \/ d # c, NEW m, Return(b, d, m) PROVE reply'[a][c] = reply[a][c]
      BY <1>0, <3>2 DEF Return
    <3>. QED BY <1>2, <2>1, <3>1, <3>2 DEF ToolStep, DenyTool, ClaimNew, ReadClaim, Claim,
                ReplyExisting, CallHandler, FinishToolCall, FailToolCall
  <2>2. CASE DenyTool(b, d) \/ ReadClaim(b, d)
    <3>1. ASSUME NEW m \in {"denied", "conflict"}, Return(b, d, m)
          PROVE  reply'[a][c] \in {reply[a][c], m}
      BY <1>0, <3>1 DEF Return
    <3>. QED BY <2>2, <3>1 DEF DenyTool, ReadClaim
  <2>3. CASE ClaimNew(b, d) \/ Claim(b, d) \/ CallHandler(b, d)
    BY <1>1, <2>3 DEF ClaimNew, Claim, CallHandler
  <2>. QED BY <1>2, <2>1, <2>2, <2>3 DEF ToolStep, FinishToolCall, FailToolCall
<1>3. ASSUME NEW b \in Attempts, HitlStep(b) PROVE UNCHANGED reply
  BY <1>3 DEF HitlStep, EnsurePendingApprovals, EnsureConflict, LoadInvocation, LoadApproval,
     UpdateDecision, UpdateLost, CommitDecisions, Recheck, tools
<1>4. ASSUME NEW b \in Attempts, NEW m \in Messages, Run(b, m) PROVE UNCHANGED reply
  BY <1>4 DEF Run
<1>5. ASSUME NEW b \in Attempts, NEW e \in Attempts, NEW d, Resume(b, e, d) PROVE UNCHANGED reply
  BY <1>5 DEF Resume, tools
<1>6. ASSUME NEW b \in Attempts, NEW d \in Calls, DatabaseFails(b, d) PROVE UNCHANGED reply
  BY <1>6 DEF DatabaseFails
<1>7. ASSUME NEW b \in Attempts, Crash(b) PROVE UNCHANGED reply
  BY <1>7 DEF Crash, tools
<1>8. CASE UNCHANGED vars
  BY <1>1, <1>8 DEF vars, tools
<1>. QED BY <1>1, <1>2, <1>3, <1>4, <1>5, <1>6, <1>7, <1>8 DEF Next, Quiescent

LEMMA AnsweredStep == IInv /\ AllAnswered /\ [Next]_vars => AllAnswered'
<1>. SUFFICES ASSUME IInv, AllAnswered, [Next]_vars, NEW a \in Attempts, NEW c \in Calls,
                     task'[a][c] = "existing" \/ reply'[a][c] \in {"success", "error"}
              PROVE  /\ pc'[a] = "tools" /\ Payload(a, c)' = effective'[c]
                     /\ status'[c] \notin {"absent", "pending_approval"}
  BY DEF AllAnswered, Answered
<1>1. SUFFICES /\ pc[a] = "tools" /\ Payload(a, c) = effective[c]
               /\ status[c] \notin {"absent", "pending_approval"}
  BY PayloadsOfTools, PayloadsStay
<1>2. CASE task[a][c] = "existing" \/ reply[a][c] \in {"success", "error"}
  BY <1>2 DEF AllAnswered, Answered
<1>3. CASE ReadClaim(a, c) /\ task'[a][c] = "existing"
  <2>1. pc[a] = "tools" /\ Payload(a, c) = effective[c] /\ status[c] # "absent"
    BY <1>3 DEF ReadClaim, InTools, IInv, TypeOK, Move, Return
  <2>2. c \in Gated => DecisionMatches(a, c, Row(c))
    BY <2>1 DEF IInv, ToolsFollowRecord
  <2>3. status[c] # "pending_approval"
    BY <2>2 DEF IInv, LifeCycle, DecisionMatches, Row
  <2>. QED BY <2>1, <2>3
<1>4. CASE Claim(a, c)
  BY <1>4 DEF Claim, InTools, IInv, Executors
<1>5. CASE InTools(a, c, "called")
  BY <1>5 DEF InTools, IInv, Executors, Executes
<1>6. CASE ReplyExisting(a, c)
  BY <1>2, <1>6 DEF ReplyExisting, InTools
<1>. QED BY <1>2, <1>3, <1>4, <1>5, <1>6, AnsweringSteps, ReplyingSteps

(* An outcome is never handed to a call with another payload: whoever reads *)
(* a stored result, or stores one, has compared its payload with the row's. *)
THEOREM OutcomesAreOwn == Spec => []RepliesMatchPayload
<1>1. Init => AllAnswered
  BY DEF Init, AllAnswered, Answered
<1>2. AllAnswered => RepliesMatchPayload
  BY DEF AllAnswered, Answered, RepliesMatchPayload
<1>. QED BY <1>1, <1>2, AnsweredStep, Invariance, PTL DEF Spec
(***************************************************************************)
(* ToolInvocation implements ToolGate.                                     *)
(***************************************************************************)

(* How a change of one row looks through Phase.                            *)
LEMMA PhaseOfRow ==
  ASSUME TypeOK, NEW c \in Calls, NEW st, status' = [status EXCEPT ![c] = st]
  PROVE  [d \in Calls |-> Phase(status[d])]'
            = [[d \in Calls |-> Phase(status[d])] EXCEPT ![c] = Phase(st)]
BY DEF TypeOK

LEMMA PhasesSame ==
  ASSUME status' = status
  PROVE  [d \in Calls |-> Phase(status[d])]' = [d \in Calls |-> Phase(status[d])]
OBVIOUS

(* What goes to the tools has been decided, and so has a row.               *)
LEMMA ToolsAreDecided ==
  ASSUME IInv, NEW a \in Attempts, NEW c \in Gated, InTools(a, c, "ready")
  PROVE  status[c] # "absent"
BY DEF InTools, IInv, ToolsFollowRecord, DecisionMatches, Row

(* Nothing but the middleware's call of the tool executes it.               *)
LEMMA OnlyHandlersAct ==
  ASSUME [Next]_vars
  PROVE  executed' = executed \/ \E a \in Attempts, c \in Calls : CallHandler(a, c)
<1>1. ASSUME NEW a \in Attempts, HitlStep(a) PROVE executed' = executed
  BY <1>1 DEF HitlStep, EnsurePendingApprovals, EnsureConflict, LoadInvocation, LoadApproval,
     UpdateDecision, UpdateLost, CommitDecisions, Recheck, tools
<1>2. ASSUME NEW a \in Attempts, NEW c \in Calls, ToolStep(a, c)
      PROVE  executed' = executed \/ CallHandler(a, c)
  BY <1>2 DEF ToolStep, DenyTool, ClaimNew, ReadClaim, Claim, ReplyExisting, FinishToolCall,
     FailToolCall
<1>3. ASSUME NEW a \in Attempts, NEW c \in Calls, DatabaseFails(a, c) PROVE executed' = executed
  BY <1>3 DEF DatabaseFails
<1>4. ASSUME NEW a \in Attempts, NEW m \in Messages, Run(a, m) PROVE executed' = executed
  BY <1>4 DEF Run
<1>5. ASSUME NEW a \in Attempts, NEW b \in Attempts, NEW d, Resume(a, b, d) PROVE executed' = executed
  BY <1>5 DEF Resume, tools
<1>6. ASSUME NEW a \in Attempts, Crash(a) PROVE executed' = executed
  BY <1>6 DEF Crash, tools
<1>7. CASE UNCHANGED vars
  BY <1>7 DEF vars, tools
<1>. QED BY <1>1, <1>2, <1>3, <1>4, <1>5, <1>6, <1>7 DEF Next, Quiescent

(* Writing the rows of the batch, or finding them written.                  *)
LEMMA EnsureAsks ==
  ASSUME IInv, NEW a \in Attempts, EnsurePendingApprovals(a)
  PROVE  Gate!Ask \/ UNCHANGED Gate!vars
<1> USE GatedCalls
<1>0. /\ TypeOK /\ asked[a] \in [Calls -> Inputs]
      /\ \A c \in Gated : BeforeApproval(c) <=> status[c] = "absent"
      /\ executed' = executed
  BY DEF IInv, TypeOK, LifeCycle, EnsurePendingApprovals, BeforeApproval, tools
<1>1. CASE \A c \in Gated : status[c] = "absent"
  <2>. DEFINE was == [c \in Calls |-> Phase(status[c])]
             now == [c \in Calls |-> Phase(status'[c])]
  <2>1. \A c \in Gated : was[c] = "new"
    BY <1>1 DEF Phase
  <2>2. now = [c \in Calls |-> IF c \in Gated THEN "waiting" ELSE was[c]]
    BY <1>0, <1>1 DEF EnsurePendingApprovals, Phase
  <2>3. effective' \in [Calls -> Inputs] /\ \A c \in Calls \ Gated : effective'[c] = effective[c]
    BY <1>0 DEF EnsurePendingApprovals, TypeOK
  <2>. QED BY <1>0, <2>1, <2>2, <2>3 DEF Gate!Ask
<1>2. CASE \A c \in Gated : status[c] # "absent"
  <2>1. status' = status /\ effective' = effective
    BY <1>0, <1>2 DEF EnsurePendingApprovals, TypeOK
  <2>. QED BY <1>0, <2>1, PhasesSame DEF Gate!vars
<1>3. (\A c \in Gated : status[c] = "absent") \/ (\A c \in Gated : status[c] # "absent")
  BY DEF IInv, RowsAgree, LifeCycle
<1>. QED BY <1>1, <1>2, <1>3

(* The commit of a batch, or of a resume that found it decided.             *)
LEMMA CommitDecides ==
  ASSUME IInv, NEW a \in Attempts, CommitDecisions(a)
  PROVE  Gate!Decide \/ UNCHANGED Gate!vars
<1> USE GatedCalls
<1>0. TypeOK /\ executed' = executed /\ decision[a] \in [Gated -> Decisions]
  BY DEF IInv, TypeOK, CommitDecisions
<1>1. CASE held[a] = {}
  <2>1. status' = status /\ effective' = effective
    BY <1>0, <1>1 DEF CommitDecisions, TypeOK
  <2>. QED BY <1>0, <2>1, PhasesSame DEF Gate!vars
<1>2. CASE held[a] = Gated /\ \A c \in Gated : status[c] = "pending_approval"
  <2>. DEFINE was == [c \in Calls |-> Phase(status[c])]
             now == [c \in Calls |-> Phase(status'[c])]
  <2>1. \A c \in Gated : was[c] = "waiting" /\ now[c] \in {"granted", "refused"}
    BY <1>2 DEF CommitDecisions, Phase
  <2>2. \A c \in Calls \ Gated : now[c] = was[c] /\ effective'[c] = effective[c]
    BY <1>0, <1>2 DEF CommitDecisions
  <2>3. effective' \in [Calls -> Inputs]
    BY <1>0, <1>2 DEF CommitDecisions, TypeOK, Decisions
  <2>4. now \in [Calls -> {"new", "granted", "refused", "running", "ended"}]
    <3>1. ASSUME NEW c \in Calls \ Gated
          PROVE  now[c] \in {"new", "granted", "refused", "running", "ended"}
      BY <2>2 DEF IInv, LifeCycle, Phase
    <3>. QED BY <2>1, <3>1
  <2>. QED BY <1>0, <2>1, <2>2, <2>3, <2>4 DEF Gate!Decide
<1>. QED BY <1>1, <1>2, CommitWholeBatch

(* The rows, seen through Phase, take a step of ToolGate or stutter.        *)
LEMMA GateStep == IInv /\ [Next]_vars => [Gate!Next]_(Gate!vars)
<1> SUFFICES ASSUME IInv, [Next]_vars PROVE [Gate!Next]_(Gate!vars)
  OBVIOUS
<1>0. TypeOK
  BY DEF IInv
<1>1. ASSUME NEW a \in Attempts, EnsurePendingApprovals(a) PROVE [Gate!Next]_(Gate!vars)
  BY <1>1, EnsureAsks DEF Gate!Next
<1>2. ASSUME NEW a \in Attempts, CommitDecisions(a) PROVE [Gate!Next]_(Gate!vars)
  BY <1>2, CommitDecides DEF Gate!Next
<1>3. ASSUME NEW a \in Attempts, NEW c \in Calls, ClaimNew(a, c) PROVE [Gate!Next]_(Gate!vars)
  <2>1. c \notin Gated
    BY <1>3, ToolsAreDecided DEF ClaimNew
  <2>2. Payload(a, c) \in Inputs /\ Phase("running") = "running" /\ Phase("absent") = "new"
    BY <1>0, <2>1 DEF Payload, TypeOK, Phase
  <2>3. Gate!BeginUngated(c, Payload(a, c))
    BY <1>0, <1>3, <2>1, <2>2, PhaseOfRow DEF ClaimNew, Gate!BeginUngated
  <2>. QED BY <2>2, <2>3 DEF Gate!Next
<1>4. ASSUME NEW a \in Attempts, NEW c \in Calls, Claim(a, c) PROVE [Gate!Next]_(Gate!vars)
  <2>1. UNCHANGED <<effective, executed>> /\ expected[a][c] = "approved"
    BY <1>4 DEF Claim, InTools, IInv, Executors
  <2>2. CASE status' = status
    BY <2>1, <2>2, PhasesSame DEF Gate!vars
  <2>3. CASE status[c] = "approved" /\ status' = [status EXCEPT ![c] = "running"]
    <3>1. c \in Gated
      BY <2>3 DEF IInv, LifeCycle
    <3>2. Gate!BeginGranted(c)
      BY <1>0, <2>1, <2>3, <3>1, PhaseOfRow DEF Gate!BeginGranted, Phase
    <3>. QED BY <3>2 DEF Gate!Next
  <2>. QED BY <1>4, <2>1, <2>2, <2>3 DEF Claim
<1>5. ASSUME NEW a \in Attempts, NEW c \in Calls, NEW final \in {"succeeded", "failed"},
             InTools(a, c, "called"), FinishRow(c, final), UNCHANGED <<effective, executed>>
      PROVE  [Gate!Next]_(Gate!vars)
  <2>1. status[c] = "running"
    BY <1>5 DEF InTools, IInv, Executors, Executes
  <2>2. status' = [status EXCEPT ![c] = final]
    BY <1>0, <1>5, <2>1 DEF FinishRow, TypeOK
  <2>3. Gate!End(c)
    BY <1>0, <1>5, <2>1, <2>2, PhaseOfRow DEF Gate!End, Phase
  <2>. QED BY <2>3 DEF Gate!Next
<1>6. ASSUME NEW a \in Attempts, NEW c \in Calls, CallHandler(a, c) PROVE [Gate!Next]_(Gate!vars)
  <2>1. status[c] = "running" /\ Payload(a, c) = effective[c] /\ executed[c] = {}
    BY <1>6 DEF CallHandler, InTools, IInv, Executors, Executes
  <2>2. executed' = [executed EXCEPT ![c] = {<<a, effective[c]>>}]
    BY <1>6, <2>1 DEF CallHandler
  <2>3. UNCHANGED <<status, effective>>
    BY <1>6 DEF CallHandler, rows
  <2>4. Gate!Act(c, a)
    BY <2>1, <2>2, <2>3, PhasesSame DEF Gate!Act, Phase
  <2>. QED BY <2>4 DEF Gate!Next
<1>7. CASE UNCHANGED <<status, effective, executed>>
  BY <1>7, PhasesSame DEF Gate!vars
<1>8. CASE UNCHANGED rows /\ ~\E a \in Attempts, c \in Calls : CallHandler(a, c)
  BY <1>7, <1>8, OnlyHandlersAct DEF rows
<1>. QED BY <1>1, <1>2, <1>3, <1>4, <1>5, <1>6, <1>8, StepsOfNoRow

(* The promise of ToolGate is kept: the interrupt is one question with one  *)
(* answer for the batch, and a tool acts once, as granted.                  *)
THEOREM GateIsImplemented == Spec => ImplementsGate
<1>1. Init => Gate!Init
  BY AnyInputType DEF Init, Gate!Init, Phase
<1>. QED BY <1>1, GateStep, Invariance, PTL DEF Spec, ImplementsGate, Gate!Spec
=============================================================================
