------------------------ MODULE ToolInvocation_proofs ------------------------
(***************************************************************************)
(* Proofs about ToolInvocation, for any number of attempts, calls and      *)
(* payloads.                                                               *)
(*                                                                         *)
(* At-most-once execution rests on three facts that only hold together:    *)
(* a claim moves the row to "running" and nothing moves it back            *)
(* (LifeCycle), the task that moved it is the only one that may call the   *)
(* tool (Executors), and a row is claimable only after a decision that no  *)
(* later transaction can change (Transactions, Recorded).  IInv is their   *)
(* conjunction, with the safety properties that depend on it.  One lemma   *)
(* for each action shows that it keeps every part; the frame lemmas come   *)
(* first because most actions write either rows, or the state of an        *)
(* attempt in the middleware, or that of one task, and not the others.     *)
(***************************************************************************)
EXTENDS ToolInvocation, TLAPS

(* Constants: the interrupted calls are calls, and there is a payload.     *)

LEMMA GatedCalls == Gated \subseteq Calls
BY BatchAssumption DEF Gated

LEMMA AnyInputType == AnyInput \in Inputs /\ AnyReason \in Reasons
BY InputAssumption DEF AnyInput, AnyReason

(* The cursor of an attempt points into the batch.                         *)
LEMMA BatchInGated ==
  TypeOK => \A b \in Attempts : \A i \in 1..(cursor[b] - 1) : Batch[i] \in Gated
BY BatchAssumption DEF TypeOK, Gated

LEMMA CurrentInGated ==
  TypeOK => \A b \in Attempts : cursor[b] <= Len(Batch) => Current(b) \in Gated
BY BatchAssumption DEF TypeOK, Gated, Current

(* The empty database satisfies the invariant.                             *)
LEMMA InitInvariant == Init => IInv
BY GatedCalls, AnyInputType, BatchAssumption
   DEF Init, IInv, TypeOK, RowsAgree, LifeCycle, Transactions, Recorded, DecidedTogether,
       ToolsFollowRecord, Executors, AtMostOnce, RepliesAgree, Decisions, NoDecision,
       InvocationStatus, ApprovalStatus, PcStates, TaskStates, Replies, Recording, Decided,
       Executes

(***************************************************************************)
(* What a step leaves alone.                                               *)
(***************************************************************************)

(* A step that writes no row and no decision: what is said about rows      *)
(* alone, and every comparison of a row with a decision, stays as it was.  *)
LEMMA SameRows ==
  ASSUME IInv, UNCHANGED <<rows, decision>>
  PROVE  /\ RowsAgree' /\ LifeCycle' /\ DecidedTogether'
         /\ \A b \in Attempts, d \in Gated :
               DecisionMatches(b, d, Row(d))' = DecisionMatches(b, d, Row(d))
         /\ \A b \in Attempts : Complete(b)' = Complete(b)
         /\ \A d \in Gated : Decided(d)' = Decided(d)
<1> USE GatedCalls DEF rows
<1>1. RowsAgree' /\ LifeCycle' /\ DecidedTogether'
  BY DEF IInv, RowsAgree, LifeCycle, DecidedTogether
<1>2. \A b \in Attempts, d \in Gated :
        DecisionMatches(b, d, Row(d))' = DecisionMatches(b, d, Row(d))
  BY DEF DecisionMatches, Row, Rejects
<1>3. \A b \in Attempts : Complete(b)' = Complete(b)
  BY DEF Complete
<1>4. \A d \in Gated : Decided(d)' = Decided(d)
  BY DEF Decided
<1>. QED BY <1>1, <1>2, <1>3, <1>4

(* A step of a tool call that writes no row.                               *)
LEMMA SameMiddle ==
  ASSUME IInv, UNCHANGED <<rows, held, middle>>
  PROVE  /\ RowsAgree' /\ LifeCycle' /\ DecidedTogether'
         /\ Transactions' /\ Recorded' /\ ToolsFollowRecord'
<1>1. UNCHANGED <<rows, decision>>
  BY DEF middle
<1>2. \A b \in Attempts : Recording(b)' = Recording(b)
  BY DEF Recording, middle
<1>3. Transactions'
  BY <1>1, <1>2, SameRows DEF IInv, Transactions, rows, middle
<1>4. Recorded'
  <2>1. \A b \in Attempts : pc[b] = "match" => Current(b) \in Gated
    BY CurrentInGated DEF IInv, Recorded
  <2>. QED BY <1>1, <1>2, <2>1, SameRows, BatchInGated
           DEF IInv, Recorded, Current, rows, middle
<1>5. ToolsFollowRecord'
  BY <1>1, SameRows DEF IInv, ToolsFollowRecord, middle
<1>. QED BY <1>1, <1>3, <1>4, <1>5, SameRows

(* A task that stops claiming or executing, or never did.                  *)
LEMMA TaskLeaves ==
  ASSUME IInv, NEW a \in Attempts, NEW c \in Calls, task[a][c] # "off",
         NEW to \in {"existing", "returned", "raised", "broken"}, Move(a, c, to),
         UNCHANGED <<rows, middle, expected, executed>>
  PROVE  Executors'
<1>1. \A b \in Attempts, d \in Calls :
        task'[b][d] = IF b = a /\ d = c THEN to ELSE task[b][d]
  BY DEF IInv, TypeOK, Move
<1>2. \A b \in Attempts, d \in Calls : Payload(b, d)' = Payload(b, d)
  BY DEF Payload, middle
<1>3. \A b \in Attempts, d \in Calls : Executes(b, d)' => Executes(b, d)
  BY <1>1 DEF Executes
<1>. QED BY <1>1, <1>2, <1>3 DEF IInv, Executors, rows, middle

(* The executor writes the outcome of its running call.                    *)
LEMMA RowFinished ==
  ASSUME IInv, NEW a \in Attempts, NEW c \in Calls, InTools(a, c, "called"),
         NEW final \in {"succeeded", "failed"}, FinishRow(c, final),
         NEW to \in {"returned", "raised"}, Move(a, c, to),
         UNCHANGED <<attemptCount, requested, effective, approval, reason, held, middle,
                     expected, executed>>
  PROVE  /\ RowsAgree' /\ LifeCycle' /\ DecidedTogether'
         /\ Transactions' /\ Recorded' /\ ToolsFollowRecord'
         /\ Executors' /\ AtMostOnce'
         /\ status[c] = "running"
         /\ \A d \in Calls : status'[d] = IF d = c THEN final ELSE status[d]
<1> USE GatedCalls
<1>1. status[c] = "running"
  BY DEF IInv, Executors, Executes, InTools
<1>2. \A d \in Calls : status'[d] = IF d = c THEN final ELSE status[d]
  BY <1>1 DEF IInv, TypeOK, FinishRow
<1>3. RowsAgree' /\ LifeCycle' /\ DecidedTogether'
  BY <1>1, <1>2 DEF IInv, RowsAgree, LifeCycle, DecidedTogether
<1>4. /\ \A b \in Attempts : Recording(b)' = Recording(b) /\ Complete(b)' = Complete(b)
      /\ \A d \in Gated : Decided(d)' = Decided(d)
  BY DEF Recording, Complete, Decided, middle
<1>5. Transactions'
  BY <1>4 DEF IInv, Transactions, middle
<1>6. \A b \in Attempts, d \in Gated :
        DecisionMatches(b, d, Row(d)) => DecisionMatches(b, d, Row(d))'
  BY <1>1, <1>2 DEF DecisionMatches, Row, Rejects, middle
<1>7. Recorded'
  <2>1. \A b \in Attempts : pc[b] = "match" => Current(b) \in Calls
    BY CurrentInGated DEF IInv, Recorded
  <2>2. \A b \in Attempts : pc[b] = "match" =>
          \/ seen[b].status = "pending_approval"
          \/ /\ seen[b].effective = effective[Current(b)]
             /\ \/ seen[b].status = "rejected" /\ status'[Current(b)] = "rejected"
                \/ /\ seen[b].status \in {"approved", "running", "succeeded", "failed"}
                   /\ status'[Current(b)] \in {"approved", "running", "succeeded", "failed"}
    BY <1>1, <1>2, <2>1 DEF IInv, Recorded
  <2>. QED BY <1>4, <1>6, <2>2, BatchInGated DEF IInv, Recorded, Current, middle
<1>8. ToolsFollowRecord'
  BY <1>6 DEF IInv, ToolsFollowRecord, middle
<1>9. Executors'
  <2>1. \A b \in Attempts, d \in Calls :
          task'[b][d] = IF b = a /\ d = c THEN to ELSE task[b][d]
    BY DEF IInv, TypeOK, Move
  <2>2. \A b \in Attempts, d \in Calls : Payload(b, d)' = Payload(b, d)
    BY DEF Payload, middle
  <2>3. \A b \in Attempts, d \in Calls : Executes(b, d)' => Executes(b, d) /\ d # c
    BY <2>1 DEF IInv, Executors, Executes, InTools
  <2>. QED BY <1>1, <1>2, <2>1, <2>2, <2>3 DEF IInv, Executors, InTools, middle
<1>10. AtMostOnce'
  BY DEF IInv, AtMostOnce
<1>. QED BY <1>1, <1>2, <1>3, <1>5, <1>7, <1>8, <1>9, <1>10

(***************************************************************************)
(* One lemma for each action: it keeps every part of IInv.                 *)
(***************************************************************************)

LEMMA CallHandlerStep ==
  ASSUME IInv, NEW a \in Attempts, NEW c \in Calls, CallHandler(a, c)
  PROVE  IInv'
<1> USE GatedCalls
<1> USE DEF IInv, CallHandler, InTools, Move, rows, middle, tools
<1>1. TypeOK'
  BY DEF TypeOK, TaskStates, Payload, Decisions
<1>2. RowsAgree'
  BY DEF RowsAgree
<1>3. LifeCycle'
  BY DEF LifeCycle
<1>4. Transactions'
  BY DEF Transactions, Recording, Decided
<1>5. Recorded'
  <2>1. \A b \in Attempts, d \in Gated :
          DecisionMatches(b, d, Row(d))' = DecisionMatches(b, d, Row(d))
    BY DEF DecisionMatches, Row, Rejects
  <2>2. \A b \in Attempts : Complete(b)' = Complete(b) /\ Recording(b)' = Recording(b)
    BY DEF Complete, Recording
  <2>. QED BY <2>1, <2>2, BatchInGated DEF Recorded, Current
<1>6. DecidedTogether'
  BY DEF DecidedTogether
<1>7. ToolsFollowRecord'
  BY DEF ToolsFollowRecord, DecisionMatches, Row, Rejects
<1>8. Executors'
  BY DEF Executors, Executes, TypeOK, Payload
<1>9. AtMostOnce'
  <2>1. executed[c] = {} /\ status[c] = "running"
    BY DEF Executors, Executes
  <2>2. executed' = [executed EXCEPT ![c] = {<<a, Payload(a, c)>>}]
    BY <2>1 DEF TypeOK
  <2>3. attemptCount[c] = 1
    BY <2>1 DEF LifeCycle
  <2>4. \A d \in Calls : executed'[d] = IF d = c THEN {<<a, Payload(a, c)>>} ELSE executed[d]
    BY <2>2 DEF TypeOK
  <2>5. attemptCount' = attemptCount
    OBVIOUS
  <2>. QED BY <2>3, <2>4, <2>5 DEF AtMostOnce
<1>10. RepliesAgree'
  BY DEF RepliesAgree, TypeOK
<1>. QED BY <1>1, <1>2, <1>3, <1>4, <1>5, <1>6, <1>7, <1>8, <1>9, <1>10

LEMMA RunUngatedStep ==
  ASSUME IInv, NEW a \in Attempts, NEW m \in Messages, Gated = {}, Run(a, m)
  PROVE  IInv'
<1> USE GatedCalls
<1>0. /\ pc[a] = "idle" /\ asked' = [asked EXCEPT ![a] = m] /\ Dispatch(a)
      /\ UNCHANGED <<rows, held, up, decision, cursor, seen, expected, reply, trace, executed>>
  BY DEF Run
<1> USE <1>0 DEF IInv, Dispatch, Advance, rows, tools
<1>a. /\ \A b \in Attempts \ {a} : pc'[b] = pc[b] /\ asked'[b] = asked[b] /\ decision'[b] = decision[b]
      /\ pc[a] = "idle" /\ pc'[a] = "tools"
  BY DEF TypeOK
<1>b. \A c \in Calls : task[a][c] = "off"
  BY <1>a DEF Executors
<1>c. \A b \in Attempts \ {a}, c \in Calls : Payload(b, c)' = Payload(b, c)
  BY <1>a DEF Payload
<1>d. \A b \in Attempts \ {a}, c \in Gated : DecisionMatches(b, c, Row(c))' = DecisionMatches(b, c, Row(c))
  BY <1>a DEF DecisionMatches, Row, Rejects
<1>e. \A b \in Attempts \ {a} : Complete(b)' = Complete(b)
  BY <1>a DEF Complete
<1>z. Complete(a)'
  BY DEF Complete
<1>1. TypeOK'
  BY InputAssumption DEF TypeOK, PcStates, TaskStates, Decisions
<1>2. RowsAgree'
  BY DEF RowsAgree
<1>3. LifeCycle'
  BY DEF LifeCycle
<1>4. Transactions'
  BY <1>a DEF Transactions, Recording, Decided
<1>5. Recorded'
  BY <1>z, <1>a, <1>d, <1>e, BatchInGated DEF Recorded, Recording, Current
<1>6. DecidedTogether'
  BY DEF DecidedTogether
<1>7. ToolsFollowRecord'
  BY <1>a, <1>d DEF ToolsFollowRecord
<1>8. Executors'
  BY <1>a, <1>b, <1>c DEF Executors, Executes, TypeOK
<1>9. AtMostOnce'
  BY DEF AtMostOnce
<1>10. RepliesAgree'
  BY DEF RepliesAgree
<1>. QED BY <1>1, <1>2, <1>3, <1>4, <1>5, <1>6, <1>7, <1>8, <1>9, <1>10

LEMMA RunGatedStep ==
  ASSUME IInv, NEW a \in Attempts, NEW m \in Messages, Gated # {}, Run(a, m)
  PROVE  IInv'
<1> USE GatedCalls
<1> USE DEF IInv, Run, Advance, rows, tools
<1>a. /\ \A b \in Attempts \ {a} : pc'[b] = pc[b] /\ asked'[b] = asked[b] /\ decision'[b] = decision[b]
      /\ pc[a] = "idle" /\ pc'[a] = "ensure"
  BY DEF TypeOK
<1>b. \A c \in Calls : task[a][c] = "off"
  BY <1>a DEF Executors
<1>c. \A b \in Attempts \ {a}, c \in Calls : Payload(b, c)' = Payload(b, c)
  BY <1>a DEF Payload
<1>d. \A b \in Attempts \ {a}, c \in Gated : DecisionMatches(b, c, Row(c))' = DecisionMatches(b, c, Row(c))
  BY <1>a DEF DecisionMatches, Row, Rejects
<1>e. \A b \in Attempts \ {a} : Complete(b)' = Complete(b)
  BY <1>a DEF Complete
<1>1. TypeOK'
  BY InputAssumption DEF TypeOK, PcStates, TaskStates, Decisions
<1>2. RowsAgree'
  BY DEF RowsAgree
<1>3. LifeCycle'
  BY DEF LifeCycle
<1>4. Transactions'
  BY <1>a DEF Transactions, Recording, Decided
<1>5. Recorded'
  BY <1>a, <1>d, <1>e, BatchInGated DEF Recorded, Recording, Current
<1>6. DecidedTogether'
  BY DEF DecidedTogether
<1>7. ToolsFollowRecord'
  BY <1>a, <1>d DEF ToolsFollowRecord
<1>8. Executors'
  BY <1>a, <1>b, <1>c DEF Executors, Executes
<1>9. AtMostOnce'
  BY DEF AtMostOnce
<1>10. RepliesAgree'
  BY DEF RepliesAgree
<1>. QED BY <1>1, <1>2, <1>3, <1>4, <1>5, <1>6, <1>7, <1>8, <1>9, <1>10

LEMMA ResumeStep ==
  ASSUME IInv, NEW a \in Attempts, NEW b \in Attempts, NEW d \in [Gated -> Decisions], Resume(a, b, d)
  PROVE  IInv'
<1> USE GatedCalls
<1> USE DEF IInv, Resume, Advance, rows, tools
<1>a. /\ \A e \in Attempts \ {a} : pc'[e] = pc[e] /\ asked'[e] = asked[e] /\ decision'[e] = decision[e]
      /\ pc[a] \in {"idle", "paused"} /\ pc'[a] = "ensure"
  BY DEF TypeOK
<1>b. \A c \in Calls : task[a][c] = "off"
  BY <1>a DEF Executors
<1>c. \A e \in Attempts \ {a}, c \in Calls : Payload(e, c)' = Payload(e, c)
  BY <1>a DEF Payload
<1>d. \A e \in Attempts \ {a}, c \in Gated : DecisionMatches(e, c, Row(c))' = DecisionMatches(e, c, Row(c))
  BY <1>a DEF DecisionMatches, Row, Rejects
<1>e. \A e \in Attempts \ {a} : Complete(e)' = Complete(e)
  BY <1>a DEF Complete
<1>1. TypeOK'
  BY InputAssumption DEF TypeOK, PcStates, TaskStates, Decisions
<1>2. RowsAgree'
  BY DEF RowsAgree
<1>3. LifeCycle'
  BY DEF LifeCycle
<1>4. Transactions'
  BY <1>a DEF Transactions, Recording, Decided
<1>5. Recorded'
  BY <1>a, <1>d, <1>e, BatchInGated DEF Recorded, Recording, Current
<1>6. DecidedTogether'
  BY DEF DecidedTogether
<1>7. ToolsFollowRecord'
  BY <1>a, <1>d DEF ToolsFollowRecord
<1>8. Executors'
  BY <1>a, <1>b, <1>c DEF Executors, Executes
<1>9. AtMostOnce'
  BY DEF AtMostOnce
<1>10. RepliesAgree'
  BY DEF RepliesAgree
<1>. QED BY <1>1, <1>2, <1>3, <1>4, <1>5, <1>6, <1>7, <1>8, <1>9, <1>10

LEMMA EnsurePendingApprovalsStep ==
  ASSUME IInv, NEW a \in Attempts, EnsurePendingApprovals(a)
  PROVE  IInv'
<1> USE GatedCalls DEF IInv
<1>a. /\ pc[a] = "ensure" /\ up' = up /\ held' = held /\ attemptCount' = attemptCount
      /\ decision' = decision /\ asked' = asked /\ cursor' = cursor /\ seen' = seen
      /\ UNCHANGED <<task, expected, reply, trace, executed>>
      /\ \A b \in Attempts \ {a} : pc'[b] = pc[b]
      /\ pc'[a] \in {"paused", "load", "failed"} /\ (pc'[a] = "load" => Complete(a))
  BY DEF EnsurePendingApprovals, Advance, TypeOK, tools
<1>b. \A c \in Calls :
        /\ c \in Gated /\ status[c] = "absent" =>
              status'[c] = "pending_approval" /\ approval'[c] = "pending"
        /\ ~(c \in Gated /\ status[c] = "absent") =>
              status'[c] = status[c] /\ effective'[c] = effective[c]
        /\ c \in Gated /\ status[c] # "absent" => approval'[c] = approval[c]
        /\ reason' = reason
  BY DEF EnsurePendingApprovals, BeforeApproval, LifeCycle, RowsAgree
<1>c. \A b \in Attempts, c \in Gated :
        DecisionMatches(b, c, Row(c)) => DecisionMatches(b, c, Row(c))'
  BY <1>a, <1>b DEF DecisionMatches, Row, Rejects
<1>d. \A b \in Attempts, c \in Calls : Payload(b, c)' = Payload(b, c)
  BY <1>a DEF Payload
<1>e. \A b \in Attempts : Complete(b)' = Complete(b)
  BY <1>a DEF Complete
<1>f. \A c \in Calls : task[a][c] = "off"
  BY <1>a DEF Executors
<1>1. TypeOK'
  BY <1>a DEF EnsurePendingApprovals, Advance, TypeOK, PcStates, InvocationStatus, ApprovalStatus
<1>2. RowsAgree'
  BY <1>b DEF RowsAgree
<1>3. LifeCycle'
  BY <1>a, <1>b DEF LifeCycle, RowsAgree
<1>4. Transactions'
  <2>1. \A c \in Gated : Decided(c) => Decided(c)'
    BY <1>b DEF Decided, RowsAgree
  <2>2. held[a] = {} /\ cursor[a] = 1
    BY <1>a DEF Transactions, Recording, Recorded
  <2>3. held[a] = {Batch[i] : i \in 1..(cursor[a] - 1)}
    BY <2>2
  <2>4. \A b \in Attempts : Recording(b)' => b = a \/ Recording(b)
    BY <1>a DEF Recording
  <2>5. \A b \in Attempts : held[b] # {} => Recording(b)'
    BY <1>a, <2>2 DEF Transactions, Recording
  <2>6. \A b \in Attempts : \A c \in held[b] : approval'[c] = "pending"
    BY <1>b DEF Transactions, RowsAgree, TypeOK
  <2>. QED BY <1>a, <2>1, <2>2, <2>3, <2>4, <2>5, <2>6 DEF Transactions
<1>5. Recorded'
  <2>1. cursor[a] = 1
    BY <1>a DEF Recorded
  <2>2. \A c \in Gated : approval'[c] # "absent"
    BY <1>b DEF RowsAgree, TypeOK
  <2>3. \A b \in Attempts : pc'[b] = "match" => pc[b] = "match" /\ Current(b) \in Gated
    BY <1>a, CurrentInGated DEF Recorded
  <2>4. \A b \in Attempts : pc'[b] = "match" =>
           /\ status'[Current(b)] = status[Current(b)]
           /\ effective'[Current(b)] = effective[Current(b)]
    BY <1>b, <2>3 DEF Recorded, RowsAgree
  <2>. QED BY <2>1, <2>2, <2>3, <2>4, <1>a, <1>c, <1>e, BatchInGated DEF Recorded, Recording, Current
<1>6. DecidedTogether'
  BY <1>b DEF DecidedTogether, RowsAgree
<1>7. ToolsFollowRecord'
  BY <1>a, <1>c DEF ToolsFollowRecord
<1>8. Executors'
  BY <1>a, <1>b, <1>d, <1>f DEF Executors, Executes
<1>9. AtMostOnce'
  BY <1>a DEF AtMostOnce
<1>10. RepliesAgree'
  BY <1>a, <1>b DEF RepliesAgree
<1>. QED BY <1>1, <1>2, <1>3, <1>4, <1>5, <1>6, <1>7, <1>8, <1>9, <1>10

LEMMA EnsureConflictStep ==
  ASSUME IInv, NEW a \in Attempts, EnsureConflict(a)
  PROVE  IInv'
<1> USE DEF EnsureConflict, Advance
<1>1. /\ \A b \in Attempts : pc'[b] = IF b = a THEN "failed" ELSE pc[b]
      /\ pc[a] = "ensure"
  BY DEF IInv, TypeOK
<1>2. /\ RowsAgree' /\ LifeCycle' /\ DecidedTogether'
      /\ \A b \in Attempts : Recording(b)' = Recording(b)
  BY <1>1, SameRows DEF Recording
<1>3. TypeOK'
  BY DEF IInv, TypeOK, PcStates, rows, tools
<1>4. Transactions'
  BY <1>2, SameRows DEF IInv, Transactions, rows
<1>5. Recorded'
  BY <1>1, <1>2, SameRows, BatchInGated DEF IInv, Recorded, Current, rows
<1>6. ToolsFollowRecord'
  BY <1>1, SameRows DEF IInv, ToolsFollowRecord
<1>7. Executors'
  <2>1. \A b \in Attempts, d \in Calls : Payload(b, d)' = Payload(b, d)
    BY DEF Payload
  <2>. QED BY <1>1, <2>1 DEF IInv, Executors, Executes, rows, tools
<1>8. AtMostOnce' /\ RepliesAgree'
  BY DEF IInv, AtMostOnce, RepliesAgree, rows, tools
<1>. QED BY <1>2, <1>3, <1>4, <1>5, <1>6, <1>7, <1>8 DEF IInv

LEMMA LoadInvocationStep ==
  ASSUME IInv, NEW a \in Attempts, LoadInvocation(a)
  PROVE  IInv'
<1> USE DEF LoadInvocation, Advance
<1>1. /\ \A b \in Attempts : pc'[b] = IF b = a THEN "match" ELSE pc[b]
      /\ \A b \in Attempts : seen'[b] = IF b = a THEN Row(Current(a)) ELSE seen[b]
      /\ pc[a] = "load"
  BY DEF IInv, TypeOK
<1>2. Current(a) \in Gated /\ Current(a) \in Calls
  BY CurrentInGated, GatedCalls DEF IInv
<1>3. /\ RowsAgree' /\ LifeCycle' /\ DecidedTogether'
      /\ \A b \in Attempts : Recording(b)' = Recording(b)
  BY <1>1, SameRows DEF Recording
<1>4. TypeOK'
  <2>1. Row(Current(a)) \in [status : InvocationStatus \cup {"absent"}, effective : Inputs]
    BY <1>2 DEF IInv, TypeOK, Row
  <2>. QED BY <2>1 DEF IInv, TypeOK, PcStates, rows, tools
<1>5. Transactions'
  BY <1>3, SameRows DEF IInv, Transactions, rows
<1>6. Recorded'
  <2>1. status[Current(a)] \in {"pending_approval", "rejected", "approved", "running",
                                "succeeded", "failed"}
    BY <1>1, <1>2 DEF IInv, Recorded, RowsAgree, LifeCycle, TypeOK, InvocationStatus
  <2>. QED BY <1>1, <1>3, <2>1, SameRows, BatchInGated
           DEF IInv, Recorded, Current, Row, rows
<1>7. ToolsFollowRecord'
  BY <1>1, SameRows DEF IInv, ToolsFollowRecord
<1>8. Executors'
  <2>1. \A b \in Attempts, d \in Calls : Payload(b, d)' = Payload(b, d)
    BY DEF Payload
  <2>. QED BY <1>1, <2>1 DEF IInv, Executors, Executes, rows, tools
<1>9. AtMostOnce' /\ RepliesAgree'
  BY DEF IInv, AtMostOnce, RepliesAgree, rows, tools
<1>. QED BY <1>3, <1>4, <1>5, <1>6, <1>7, <1>8, <1>9 DEF IInv

LEMMA LoadApprovalStep ==
  ASSUME IInv, NEW a \in Attempts, LoadApproval(a)
  PROVE  IInv'
<1> USE GatedCalls DEF IInv
<1>a. /\ rows' = rows /\ tools' = tools /\ asked' = asked /\ decision' = decision /\ up' = up
      /\ up[a] /\ pc[a] = "match" /\ Recording(a)
      /\ \A b \in Attempts \ {a} : pc'[b] = pc[b] /\ held'[b] = held[b]
                                     /\ cursor'[b] = cursor[b] /\ seen'[b] = seen[b]
  BY DEF LoadApproval, Advance, TypeOK, Recording, rows, tools
<1>b. \A b \in Attempts, c \in Gated :
        DecisionMatches(b, c, Row(c))' = DecisionMatches(b, c, Row(c))
  BY <1>a DEF DecisionMatches, Row, Rejects, rows
<1>c. \A b \in Attempts, c \in Calls : Payload(b, c)' = Payload(b, c)
  BY <1>a DEF Payload
<1>d. \A b \in Attempts : Complete(b)' = Complete(b)
  BY <1>a DEF Complete
<1>e. \A c \in Calls : task[a][c] = "off"
  BY <1>a DEF Executors
<1>f. Current(a) \in Gated /\ (pc[a] \in {"match", "update"} => cursor[a] <= Len(Batch))
  BY <1>a, CurrentInGated DEF Recorded
<1>1. TypeOK'
  <2>1. /\ cursor' = cursor \/ cursor' = [cursor EXCEPT ![a] = @ + 1]
        /\ held' = held \/ held' = [held EXCEPT ![a] = {}]
        /\ \E to \in {"update", "load", "failed"} : pc' = [pc EXCEPT ![a] = to]
        /\ UNCHANGED <<rows, up, asked, decision, seen, tools>>
    BY DEF LoadApproval, Advance
  <2>2. cursor' \in [Attempts -> 1..(Len(Batch) + 1)]
    BY <1>f, <1>a, <2>1, BatchAssumption DEF TypeOK
  <2>3. held' \in [Attempts -> SUBSET Gated]
    BY <2>1 DEF TypeOK
  <2>4. pc' \in [Attempts -> PcStates]
    BY <2>1 DEF TypeOK, PcStates
  <2>. QED BY <2>1, <2>2, <2>3, <2>4 DEF TypeOK, rows, tools
<1>2. RowsAgree'
  BY <1>a DEF RowsAgree, rows
<1>3. LifeCycle'
  BY <1>a DEF LifeCycle, rows
<1>4. Transactions'
  <2>1. \A c \in Gated : Decided(c)' = Decided(c)
    BY <1>a DEF Decided, rows

  <2>2. CASE pc'[a] = "update"
    <3>1. held' = held /\ cursor' = cursor
      BY <2>2 DEF LoadApproval, Advance, TypeOK
    <3>2. \A b \in Attempts : Recording(b)' = Recording(b)
      BY <1>a, <2>2 DEF Recording
    <3>. QED BY <1>a, <2>1, <3>1, <3>2 DEF Transactions, rows
  <2>3. CASE pc'[a] = "load"
    <3>1. held' = held /\ cursor'[a] = cursor[a] + 1
      BY <2>3 DEF LoadApproval, Advance, TypeOK
    <3>2. Decided(Current(a))
      BY <1>f, <2>3 DEF LoadApproval, Advance, TypeOK, DecisionMatches, ApprovalStatusOf, Decided
    <3>3. \A c \in Gated : Decided(c)
      BY <1>f, <3>2 DEF DecidedTogether, Decided
    <3>4. held[a] = {}
      BY <3>3 DEF Transactions, Decided, TypeOK
    <3>5. \A b \in Attempts : Recording(b)' = Recording(b)
      BY <1>a, <2>3 DEF Recording
    <3>. QED BY <1>a, <2>1, <3>1, <3>3, <3>4, <3>5 DEF Transactions, rows
  <2>4. CASE pc'[a] = "failed"
    <3>1. held'[a] = {} /\ cursor' = cursor
      BY <2>4 DEF LoadApproval, Advance, TypeOK
    <3>2. \A b \in Attempts : Recording(b)' = (Recording(b) /\ b # a)
      BY <1>a, <2>4 DEF Recording
    <3>3. \A b \in Attempts : \A c \in held'[b] : approval'[c] = "pending"
      BY <1>a, <3>1 DEF Transactions, rows
    <3>4. \A b \in Attempts : held'[b] # {} => Recording(b)'
      BY <1>a, <3>1, <3>2 DEF Transactions
    <3>. QED BY <1>a, <2>1, <3>1, <3>2, <3>3, <3>4 DEF Transactions
  <2>. QED BY <2>2, <2>3, <2>4 DEF LoadApproval, Advance, TypeOK
<1>5. Recorded'
  <2>1. CASE pc'[a] \in {"update", "failed"}
    <3>1. cursor' = cursor /\ seen' = seen /\ (pc'[a] = "update" => held' = held)
      BY <2>1 DEF LoadApproval, Advance, TypeOK
    <3>2. \A b \in Attempts : Recording(b)' => Recording(b) /\ (b = a => pc'[a] = "update")
      BY <1>a, <2>1 DEF Recording
    <3>. QED BY <1>a, <1>b, <1>d, <2>1, <3>1, <3>2, BatchInGated DEF Recorded, rows, Current
  <2>2. CASE pc'[a] = "load"
    <3>1. held' = held /\ cursor'[a] = cursor[a] + 1 /\ seen' = seen
      BY <2>2 DEF LoadApproval, Advance, TypeOK
    <3>2. DecisionMatches(a, Current(a), seen[a])
      BY <2>2 DEF LoadApproval, Advance, TypeOK
    <3>3. DecisionMatches(a, Current(a), Row(Current(a)))
      BY <1>a, <1>f, <3>2 DEF DecisionMatches, Recorded, Row
    <3>4. \A i \in 1..(cursor'[a] - 1) : i \in 1..(cursor[a] - 1) \/ Batch[i] = Current(a)
      BY <3>1 DEF TypeOK, Current
    <3>5. \A b \in Attempts : Recording(b)' = Recording(b)
      BY <1>a, <2>2 DEF Recording
    <3>. QED BY <1>a, <1>b, <1>d, <1>f, <2>2, <3>1, <3>3, <3>4, <3>5, BatchInGated
             DEF Recorded, rows, Current
  <2>. QED BY <2>1, <2>2 DEF LoadApproval, Advance, TypeOK
<1>6. DecidedTogether'
  BY <1>a DEF DecidedTogether, rows
<1>7. ToolsFollowRecord'
  BY <1>a, <1>b DEF ToolsFollowRecord, LoadApproval, Advance, TypeOK
<1>8. Executors'
  BY <1>a, <1>c, <1>e DEF Executors, Executes, rows, tools
<1>9. AtMostOnce'
  BY <1>a DEF AtMostOnce, rows, tools
<1>10. RepliesAgree'
  BY <1>a DEF RepliesAgree, rows, tools
<1>. QED BY <1>1, <1>2, <1>3, <1>4, <1>5, <1>6, <1>7, <1>8, <1>9, <1>10

LEMMA UpdateDecisionStep ==
  ASSUME IInv, NEW a \in Attempts, UpdateDecision(a)
  PROVE  IInv'
<1> USE GatedCalls DEF IInv
<1>a. /\ rows' = rows /\ tools' = tools /\ asked' = asked /\ decision' = decision /\ up' = up
      /\ up[a] /\ pc[a] = "update" /\ Recording(a)
      /\ \A b \in Attempts \ {a} : pc'[b] = pc[b] /\ held'[b] = held[b]
                                     /\ cursor'[b] = cursor[b] /\ seen'[b] = seen[b]
  BY DEF UpdateDecision, Advance, TypeOK, Recording, rows, tools
<1>b. \A b \in Attempts, c \in Gated :
        DecisionMatches(b, c, Row(c))' = DecisionMatches(b, c, Row(c))
  BY <1>a DEF DecisionMatches, Row, Rejects, rows
<1>c. \A b \in Attempts, c \in Calls : Payload(b, c)' = Payload(b, c)
  BY <1>a DEF Payload
<1>d. \A b \in Attempts : Complete(b)' = Complete(b)
  BY <1>a DEF Complete
<1>e. \A c \in Calls : task[a][c] = "off"
  BY <1>a DEF Executors
<1>f. Current(a) \in Gated /\ (pc[a] \in {"match", "update"} => cursor[a] <= Len(Batch))
  BY <1>a, CurrentInGated DEF Recorded
<1>1. TypeOK'
  BY <1>f, BatchAssumption DEF UpdateDecision, Advance, TypeOK, PcStates, rows, tools
<1>2. RowsAgree'
  BY <1>a DEF RowsAgree, rows
<1>3. LifeCycle'
  BY <1>a DEF LifeCycle, rows
<1>4. Transactions'
  <2>1. \A c \in Gated : Decided(c)' = Decided(c)
    BY <1>a DEF Decided, rows

  <2>2. held'[a] = held[a] \cup {Current(a)} /\ cursor'[a] = cursor[a] + 1 /\ pc'[a] = "load"
    BY DEF UpdateDecision, Advance, TypeOK
  <2>3. ~Decided(Current(a)) /\ approval[Current(a)] = "pending"
    BY DEF UpdateDecision, Decided
  <2>4. held[a] = {Batch[i] : i \in 1..(cursor[a] - 1)}
    BY <1>a, <1>f, <2>3 DEF Transactions
  <2>5. held'[a] = {Batch[i] : i \in 1..(cursor'[a] - 1)}
    BY <2>2, <2>4 DEF Current, TypeOK
  <2>6. \A b \in Attempts \ {a} : Current(a) \notin held[b]
    BY DEF UpdateDecision, Free
  <2>7. \A b \in Attempts : Recording(b)' = Recording(b)
    BY <1>a, <2>2 DEF Recording
  <2>8. \A b \in Attempts : \A c \in held'[b] : approval'[c] = "pending"
    BY <1>a, <2>2, <2>3 DEF Transactions, rows
  <2>9. \A b, e \in Attempts : b # e => held'[b] \cap held'[e] = {}
    BY <1>a, <2>2, <2>6 DEF Transactions
  <2>10. \A b \in Attempts : held'[b] # {} => Recording(b)'
    BY <1>a, <2>7 DEF Transactions
  <2>. QED BY <1>a, <2>1, <2>5, <2>7, <2>8, <2>9, <2>10 DEF Transactions
<1>5. Recorded'
  <2>1. /\ held'[a] = held[a] \cup {Current(a)} /\ cursor'[a] = cursor[a] + 1 /\ pc'[a] = "load"
        /\ pc'[a] = "load" /\ seen' = seen
    BY DEF UpdateDecision, Advance, TypeOK
  <2>2. \A b \in Attempts : Recording(b)' = Recording(b)
    BY <1>a, <2>1 DEF Recording
  <2>3. \A i \in 1..(cursor'[a] - 1) : i \in 1..(cursor[a] - 1) \/ Batch[i] = Current(a)
    BY <2>1 DEF TypeOK, Current
  <2>. QED BY <1>a, <1>b, <1>d, <2>1, <2>2, <2>3, BatchInGated DEF Recorded, rows, Current
<1>6. DecidedTogether'
  BY <1>a DEF DecidedTogether, rows
<1>7. ToolsFollowRecord'
  BY <1>a, <1>b DEF ToolsFollowRecord, UpdateDecision, Advance, TypeOK
<1>8. Executors'
  BY <1>a, <1>c, <1>e DEF Executors, Executes, rows, tools
<1>9. AtMostOnce'
  BY <1>a DEF AtMostOnce, rows, tools
<1>10. RepliesAgree'
  BY <1>a DEF RepliesAgree, rows, tools
<1>. QED BY <1>1, <1>2, <1>3, <1>4, <1>5, <1>6, <1>7, <1>8, <1>9, <1>10

LEMMA UpdateLostStep ==
  ASSUME IInv, NEW a \in Attempts, UpdateLost(a)
  PROVE  IInv'
<1> USE GatedCalls DEF IInv
<1>a. /\ rows' = rows /\ tools' = tools /\ asked' = asked /\ decision' = decision /\ up' = up
      /\ up[a] /\ pc[a] = "update" /\ Recording(a)
      /\ \A b \in Attempts \ {a} : pc'[b] = pc[b] /\ held'[b] = held[b]
                                     /\ cursor'[b] = cursor[b] /\ seen'[b] = seen[b]
  BY DEF UpdateLost, Advance, TypeOK, Recording, rows, tools
<1>b. \A b \in Attempts, c \in Gated :
        DecisionMatches(b, c, Row(c))' = DecisionMatches(b, c, Row(c))
  BY <1>a DEF DecisionMatches, Row, Rejects, rows
<1>c. \A b \in Attempts, c \in Calls : Payload(b, c)' = Payload(b, c)
  BY <1>a DEF Payload
<1>d. \A b \in Attempts : Complete(b)' = Complete(b)
  BY <1>a DEF Complete
<1>e. \A c \in Calls : task[a][c] = "off"
  BY <1>a DEF Executors
<1>f. Current(a) \in Gated /\ (pc[a] \in {"match", "update"} => cursor[a] <= Len(Batch))
  BY <1>a, CurrentInGated DEF Recorded
<1>1. TypeOK'
  BY <1>f, BatchAssumption DEF UpdateLost, Advance, TypeOK, PcStates, rows, tools
<1>2. RowsAgree'
  BY <1>a DEF RowsAgree, rows
<1>3. LifeCycle'
  BY <1>a DEF LifeCycle, rows
<1>4. Transactions'
  <2>1. \A c \in Gated : Decided(c)' = Decided(c)
    BY <1>a DEF Decided, rows

  <2>2. held'[a] = {} /\ cursor' = cursor /\ pc'[a] = "recheck"
    BY DEF UpdateLost, Advance, TypeOK
  <2>3. \A b \in Attempts : Recording(b)' = (Recording(b) /\ b # a)
    BY <1>a, <2>2 DEF Recording
  <2>4. \A b \in Attempts : \A c \in held'[b] : approval'[c] = "pending"
    BY <1>a, <2>2 DEF Transactions, rows
  <2>. QED BY <1>a, <2>1, <2>2, <2>3, <2>4 DEF Transactions
<1>5. Recorded'
  <2>1. cursor' = cursor /\ pc'[a] = "recheck" /\ seen' = seen
    BY DEF UpdateLost, Advance, TypeOK
  <2>2. \A b \in Attempts : Recording(b)' => Recording(b) /\ b # a
    BY <1>a, <2>1 DEF Recording
  <2>. QED BY <1>a, <1>b, <1>d, <2>1, <2>2, BatchInGated DEF Recorded, rows, Current
<1>6. DecidedTogether'
  BY <1>a DEF DecidedTogether, rows
<1>7. ToolsFollowRecord'
  BY <1>a, <1>b DEF ToolsFollowRecord, UpdateLost, Advance, TypeOK
<1>8. Executors'
  BY <1>a, <1>c, <1>e DEF Executors, Executes, rows, tools
<1>9. AtMostOnce'
  BY <1>a DEF AtMostOnce, rows, tools
<1>10. RepliesAgree'
  BY <1>a DEF RepliesAgree, rows, tools
<1>. QED BY <1>1, <1>2, <1>3, <1>4, <1>5, <1>6, <1>7, <1>8, <1>9, <1>10

LEMMA CommitDecisionsStep ==
  ASSUME IInv, NEW a \in Attempts, CommitDecisions(a)
  PROVE  IInv'
<1> USE GatedCalls DEF IInv
<1>a. /\ attemptCount' = attemptCount /\ asked' = asked /\ decision' = decision /\ up' = up
      /\ cursor' = cursor /\ seen' = seen /\ UNCHANGED <<requested, expected, reply, trace, executed>>
      /\ up[a] /\ pc[a] = "load" /\ Recording(a) /\ cursor[a] = Len(Batch) + 1
      /\ pc'[a] = "tools" /\ held'[a] = {}
      /\ \A c \in Calls : task'[a][c] \in {"off", "ready"}
      /\ \A b \in Attempts \ {a} : pc'[b] = pc[b] /\ held'[b] = held[b] /\ task'[b] = task[b]
  BY BatchAssumption DEF CommitDecisions, Dispatch, Advance, TypeOK, Recording
<1>b. \A c \in Calls :
        /\ c \in held[a] =>
             /\ c \in Gated /\ approval[c] = "pending" /\ status[c] = "pending_approval"
             /\ status'[c] = IF Rejects(a, c) THEN "rejected" ELSE "approved"
             /\ effective'[c] = decision[a][c].input
             /\ approval'[c] = ApprovalStatusOf(decision[a][c].type)
             /\ reason'[c] = decision[a][c].reason
        /\ c \notin held[a] =>
             /\ status'[c] = status[c] /\ effective'[c] = effective[c]
             /\ c \in Gated => approval'[c] = approval[c] /\ reason'[c] = reason[c]
  BY DEF CommitDecisions, Transactions, RowsAgree, TypeOK
<1>c. \A c \in Calls : task[a][c] = "off"
  BY <1>a DEF Executors
<1>d. Complete(a) /\ \A c \in Gated : approval[c] # "absent"
  BY <1>a DEF Recorded
<1>e. \/ held[a] = Gated
      \/ held[a] = {} /\ \A c \in Gated : Decided(c)
  BY <1>a, BatchAssumption DEF Transactions, Gated
<1>f. \A c \in held[a] : Decided(c)' /\ (approval'[c] = "rejected" <=> status'[c] = "rejected")
  BY <1>b, <1>d DEF Decided, ApprovalStatusOf, Rejects, Complete, TypeOK, Decisions
<1>g. \A b \in Attempts, c \in Gated :
        DecisionMatches(b, c, Row(c)) => DecisionMatches(b, c, Row(c))'
  <2>1. \A b \in Attempts, c \in held[a] : ~DecisionMatches(b, c, Row(c))
    BY <1>b DEF DecisionMatches, ApprovalStatusOf, TypeOK
  <2>. QED BY <1>a, <1>b, <2>1 DEF DecisionMatches, Row, Rejects
<1>h. \A c \in Gated : DecisionMatches(a, c, Row(c))'
  <2>1. \A c \in held[a] : DecisionMatches(a, c, Row(c))'
    BY <1>a, <1>b DEF DecisionMatches, Row, Rejects, TypeOK
  <2>2. \A c \in Gated : c \in held[a] \/ DecisionMatches(a, c, Row(c))
    BY <1>a, BatchAssumption DEF Recorded, Gated
  <2>. QED BY <2>1, <2>2, <1>g
<1>i. \A b \in Attempts : Complete(b)' = Complete(b)
  BY <1>a DEF Complete
<1>j. \A b \in Attempts, c \in Calls : Payload(b, c)' = Payload(b, c)
  BY <1>a DEF Payload
<1>k. \A b \in Attempts : Recording(b)' = (Recording(b) /\ b # a)
  BY <1>a DEF Recording
<1>1. TypeOK'
  <2>1. status' \in [Calls -> InvocationStatus \cup {"absent"}]
    BY DEF CommitDecisions, TypeOK, InvocationStatus
  <2>2. effective' \in [Calls -> Inputs]
    BY DEF CommitDecisions, TypeOK, Decisions
  <2>3. /\ approval' \in [Gated -> ApprovalStatus \cup {"absent"}]
        /\ reason' \in [Gated -> Reasons]
    BY DEF CommitDecisions, TypeOK, ApprovalStatus, ApprovalStatusOf, Decisions
  <2>4. pc' \in [Attempts -> PcStates] /\ held' \in [Attempts -> SUBSET Gated]
    BY DEF CommitDecisions, Dispatch, Advance, TypeOK, PcStates
  <2>5. task' \in [Attempts -> [Calls -> TaskStates]]
    BY DEF CommitDecisions, Dispatch, TypeOK, TaskStates
  <2>. QED BY <1>a, <2>1, <2>2, <2>3, <2>4, <2>5 DEF TypeOK
<1>2. RowsAgree'
  BY <1>b, <1>f DEF RowsAgree, Decided
<1>3. LifeCycle'
  BY <1>a, <1>b, <1>d, <1>f DEF LifeCycle, Decided
<1>4. Transactions'
  <2>1. CASE held[a] = {}
    <3>1. \A c \in Gated : Decided(c)' = Decided(c)
      BY <1>b, <2>1 DEF Decided
    <3>2. \A b \in Attempts : \A c \in held'[b] : approval'[c] = "pending"
      BY <1>a, <1>b, <2>1 DEF Transactions, TypeOK
    <3>3. \A b \in Attempts : held'[b] # {} => Recording(b)'
      BY <1>a, <1>k DEF Transactions
    <3>. QED BY <1>a, <1>k, <3>1, <3>2, <3>3 DEF Transactions
  <2>2. CASE held[a] = Gated
    <3>1. \A b \in Attempts : held'[b] = {}
      <4>1. \A b \in Attempts \ {a} : held[b] \cap Gated = {} /\ held[b] \subseteq Gated
        BY <2>2 DEF Transactions, TypeOK
      <4>. QED BY <1>a, <4>1
    <3>2. \A c \in Gated : Decided(c)'
      BY <1>f, <2>2
    <3>. QED BY <3>1, <3>2 DEF Transactions
  <2>. QED BY <1>e, <2>1, <2>2
<1>5. Recorded'
  <2>1. \A c \in Gated : approval[c] # "absent" => approval'[c] # "absent"
    BY <1>b, <1>f DEF Decided
  <2>2. \A b \in Attempts : (Recording(b) =>
          \A i \in 1..(cursor[b] - 1) :
              Batch[i] \in held[b] \/ DecisionMatches(b, Batch[i], Row(Batch[i])))'
    BY <1>a, <1>g, <1>k, BatchInGated DEF Recorded
  <2>3. \A b \in Attempts : (pc[b] = "match" =>
          \/ seen[b].status = "pending_approval"
          \/ /\ seen[b].effective = effective[Current(b)]
             /\ \/ seen[b].status = "rejected" /\ status[Current(b)] = "rejected"
                \/ /\ seen[b].status \in {"approved", "running", "succeeded", "failed"}
                   /\ status[Current(b)] \in {"approved", "running", "succeeded", "failed"})'
    <3>1. \A b \in Attempts : pc'[b] = "match" => Current(b) \in Gated /\ pc[b] = "match"
      BY <1>a, CurrentInGated DEF Recorded
    <3>2. \A b \in Attempts : Current(b)' = Current(b)
      BY <1>a DEF Current
    <3>. QED BY <1>a, <1>b, <3>1, <3>2 DEF Recorded
  <2>4. \A b \in Attempts : pc'[b] \in {"load", "match", "update", "recheck", "tools"} =>
          Complete(b)' /\ \A c \in Gated : approval'[c] # "absent"
    BY <1>a, <1>d, <1>i, <2>1 DEF Recorded
  <2>5. \A b \in Attempts : /\ pc'[b] \in {"idle", "ensure", "paused"} => cursor'[b] = 1
                            /\ pc'[b] \in {"match", "update"} => cursor'[b] <= Len(Batch)
    BY <1>a DEF Recorded
  <2>. QED BY <2>2, <2>3, <2>4, <2>5 DEF Recorded
<1>6. DecidedTogether'
  BY <1>b, <1>e, <1>f DEF DecidedTogether, Decided
<1>7. ToolsFollowRecord'
  BY <1>a, <1>g, <1>h DEF ToolsFollowRecord
<1>8. Executors'
  BY <1>a, <1>b, <1>c, <1>j DEF Executors, Executes
<1>9. AtMostOnce'
  BY <1>a DEF AtMostOnce
<1>10. RepliesAgree'
  BY <1>a, <1>b DEF RepliesAgree
<1>. QED BY <1>1, <1>2, <1>3, <1>4, <1>5, <1>6, <1>7, <1>8, <1>9, <1>10

LEMMA RecheckStep ==
  ASSUME IInv, NEW a \in Attempts, Recheck(a)
  PROVE  IInv'
<1> USE GatedCalls DEF IInv
<1>a. /\ UNCHANGED <<rows, held, up, asked, decision, cursor, seen, expected, reply, trace, executed>>
      /\ up[a] /\ pc[a] = "recheck"
      /\ \/ Dispatch(a) /\ \A c \in Gated : DecisionMatches(a, c, Row(c))
         \/ Advance(a, "failed") /\ UNCHANGED task
  BY DEF Recheck
<1>b. \E to \in {"tools", "failed"} :
        /\ pc' = [pc EXCEPT ![a] = to]
        /\ to = "tools" => \A c \in Gated : DecisionMatches(a, c, Row(c))
  BY <1>a DEF Dispatch, Advance
<1>c. \A b \in Attempts, c \in Calls :
        \/ task'[b][c] = task[b][c]
        \/ b = a /\ task'[b][c] \in {"off", "ready"} /\ pc'[a] = "tools"
  <2>1. CASE Dispatch(a)
    <3>1. \A c \in Calls : task'[a][c] = IF Rejects(a, c) THEN "off" ELSE "ready"
      BY <2>1 DEF Dispatch, TypeOK
    <3>2. \A b \in Attempts \ {a} : task'[b] = task[b]
      BY <2>1 DEF Dispatch, TypeOK
    <3>3. pc'[a] = "tools"
      BY <2>1 DEF Dispatch, Advance, TypeOK
    <3>. QED BY <3>1, <3>2, <3>3
  <2>2. CASE UNCHANGED task
    BY <2>2
  <2>. QED BY <1>a, <2>1, <2>2
<1>d. \A b \in Attempts, c \in Gated :
        DecisionMatches(b, c, Row(c))' = DecisionMatches(b, c, Row(c))
  BY <1>a DEF DecisionMatches, Row, Rejects, rows
<1>e. \A b \in Attempts, c \in Calls : Payload(b, c)' = Payload(b, c)
  BY <1>a DEF Payload
<1>f. \A b \in Attempts : /\ Complete(b)' = Complete(b)
                          /\ Recording(b)' = Recording(b)
                          /\ \/ pc'[b] = pc[b]
                             \/ b = a /\ pc'[b] \in {"tools", "failed"}
  <2>1. PICK to \in {"tools", "failed"} : pc' = [pc EXCEPT ![a] = to]
    BY <1>b
  <2>2. \A b \in Attempts : pc'[b] = IF b = a THEN to ELSE pc[b]
    BY <2>1 DEF TypeOK
  <2>. QED BY <1>a, <2>2 DEF Complete, Recording
<1>1. TypeOK'
  <2>1. pc' \in [Attempts -> PcStates]
    BY <1>b DEF TypeOK, PcStates
  <2>2. task' \in [Attempts -> [Calls -> TaskStates]]
    <3>1. CASE Dispatch(a)
      BY <3>1 DEF Dispatch, TypeOK, TaskStates
    <3>2. CASE task' = task
      BY <3>2 DEF TypeOK
    <3>. QED BY <1>a, <3>1, <3>2
  <2>. QED BY <1>a, <2>1, <2>2 DEF TypeOK, rows
<1>2. RowsAgree'
  BY <1>a DEF RowsAgree, rows
<1>3. LifeCycle'
  BY <1>a DEF LifeCycle, rows
<1>4. Transactions'
  <2>1. \A c \in Gated : Decided(c)' = Decided(c)
    BY <1>a DEF Decided, rows
  <2>. QED BY <1>a, <1>f, <2>1 DEF Transactions, rows
<1>5. Recorded'
  <2>1. \A b \in Attempts : pc[b] = "match" => Current(b) \in Gated
    BY CurrentInGated DEF Recorded
  <2>. QED BY <1>a, <1>d, <1>f, <2>1, BatchInGated DEF Recorded, Current, rows
<1>6. DecidedTogether'
  BY <1>a DEF DecidedTogether, rows
<1>7. ToolsFollowRecord'
  BY <1>a, <1>b, <1>d DEF ToolsFollowRecord, TypeOK
<1>8. Executors'
  BY <1>a, <1>c, <1>e, <1>f DEF Executors, Executes, rows
<1>9. AtMostOnce'
  BY <1>a DEF AtMostOnce, rows
<1>10. RepliesAgree'
  BY <1>a DEF RepliesAgree, rows
<1>. QED BY <1>1, <1>2, <1>3, <1>4, <1>5, <1>6, <1>7, <1>8, <1>9, <1>10

LEMMA DenyToolStep ==
  ASSUME IInv, NEW a \in Attempts, NEW c \in Calls, DenyTool(a, c)
  PROVE  IInv'
<1> USE DEF DenyTool, InTools, Return
<1>1. TypeOK'
  BY DEF IInv, TypeOK, TaskStates, Replies, Move, rows, middle, tools
<1>2. /\ RowsAgree' /\ LifeCycle' /\ DecidedTogether'
      /\ Transactions' /\ Recorded' /\ ToolsFollowRecord'
  BY SameMiddle
<1>3. Executors'
  BY TaskLeaves
<1>4. AtMostOnce'
  BY DEF IInv, AtMostOnce, rows
<1>5. RepliesAgree'
  BY DEF IInv, TypeOK, RepliesAgree, rows
<1>. QED BY <1>1, <1>2, <1>3, <1>4, <1>5 DEF IInv

LEMMA ClaimNewStep ==
  ASSUME IInv, NEW a \in Attempts, NEW c \in Calls, ClaimNew(a, c)
  PROVE  IInv'
<1> USE GatedCalls DEF IInv
<1>a. /\ UNCHANGED <<held, middle, approval, reason>>
      /\ pc[a] = "tools" /\ \A d \in Gated : DecisionMatches(a, d, Row(d))
  BY DEF ClaimNew, InTools, rows, ToolsFollowRecord
<1>b. \A b \in Attempts, d \in Calls : Payload(b, d)' = Payload(b, d)
  BY <1>a DEF Payload, middle
<1>e. c \notin Gated /\ status[c] = "absent" /\ task[a][c] = "ready"
  BY <1>a DEF ClaimNew, InTools, DecisionMatches, Row, Rejects
<1>f. /\ status' = [status EXCEPT ![c] = "running"]
      /\ attemptCount' = [attemptCount EXCEPT ![c] = 1]
      /\ effective' = [effective EXCEPT ![c] = Payload(a, c)]
      /\ task' = [task EXCEPT ![a][c] = "claimed"]
      /\ UNCHANGED <<expected, reply, trace, executed>>
  BY DEF ClaimNew, Move
<1>c. \A d \in Gated : status'[d] = status[d] /\ effective'[d] = effective[d]
  BY <1>e, <1>f DEF TypeOK
<1>d. \A b \in Attempts, d \in Gated :
        DecisionMatches(b, d, Row(d))' = DecisionMatches(b, d, Row(d))
  BY <1>a, <1>c DEF DecisionMatches, Row, Rejects, middle
<1>1. TypeOK'
  BY DEF ClaimNew, InTools, Move, middle, TypeOK, TaskStates, InvocationStatus, Payload, Decisions
<1>2. RowsAgree'
  BY <1>a, <1>c DEF RowsAgree
<1>3. LifeCycle'
  BY <1>a, <1>e, <1>f DEF LifeCycle, TypeOK
<1>4. Transactions'
  BY <1>a DEF Transactions, Recording, Decided, middle
<1>5. Recorded'
  <2>1. \A b \in Attempts : Complete(b)' = Complete(b) /\ Recording(b)' = Recording(b)
    BY <1>a DEF Complete, Recording, middle
  <2>2. \A b \in Attempts : pc[b] = "match" => Current(b) \in Gated
    BY CurrentInGated DEF Recorded
  <2>. QED BY <1>a, <1>c, <1>d, <2>1, <2>2, BatchInGated DEF Recorded, Current, middle
<1>6. DecidedTogether'
  BY <1>a DEF DecidedTogether
<1>7. ToolsFollowRecord'
  BY <1>a, <1>d DEF ToolsFollowRecord, middle
<1>8. Executors'
  <2>1. \A b \in Attempts : ~Executes(b, c) /\ task[b][c] # "claiming"
    BY <1>e DEF Executors
  <2>2. executed[c] = {}
    BY <1>e DEF Executors
  <2>3. \A b \in Attempts, d \in Calls :
          task'[b][d] = IF b = a /\ d = c THEN "claimed" ELSE task[b][d]
    BY <1>f DEF TypeOK
  <2>4. effective'[c] = Payload(a, c) /\ status'[c] = "running"
    BY <1>f DEF TypeOK
  <2>5. \A d \in Calls \ {c} : effective'[d] = effective[d] /\ status'[d] = status[d]
    BY <1>f DEF TypeOK
  <2>. QED BY <1>a, <1>b, <1>f, <2>1, <2>2, <2>3, <2>4, <2>5 DEF Executors, Executes, middle
<1>9. AtMostOnce'
  <2>1. executed[c] = {}
    BY <1>e DEF Executors
  <2>. QED BY <1>f, <2>1 DEF AtMostOnce, TypeOK
<1>10. RepliesAgree'
  BY <1>e, <1>f DEF RepliesAgree, TypeOK
<1>. QED BY <1>1, <1>2, <1>3, <1>4, <1>5, <1>6, <1>7, <1>8, <1>9, <1>10

LEMMA ReadClaimStep ==
  ASSUME IInv, NEW a \in Attempts, NEW c \in Calls, ReadClaim(a, c)
  PROVE  IInv'
<1> USE GatedCalls DEF IInv
<1>a. /\ UNCHANGED <<held, middle, approval, reason>>
      /\ pc[a] = "tools" /\ \A d \in Gated : DecisionMatches(a, d, Row(d))
  BY DEF ReadClaim, InTools, rows, ToolsFollowRecord
<1>b. \A b \in Attempts, d \in Calls : Payload(b, d)' = Payload(b, d)
  BY <1>a DEF Payload, middle
<1>e. /\ UNCHANGED <<rows, trace, executed>>
      /\ status[c] # "absent" /\ task[a][c] = "ready"
      /\ expected' = expected \/ expected' = [expected EXCEPT ![a][c] = status[c]]
      /\ reply' = reply \/ reply' = [reply EXCEPT ![a][c] = "conflict"]
      /\ \E to \in {"returned", "existing", "claiming"} :
            /\ task' = [task EXCEPT ![a][c] = to]
            /\ to = "claiming" =>
                 /\ effective[c] = Payload(a, c) /\ status[c] \in {"pending", "approved"}
                 /\ expected' = [expected EXCEPT ![a][c] = status[c]]
  BY DEF ReadClaim, InTools, Return, Move

<1>c. \A d \in Gated : status'[d] = status[d] /\ effective'[d] = effective[d]
  BY <1>e DEF rows
<1>d. \A b \in Attempts, d \in Gated :
        DecisionMatches(b, d, Row(d))' = DecisionMatches(b, d, Row(d))
  BY <1>a, <1>c DEF DecisionMatches, Row, Rejects, middle
<1>1. TypeOK'
  <2>1. task' \in [Attempts -> [Calls -> TaskStates]]
    BY <1>e DEF TypeOK, TaskStates
  <2>2. expected' \in [Attempts -> [Calls -> InvocationStatus \cup {"absent"}]]
    <3>1. CASE expected' = expected
      BY <3>1 DEF TypeOK
    <3>2. CASE expected' = [expected EXCEPT ![a][c] = status[c]]
      BY <3>2 DEF TypeOK
    <3>. QED BY <1>e, <3>1, <3>2
  <2>3. reply' \in [Attempts -> [Calls -> Replies]]
    <3>1. CASE reply' = reply
      BY <3>1 DEF TypeOK
    <3>2. CASE reply' = [reply EXCEPT ![a][c] = "conflict"]
      BY <3>2 DEF TypeOK, Replies
    <3>. QED BY <1>e, <3>1, <3>2
  <2>. QED BY <1>a, <1>e, <2>1, <2>2, <2>3 DEF TypeOK, rows, middle
<1>2. RowsAgree'
  BY <1>a, <1>c DEF RowsAgree
<1>3. LifeCycle'
  BY <1>a, <1>e DEF LifeCycle, rows
<1>4. Transactions'
  BY <1>a DEF Transactions, Recording, Decided, middle
<1>5. Recorded'
  <2>1. \A b \in Attempts : Complete(b)' = Complete(b) /\ Recording(b)' = Recording(b)
    BY <1>a DEF Complete, Recording, middle
  <2>2. \A b \in Attempts : pc[b] = "match" => Current(b) \in Gated
    BY CurrentInGated DEF Recorded
  <2>. QED BY <1>a, <1>c, <1>d, <2>1, <2>2, BatchInGated DEF Recorded, Current, middle
<1>6. DecidedTogether'
  BY <1>a DEF DecidedTogether
<1>7. ToolsFollowRecord'
  BY <1>a, <1>d DEF ToolsFollowRecord, middle
<1>8. Executors'
  <2>1. PICK to \in {"returned", "existing", "claiming"} :
          /\ \A b \in Attempts, d \in Calls :
               task'[b][d] = IF b = a /\ d = c THEN to ELSE task[b][d]
          /\ to = "claiming" => effective[c] = Payload(a, c) /\ status[c] = "approved"
                                  /\ expected'[a][c] = "approved"
    BY <1>e DEF TypeOK, LifeCycle
  <2>2. \A b \in Attempts, d \in Calls : b # a \/ d # c => expected'[b][d] = expected[b][d]
    BY <1>e DEF TypeOK
  <2>. QED BY <1>a, <1>b, <1>e, <2>1, <2>2 DEF Executors, Executes, middle, rows
<1>9. AtMostOnce'
  BY <1>e DEF AtMostOnce, rows
<1>10. RepliesAgree'
  <2>1. \A b \in Attempts, d \in Calls : reply'[b][d] = reply[b][d] \/ reply'[b][d] = "conflict"
    <3>1. CASE reply' = reply
      BY <3>1
    <3>2. CASE reply' = [reply EXCEPT ![a][c] = "conflict"]
      BY <3>2 DEF TypeOK
    <3>. QED BY <1>e, <3>1, <3>2
  <2>. QED BY <1>e, <2>1 DEF RepliesAgree, rows
<1>. QED BY <1>1, <1>2, <1>3, <1>4, <1>5, <1>6, <1>7, <1>8, <1>9, <1>10

LEMMA ClaimStep ==
  ASSUME IInv, NEW a \in Attempts, NEW c \in Calls, Claim(a, c)
  PROVE  IInv'
<1> USE GatedCalls DEF IInv
<1>a. /\ UNCHANGED <<held, middle, approval, reason>>
      /\ pc[a] = "tools" /\ \A d \in Gated : DecisionMatches(a, d, Row(d))
  BY DEF Claim, InTools, rows, ToolsFollowRecord
<1>b. \A b \in Attempts, d \in Calls : Payload(b, d)' = Payload(b, d)
  BY <1>a DEF Payload, middle
<1>e. /\ UNCHANGED <<requested, effective, expected, reply, trace, executed>>
      /\ task[a][c] = "claiming" /\ expected[a][c] = "approved"
      /\ effective[c] = Payload(a, c) /\ status[c] \notin {"absent", "pending_approval"}
      /\ \/ /\ status[c] = "approved"
            /\ status' = [status EXCEPT ![c] = "running"]
            /\ attemptCount' = [attemptCount EXCEPT ![c] = @ + 1]
            /\ task' = [task EXCEPT ![a][c] = "claimed"]
         \/ /\ UNCHANGED <<status, attemptCount>>
            /\ task' = [task EXCEPT ![a][c] = "existing"]
  BY DEF Claim, InTools, Move, Executors
<1>f. \A d \in Calls : \/ status'[d] = status[d] /\ attemptCount'[d] = attemptCount[d]
                       \/ /\ status[d] = "approved" /\ status'[d] = "running"
                          /\ attemptCount'[d] = attemptCount[d] + 1
                          /\ d = c /\ task'[a][c] = "claimed"
  BY <1>e DEF TypeOK
<1>c. \A d \in Gated : approval[d] \in {"approved", "edited"} \/ status'[d] = status[d]
  BY <1>f DEF RowsAgree, LifeCycle, TypeOK, ApprovalStatus
<1>d. \A b \in Attempts, d \in Gated :
        DecisionMatches(b, d, Row(d)) => DecisionMatches(b, d, Row(d))'
  <2>1. \A b \in Attempts, d \in Gated : Rejects(b, d)' = Rejects(b, d)
    BY <1>a DEF Rejects, middle
  <2>. QED BY <1>a, <1>e, <1>f, <2>1 DEF DecisionMatches, Row, middle
<1>1. TypeOK'
  <2>1. task' \in [Attempts -> [Calls -> TaskStates]]
    <3>1. CASE task' = [task EXCEPT ![a][c] = "claimed"]
      BY <3>1 DEF TypeOK, TaskStates
    <3>2. CASE task' = [task EXCEPT ![a][c] = "existing"]
      BY <3>2 DEF TypeOK, TaskStates
    <3>. QED BY <1>e, <3>1, <3>2
  <2>2. status' \in [Calls -> InvocationStatus \cup {"absent"}]
    <3>1. CASE status' = [status EXCEPT ![c] = "running"]
      BY <3>1 DEF TypeOK, InvocationStatus
    <3>2. CASE status' = status
      BY <3>2 DEF TypeOK
    <3>. QED BY <1>e, <3>1, <3>2
  <2>3. attemptCount' \in [Calls -> Nat]
    <3>1. CASE attemptCount' = [attemptCount EXCEPT ![c] = @ + 1]
      BY <3>1 DEF TypeOK
    <3>2. CASE attemptCount' = attemptCount
      BY <3>2 DEF TypeOK
    <3>. QED BY <1>e, <3>1, <3>2
  <2>. QED BY <1>a, <1>e, <2>1, <2>2, <2>3 DEF TypeOK, middle
<1>2. RowsAgree'
  BY <1>a, <1>c, <1>f DEF RowsAgree
<1>3. LifeCycle'
  BY <1>a, <1>f DEF LifeCycle, TypeOK
<1>4. Transactions'
  BY <1>a DEF Transactions, Recording, Decided, middle
<1>5. Recorded'
  <2>1. \A b \in Attempts : Complete(b)' = Complete(b) /\ Recording(b)' = Recording(b)
    BY <1>a DEF Complete, Recording, middle
  <2>2. \A b \in Attempts : pc[b] = "match" => Current(b) \in Gated
    BY CurrentInGated DEF Recorded
  <2>. QED BY <1>a, <1>d, <1>e, <1>f, <2>1, <2>2, BatchInGated DEF Recorded, Current, middle
<1>6. DecidedTogether'
  BY <1>a DEF DecidedTogether
<1>7. ToolsFollowRecord'
  BY <1>a, <1>d DEF ToolsFollowRecord, middle
<1>8. Executors'
  <2>1. \A b \in Attempts, d \in Calls : b # a \/ d # c => task'[b][d] = task[b][d]
    BY <1>e DEF TypeOK
  <2>2. CASE status[c] = "approved" /\ status'[c] = "running"
    <3>1. \A b \in Attempts : ~Executes(b, c)
      BY <2>2 DEF Executors
    <3>2. executed[c] = {}
      BY <2>2 DEF Executors
    <3>3. task'[a][c] = "claimed"
      BY <1>e, <2>2 DEF TypeOK
    <3>. QED BY <1>a, <1>b, <1>e, <1>f, <2>1, <2>2, <3>1, <3>2, <3>3 DEF Executors, Executes, middle
  <2>3. CASE status' = status
    <3>1. task'[a][c] = "existing"
      BY <1>e, <2>3 DEF TypeOK
    <3>. QED BY <1>a, <1>b, <1>e, <2>1, <2>3, <3>1 DEF Executors, Executes, middle
  <2>. QED BY <1>e, <2>2, <2>3 DEF TypeOK
<1>9. AtMostOnce'
  <2>1. \A d \in Calls : status[d] = "approved" => executed[d] = {} /\ attemptCount[d] = 0
    BY DEF Executors, LifeCycle
  <2>. QED BY <1>e, <1>f, <2>1 DEF AtMostOnce
<1>10. RepliesAgree'
  BY <1>e, <1>f DEF RepliesAgree
<1>. QED BY <1>1, <1>2, <1>3, <1>4, <1>5, <1>6, <1>7, <1>8, <1>9, <1>10

LEMMA ReplyExistingStep ==
  ASSUME IInv, NEW a \in Attempts, NEW c \in Calls, ReplyExisting(a, c)
  PROVE  IInv'
<1> USE DEF ReplyExisting, ExistingMessage, InTools, Return
<1>1. TypeOK'
  BY DEF IInv, TypeOK, TaskStates, Replies, Move, rows, middle, tools
<1>2. /\ RowsAgree' /\ LifeCycle' /\ DecidedTogether'
      /\ Transactions' /\ Recorded' /\ ToolsFollowRecord'
  BY SameMiddle
<1>3. Executors'
  BY TaskLeaves
<1>4. AtMostOnce'
  BY DEF IInv, AtMostOnce, rows
<1>5. RepliesAgree'
  BY DEF IInv, TypeOK, RepliesAgree, rows
<1>. QED BY <1>1, <1>2, <1>3, <1>4, <1>5 DEF IInv

LEMMA FinishToolCallStep ==
  ASSUME IInv, NEW a \in Attempts, NEW c \in Calls, NEW result \in {"success", "error"},
         FinishToolCall(a, c, result)
  PROVE  IInv'
<1> USE DEF FinishToolCall, Return, InTools
<1>1. PICK final \in {"succeeded", "failed"} :
        FinishRow(c, final) /\ (result = "error" <=> final = "failed")
  OBVIOUS
<1>2. /\ RowsAgree' /\ LifeCycle' /\ DecidedTogether'
      /\ Transactions' /\ Recorded' /\ ToolsFollowRecord'
      /\ Executors' /\ AtMostOnce'
      /\ status[c] = "running"
      /\ \A d \in Calls : status'[d] = IF d = c THEN final ELSE status[d]
  BY <1>1, RowFinished
<1>3. TypeOK'
  BY <1>1 DEF IInv, TypeOK, InvocationStatus, TaskStates, Replies, FinishRow, Move, middle
<1>4. RepliesAgree'
  BY <1>1, <1>2 DEF IInv, TypeOK, RepliesAgree
<1>. QED BY <1>2, <1>3, <1>4 DEF IInv

LEMMA FailToolCallStep ==
  ASSUME IInv, NEW a \in Attempts, NEW c \in Calls, FailToolCall(a, c)
  PROVE  IInv'
<1> USE DEF FailToolCall, InTools
<1>1. PICK final \in {"succeeded", "failed"} :
        FinishRow(c, final) /\ final = "failed"
  OBVIOUS
<1>2. /\ RowsAgree' /\ LifeCycle' /\ DecidedTogether'
      /\ Transactions' /\ Recorded' /\ ToolsFollowRecord'
      /\ Executors' /\ AtMostOnce'
      /\ status[c] = "running"
      /\ \A d \in Calls : status'[d] = IF d = c THEN final ELSE status[d]
  BY <1>1, RowFinished
<1>3. TypeOK'
  BY <1>1 DEF IInv, TypeOK, InvocationStatus, TaskStates, Replies, FinishRow, Move, middle
<1>4. RepliesAgree'
  BY <1>1, <1>2 DEF IInv, TypeOK, RepliesAgree
<1>. QED BY <1>2, <1>3, <1>4 DEF IInv

LEMMA DatabaseFailsStep ==
  ASSUME IInv, NEW a \in Attempts, NEW c \in Calls, DatabaseFails(a, c)
  PROVE  IInv'
<1> USE DEF DatabaseFails
<1>1. TypeOK'
  BY DEF IInv, TypeOK, TaskStates, Replies, Move, rows, middle, tools
<1>2. /\ RowsAgree' /\ LifeCycle' /\ DecidedTogether'
      /\ Transactions' /\ Recorded' /\ ToolsFollowRecord'
  BY SameMiddle
<1>3. Executors'
  BY TaskLeaves
<1>4. AtMostOnce'
  BY DEF IInv, AtMostOnce, rows
<1>5. RepliesAgree'
  BY DEF IInv, TypeOK, RepliesAgree, rows
<1>. QED BY <1>1, <1>2, <1>3, <1>4, <1>5 DEF IInv

LEMMA CrashStep ==
  ASSUME IInv, NEW a \in Attempts, Crash(a)
  PROVE  IInv'
<1> USE DEF Crash
<1>1. /\ RowsAgree' /\ LifeCycle' /\ DecidedTogether'
      /\ \A b \in Attempts : Recording(b)' = (Recording(b) /\ b # a)
      /\ \A b \in Attempts : held'[b] = IF b = a THEN {} ELSE held[b]
  BY SameRows DEF IInv, TypeOK, Recording
<1>2. TypeOK'
  BY DEF IInv, TypeOK, rows, tools
<1>3. Transactions'
  <2>1. \A b \in Attempts : \A c \in held'[b] : approval'[c] = "pending"
    BY <1>1 DEF IInv, Transactions, rows
  <2>2. \A b \in Attempts : held'[b] # {} => Recording(b)'
    BY <1>1 DEF IInv, Transactions
  <2>3. \A b, e \in Attempts : b # e => held'[b] \cap held'[e] = {}
    BY <1>1 DEF IInv, Transactions
  <2>4. \A b \in Attempts : Recording(b)' =>
          \/ held'[b] = {Batch[i] : i \in 1..(cursor[b] - 1)}
          \/ held'[b] = {} /\ \A c \in Gated : Decided(c)'
    BY <1>1, SameRows DEF IInv, Transactions
  <2>. QED BY <2>1, <2>2, <2>3, <2>4 DEF Transactions
<1>4. Recorded'
  <2>1. \A b \in Attempts, d \in Gated :
          DecisionMatches(b, d, Row(d))' = DecisionMatches(b, d, Row(d))
    BY SameRows
  <2>2. \A b \in Attempts : Recording(b)' =>
          \A i \in 1..(cursor[b] - 1) :
              Batch[i] \in held'[b] \/ DecisionMatches(b, Batch[i], Row(Batch[i]))'
    <3> SUFFICES ASSUME NEW b \in Attempts, Recording(b)', NEW i \in 1..(cursor[b] - 1)
        PROVE  Batch[i] \in held'[b] \/ DecisionMatches(b, Batch[i], Row(Batch[i]))'
      OBVIOUS
    <3>1. Batch[i] \in Gated
      BY BatchInGated DEF IInv
    <3>2. Batch[i] \in held[b] \/ DecisionMatches(b, Batch[i], Row(Batch[i]))
      BY <1>1 DEF IInv, Recorded
    <3>3. DecisionMatches(b, Batch[i], Row(Batch[i]))' = DecisionMatches(b, Batch[i], Row(Batch[i]))
      BY <2>1, <3>1
    <3>. QED BY <1>1, <3>2, <3>3
  <2>3. \A b \in Attempts : pc[b] = "match" =>
          /\ status'[Current(b)] = status[Current(b)]
          /\ effective'[Current(b)] = effective[Current(b)]
          /\ Current(b)' = Current(b)
    BY DEF rows, Current
  <2>. QED BY <1>1, <2>2, <2>3, SameRows DEF IInv, Recorded, rows
<1>5. ToolsFollowRecord'
  BY SameRows DEF IInv, ToolsFollowRecord
<1>6. Executors'
  <2>1. \A b \in Attempts, d \in Calls : Payload(b, d)' = Payload(b, d)
    BY DEF Payload
  <2>. QED BY <2>1 DEF IInv, Executors, Executes, rows, tools
<1>7. AtMostOnce' /\ RepliesAgree'
  BY DEF IInv, AtMostOnce, RepliesAgree, rows, tools
<1>. QED BY <1>1, <1>2, <1>3, <1>4, <1>5, <1>6, <1>7 DEF IInv

(***************************************************************************)
(* IInv is inductive, and with it the safety properties.                   *)
(***************************************************************************)
LEMMA NextInvariant == IInv /\ [Next]_vars => IInv'
<1> SUFFICES ASSUME IInv, [Next]_vars PROVE IInv'
  OBVIOUS
<1>1. CASE \E a \in Attempts, m \in Messages : Run(a, m)
  BY <1>1, RunGatedStep, RunUngatedStep
<1>2. CASE \E a, b \in Attempts : \E d \in [Gated -> Decisions] : Resume(a, b, d)
  BY <1>2, ResumeStep
<1>3. CASE \E a \in Attempts : HitlStep(a)
  BY <1>3, EnsurePendingApprovalsStep, EnsureConflictStep, LoadInvocationStep,
     LoadApprovalStep, UpdateDecisionStep, UpdateLostStep, CommitDecisionsStep,
     RecheckStep DEF HitlStep
<1>4. CASE \E a \in Attempts, c \in Calls : ToolStep(a, c)
  BY <1>4, DenyToolStep, ClaimNewStep, ReadClaimStep, ClaimStep, ReplyExistingStep,
     CallHandlerStep, FinishToolCallStep, FailToolCallStep DEF ToolStep
<1>5. CASE \E a \in Attempts, c \in Calls : DatabaseFails(a, c)
  BY <1>5, DatabaseFailsStep
<1>6. CASE \E a \in Attempts : Crash(a)
  BY <1>6, CrashStep
<1>7. CASE UNCHANGED vars
  <2>1. \A a \in Attempts, c \in Calls : Payload(a, c)' = Payload(a, c)
    BY <1>7 DEF vars, middle, Payload
  <2>2. \A a \in Attempts, c \in Gated :
          DecisionMatches(a, c, Row(c))' = DecisionMatches(a, c, Row(c))
    BY <1>7 DEF vars, middle, rows, DecisionMatches, Row, Rejects
  <2>3. \A a \in Attempts : Complete(a)' = Complete(a) /\ Recording(a)' = Recording(a)
    BY <1>7 DEF vars, middle, Complete, Recording
  <2>4. TypeOK' /\ RowsAgree' /\ LifeCycle' /\ DecidedTogether' /\ AtMostOnce' /\ RepliesAgree'
    BY <1>7 DEF IInv, vars, middle, rows, tools, TypeOK, RowsAgree, LifeCycle,
       DecidedTogether, AtMostOnce, RepliesAgree
  <2>5. Transactions'
    BY <1>7, <2>3 DEF IInv, vars, middle, rows, Transactions, Decided
  <2>6. Recorded' /\ ToolsFollowRecord'
    <3>1. \A a \in Attempts : pc[a] = "match" => Current(a) \in Gated
      BY CurrentInGated DEF Recorded, IInv
    <3>. QED BY <1>7, <2>2, <2>3, <3>1, BatchInGated DEF IInv, vars, middle, rows, Recorded,
             ToolsFollowRecord, Current
  <2>7. Executors'
    BY <1>7, <2>1 DEF IInv, vars, middle, rows, tools, Executors, Executes
  <2>. QED BY <2>4, <2>5, <2>6, <2>7 DEF IInv
<1>. QED BY <1>1, <1>2, <1>3, <1>4, <1>5, <1>6, <1>7 DEF Next, Quiescent

(* The inductive invariant holds in every reachable state, for any number  *)
(* of attempts and calls.                                                  *)
THEOREM Invariance == Spec => []IInv
<1>. QED BY InitInvariant, NextInvariant, PTL DEF Spec

(* Every reachable state is well typed.                                    *)
THEOREM TypeCorrect == Spec => []TypeOK
<1>1. IInv => TypeOK
  BY DEF IInv
<1>. QED BY <1>1, Invariance, PTL

(* claim_tool_invocation never lets a tool call run twice.                 *)
THEOREM RunsAtMostOnce == Spec => []AtMostOnce
<1>1. IInv => AtMostOnce
  BY DEF IInv
<1>. QED BY <1>1, Invariance, PTL

(* Nothing gated runs but what a human approved, as approved.              *)
THEOREM RunsAsDecided == Spec => []ExecutedAsDecided
<1>1. IInv => ExecutedAsDecided
  <2> SUFFICES ASSUME IInv, NEW c \in Gated, NEW x \in executed[c]
      PROVE  approval[c] \in {"approved", "edited"} /\ x[2] = effective[c]
    BY DEF ExecutedAsDecided
  <2>1. status[c] \in {"running", "succeeded", "failed"} /\ x[2] = effective[c]
    BY GatedCalls DEF IInv, Executors
  <2>. QED BY <2>1 DEF IInv, RowsAgree, TypeOK, ApprovalStatus
<1>. QED BY <1>1, Invariance, PTL

(* The decisions of one interrupt are recorded all or none.                *)
THEOREM BatchIsAtomic == Spec => []DecidedTogether
<1>1. IInv => DecidedTogether
  BY DEF IInv
<1>. QED BY <1>1, Invariance, PTL

(* Approval and invocation rows never disagree in a committed state.       *)
THEOREM RowsAlwaysAgree == Spec => []RowsAgree
<1>1. IInv => RowsAgree
  BY DEF IInv
<1>. QED BY <1>1, Invariance, PTL

(* Whoever passes a human decision works with the one on record.           *)
THEOREM RecordIsFollowed == Spec => []ToolsFollowRecord
<1>1. IInv => ToolsFollowRecord
  BY DEF IInv
<1>. QED BY <1>1, Invariance, PTL

(* All replies and spans report the outcome in the row.                    *)
THEOREM OneOutcome == Spec => []RepliesAgree
<1>1. IInv => RepliesAgree
  BY DEF IInv
<1>. QED BY <1>1, Invariance, PTL

=============================================================================
