-------------------------- MODULE ModelCall_proofs --------------------------
(***************************************************************************)
(* Proofs about ModelCall, for any number of workers, keys and events.     *)
(*                                                                         *)
(* The invariant IInv is a conjunction, and each part has a lemma of its   *)
(* own that a step keeps it: NextType (types and Progress), RateStep,      *)
(* ChargesStep and FlightsStep.  Progress ties what a call has to the      *)
(* place where it is; the others need it, and it needs none of them.       *)
(***************************************************************************)
EXTENDS ModelCall, FiniteSetTheorems, TLAPS

(* The key of a worker that has made no call.                              *)
LEMMA AnyKeyType == AnyKey \in Keys
BY PolicyAssumption DEF AnyKey

(* Types and Progress hold at first.                                       *)
LEMMA InitType == Init => TypeOK /\ Progress
<1> SUFFICES ASSUME Init PROVE TypeOK /\ Progress
  OBVIOUS
<1>1. DatabaseType /\ RedisType
  <2>1. used \in Nat /\ spent \in Nat
    BY PolicyAssumption DEF Init
  <2>. QED BY <2>1, PolicyAssumption DEF Init, DatabaseType, RedisType
<1>3. CallType
  BY AnyKeyType DEF Init, CallType, PcStates
<1>4. CountType
  BY PolicyAssumption DEF Init, CountType
<1>2. Progress
  BY PolicyAssumption DEF Init, Progress, Fits, InPolicy
<1>. QED BY <1>1, <1>2, <1>3, <1>4 DEF TypeOK

(* Counters stay natural numbers.                                          *)
LEMMA BumpType ==
  ASSUME NEW S, NEW f \in [S -> Nat], NEW x \in S
  PROVE  [f EXCEPT ![x] = @ + 1] \in [S -> Nat]
OBVIOUS

(* An event for a key.                                                     *)
LEMMA DisturbType ==
  ASSUME TypeOK, NEW k \in Keys, Disturb(k)
  PROVE  disturbed' \in [Keys -> Nat]
BY DEF TypeOK, CountType, Disturb

(* A call that ends without a stored response changes one counter.         *)
LEMMA AbandonType ==
  ASSUME TypeOK, NEW w \in Workers, Abandon(w)
  PROVE  disturbed' \in [Keys -> Nat] /\ generations' = generations
<1>1. key[w] \in Keys
  BY DEF TypeOK, CallType
<1>. QED BY <1>1, DisturbType DEF Abandon, TypeOK, CountType

(* The counters of a generation.                                           *)
LEMMA StartType ==
  ASSUME TypeOK, NEW w \in Workers, StartHandler(w)
  PROVE  /\ generations' \in [Keys -> Nat] /\ disturbed' = disturbed
         /\ admitted' \in [1..MaxMinute -> Nat]
<1>1. key[w] \in Keys
  BY DEF TypeOK, CallType
<1>. QED BY <1>1 DEF StartHandler, TypeOK, CountType

(* A lock is given to a call, or freed.                                    *)
LEMMA LockType ==
  ASSUME TypeOK, NEW w \in Workers, NEW t \in {Token(w), Nobody},
         lock' = [lock EXCEPT ![key[w]] = t]
  PROVE  lock' \in [Keys -> (Workers \X Nat) \cup {Nobody}]
<1>1. Token(w) \in Workers \X Nat
  BY DEF Token, TypeOK, CallType
<1>. QED BY <1>1 DEF TypeOK, RedisType

(* The INCR of the rate.                                                   *)
LEMMA RpmType ==
  ASSUME TypeOK, rpm' = [rpm EXCEPT ![minute] = @ + 1]
  PROVE  rpm' \in [1..MaxMinute -> Nat]
<1>1. rpm \in [1..MaxMinute -> Nat] /\ minute \in 1..MaxMinute
  BY DEF TypeOK, RedisType, CountType
<1>. QED BY <1>1, BumpType

(* The other calls stay where they are.                                    *)
Elsewhere(w) ==
    \A v \in Workers \ {w} :
        UNCHANGED <<pc[v], stage[v], hit[v], cost[v], trace[v], mine[v]>>

(* Progress is kept when one call moves and fits its new place.            *)
LEMMA OneWorker ==
  ASSUME Progress, NEW w \in Workers, Fits(w)',
         Elsewhere(w)
  PROVE  Progress'
BY DEF Progress, Fits, InPolicy, Elsewhere

(* Each step of a call keeps the types, and its call fits.                 *)
LEMMA StepType ==
  ASSUME TypeOK, Progress, NEW w \in Workers, Step(w)
  PROVE  TypeOK' /\ Progress'
<1>0. Fits(w)
  BY DEF Progress
<1>a. key[w] \in Keys /\ calls[w] \in Nat /\ cost[w] \in Nat
  BY DEF TypeOK, CallType
<1>1. CASE PolicyIsDue(w)
  <2> USE <1>1 DEF PolicyIsDue
  <2>1. DatabaseType'
    BY <1>a DEF TypeOK, DatabaseType, database
  <2>6. RedisType'
    BY <1>a DEF TypeOK, RedisType, redis
  <2>2. CallType'
    BY PolicyAssumption DEF TypeOK, CallType, PcStates, Goto, Mark, own, answer
  <2>3. CountType'
    BY <1>a, PolicyAssumption DEF TypeOK, CountType, clock, flight, rate
  <2>4. Fits(w)'
    BY <1>0, PolicyAssumption
       DEF TypeOK, CallType, Fits, InPolicy, At, Goto, Mark, own, answer
  <2>5. Elsewhere(w)
    BY DEF Elsewhere, TypeOK, CallType, Goto, Mark, own, answer
  <2>. QED BY <2>1, <2>2, <2>3, <2>4, <2>5, <2>6, OneWorker DEF TypeOK
<1>2. CASE ResetQuota(w)
  <2> USE <1>2 DEF ResetQuota
  <2>1. DatabaseType'
    BY <1>a DEF TypeOK, DatabaseType, database
  <2>6. RedisType'
    BY <1>a DEF TypeOK, RedisType, redis
  <2>2. CallType'
    BY PolicyAssumption DEF TypeOK, CallType, PcStates, Goto, Mark, own, answer
  <2>3. CountType'
    BY <1>a, PolicyAssumption DEF TypeOK, CountType, clock, flight, rate
  <2>4. Fits(w)'
    BY <1>0, PolicyAssumption
       DEF TypeOK, CallType, Fits, InPolicy, At, Goto, Mark, own, answer
  <2>5. Elsewhere(w)
    BY DEF Elsewhere, TypeOK, CallType, Goto, Mark, own, answer
  <2>. QED BY <2>1, <2>2, <2>3, <2>4, <2>5, <2>6, OneWorker DEF TypeOK
<1>3. CASE PolicyDenies(w)
  <2> USE <1>3 DEF PolicyDenies
  <2>1. DatabaseType'
    BY <1>a DEF TypeOK, DatabaseType, database
  <2>6. RedisType'
    BY <1>a DEF TypeOK, RedisType, redis
  <2>2. CallType'
    BY PolicyAssumption
       DEF Refuse, PolicyRead, TypeOK, CallType, PcStates, Goto, Mark, own, answer
  <2>3. CountType'
    BY <1>a, AbandonType, PolicyAssumption
       DEF Refuse, TypeOK, CountType, clock, flight, rate
  <2>4. Fits(w)'
    BY <1>0, PolicyAssumption
       DEF Refuse, PolicyRead, TypeOK, CallType, Fits, InPolicy, At, Goto, Mark, own,
           answer
  <2>5. Elsewhere(w)
    BY DEF Elsewhere, Refuse, PolicyRead, TypeOK, CallType, Goto, Mark, own, answer
  <2>. QED BY <2>1, <2>2, <2>3, <2>4, <2>5, <2>6, OneWorker DEF TypeOK
<1>4. CASE PolicyAllows(w)
  <2> USE <1>4 DEF PolicyAllows
  <2>1. DatabaseType'
    BY <1>a DEF TypeOK, DatabaseType, database
  <2>6. RedisType'
    BY <1>a DEF TypeOK, RedisType, redis
  <2>2. CallType'
    BY PolicyAssumption
       DEF PolicyRead, TypeOK, CallType, PcStates, Goto, Mark, own, answer
  <2>3. CountType'
    BY <1>a, PolicyAssumption DEF TypeOK, CountType, clock, flight, rate
  <2>4. Fits(w)'
    BY <1>0, PolicyAssumption
       DEF PolicyRead, TypeOK, CallType, Fits, InPolicy, At, Goto, Mark, own, answer
  <2>5. Elsewhere(w)
    BY DEF Elsewhere, PolicyRead, TypeOK, CallType, Goto, Mark, own, answer
  <2>. QED BY <2>1, <2>2, <2>3, <2>4, <2>5, <2>6, OneWorker DEF TypeOK
<1>5. CASE OpenTrace(w)
  <2> USE <1>5 DEF OpenTrace
  <2>1. DatabaseType'
    BY <1>a DEF TypeOK, DatabaseType, database
  <2>6. RedisType'
    BY <1>a DEF TypeOK, RedisType, redis
  <2>2. CallType'
    BY PolicyAssumption DEF TypeOK, CallType, PcStates, Goto, Mark, own, answer
  <2>3. CountType'
    BY <1>a, PolicyAssumption DEF TypeOK, CountType, clock, flight, rate
  <2>4. Fits(w)'
    BY <1>0, PolicyAssumption
       DEF TypeOK, CallType, Fits, InPolicy, At, Goto, Mark, own, answer
  <2>5. Elsewhere(w)
    BY DEF Elsewhere, TypeOK, CallType, Goto, Mark, own, answer
  <2>. QED BY <2>1, <2>2, <2>3, <2>4, <2>5, <2>6, OneWorker DEF TypeOK
<1>6. CASE Lookup(w)
  <2> USE <1>6 DEF Lookup
  <2>1. DatabaseType'
    BY <1>a DEF TypeOK, DatabaseType, database
  <2>6. RedisType'
    BY <1>a DEF TypeOK, RedisType, redis
  <2>2. CallType'
    BY PolicyAssumption DEF TakeHit, TypeOK, CallType, PcStates, Goto, Mark, own, answer
  <2>3. CountType'
    BY <1>a, PolicyAssumption DEF TypeOK, CountType, clock, flight, rate
  <2>4. Fits(w)'
    BY <1>0, PolicyAssumption
       DEF TakeHit, TypeOK, CallType, Fits, InPolicy, At, Goto, Mark, own, answer
  <2>5. Elsewhere(w)
    BY DEF Elsewhere, TakeHit, TypeOK, CallType, Goto, Mark, own, answer
  <2>. QED BY <2>1, <2>2, <2>3, <2>4, <2>5, <2>6, OneWorker DEF TypeOK
<1>7. CASE Acquire(w)
  <2> USE <1>7 DEF Acquire
  <2>1. DatabaseType'
    BY <1>a DEF TypeOK, DatabaseType, database
  <2>6. RedisType'
    BY <1>a, LockType DEF TypeOK, RedisType, redis
  <2>2. CallType'
    BY PolicyAssumption DEF TypeOK, CallType, PcStates, Goto, Mark, own, answer
  <2>3. CountType'
    BY <1>a, PolicyAssumption DEF TypeOK, CountType, clock, flight, rate
  <2>4. Fits(w)'
    BY <1>0, PolicyAssumption
       DEF TypeOK, CallType, Fits, InPolicy, At, Goto, Mark, own, answer
  <2>5. Elsewhere(w)
    BY DEF Elsewhere, TypeOK, CallType, Goto, Mark, own, answer
  <2>. QED BY <2>1, <2>2, <2>3, <2>4, <2>5, <2>6, OneWorker DEF TypeOK
<1>8. CASE DoubleCheck(w)
  <2> USE <1>8 DEF DoubleCheck
  <2>1. DatabaseType'
    BY <1>a DEF TypeOK, DatabaseType, database
  <2>6. RedisType'
    BY <1>a DEF TypeOK, RedisType, redis
  <2>2. CallType'
    BY PolicyAssumption
       DEF TakeHit, AskModel, TypeOK, CallType, PcStates, Goto, Mark, own, answer
  <2>3. CountType'
    BY <1>a, DisturbType, PolicyAssumption DEF TypeOK, CountType, clock, flight, rate
  <2>4. Fits(w)'
    BY <1>0, PolicyAssumption
       DEF TakeHit, AskModel, TypeOK, CallType, Fits, InPolicy, At, Goto, Mark, own,
           answer
  <2>5. Elsewhere(w)
    BY DEF Elsewhere, TakeHit, AskModel, TypeOK, CallType, Goto, Mark, own, answer
  <2>. QED BY <2>1, <2>2, <2>3, <2>4, <2>5, <2>6, OneWorker DEF TypeOK
<1>9. CASE WaitGivesUp(w)
  <2> USE <1>9 DEF WaitGivesUp
  <2>1. DatabaseType'
    BY <1>a DEF TypeOK, DatabaseType, database
  <2>6. RedisType'
    BY <1>a DEF TypeOK, RedisType, redis
  <2>2. CallType'
    BY PolicyAssumption
       DEF AskModel, TypeOK, CallType, PcStates, Goto, Mark, own, answer
  <2>3. CountType'
    BY <1>a, DisturbType, PolicyAssumption DEF TypeOK, CountType, clock, flight, rate
  <2>4. Fits(w)'
    BY <1>0, PolicyAssumption
       DEF AskModel, TypeOK, CallType, Fits, InPolicy, At, Goto, Mark, own, answer
  <2>5. Elsewhere(w)
    BY DEF Elsewhere, AskModel, TypeOK, CallType, Goto, Mark, own, answer
  <2>. QED BY <2>1, <2>2, <2>3, <2>4, <2>5, <2>6, OneWorker DEF TypeOK
<1>10. CASE Count(w)
  <2> USE <1>10 DEF Count
  <2>1. DatabaseType'
    BY <1>a DEF TypeOK, DatabaseType, database
  <2>6. RedisType'
    BY <1>a, RpmType DEF TypeOK, RedisType, redis
  <2>2. CallType'
    BY PolicyAssumption
       DEF Refuse, StartHandler, TypeOK, CallType, PcStates, Goto, Mark, own, answer
  <2>3. CountType'
    BY <1>a, AbandonType, StartType, PolicyAssumption
       DEF Refuse, TypeOK, CountType, clock, flight, rate
  <2>4. Fits(w)'
    BY <1>0, PolicyAssumption
       DEF Refuse, StartHandler, TypeOK, CallType, Fits, InPolicy, At, Goto, Mark, own,
           answer
  <2>5. Elsewhere(w)
    BY DEF Elsewhere, Refuse, StartHandler, TypeOK, CallType, Goto, Mark, own, answer
  <2>. QED BY <2>1, <2>2, <2>3, <2>4, <2>5, <2>6, OneWorker DEF TypeOK
<1>11. CASE CountFails(w)
  <2> USE <1>11 DEF CountFails
  <2>1. DatabaseType'
    BY <1>a DEF TypeOK, DatabaseType, database
  <2>6. RedisType'
    BY <1>a, RpmType DEF TypeOK, RedisType, redis
  <2>2. CallType'
    BY PolicyAssumption
       DEF StartHandler, TypeOK, CallType, PcStates, Goto, Mark, own, answer
  <2>7. uncounted \in [1..MaxMinute -> Nat] /\ minute \in 1..MaxMinute
    BY DEF TypeOK, CountType
  <2>8. uncounted' \in [1..MaxMinute -> Nat]
    BY <2>7, BumpType
  <2>9. minute' = minute /\ events' \in 0..MaxEvents
    BY PolicyAssumption DEF Fault, Happens, TypeOK, CountType, clock
  <2>3. CountType'
    BY <1>a, StartType, <2>8, <2>9, PolicyAssumption
       DEF TypeOK, CountType, clock, flight, rate
  <2>4. Fits(w)'
    BY <1>0, PolicyAssumption
       DEF StartHandler, TypeOK, CallType, Fits, InPolicy, At, Goto, Mark, own, answer
  <2>5. Elsewhere(w)
    BY DEF Elsewhere, StartHandler, TypeOK, CallType, Goto, Mark, own, answer
  <2>. QED BY <2>1, <2>2, <2>3, <2>4, <2>5, <2>6, OneWorker DEF TypeOK
<1>12. CASE HandlerFails(w)
  <2> USE <1>12 DEF HandlerFails
  <2>1. DatabaseType'
    BY <1>a DEF TypeOK, DatabaseType, database
  <2>6. RedisType'
    BY <1>a DEF TypeOK, RedisType, redis
  <2>2. CallType'
    BY PolicyAssumption DEF TypeOK, CallType, PcStates, Goto, Mark, own, answer
  <2>3. CountType'
    BY <1>a, AbandonType, PolicyAssumption DEF TypeOK, CountType, clock, flight, rate
  <2>4. Fits(w)'
    BY <1>0, PolicyAssumption
       DEF TypeOK, CallType, Fits, InPolicy, At, Goto, Mark, own, answer
  <2>5. Elsewhere(w)
    BY DEF Elsewhere, TypeOK, CallType, Goto, Mark, own, answer
  <2>. QED BY <2>1, <2>2, <2>3, <2>4, <2>5, <2>6, OneWorker DEF TypeOK
<1>13. CASE Charge(w)
  <2> USE <1>13 DEF Charge
  <2>1. DatabaseType'
    BY <1>a DEF TypeOK, DatabaseType, database
  <2>6. RedisType'
    BY <1>a DEF TypeOK, RedisType, redis
  <2>2. CallType'
    BY PolicyAssumption DEF TypeOK, CallType, PcStates, Goto, Mark, own, answer
  <2>3. CountType'
    BY <1>a, PolicyAssumption DEF TypeOK, CountType, clock, flight, rate
  <2>4. Fits(w)'
    BY <1>0, PolicyAssumption
       DEF TypeOK, CallType, Fits, InPolicy, At, Goto, Mark, own, answer
  <2>5. Elsewhere(w)
    BY DEF Elsewhere, TypeOK, CallType, Goto, Mark, own, answer
  <2>. QED BY <2>1, <2>2, <2>3, <2>4, <2>5, <2>6, OneWorker DEF TypeOK
<1>14. CASE FinishTrace(w)
  <2> USE <1>14 DEF FinishTrace
  <2>1. DatabaseType'
    BY <1>a DEF TypeOK, DatabaseType, database
  <2>6. RedisType'
    BY <1>a DEF TypeOK, RedisType, redis
  <2>2. CallType'
    BY PolicyAssumption DEF TypeOK, CallType, PcStates, Goto, Mark, own, answer
  <2>3. CountType'
    BY <1>a, PolicyAssumption DEF TypeOK, CountType, clock, flight, rate
  <2>4. Fits(w)'
    BY <1>0, PolicyAssumption
       DEF TypeOK, CallType, Fits, InPolicy, At, Goto, Mark, own, answer
  <2>5. Elsewhere(w)
    BY DEF Elsewhere, TypeOK, CallType, Goto, Mark, own, answer
  <2>. QED BY <2>1, <2>2, <2>3, <2>4, <2>5, <2>6, OneWorker DEF TypeOK
<1>15. CASE Store(w)
  <2> USE <1>15 DEF Store
  <2>1. DatabaseType'
    BY <1>a DEF TypeOK, DatabaseType, database
  <2>6. RedisType'
    BY <1>a DEF TypeOK, RedisType, redis
  <2>2. CallType'
    BY PolicyAssumption DEF TypeOK, CallType, PcStates, Goto, Mark, own, answer
  <2>3. CountType'
    BY <1>a, DisturbType, PolicyAssumption DEF TypeOK, CountType, clock, flight, rate
  <2>4. Fits(w)'
    BY <1>0, PolicyAssumption
       DEF TypeOK, CallType, Fits, InPolicy, At, Goto, Mark, own, answer
  <2>5. Elsewhere(w)
    BY DEF Elsewhere, TypeOK, CallType, Goto, Mark, own, answer
  <2>. QED BY <2>1, <2>2, <2>3, <2>4, <2>5, <2>6, OneWorker DEF TypeOK
<1>16. CASE Release(w)
  <2> USE <1>16 DEF Release
  <2>1. DatabaseType'
    BY <1>a DEF TypeOK, DatabaseType, database
  <2>6. RedisType'
    BY <1>a, LockType DEF TypeOK, RedisType, redis
  <2>2. CallType'
    BY PolicyAssumption DEF TypeOK, CallType, PcStates, Goto, Mark, own, answer
  <2>3. CountType'
    BY <1>a, PolicyAssumption DEF TypeOK, CountType, clock, flight, rate
  <2>4. Fits(w)'
    BY <1>0, PolicyAssumption
       DEF TypeOK, CallType, Fits, InPolicy, At, Goto, Mark, own, answer
  <2>5. Elsewhere(w)
    BY DEF Elsewhere, TypeOK, CallType, Goto, Mark, own, answer
  <2>. QED BY <2>1, <2>2, <2>3, <2>4, <2>5, <2>6, OneWorker DEF TypeOK
<1>17. CASE \E n \in 0..MaxCost, plain \in BOOLEAN : HandlerReturns(w, n, plain)
  <2> PICK n \in 0..MaxCost, plain \in BOOLEAN : HandlerReturns(w, n, plain)
    BY <1>17
  <2> USE DEF HandlerReturns
  <2>1. DatabaseType' /\ RedisType'
    BY DEF TypeOK, DatabaseType, RedisType, database, redis
  <2>2. CallType'
    BY PolicyAssumption DEF TypeOK, CallType, PcStates, Goto, own, answer
  <2>3. CountType'
    BY DEF TypeOK, CountType, clock, flight, rate
  <2>4. Fits(w)'
    BY <1>0, PolicyAssumption
       DEF TypeOK, CallType, Fits, InPolicy, At, Goto, Mark, own, answer
  <2>5. Elsewhere(w)
    BY DEF Elsewhere, TypeOK, CallType, Goto, Mark, own, answer
  <2>. QED BY <2>1, <2>2, <2>3, <2>4, <2>5, OneWorker DEF TypeOK
<1>. QED BY <1>1, <1>2, <1>3, <1>4, <1>5, <1>6, <1>7, <1>8, <1>9,
          <1>10, <1>11, <1>12, <1>13, <1>14, <1>15, <1>16, <1>17
   DEF Step

(* The budget of events is kept.                                           *)
LEMMA FaultType ==
  ASSUME TypeOK, Happens
  PROVE  events' \in 0..MaxEvents
BY PolicyAssumption DEF TypeOK, CountType, Happens

(* The same for what may happen to a call.                                 *)
LEMMA WorkerEventType ==
  ASSUME TypeOK, Progress, NEW w \in Workers,
         Step(w) \/ AcquireUnanswered(w) \/ WaitHit(w)
           \/ DatabaseFails(w) \/ Cancel(w) \/ Crash(w)
  PROVE  TypeOK' /\ Progress'
<1>0. Fits(w)
  BY DEF Progress
<1>a. key[w] \in Keys
  BY DEF TypeOK, CallType
<1>1. CASE AcquireUnanswered(w)
  <2> USE <1>1 DEF AcquireUnanswered
  <2>1. DatabaseType'
    BY DEF TypeOK, DatabaseType, database
  <2>2. RedisType'
    BY <1>a, LockType DEF TypeOK, RedisType, redis
  <2>3. CallType'
    BY DEF TypeOK, CallType, PcStates, Goto, Mark, own, answer
  <2>4. CountType'
    BY FaultType DEF Fault, TypeOK, CountType, clock, flight, rate
  <2>5. Fits(w)'
    BY <1>0 DEF TypeOK, CallType, Fits, InPolicy, At, Goto, Mark, own, answer
  <2>6. Elsewhere(w)
    BY DEF Elsewhere, TypeOK, CallType, Goto, Mark, own, answer
  <2>. QED BY <2>1, <2>2, <2>3, <2>4, <2>5, <2>6, OneWorker DEF TypeOK
<1>2. CASE WaitHit(w)
  <2> USE <1>2 DEF WaitHit
  <2>1. DatabaseType'
    BY DEF TypeOK, DatabaseType, database
  <2>2. RedisType'
    BY <1>a DEF TypeOK, RedisType, redis
  <2>3. CallType'
    BY DEF TakeHit, TypeOK, CallType, PcStates, Goto, Mark, own, answer
  <2>4. CountType'
    BY FaultType DEF TypeOK, CountType, clock, flight, rate
  <2>5. Fits(w)'
    BY <1>0 DEF TakeHit, TypeOK, CallType, Fits, InPolicy, At, Goto, Mark, own, answer
  <2>6. Elsewhere(w)
    BY DEF Elsewhere, TakeHit, TypeOK, CallType, Goto, Mark, own, answer
  <2>. QED BY <2>1, <2>2, <2>3, <2>4, <2>5, <2>6, OneWorker DEF TypeOK
<1>3. CASE DatabaseFails(w)
  <2> USE <1>3 DEF DatabaseFails
  <2>1. DatabaseType'
    BY DEF TypeOK, DatabaseType, database
  <2>2. RedisType'
    BY <1>a DEF TypeOK, RedisType, redis
  <2>3. CallType'
    BY DEF TypeOK, CallType, PcStates, Goto, Mark, own, answer
  <2>4. CountType'
    BY AbandonType, FaultType DEF Fault, TypeOK, CountType, clock, flight, rate
  <2>5. Fits(w)'
    BY <1>0 DEF TypeOK, CallType, Fits, InPolicy, At, Goto, Mark, own, answer
  <2>6. Elsewhere(w)
    BY DEF Elsewhere, TypeOK, CallType, Goto, Mark, own, answer
  <2>. QED BY <2>1, <2>2, <2>3, <2>4, <2>5, <2>6, OneWorker DEF TypeOK
<1>4. CASE Cancel(w)
  <2> USE <1>4 DEF Cancel
  <2>1. DatabaseType'
    BY DEF TypeOK, DatabaseType, database
  <2>2. RedisType'
    BY <1>a DEF TypeOK, RedisType, redis
  <2>3. CallType'
    BY DEF TypeOK, CallType, PcStates, Goto, Mark, own, answer
  <2>4. CountType'
    BY AbandonType, FaultType DEF Fault, TypeOK, CountType, clock, flight, rate
  <2>5. Fits(w)'
    BY <1>0 DEF TypeOK, CallType, Fits, InPolicy, At, Goto, Mark, own, answer
  <2>6. Elsewhere(w)
    BY DEF Elsewhere, TypeOK, CallType, Goto, Mark, own, answer
  <2>. QED BY <2>1, <2>2, <2>3, <2>4, <2>5, <2>6, OneWorker DEF TypeOK
<1>5. CASE Crash(w)
  <2> USE <1>5 DEF Crash
  <2>1. DatabaseType'
    BY DEF TypeOK, DatabaseType, database
  <2>2. RedisType'
    BY <1>a DEF TypeOK, RedisType, redis
  <2>3. CallType'
    BY DEF TypeOK, CallType, PcStates, Goto, Mark, own, answer
  <2>4. CountType'
    BY AbandonType, FaultType DEF Fault, TypeOK, CountType, clock, flight, rate
  <2>5. Fits(w)'
    BY <1>0 DEF TypeOK, CallType, Fits, InPolicy, At, Goto, Mark, own, answer
  <2>6. Elsewhere(w)
    BY DEF Elsewhere, TypeOK, CallType, Goto, Mark, own, answer
  <2>. QED BY <2>1, <2>2, <2>3, <2>4, <2>5, <2>6, OneWorker DEF TypeOK
<1>. QED BY <1>1, <1>2, <1>3, <1>4, <1>5, StepType

(* Nothing about a call changes.                                           *)
LEMMA SameCalls ==
  ASSUME TypeOK, Progress,
         UNCHANGED <<pc, stage, up, calls, key, mine, hadUsage, cost, hit, keeps, trace>>
  PROVE  CallType' /\ Progress'
BY DEF TypeOK, CallType, Progress, Fits, InPolicy

(* A new call.                                                             *)
LEMMA BeginType ==
  ASSUME TypeOK, Progress, NEW w \in Workers, NEW k \in Keys, Begin(w, k)
  PROVE  TypeOK' /\ Progress'
<1> USE DEF Begin
<1>1. DatabaseType' /\ RedisType'
  BY DEF TypeOK, DatabaseType, RedisType, database, redis
<1>2. CountType'
  BY DEF TypeOK, CountType, clock, flight, rate
<1>3. calls' \in [Workers -> Nat]
  BY BumpType DEF TypeOK, CallType
<1>4. CallType'
  BY <1>3, PolicyAssumption DEF TypeOK, CallType, PcStates, Goto, Mark
<1>5. Fits(w)'
  <2>1. Fits(w)
    BY DEF Progress
  <2>. QED BY <2>1, PolicyAssumption
     DEF TypeOK, CallType, Fits, InPolicy, At, Goto, Mark
<1>6. Elsewhere(w)
  BY DEF Elsewhere, TypeOK, CallType, Goto, Mark
<1>. QED BY <1>1, <1>2, <1>4, <1>5, <1>6, OneWorker DEF TypeOK

(* Types and Progress are inductive.                                       *)
LEMMA NextType == TypeOK /\ Progress /\ [Next]_vars => TypeOK' /\ Progress'
<1> SUFFICES ASSUME TypeOK, Progress, [Next]_vars PROVE TypeOK' /\ Progress'
  OBVIOUS
<1>1. CASE \E w \in Workers, k \in Keys : Begin(w, k)
  BY <1>1, BeginType
<1>2. CASE \E w \in Workers : Step(w) \/ AcquireUnanswered(w) \/ WaitHit(w)
                \/ DatabaseFails(w) \/ Cancel(w) \/ Crash(w)
  BY <1>2, WorkerEventType
<1>3. CASE \E k \in Keys : LockExpires(k) \/ ResponseExpires(k)
  <2> PICK k \in Keys : LockExpires(k) \/ ResponseExpires(k)
    BY <1>3
  <2> USE DEF LockExpires, ResponseExpires
  <2>1. CallType' /\ Progress'
    BY SameCalls DEF own, answer
  <2>2. DatabaseType'
    BY DEF TypeOK, DatabaseType, database
  <2>3. RedisType'
    BY DEF TypeOK, RedisType, redis
  <2>4. CountType'
    BY DisturbType, FaultType DEF TypeOK, CountType, clock, rate, Fault
  <2>. QED BY <2>1, <2>2, <2>3, <2>4 DEF TypeOK
<1>4. CASE RedisDown \/ RedisBack \/ NextMinute \/ MonthEnds \/ Deactivate \/ UNCHANGED vars
  <2> USE <1>4 DEF RedisDown, RedisBack, NextMinute, MonthEnds, Deactivate, vars
  <2>1. CallType' /\ Progress'
    BY SameCalls DEF own, answer
  <2>2. DatabaseType'
    BY DEF TypeOK, DatabaseType, database
  <2>3. RedisType'
    BY DEF TypeOK, RedisType, redis
  <2>4. CountType'
    <3>1. minute' \in 1..MaxMinute
      BY PolicyAssumption DEF TypeOK, CountType, clock, Fault
    <3>. QED BY <3>1, FaultType DEF TypeOK, CountType, clock, flight, rate, Fault
  <2>. QED BY <2>1, <2>2, <2>3, <2>4 DEF TypeOK
<1>. QED BY <1>1, <1>2, <1>3, <1>4 DEF Next, Event, Quiescent

-----------------------------------------------------------------------------
(* The request rate.                                                       *)

(* A step that neither counts nor admits a request.                        *)
LEMMA RateSame ==
  ASSUME Rate, UNCHANGED <<admitted, uncounted, rpm>>
  PROVE  Rate'
BY DEF Rate

(* Counting and admitting keep each other company.                         *)
LEMMA RateStep == TypeOK /\ Rate /\ [Next]_vars => Rate'
<1> SUFFICES ASSUME TypeOK, Rate, [Next]_vars PROVE Rate'
  OBVIOUS
<1>0. /\ minute \in 1..MaxMinute /\ RpmLimit \in Nat
      /\ admitted \in [1..MaxMinute -> Nat] /\ uncounted \in [1..MaxMinute -> Nat]
      /\ rpm \in [1..MaxMinute -> Nat]
  BY PolicyAssumption DEF TypeOK, CountType, RedisType
<1>1. ASSUME NEW w \in Workers, Count(w) PROVE Rate'
  <2>1. uncounted' = uncounted /\ rpm' = [rpm EXCEPT ![minute] = @ + 1]
    BY <1>1 DEF Count
  <2>2. CASE OverLimit
    BY <1>0, <1>1, <2>1, <2>2 DEF Count, Rate
  <2>3. CASE ~OverLimit
    <3>1. admitted' = [admitted EXCEPT ![minute] = @ + 1]
      BY <1>1, <2>3 DEF Count, StartHandler
    <3>2. rpm[minute] + 1 <= RpmLimit
      BY <1>0, <2>3 DEF OverLimit
    <3>. QED BY <1>0, <2>1, <3>1, <3>2 DEF Rate
  <2>. QED BY <2>2, <2>3
<1>2. ASSUME NEW w \in Workers, CountFails(w) PROVE Rate'
  <2>1. /\ uncounted' = [uncounted EXCEPT ![minute] = @ + 1]
        /\ admitted' = [admitted EXCEPT ![minute] = @ + 1]
        /\ rpm' = rpm \/ rpm' = [rpm EXCEPT ![minute] = @ + 1]
    BY <1>2 DEF CountFails, StartHandler
  <2> SUFFICES ASSUME NEW m \in 1..MaxMinute
               PROVE  /\ admitted'[m] <= uncounted'[m] + rpm'[m]
                      /\ admitted'[m] <= uncounted'[m] + RpmLimit
    BY DEF Rate
  <2>2. admitted'[m] = IF m = minute THEN admitted[m] + 1 ELSE admitted[m]
    BY <1>0, <2>1
  <2>3. uncounted'[m] = IF m = minute THEN uncounted[m] + 1 ELSE uncounted[m]
    BY <1>0, <2>1
  <2>4. rpm'[m] = rpm[m] \/ rpm'[m] = rpm[m] + 1
    BY <1>0, <2>1
  <2>5. /\ admitted[m] \in Nat /\ uncounted[m] \in Nat /\ rpm[m] \in Nat
        /\ admitted[m] <= uncounted[m] + rpm[m]
        /\ admitted[m] <= uncounted[m] + RpmLimit
    BY <1>0 DEF Rate
  <2>. QED BY <1>0, <2>2, <2>3, <2>4, <2>5
<1>3. ASSUME NEW w \in Workers, Step(w), ~Count(w), ~CountFails(w)
      PROVE  UNCHANGED <<admitted, uncounted, rpm>>
  BY <1>3 DEF Step, PolicyIsDue, ResetQuota, PolicyDenies, PolicyAllows, OpenTrace,
       Lookup, Acquire, DoubleCheck, WaitGivesUp, HandlerReturns, HandlerFails,
       Charge, FinishTrace, Store, Release, redis, rate
<1>4. ASSUME Event \/ UNCHANGED vars \/ \E w \in Workers, k \in Keys : Begin(w, k)
      PROVE  UNCHANGED <<admitted, uncounted, rpm>>
  BY <1>4 DEF Event, AcquireUnanswered, WaitHit, DatabaseFails, Cancel, Crash,
       LockExpires, ResponseExpires, RedisDown, RedisBack, NextMinute, MonthEnds,
       Deactivate, Begin, redis, rate, vars
<1>. QED BY <1>1, <1>2, <1>3, <1>4, RateSame DEF Next, Quiescent

(* Requests that Redis has counted keep to the limit in every minute, for  *)
(* any number of workers and whatever fails.                               *)
THEOREM RateIsKept == Spec => []RpmHolds
<1>1. Init => TypeOK /\ Progress /\ Rate
  BY InitType, PolicyAssumption DEF Init, Rate
<1>2. (TypeOK /\ Progress /\ Rate) /\ [Next]_vars => (TypeOK /\ Progress /\ Rate)'
  BY NextType, RateStep
<1>3. TypeOK /\ Rate => RpmHolds
  BY PolicyAssumption DEF TypeOK, CountType, Rate, RpmHolds
<1>. QED BY <1>1, <1>2, <1>3, PTL DEF Spec

-----------------------------------------------------------------------------
(* The quota.                                                              *)

(* A product with a positive difference is not negative, and grows by one  *)
(* factor when the difference grows by one.                                *)
LEMMA Shares ==
  ASSUME NEW a \in Nat, NEW n \in Nat, NEW c \in 0..n
  PROVE  /\ a * (n - c) \in Nat
         /\ c > 0 => a * (n - (c - 1)) = a * (n - c) + a
<1>1. n - c \in Nat
  OBVIOUS
<1>2. \A d \in Nat : a * d \in Nat /\ a * (d + 1) = a * d + a
  OBVIOUS
<1>3. n - (c - 1) = (n - c) + 1
  OBVIOUS
<1>. QED BY <1>1, <1>2, <1>3

(* There are at most as many checked calls as workers.                     *)
LEMMA CheckedSize ==
  /\ IsFiniteSet(Workers) /\ Cardinality(Workers) \in Nat
  /\ IsFiniteSet(Checked) /\ Cardinality(Checked) \in 0..Cardinality(Workers)
<1>1. Checked \subseteq Workers
  BY DEF Checked
<1>. QED BY <1>1, PolicyAssumption, FS_Subset, FS_CardinalityType

(* No further call passes the check, and nothing is charged.               *)
LEMMA ChargesKept ==
  ASSUME TypeOK, Charges, Checked' \subseteq Checked, used' \in {used, 0}
  PROVE  Charges'
<1>1. /\ IsFiniteSet(Checked') /\ Cardinality(Checked') \in Nat
      /\ Cardinality(Checked') <= Cardinality(Checked)
  BY CheckedSize, FS_Subset, FS_CardinalityType
<1> DEFINE left == Cardinality(Workers) - Cardinality(Checked)
           left2 == Cardinality(Workers) - Cardinality(Checked')
<1>2. left \in Nat /\ left2 \in Nat /\ left <= left2
  BY <1>1, CheckedSize
<1>3. MaxCost * left <= MaxCost * left2 /\ MaxCost * left \in Nat /\ MaxCost * left2 \in Nat
  <2>1. \A a, b, c \in Nat : b <= c => a * b <= a * c /\ a * b \in Nat /\ a * c \in Nat
    OBVIOUS
  <2>. QED BY <1>2, <2>1, PolicyAssumption
<1>4. used \in Nat /\ Quota \in Nat
  BY PolicyAssumption DEF TypeOK, DatabaseType
<1> HIDE DEF left, left2
<1>5. used' = 0 \/ used' < Quota + MaxCost * left2
  <2>1. used = 0 \/ used < Quota + MaxCost * left
    BY DEF Charges, left
  <2>. QED BY <1>2, <1>3, <1>4, <2>1
<1>. QED BY <1>5 DEF Charges, left2

(* A call passes the check while tokens are left.                          *)
LEMMA ChargesChecked ==
  ASSUME TypeOK', used' < Quota
  PROVE  Charges'
<1>1. Checked' \subseteq Workers
  BY DEF Checked
<1>2. IsFiniteSet(Workers) /\ Cardinality(Workers) \in Nat
  BY CheckedSize
<1>3. Cardinality(Checked') \in 0..Cardinality(Workers)
  BY <1>1, <1>2, FS_Subset, FS_CardinalityType
<1>4. MaxCost * (Cardinality(Workers) - Cardinality(Checked')) \in Nat
  BY <1>2, <1>3, Shares, PolicyAssumption
<1>5. used' \in Nat /\ Quota \in Nat
  BY PolicyAssumption DEF TypeOK, DatabaseType
<1>. QED BY <1>4, <1>5 DEF Charges

(* A call that has passed charges its tokens.                              *)
LEMMA ChargesSpent ==
  ASSUME TypeOK, Charges, NEW w \in Checked, Checked' = Checked \ {w},
         NEW c \in 0..MaxCost, used' = used + c
  PROVE  Charges'
<1>1. Cardinality(Checked') = Cardinality(Checked) - 1
  BY CheckedSize, FS_RemoveElement
<1>2. Cardinality(Checked) > 0
  BY CheckedSize, FS_EmptySet
<1> DEFINE left == Cardinality(Workers) - Cardinality(Checked)
<1>3. /\ MaxCost * left \in Nat
      /\ MaxCost * (Cardinality(Workers) - Cardinality(Checked')) = MaxCost * left + MaxCost
  BY <1>1, <1>2, CheckedSize, Shares, PolicyAssumption
<1>4. used \in Nat /\ Quota \in Nat /\ Quota > 0 /\ MaxCost \in Nat
  BY PolicyAssumption DEF TypeOK, DatabaseType, Charges
<1>5. used = 0 \/ used < Quota + MaxCost * left
  BY DEF Charges
<1>6. used' < Quota + (MaxCost * left + MaxCost)
  <2> HIDE DEF left
  <2>. QED BY <1>3, <1>4, <1>5
<1>. QED BY <1>3, <1>4, <1>6 DEF Charges

(* The quota part of the invariant is kept.                                *)
LEMMA ChargesStep == TypeOK /\ Progress /\ Charges /\ [Next]_vars => Charges'
<1> SUFFICES ASSUME TypeOK, Progress, Charges, [Next]_vars PROVE Charges'
  OBVIOUS
<1>0. TypeOK'
  BY NextType
<1>1. ASSUME NEW w \in Workers, Charge(w) PROVE Charges'
  <2>1. w \in Checked /\ Checked' = Checked \ {w}
    BY <1>1 DEF Charge, Checked, InPolicy, At, Goto, TypeOK, CallType
  <2>2. cost[w] \in 0..MaxCost /\ used' = used + cost[w]
    BY <1>1, PolicyAssumption DEF Charge, Progress, Fits, TypeOK, CallType
  <2>. QED BY <2>1, <2>2, ChargesSpent
<1>2. ASSUME NEW w \in Workers, PolicyAllows(w) PROVE Charges'
  <2>1. CASE stage[w] = "record"
    <3>1. Checked' \subseteq Checked /\ used' = used
      BY <1>2, <2>1 DEF PolicyAllows, PolicyRead, Checked, InPolicy, At, Goto,
           database, TypeOK, CallType
    <3>. QED BY <3>1, ChargesKept
  <2>2. CASE stage[w] # "record"
    <3>1. used' < Quota
      BY <1>2, <2>2, PolicyAssumption
         DEF PolicyAllows, Exhausted, database, TypeOK, DatabaseType
    <3>. QED BY <1>0, <3>1, ChargesChecked
  <2>. QED BY <2>1, <2>2
<1>3. ASSUME NEW w \in Workers, Step(w), ~Charge(w), ~PolicyAllows(w)
      PROVE  Charges'
  <2>1. CASE PolicyDenies(w) \/ Count(w)
    <3>1. Checked' \subseteq Checked /\ used' = used
      BY <2>1 DEF PolicyDenies, Count, Refuse, StartHandler, Checked, InPolicy, At,
           Goto, database, TypeOK, CallType
    <3>. QED BY <3>1, ChargesKept
  <2>2. CASE PolicyIsDue(w) \/ ResetQuota(w)
    <3>1. Checked' \subseteq Checked /\ used' \in {used, 0}
      BY <2>2 DEF PolicyIsDue, ResetQuota, Checked, InPolicy, At, Goto, database,
           TypeOK, CallType
    <3>. QED BY <3>1, ChargesKept
  <2>3. CASE OpenTrace(w) \/ Lookup(w) \/ Acquire(w) \/ DoubleCheck(w) \/ WaitGivesUp(w)
    <3>1. Checked' \subseteq Checked /\ used' = used
      BY <2>3 DEF OpenTrace, Lookup, Acquire, DoubleCheck, WaitGivesUp, TakeHit,
           AskModel, Checked, InPolicy, At, Goto, database, TypeOK, CallType
    <3>. QED BY <3>1, ChargesKept
  <2>4. CASE CountFails(w) \/ HandlerFails(w) \/ FinishTrace(w) \/ Store(w) \/ Release(w)
    <3>1. Checked' \subseteq Checked /\ used' = used
      BY <2>4 DEF CountFails, HandlerFails, FinishTrace, Store, Release, StartHandler,
           Checked, InPolicy, At, Goto, database, TypeOK, CallType
    <3>. QED BY <3>1, ChargesKept
  <2>5. CASE \E n \in 0..MaxCost, plain \in BOOLEAN : HandlerReturns(w, n, plain)
    <3>1. Checked' \subseteq Checked /\ used' = used
      BY <2>5
         DEF HandlerReturns, Checked, InPolicy, At, Goto, database, TypeOK, CallType
    <3>. QED BY <3>1, ChargesKept
  <2>. QED BY <1>3, <2>1, <2>2, <2>3, <2>4, <2>5 DEF Step
<1>4. ASSUME NEW w \in Workers,
             \/ AcquireUnanswered(w) \/ WaitHit(w) \/ DatabaseFails(w)
             \/ Cancel(w) \/ Crash(w) \/ \E k \in Keys : Begin(w, k)
      PROVE  Charges'
  <2>1. Checked' \subseteq Checked /\ used' = used
    BY <1>4 DEF AcquireUnanswered, WaitHit, DatabaseFails, Cancel, Crash, Begin,
         TakeHit, Checked, InPolicy, At, Goto, database, TypeOK, CallType
  <2>. QED BY <2>1, ChargesKept
<1>5. CASE \/ \E k \in Keys : LockExpires(k) \/ ResponseExpires(k)
           \/ RedisDown \/ RedisBack \/ NextMinute \/ MonthEnds \/ Deactivate
           \/ UNCHANGED vars
  <2>1. Checked' = Checked /\ used' = used
    BY <1>5 DEF LockExpires, ResponseExpires, RedisDown, RedisBack, NextMinute,
         MonthEnds, Deactivate, vars, Checked, InPolicy, database
  <2>. QED BY <2>1, ChargesKept
<1>. QED BY <1>1, <1>2, <1>3, <1>4, <1>5 DEF Next, Event, Quiescent

(* A quota that is used up at first is not exceeded yet.                   *)
LEMMA InitCharges == Init => Charges
<1> SUFFICES ASSUME Init PROVE Charges
  OBVIOUS
<1>1. Checked = {}
  BY DEF Init, Checked, InPolicy
<1>2. Cardinality(Checked) = 0
  BY <1>1, FS_EmptySet
<1>3. Cardinality(Workers) \in Nat \ {0}
  BY PolicyAssumption, FS_EmptySet, FS_CardinalityType
<1>4. used \in Nat /\ used <= Quota /\ Quota \in Nat
  BY PolicyAssumption DEF Init
<1>5. \A n \in Nat \ {0} : MaxCost * n \in Nat \ {0}
  BY PolicyAssumption
<1>6. MaxCost * (Cardinality(Workers) - Cardinality(Checked)) \in Nat \ {0}
  BY <1>2, <1>3, <1>5
<1>. QED BY <1>1, <1>4, <1>6 DEF Charges

(* Concurrent calls exceed the quota by at most one response each.         *)
THEOREM QuotaIsKept == Spec => []QuotaOvershoot
<1>1. Init => TypeOK /\ Progress /\ Charges
  <2>1. Init => Charges
    BY InitCharges
  <2>. QED BY <2>1, InitType
<1>2. (TypeOK /\ Progress /\ Charges) /\ [Next]_vars => (TypeOK /\ Progress /\ Charges)'
  BY NextType, ChargesStep
<1>3. TypeOK /\ Charges => QuotaOvershoot
  <2> SUFFICES ASSUME TypeOK, Charges, used # 0
               PROVE  used < Quota + MaxCost * Cardinality(Workers)
    BY DEF QuotaOvershoot
  <2> DEFINE n == Cardinality(Workers)
             c == Cardinality(Checked)
  <2>1. n \in Nat /\ c \in 0..n /\ MaxCost \in Nat /\ Quota \in Nat /\ used \in Nat
    BY CheckedSize, PolicyAssumption DEF TypeOK, DatabaseType
  <2>2. used < Quota + MaxCost * (n - c)
    BY DEF Charges
  <2> HIDE DEF n, c
  <2>3. MaxCost * (n - c) <= MaxCost * n /\ MaxCost * (n - c) \in Nat /\ MaxCost * n \in Nat
    <3>1. \A a, b, d \in Nat : b <= d => a * b <= a * d /\ a * b \in Nat /\ a * d \in Nat
      OBVIOUS
    <3>2. n - c \in Nat /\ n - c <= n
      BY <2>1
    <3>. QED BY <2>1, <3>1, <3>2
  <2>4. used < Quota + MaxCost * n
    BY <2>1, <2>2, <2>3
  <2>. QED BY <2>4 DEF n
<1>. QED BY <1>1, <1>2, <1>3, PTL DEF Spec

-----------------------------------------------------------------------------
(* Equal requests share a generation.                                      *)

(* Finite sets of calls; the excess is an integer.                         *)
LEMMA ExcessType ==
  ASSUME TypeOK, NEW k \in Keys
  PROVE  /\ IsFiniteSet(Unguarded(k)) /\ Cardinality(Unguarded(k)) \in Nat
         /\ generations[k] \in Nat /\ disturbed[k] \in Nat /\ Excess(k) \in Int
<1>1. Unguarded(k) \subseteq Workers
  BY DEF Unguarded
<1>2. IsFiniteSet(Unguarded(k)) /\ Cardinality(Unguarded(k)) \in Nat
  BY <1>1, PolicyAssumption, FS_Subset, FS_CardinalityType
<1>. QED BY <1>2 DEF Excess, TypeOK, CountType

(* The same in the next state.                                             *)
LEMMA ExcessTypeNext ==
  ASSUME TypeOK', NEW k \in Keys
  PROVE  /\ IsFiniteSet(Unguarded(k)') /\ Cardinality(Unguarded(k)') \in Nat
         /\ generations'[k] \in Nat /\ disturbed'[k] \in Nat /\ Excess(k)' \in Int
<1>1. Unguarded(k)' \subseteq Workers
  BY DEF Unguarded
<1>2. IsFiniteSet(Unguarded(k)') /\ Cardinality(Unguarded(k)') \in Nat
  BY <1>1, PolicyAssumption, FS_Subset, FS_CardinalityType
<1>. QED BY <1>2 DEF Excess, TypeOK, CountType

(* The excess does not grow, and shrinks when the response is lost.        *)
Steady(k) ==
    /\ Excess(k)' <= Excess(k)
    /\ Answered(k) => Answered(k)' \/ Excess(k)' < Excess(k)

(* The invariant is kept where the excess is steady, or where the response *)
(* of the one generation in excess is on its way.                          *)
LEMMA SteadyFlights ==
  ASSUME TypeOK, TypeOK', Flights,
         \A k \in Keys : Steady(k) \/ (Excess(k)' <= 1 /\ Answered(k)'),
         \A w \in Workers, k \in Keys : Asking(w)' /\ key'[w] = k =>
            (Asking(w) /\ key[w] = k /\ Steady(k)) \/ Excess(k)' <= 0
  PROVE  Flights'
<1>1. ASSUME NEW k \in Keys PROVE Excess(k)' <= IF Answered(k)' THEN 1 ELSE 0
  <2>1. Excess(k) \in Int /\ Excess(k)' \in Int
    BY ExcessType, ExcessTypeNext
  <2>2. Excess(k) <= IF Answered(k) THEN 1 ELSE 0
    BY DEF Flights
  <2>. QED BY <2>1, <2>2 DEF Steady
<1>2. ASSUME NEW w \in Workers, Asking(w)' PROVE Excess(key[w])' <= 0
  <2>1. key'[w] \in Keys
    BY DEF TypeOK, CallType
  <2>2. ASSUME NEW k \in Keys, key'[w] = k PROVE Excess(k)' <= 0
    <3>1. Excess(k) \in Int /\ Excess(k)' \in Int
      BY ExcessType, ExcessTypeNext
    <3>2. CASE Asking(w) /\ key[w] = k /\ Steady(k)
      BY <3>1, <3>2 DEF Flights, Steady
    <3>. QED BY <1>2, <2>2, <3>2
  <2>. QED BY <2>1, <2>2
<1>. QED BY <1>1, <1>2 DEF Flights

(* One key: fewer exposed calls, no further generation.                    *)
LEMMA CalmKey ==
  ASSUME TypeOK, TypeOK', NEW k \in Keys, generations'[k] = generations[k],
         Unguarded(k)' \subseteq Unguarded(k), disturbed'[k] >= disturbed[k],
         (Answered(k) => Answered(k)') \/ disturbed'[k] > disturbed[k]
  PROVE  Steady(k)
<1>1. Cardinality(Unguarded(k)') <= Cardinality(Unguarded(k))
  BY ExcessType, FS_Subset
<1>. QED BY <1>1, ExcessType, ExcessTypeNext DEF Steady, Excess

(* What a step of w leaves alone of the other calls.                       *)
Others(w) ==
    \A v \in Workers \ {w} :
        /\ UNCHANGED <<pc[v], stage[v], hit[v], key[v], mine[v]>>
        /\ Covered(v)' <=> Covered(v)

(* The flags of the other calls stay.                                      *)
LEMMA OthersKept ==
  ASSUME NEW w \in Workers, Others(w), NEW v \in Workers \ {w}
  PROVE  /\ key'[v] = key[v]
         /\ Asking(v)' <=> Asking(v)
         /\ Exposed(v)' <=> Exposed(v)
         /\ Producing(v)' <=> Producing(v)
BY DEF Others, Asking, Exposed, Producing, Cleared, Unstored, InPolicy

(* Most steps: the call gets no new right to ask, and its response is not  *)
(* lost unless an event is counted.                                        *)
LEMMA Calm ==
  ASSUME TypeOK, TypeOK', Flights, NEW w \in Workers, Others(w),
         generations' = generations,
         \A k \in Keys : disturbed'[k] >= disturbed[k],
         \A k \in Keys : cached[k] => cached'[k],
         Exposed(w)' => Exposed(w) /\ key'[w] = key[w],
         Asking(w)' => Asking(w) /\ key'[w] = key[w],
         Producing(w) => \/ Producing(w)' /\ key'[w] = key[w]
                         \/ cached'[key[w]]
                         \/ disturbed'[key[w]] > disturbed[key[w]]
  PROVE  Flights'
<1>1. ASSUME NEW k \in Keys PROVE Steady(k)
  <2>1. Unguarded(k)' \subseteq Unguarded(k)
    BY OthersKept DEF Unguarded
  <2>2. (Answered(k) => Answered(k)') \/ disturbed'[k] > disturbed[k]
    BY OthersKept DEF Answered
  <2>. QED BY <2>1, <2>2, CalmKey
<1>2. \A v \in Workers : Asking(v)' => Asking(v) /\ key'[v] = key[v]
  BY OthersKept
<1>. QED BY <1>1, <1>2, SteadyFlights

(* The lock of a call is not that of another one.                          *)
LEMMA Tokens ==
  ASSUME NEW w \in Workers
  PROVE  /\ Token(w) # Nobody
         /\ \A v \in Workers : v # w => Token(v) # Token(w)
BY PolicyAssumption DEF Token, Nobody

(* While no lock changes, the other calls keep theirs.                     *)
LEMMA OthersSame ==
  ASSUME NEW w \in Workers, lock' = lock,
         \A v \in Workers \ {w} :
            UNCHANGED <<pc[v], stage[v], hit[v], key[v], mine[v], calls[v]>>
  PROVE  Others(w)
BY DEF Others, Covered, Token

(* An event is counted for one key.                                        *)
LEMMA DisturbCounts ==
  ASSUME TypeOK, NEW j \in Keys, Disturb(j)
  PROVE  /\ \A k \in Keys : disturbed'[k] >= disturbed[k]
         /\ disturbed'[j] > disturbed[j]
BY DEF Disturb, TypeOK, CountType

(* A response that is lost is counted.                                     *)
LEMMA AbandonCounts ==
  ASSUME TypeOK, NEW w \in Workers, Abandon(w)
  PROVE  /\ generations' = generations
         /\ \A k \in Keys : disturbed'[k] >= disturbed[k]
         /\ Unstored(w) => disturbed'[key[w]] > disturbed[key[w]]
<1>1. key[w] \in Keys
  BY DEF TypeOK, CallType
<1>2. CASE Unstored(w)
  BY <1>1, <1>2, DisturbCounts DEF Abandon
<1>3. CASE ~Unstored(w)
  BY <1>3 DEF Abandon, TypeOK, CountType
<1>. QED BY <1>2, <1>3

(* The flags of a call depend on its place, its stage and its lock.        *)
LEMMA CalmSteps ==
  ASSUME TypeOK, TypeOK', Progress, Flights, NEW w \in Workers,
         \/ PolicyIsDue(w) \/ ResetQuota(w) \/ PolicyDenies(w) \/ PolicyAllows(w)
         \/ OpenTrace(w) \/ Lookup(w) \/ Acquire(w) \/ AcquireUnanswered(w) \/ WaitHit(w)
         \/ Count(w) /\ OverLimit
         \/ \E n \in 0..MaxCost, plain \in BOOLEAN : HandlerReturns(w, n, plain)
         \/ HandlerFails(w) \/ Charge(w) \/ FinishTrace(w) \/ Store(w) \/ Release(w)
         \/ DatabaseFails(w) \/ Cancel(w) \/ Crash(w)
         \/ \E k \in Keys : Begin(w, k)
  PROVE  Flights'
<1>0. Fits(w) /\ key[w] \in Keys
  BY DEF Progress, TypeOK, CallType
<1>c. /\ cached \in [Keys -> BOOLEAN] /\ lock \in [Keys -> (Workers \X Nat) \cup {Nobody}]
      /\ disturbed \in [Keys -> Nat]
  BY DEF TypeOK, RedisType, CountType
<1>1. CASE PolicyIsDue(w)
  <2>1. Others(w)
    BY <1>1, OthersSame
       DEF PolicyIsDue, own, answer, redis, flight, database, Goto, Mark, TypeOK,
           CallType
  <2>2. /\ generations' = generations /\ cached' = cached
        /\ \A k \in Keys : disturbed'[k] >= disturbed[k]
    BY <1>1, <1>c DEF PolicyIsDue, own, answer, redis, flight, database, Goto, Mark
  <2>3. /\ Exposed(w)' => Exposed(w) /\ key'[w] = key[w]
        /\ Asking(w)' => Asking(w) /\ key'[w] = key[w]
        /\ Producing(w) => Producing(w)' /\ key'[w] = key[w]
    BY <1>1, <1>0
       DEF PolicyIsDue, Fits, Exposed, Asking, Producing, Covered, Cleared, Unstored,
           InPolicy, Token, At, own, answer, redis, flight, database, Goto, Mark,
           TypeOK, CallType
  <2>. QED BY <1>c, <2>1, <2>2, <2>3, Calm
<1>2. CASE ResetQuota(w)
  <2>1. Others(w)
    BY <1>2, OthersSame
       DEF ResetQuota, own, answer, redis, flight, database, Goto, Mark, TypeOK,
           CallType
  <2>2. /\ generations' = generations /\ cached' = cached
        /\ \A k \in Keys : disturbed'[k] >= disturbed[k]
    BY <1>2, <1>c DEF ResetQuota, own, answer, redis, flight, database, Goto, Mark
  <2>3. /\ Exposed(w)' => Exposed(w) /\ key'[w] = key[w]
        /\ Asking(w)' => Asking(w) /\ key'[w] = key[w]
        /\ Producing(w) => Producing(w)' /\ key'[w] = key[w]
    BY <1>2, <1>0
       DEF ResetQuota, Fits, Exposed, Asking, Producing, Covered, Cleared, Unstored,
           InPolicy, Token, At, own, answer, redis, flight, database, Goto, Mark,
           TypeOK, CallType
  <2>. QED BY <1>c, <2>1, <2>2, <2>3, Calm
<1>3. CASE PolicyDenies(w)
  <2>1. Others(w)
    BY <1>3, OthersSame
       DEF PolicyDenies, Refuse, PolicyRead, own, answer, redis, flight, database,
           Goto, Mark, TypeOK, CallType
  <2>2. /\ generations' = generations /\ cached' = cached
        /\ \A k \in Keys : disturbed'[k] >= disturbed[k]
        /\ Producing(w) => disturbed'[key[w]] > disturbed[key[w]]
    BY <1>3, AbandonCounts
       DEF PolicyDenies, Refuse, PolicyRead, Producing, own, answer, redis, flight,
           database, Goto, Mark
  <2>3. /\ Exposed(w)' => Exposed(w) /\ key'[w] = key[w]
        /\ Asking(w)' => Asking(w) /\ key'[w] = key[w]
    BY <1>3, <1>0
       DEF PolicyDenies, Refuse, PolicyRead, Fits, Exposed, Asking, Producing, Covered,
           Cleared, Unstored, InPolicy, Token, At, own, answer, redis, flight,
           database, Goto, Mark, TypeOK, CallType
  <2>. QED BY <1>c, <2>1, <2>2, <2>3, Calm
<1>4. CASE PolicyAllows(w)
  <2>1. Others(w)
    BY <1>4, OthersSame
       DEF PolicyAllows, PolicyRead, own, answer, redis, flight, database, Goto, Mark,
           TypeOK, CallType
  <2>2. /\ generations' = generations /\ cached' = cached
        /\ \A k \in Keys : disturbed'[k] >= disturbed[k]
    BY <1>4, <1>c
       DEF PolicyAllows, PolicyRead, own, answer, redis, flight, database, Goto, Mark
  <2>3. /\ Exposed(w)' => Exposed(w) /\ key'[w] = key[w]
        /\ Asking(w)' => Asking(w) /\ key'[w] = key[w]
        /\ Producing(w) => Producing(w)' /\ key'[w] = key[w]
    BY <1>4, <1>0
       DEF PolicyAllows, PolicyRead, Fits, Exposed, Asking, Producing, Covered,
           Cleared, Unstored, InPolicy, Token, At, own, answer, redis, flight,
           database, Goto, Mark, TypeOK, CallType
  <2>. QED BY <1>c, <2>1, <2>2, <2>3, Calm
<1>5. CASE OpenTrace(w)
  <2>1. Others(w)
    BY <1>5, OthersSame
       DEF OpenTrace, own, answer, redis, flight, database, Goto, Mark, TypeOK, CallType
  <2>2. /\ generations' = generations /\ cached' = cached
        /\ \A k \in Keys : disturbed'[k] >= disturbed[k]
    BY <1>5, <1>c DEF OpenTrace, own, answer, redis, flight, database, Goto, Mark
  <2>3. /\ Exposed(w)' => Exposed(w) /\ key'[w] = key[w]
        /\ Asking(w)' => Asking(w) /\ key'[w] = key[w]
        /\ Producing(w) => Producing(w)' /\ key'[w] = key[w]
    BY <1>5, <1>0
       DEF OpenTrace, Fits, Exposed, Asking, Producing, Covered, Cleared, Unstored,
           InPolicy, Token, At, own, answer, redis, flight, database, Goto, Mark,
           TypeOK, CallType
  <2>. QED BY <1>c, <2>1, <2>2, <2>3, Calm
<1>6. CASE Lookup(w)
  <2>1. Others(w)
    BY <1>6, OthersSame
       DEF Lookup, TakeHit, own, answer, redis, flight, database, Goto, Mark, TypeOK,
           CallType
  <2>2. /\ generations' = generations /\ cached' = cached
        /\ \A k \in Keys : disturbed'[k] >= disturbed[k]
    BY <1>6, <1>c DEF Lookup, TakeHit, own, answer, redis, flight, database, Goto, Mark
  <2>3. /\ Exposed(w)' => Exposed(w) /\ key'[w] = key[w]
        /\ Asking(w)' => Asking(w) /\ key'[w] = key[w]
        /\ Producing(w) => Producing(w)' /\ key'[w] = key[w]
    BY <1>6, <1>0
       DEF Lookup, TakeHit, Fits, Exposed, Asking, Producing, Covered, Cleared,
           Unstored, InPolicy, Token, At, own, answer, redis, flight, database, Goto,
           Mark, TypeOK, CallType
  <2>. QED BY <1>c, <2>1, <2>2, <2>3, Calm
<1>7. CASE Acquire(w)
  <2>1. Others(w)
    <3> SUFFICES ASSUME NEW v \in Workers \ {w}
                 PROVE  /\ UNCHANGED <<pc[v], stage[v], hit[v], key[v], mine[v]>>
                        /\ Covered(v)' <=> Covered(v)
      BY DEF Others
    <3>1. UNCHANGED <<pc[v], stage[v], hit[v], key[v], mine[v], calls[v]>>
      BY <1>7 DEF Acquire, own, answer, Goto, TypeOK, CallType
    <3>2. key[v] \in Keys /\ Token(v) # Token(w) /\ Token(v) # Nobody
      BY Tokens DEF TypeOK, CallType
    <3>3. \/ lock' = lock
          \/ /\ lock[key[w]] = Nobody
             /\ lock' = [lock EXCEPT ![key[w]] = Token(w)]
      BY <1>7 DEF Acquire
    <3>4. lock'[key[v]] = Token(v) <=> lock[key[v]] = Token(v)
      BY <1>c, <3>2, <3>3
    <3>. QED BY <3>1, <3>4 DEF Covered, Token
  <2>2. /\ generations' = generations /\ cached' = cached
        /\ \A k \in Keys : disturbed'[k] >= disturbed[k]
    BY <1>7, <1>c DEF Acquire, own, answer, redis, flight, database, Goto, Mark
  <2>3. /\ Exposed(w)' => Exposed(w) /\ key'[w] = key[w]
        /\ Asking(w)' => Asking(w) /\ key'[w] = key[w]
        /\ Producing(w) => Producing(w)' /\ key'[w] = key[w]
    BY <1>7, <1>0, <1>c
       DEF Acquire, Fits, Exposed, Asking, Producing, Covered, Cleared, Unstored,
           InPolicy, Token, At, own, answer, redis, flight, database, Goto, Mark,
           TypeOK, CallType
  <2>. QED BY <1>c, <2>1, <2>2, <2>3, Calm
<1>8. CASE AcquireUnanswered(w)
  <2>1. Others(w)
    BY <1>8, <1>0, <1>c, Tokens
       DEF AcquireUnanswered, Others, Covered, Token, own, answer, redis, flight,
           database, Goto, Mark, TypeOK, CallType
  <2>2. /\ generations' = generations /\ cached' = cached
        /\ \A k \in Keys : disturbed'[k] >= disturbed[k]
    BY <1>8, <1>c
       DEF AcquireUnanswered, own, answer, redis, flight, database, Goto, Mark
  <2>3. /\ Exposed(w)' => Exposed(w) /\ key'[w] = key[w]
        /\ Asking(w)' => Asking(w) /\ key'[w] = key[w]
        /\ Producing(w) => Producing(w)' /\ key'[w] = key[w]
    BY <1>8, <1>0, <1>c
       DEF AcquireUnanswered, Fits, Exposed, Asking, Producing, Covered, Cleared,
           Unstored, InPolicy, Token, At, own, answer, redis, flight, database, Goto,
           Mark, TypeOK, CallType
  <2>. QED BY <1>c, <2>1, <2>2, <2>3, Calm
<1>9. CASE WaitHit(w)
  <2>1. Others(w)
    BY <1>9, OthersSame
       DEF WaitHit, TakeHit, own, answer, redis, flight, database, Goto, Mark, TypeOK,
           CallType
  <2>2. /\ generations' = generations /\ cached' = cached
        /\ \A k \in Keys : disturbed'[k] >= disturbed[k]
    BY <1>9, <1>c DEF WaitHit, TakeHit, own, answer, redis, flight, database, Goto, Mark
  <2>3. /\ Exposed(w)' => Exposed(w) /\ key'[w] = key[w]
        /\ Asking(w)' => Asking(w) /\ key'[w] = key[w]
        /\ Producing(w) => Producing(w)' /\ key'[w] = key[w]
    BY <1>9, <1>0
       DEF WaitHit, TakeHit, Fits, Exposed, Asking, Producing, Covered, Cleared,
           Unstored, InPolicy, Token, At, own, answer, redis, flight, database, Goto,
           Mark, TypeOK, CallType
  <2>. QED BY <1>c, <2>1, <2>2, <2>3, Calm
<1>10. CASE Count(w) /\ OverLimit
  <2>1. Others(w)
    BY <1>10, OthersSame
       DEF Count, Refuse, own, answer, redis, flight, database, Goto, Mark, TypeOK,
           CallType
  <2>2. /\ generations' = generations /\ cached' = cached
        /\ \A k \in Keys : disturbed'[k] >= disturbed[k]
        /\ Producing(w) => disturbed'[key[w]] > disturbed[key[w]]
    BY <1>10, AbandonCounts
       DEF Count, Refuse, Producing, own, answer, redis, flight, database, Goto, Mark
  <2>3. /\ Exposed(w)' => Exposed(w) /\ key'[w] = key[w]
        /\ Asking(w)' => Asking(w) /\ key'[w] = key[w]
    BY <1>10, <1>0
       DEF Count, Refuse, Fits, Exposed, Asking, Producing, Covered, Cleared, Unstored,
           InPolicy, Token, At, own, answer, redis, flight, database, Goto, Mark,
           TypeOK, CallType
  <2>. QED BY <1>c, <2>1, <2>2, <2>3, Calm
<1>11. CASE \E n \in 0..MaxCost, plain \in BOOLEAN : HandlerReturns(w, n, plain)
  <2>1. Others(w)
    BY <1>11, OthersSame
       DEF HandlerReturns, own, answer, redis, flight, database, Goto, Mark, TypeOK,
           CallType
  <2>2. /\ generations' = generations /\ cached' = cached
        /\ \A k \in Keys : disturbed'[k] >= disturbed[k]
    BY <1>11, <1>c DEF HandlerReturns, own, answer, redis, flight, database, Goto, Mark
  <2>3. /\ Exposed(w)' => Exposed(w) /\ key'[w] = key[w]
        /\ Asking(w)' => Asking(w) /\ key'[w] = key[w]
        /\ Producing(w) => Producing(w)' /\ key'[w] = key[w]
    BY <1>11, <1>0
       DEF HandlerReturns, Fits, Exposed, Asking, Producing, Covered, Cleared,
           Unstored, InPolicy, Token, At, own, answer, redis, flight, database, Goto,
           Mark, TypeOK, CallType
  <2>. QED BY <1>c, <2>1, <2>2, <2>3, Calm
<1>12. CASE HandlerFails(w)
  <2>1. Others(w)
    BY <1>12, OthersSame
       DEF HandlerFails, own, answer, redis, flight, database, Goto, Mark, TypeOK,
           CallType
  <2>2. /\ generations' = generations /\ cached' = cached
        /\ \A k \in Keys : disturbed'[k] >= disturbed[k]
        /\ Producing(w) => disturbed'[key[w]] > disturbed[key[w]]
    BY <1>12, AbandonCounts
       DEF HandlerFails, Producing, own, answer, redis, flight, database, Goto, Mark
  <2>3. /\ Exposed(w)' => Exposed(w) /\ key'[w] = key[w]
        /\ Asking(w)' => Asking(w) /\ key'[w] = key[w]
    BY <1>12, <1>0
       DEF HandlerFails, Fits, Exposed, Asking, Producing, Covered, Cleared, Unstored,
           InPolicy, Token, At, own, answer, redis, flight, database, Goto, Mark,
           TypeOK, CallType
  <2>. QED BY <1>c, <2>1, <2>2, <2>3, Calm
<1>13. CASE Charge(w)
  <2>1. Others(w)
    BY <1>13, OthersSame
       DEF Charge, own, answer, redis, flight, database, Goto, Mark, TypeOK, CallType
  <2>2. /\ generations' = generations /\ cached' = cached
        /\ \A k \in Keys : disturbed'[k] >= disturbed[k]
    BY <1>13, <1>c DEF Charge, own, answer, redis, flight, database, Goto, Mark
  <2>3. /\ Exposed(w)' => Exposed(w) /\ key'[w] = key[w]
        /\ Asking(w)' => Asking(w) /\ key'[w] = key[w]
        /\ Producing(w) => Producing(w)' /\ key'[w] = key[w]
    BY <1>13, <1>0
       DEF Charge, Fits, Exposed, Asking, Producing, Covered, Cleared, Unstored,
           InPolicy, Token, At, own, answer, redis, flight, database, Goto, Mark,
           TypeOK, CallType
  <2>. QED BY <1>c, <2>1, <2>2, <2>3, Calm
<1>14. CASE FinishTrace(w)
  <2>1. Others(w)
    BY <1>14, OthersSame
       DEF FinishTrace, own, answer, redis, flight, database, Goto, Mark, TypeOK,
           CallType
  <2>2. /\ generations' = generations /\ cached' = cached
        /\ \A k \in Keys : disturbed'[k] >= disturbed[k]
    BY <1>14, <1>c DEF FinishTrace, own, answer, redis, flight, database, Goto, Mark
  <2>3. /\ Exposed(w)' => Exposed(w) /\ key'[w] = key[w]
        /\ Asking(w)' => Asking(w) /\ key'[w] = key[w]
        /\ Producing(w) => Producing(w)' /\ key'[w] = key[w]
    BY <1>14, <1>0
       DEF FinishTrace, Fits, Exposed, Asking, Producing, Covered, Cleared, Unstored,
           InPolicy, Token, At, own, answer, redis, flight, database, Goto, Mark,
           TypeOK, CallType
  <2>. QED BY <1>c, <2>1, <2>2, <2>3, Calm
<1>15. CASE Store(w)
  <2>1. Others(w)
    BY <1>15, OthersSame
       DEF Store, own, answer, redis, flight, database, Goto, Mark, TypeOK, CallType
  <2>2. /\ generations' = generations
        /\ \A k \in Keys : disturbed'[k] >= disturbed[k]
        /\ \A k \in Keys : cached[k] => cached'[k]
        /\ cached'[key[w]] \/ disturbed'[key[w]] > disturbed[key[w]]
    BY <1>15, <1>0, <1>c, DisturbCounts DEF Store
  <2>3. /\ Exposed(w)' => Exposed(w) /\ key'[w] = key[w]
        /\ Asking(w)' => Asking(w) /\ key'[w] = key[w]
    BY <1>15, <1>0
       DEF Store, Fits, Exposed, Asking, Producing, Covered, Cleared, Unstored,
           InPolicy, Token, At, own, answer, redis, flight, database, Goto, Mark,
           TypeOK, CallType
  <2>. QED BY <1>c, <2>1, <2>2, <2>3, Calm
<1>16. CASE Release(w)
  <2>1. Others(w)
    BY <1>16, <1>0, <1>c, Tokens
       DEF Release, Others, Covered, Token, own, answer, redis, flight, database, Goto,
           Mark, TypeOK, CallType
  <2>2. /\ generations' = generations /\ cached' = cached
        /\ \A k \in Keys : disturbed'[k] >= disturbed[k]
    BY <1>16, <1>c DEF Release, own, answer, redis, flight, database, Goto, Mark
  <2>3. /\ Exposed(w)' => Exposed(w) /\ key'[w] = key[w]
        /\ Asking(w)' => Asking(w) /\ key'[w] = key[w]
        /\ Producing(w) => Producing(w)' /\ key'[w] = key[w]
    BY <1>16, <1>0, <1>c
       DEF Release, Fits, Exposed, Asking, Producing, Covered, Cleared, Unstored,
           InPolicy, Token, At, own, answer, redis, flight, database, Goto, Mark,
           TypeOK, CallType
  <2>. QED BY <1>c, <2>1, <2>2, <2>3, Calm
<1>17. CASE DatabaseFails(w)
  <2>1. Others(w)
    BY <1>17, OthersSame
       DEF DatabaseFails, own, answer, redis, flight, database, Goto, Mark, TypeOK,
           CallType
  <2>2. /\ generations' = generations /\ cached' = cached
        /\ \A k \in Keys : disturbed'[k] >= disturbed[k]
        /\ Producing(w) => disturbed'[key[w]] > disturbed[key[w]]
    BY <1>17, AbandonCounts
       DEF DatabaseFails, Producing, own, answer, redis, flight, database, Goto, Mark
  <2>3. /\ Exposed(w)' => Exposed(w) /\ key'[w] = key[w]
        /\ Asking(w)' => Asking(w) /\ key'[w] = key[w]
    BY <1>17, <1>0
       DEF DatabaseFails, Fits, Exposed, Asking, Producing, Covered, Cleared, Unstored,
           InPolicy, Token, At, own, answer, redis, flight, database, Goto, Mark,
           TypeOK, CallType
  <2>. QED BY <1>c, <2>1, <2>2, <2>3, Calm
<1>18. CASE Cancel(w)
  <2>1. Others(w)
    BY <1>18, OthersSame
       DEF Cancel, own, answer, redis, flight, database, Goto, Mark, TypeOK, CallType
  <2>2. /\ generations' = generations /\ cached' = cached
        /\ \A k \in Keys : disturbed'[k] >= disturbed[k]
        /\ Producing(w) => disturbed'[key[w]] > disturbed[key[w]]
    BY <1>18, AbandonCounts
       DEF Cancel, Producing, own, answer, redis, flight, database, Goto, Mark
  <2>3. /\ Exposed(w)' => Exposed(w) /\ key'[w] = key[w]
        /\ Asking(w)' => Asking(w) /\ key'[w] = key[w]
    BY <1>18, <1>0
       DEF Cancel, Fits, Exposed, Asking, Producing, Covered, Cleared, Unstored,
           InPolicy, Token, At, own, answer, redis, flight, database, Goto, Mark,
           TypeOK, CallType
  <2>. QED BY <1>c, <2>1, <2>2, <2>3, Calm
<1>19. CASE Crash(w)
  <2>1. Others(w)
    BY <1>19, OthersSame
       DEF Crash, own, answer, redis, flight, database, Goto, Mark, TypeOK, CallType
  <2>2. /\ generations' = generations /\ cached' = cached
        /\ \A k \in Keys : disturbed'[k] >= disturbed[k]
        /\ Producing(w) => disturbed'[key[w]] > disturbed[key[w]]
    BY <1>19, AbandonCounts
       DEF Crash, Producing, own, answer, redis, flight, database, Goto, Mark
  <2>3. /\ Exposed(w)' => Exposed(w) /\ key'[w] = key[w]
        /\ Asking(w)' => Asking(w) /\ key'[w] = key[w]
    BY <1>19, <1>0
       DEF Crash, Fits, Exposed, Asking, Producing, Covered, Cleared, Unstored,
           InPolicy, Token, At, own, answer, redis, flight, database, Goto, Mark,
           TypeOK, CallType
  <2>. QED BY <1>c, <2>1, <2>2, <2>3, Calm
<1>20. CASE \E k \in Keys : Begin(w, k)
  <2>1. Others(w)
    BY <1>20, OthersSame
       DEF Begin, own, answer, redis, flight, database, Goto, Mark, TypeOK, CallType
  <2>2. /\ generations' = generations /\ cached' = cached
        /\ \A k \in Keys : disturbed'[k] >= disturbed[k]
    BY <1>20, <1>c DEF Begin, own, answer, redis, flight, database, Goto, Mark
  <2>3. /\ Exposed(w)' => Exposed(w) /\ key'[w] = key[w]
        /\ Asking(w)' => Asking(w) /\ key'[w] = key[w]
        /\ Producing(w) => Producing(w)' /\ key'[w] = key[w]
    BY <1>20, <1>0
       DEF Begin, Fits, Exposed, Asking, Producing, Covered, Cleared, Unstored,
           InPolicy, Token, At, own, answer, redis, flight, database, Goto, Mark,
           TypeOK, CallType
  <2>. QED BY <1>c, <2>1, <2>2, <2>3, Calm
<1>. QED BY <1>1, <1>2, <1>3, <1>4, <1>5, <1>6, <1>7, <1>8, <1>9, <1>10, <1>11, <1>12,
         <1>13, <1>14, <1>15, <1>16, <1>17, <1>18, <1>19, <1>20

(* Of the calls for a key at most one has its lock.                        *)
LEMMA OneHolder ==
  ASSUME NEW v \in Workers, NEW w \in Workers, Covered(v), Covered(w), key[v] = key[w]
  PROVE  v = w
BY Tokens DEF Covered

(* A set that gains at most one element.                                   *)
LEMMA OneMore ==
  ASSUME NEW S, NEW T, NEW x, IsFiniteSet(S), T \subseteq S \cup {x}
  PROVE  Cardinality(T) <= Cardinality(S) + 1
<1>1. /\ IsFiniteSet(S \cup {x}) /\ Cardinality(S) \in Nat
      /\ Cardinality(S \cup {x}) <= Cardinality(S) + 1
      /\ Cardinality(S \cup {x}) \in Nat
  BY FS_AddElement, FS_CardinalityType
<1>2. Cardinality(T) <= Cardinality(S \cup {x}) /\ Cardinality(T) \in Nat
  BY <1>1, FS_Subset, FS_CardinalityType
<1>. QED BY <1>1, <1>2

(* The wait is over: an exposed call more, and an event.                   *)
LEMMA WaitFlights ==
  ASSUME TypeOK, TypeOK', Progress, Flights, NEW w \in Workers, WaitGivesUp(w)
  PROVE  Flights'
<1>0. Fits(w) /\ key[w] \in Keys /\ disturbed \in [Keys -> Nat]
  BY DEF Progress, TypeOK, CallType, CountType
<1>1. Others(w)
  BY OthersSame DEF WaitGivesUp, AskModel, own, answer, redis, Goto, TypeOK, CallType
<1>2. /\ key' = key /\ cached' = cached /\ generations' = generations
      /\ disturbed' = [disturbed EXCEPT ![key[w]] = @ + 1]
      /\ ~Covered(w) /\ ~Covered(w)'
  BY <1>0 DEF WaitGivesUp, Disturb, Fits, At, Covered, own, redis
<1>3. /\ ~Asking(w)' /\ ~Producing(w)
  BY <1>2 DEF Asking, Producing
<1>4. ASSUME NEW k \in Keys PROVE Steady(k)
  <2>1. Answered(k) => Answered(k)'
    BY <1>1, <1>2, <1>3, OthersKept DEF Answered
  <2>2. CASE k = key[w]
    <3>1. Unguarded(k)' \subseteq Unguarded(k) \cup {w}
      BY <1>1, <1>2, OthersKept DEF Unguarded
    <3>2. Cardinality(Unguarded(k)') <= Cardinality(Unguarded(k)) + 1
      BY <3>1, ExcessType, ExcessTypeNext, OneMore
    <3>3. disturbed'[k] = disturbed[k] + 1
      BY <1>0, <1>2, <2>2
    <3>. QED BY <1>2, <2>1, <3>2, <3>3, ExcessType, ExcessTypeNext DEF Steady, Excess
  <2>3. CASE k # key[w]
    <3>1. Unguarded(k)' \subseteq Unguarded(k)
      BY <1>1, <1>2, <2>3, OthersKept DEF Unguarded
    <3>2. disturbed'[k] = disturbed[k]
      BY <1>0, <1>2, <2>3
    <3>. QED BY <1>0, <1>2, <2>1, <3>1, <3>2, CalmKey
  <2>. QED BY <2>2, <2>3
<1>5. ASSUME NEW v \in Workers, Asking(v)' PROVE Asking(v) /\ key'[v] = key[v]
  BY <1>1, <1>3, <1>5, OthersKept
<1>. QED BY <1>4, <1>5, SteadyFlights

(* The holder of the lock has looked again.                                *)
LEMMA DoubleFlights ==
  ASSUME TypeOK, TypeOK', Progress, Flights, NEW w \in Workers, DoubleCheck(w)
  PROVE  Flights'
<1>0. Fits(w) /\ key[w] \in Keys /\ disturbed \in [Keys -> Nat]
  BY DEF Progress, TypeOK, CallType, CountType
<1>1. Others(w)
  BY OthersSame
     DEF DoubleCheck, TakeHit, AskModel, own, answer, redis, Goto, TypeOK, CallType
<1>2. /\ key' = key /\ cached' = cached /\ generations' = generations
      /\ disturbed' = disturbed \/ disturbed' = [disturbed EXCEPT ![key[w]] = @ + 1]
      /\ Covered(w)' <=> Covered(w)
  BY DEF DoubleCheck, Disturb, Covered, Token, own, redis
<1>3. /\ pc[w] = "double" /\ ~Unstored(w) /\ ~Cleared(w)
  BY DEF DoubleCheck, At, Unstored, Cleared, InPolicy
<1>4. \A k \in Keys : disturbed'[k] >= disturbed[k]
  BY <1>0, <1>2
<1>5. Exposed(w)' => Exposed(w)
  BY <1>2, <1>3 DEF Exposed
<1>6. CASE ~Asking(w)'
  BY <1>1, <1>2, <1>3, <1>4, <1>5, <1>6, Calm DEF Producing
<1>7. CASE Asking(w)'
  <2> PICK j \in Keys : j = key[w]
    BY <1>0
  <2>1. ASSUME NEW k \in Keys PROVE Steady(k)
    <3>1. Unguarded(k)' \subseteq Unguarded(k)
      BY <1>1, <1>2, <1>5, OthersKept DEF Unguarded
    <3>2. Answered(k) => Answered(k)'
      BY <1>1, <1>2, <1>3, OthersKept DEF Answered, Producing
    <3>. QED BY <1>2, <1>4, <3>1, <3>2, CalmKey
  <2>2. Excess(j) \in Int /\ Excess(j)' \in Int /\ Excess(j) <= IF Answered(j) THEN 1 ELSE 0
    BY <1>0, ExcessType, ExcessTypeNext DEF Flights
  <2>3. Covered(w)
    BY <1>2, <1>7 DEF Asking
  <2>4. ~InCache(w)
    BY <1>7, <1>0
       DEF DoubleCheck, TakeHit, Asking, Cleared, InPolicy, Goto, TypeOK, CallType
  <2>5. CASE redisUp
    <3>1. ~Answered(j)
      BY <1>3, <2>3, <2>4, <2>5, OneHolder DEF Answered, InCache, Producing
    <3>. QED BY <1>0, <1>1, <1>2, <2>1, <2>2, <3>1, OthersKept, SteadyFlights DEF Steady
  <2>6. CASE ~redisUp
    <3>1. disturbed'[j] = disturbed[j] + 1
      BY <1>0, <2>4, <2>6 DEF DoubleCheck, Disturb
    <3>2. Unguarded(j)' \subseteq Unguarded(j)
      BY <1>1, <1>2, <1>5, OthersKept DEF Unguarded
    <3>3. Cardinality(Unguarded(j)') <= Cardinality(Unguarded(j))
      BY <1>0, <3>2, ExcessType, FS_Subset
    <3>4. Excess(j)' <= 0
      BY <1>0, <1>2, <2>2, <3>1, <3>3, ExcessType, ExcessTypeNext DEF Excess
    <3>. QED BY <1>0, <1>1, <1>2, <2>1, <3>4, OthersKept, SteadyFlights
  <2>. QED BY <2>5, <2>6
<1>. QED BY <1>6, <1>7

(* The model is asked: by the holder of the lock, or for an event.         *)
LEMMA StartFlights ==
  ASSUME TypeOK, TypeOK', Progress, Flights, NEW w \in Workers,
         (Count(w) /\ ~OverLimit) \/ CountFails(w)
  PROVE  Flights'
<1>0. Fits(w) /\ key[w] \in Keys /\ generations \in [Keys -> Nat]
  BY DEF Progress, TypeOK, CallType, CountType
<1>1. Others(w)
  BY OthersSame DEF Count, CountFails, StartHandler, own, answer, Goto, TypeOK, CallType
<1>2. /\ key' = key /\ cached' = cached /\ disturbed' = disturbed
      /\ generations' = [generations EXCEPT ![key[w]] = @ + 1]
      /\ Covered(w)' <=> Covered(w)
  BY DEF Count, CountFails, StartHandler, Covered, Token, own
<1>3. /\ Cleared(w) /\ ~Unstored(w)
      /\ ~Cleared(w)' /\ Unstored(w)' /\ pc'[w] = "generating"
  BY <1>0 DEF Count, CountFails, StartHandler, At, Goto, Cleared, Unstored, InPolicy,
       TypeOK, CallType
<1>4. ~Exposed(w)' /\ ~Asking(w)' /\ ~Producing(w)
  BY <1>3 DEF Exposed, Asking, Producing
<1>5. ASSUME NEW k \in Keys PROVE Answered(k) => Answered(k)'
  BY <1>1, <1>2, <1>4, OthersKept DEF Answered
<1>6. ASSUME NEW k \in Keys, k # key[w] PROVE Steady(k)
  <2>1. Unguarded(k)' \subseteq Unguarded(k)
    BY <1>1, <1>2, <1>4, OthersKept DEF Unguarded
  <2>2. generations'[k] = generations[k]
    BY <1>0, <1>2, <1>6
  <2>3. disturbed'[k] >= disturbed[k]
    BY <1>2, ExcessType
  <2>. QED BY <1>5, <2>1, <2>2, <2>3, CalmKey
<1>7. \A v \in Workers : Asking(v)' => v # w /\ Asking(v) /\ key'[v] = key[v]
  BY <1>1, <1>4, OthersKept
<1> PICK j \in Keys : j = key[w]
  BY <1>0
<1>8. generations'[j] = generations[j] + 1
  BY <1>0, <1>2
<1>9. CASE Covered(w)
  <2>1. Unguarded(j)' \subseteq Unguarded(j)
    BY <1>1, <1>2, <1>4, OthersKept DEF Unguarded
  <2>2. Cardinality(Unguarded(j)') <= Cardinality(Unguarded(j))
    BY <2>1, ExcessType, FS_Subset
  <2>3. Excess(j) <= 0
    BY <1>3, <1>9 DEF Asking, Flights
  <2>4. Excess(j)' <= 1
    BY <1>2, <1>8, <2>2, <2>3, ExcessType, ExcessTypeNext DEF Excess
  <2>5. Answered(j)'
    BY <1>2, <1>3, <1>9 DEF Answered, Producing
  <2>6. \A v \in Workers : Asking(v)' => key'[v] # j
    BY <1>2, <1>7, <1>9, OneHolder DEF Asking
  <2>. QED BY <1>6, <1>7, <2>4, <2>5, <2>6, SteadyFlights
<1>10. CASE ~Covered(w)
  <2>1. w \in Unguarded(j) /\ Unguarded(j)' \subseteq Unguarded(j) \ {w}
    BY <1>1, <1>2, <1>3, <1>4, <1>10, OthersKept DEF Unguarded, Exposed
  <2>2. Cardinality(Unguarded(j)') <= Cardinality(Unguarded(j)) - 1
    <3>1. /\ IsFiniteSet(Unguarded(j) \ {w})
          /\ Cardinality(Unguarded(j) \ {w}) = Cardinality(Unguarded(j)) - 1
      BY <2>1, ExcessType, FS_RemoveElement
    <3>. QED BY <2>1, <3>1, FS_Subset
  <2>3. Steady(j)
    BY <1>2, <1>5, <1>8, <2>2, ExcessType, ExcessTypeNext DEF Steady, Excess
  <2>. QED BY <1>6, <1>7, <2>3, SteadyFlights
<1>. QED BY <1>9, <1>10

(* The lock expires: its holder, if it is to ask, is exposed for the event *)
(* that is counted; if it has a response to store, that one is lost.       *)
LEMMA ExpiryFlights ==
  ASSUME TypeOK, TypeOK', Flights, NEW j \in Keys, LockExpires(j)
  PROVE  Flights'
<1>0. lock \in [Keys -> (Workers \X Nat) \cup {Nobody}] /\ disturbed \in [Keys -> Nat]
  BY DEF TypeOK, RedisType, CountType
<1>1. /\ key' = key /\ cached' = cached /\ generations' = generations
      /\ pc' = pc /\ stage' = stage /\ hit' = hit /\ mine' = mine /\ calls' = calls
      /\ lock' = [lock EXCEPT ![j] = Nobody]
      /\ disturbed' = [disturbed EXCEPT ![j] = @ + 1]
  BY DEF LockExpires, Disturb, own, answer
<1>2. ASSUME NEW w \in Workers
      PROVE  /\ Cleared(w)' <=> Cleared(w)
             /\ Unstored(w)' <=> Unstored(w)
             /\ Covered(w)' <=> Covered(w) /\ key[w] # j
  <2>1. Token(w)' = Token(w) /\ Token(w) # Nobody /\ key[w] \in Keys
    BY <1>1, Tokens DEF Token, TypeOK, CallType
  <2>. QED BY <1>0, <1>1, <2>1 DEF Cleared, Unstored, InPolicy, Covered
<1>3. ASSUME NEW k \in Keys, k # j PROVE Steady(k)
  <2>1. Unguarded(k)' \subseteq Unguarded(k)
    BY <1>1, <1>2, <1>3 DEF Unguarded, Exposed
  <2>2. Answered(k) => Answered(k)'
    BY <1>1, <1>2, <1>3 DEF Answered, Producing
  <2>3. disturbed'[k] >= disturbed[k]
    BY <1>0, <1>1, <1>3
  <2>. QED BY <1>1, <2>1, <2>2, <2>3, CalmKey
<1>4. disturbed'[j] = disturbed[j] + 1
  BY <1>0, <1>1
<1>5. Steady(j)
  <2>1. CASE \E v \in Workers : key[v] = j /\ Covered(v) /\ (pc[v] = "double" \/ Cleared(v))
    <3> PICK v \in Workers : key[v] = j /\ Covered(v) /\ (pc[v] = "double" \/ Cleared(v))
      BY <2>1
    <3>1. \A w \in Workers : key[w] = j /\ Covered(w) => w = v
      BY OneHolder
    <3>2. Unguarded(j)' \subseteq Unguarded(j) \cup {v}
      BY <1>1, <1>2, <3>1 DEF Unguarded, Exposed
    <3>3. Cardinality(Unguarded(j)') <= Cardinality(Unguarded(j)) + 1
      BY <3>2, ExcessType, OneMore
    <3>4. ~Unstored(v)
      BY DEF Unstored, Cleared, InPolicy
    <3>5. Answered(j) => Answered(j)'
      BY <1>1, <3>1, <3>4 DEF Answered, Producing
    <3>. QED BY <1>1, <1>4, <3>3, <3>5, ExcessType, ExcessTypeNext DEF Steady, Excess
  <2>2. CASE ~\E v \in Workers : key[v] = j /\ Covered(v) /\ (pc[v] = "double" \/ Cleared(v))
    <3>1. Unguarded(j)' \subseteq Unguarded(j)
      BY <1>1, <1>2, <2>2 DEF Unguarded, Exposed
    <3>2. disturbed'[j] >= disturbed[j] /\ disturbed'[j] > disturbed[j]
      BY <1>4, ExcessType
    <3>. QED BY <1>1, <3>1, <3>2, CalmKey
  <2>. QED BY <2>1, <2>2
<1>6. \A w \in Workers : Asking(w)' => Asking(w) /\ key'[w] = key[w]
  BY <1>1, <1>2 DEF Asking
<1>. QED BY <1>3, <1>5, <1>6, SteadyFlights

(* Steps that no call takes; a response may expire, for an event.          *)
LEMMA QuietFlights ==
  ASSUME TypeOK, TypeOK', Flights,
         \/ \E k \in Keys : ResponseExpires(k)
         \/ RedisDown \/ RedisBack \/ NextMinute \/ MonthEnds \/ Deactivate
         \/ UNCHANGED vars
  PROVE  Flights'
<1>1. /\ key' = key /\ generations' = generations /\ lock' = lock
      /\ pc' = pc /\ stage' = stage /\ hit' = hit /\ mine' = mine /\ calls' = calls
  BY DEF ResponseExpires, RedisDown, RedisBack, NextMinute, MonthEnds, Deactivate,
       vars, redis, flight, own, answer
<1>2. ASSUME NEW w \in Workers
      PROVE  /\ Exposed(w)' <=> Exposed(w)
             /\ Asking(w)' <=> Asking(w)
             /\ Producing(w)' <=> Producing(w)
  BY <1>1 DEF Exposed, Asking, Producing, Covered, Cleared, Unstored, InPolicy, Token
<1>3. ASSUME NEW k \in Keys PROVE Steady(k)
  <2>1. Unguarded(k)' \subseteq Unguarded(k)
    BY <1>1, <1>2 DEF Unguarded
  <2>2. \/ disturbed'[k] = disturbed[k] /\ cached'[k] = cached[k]
        \/ disturbed'[k] = disturbed[k] + 1
    BY DEF ResponseExpires, Disturb, RedisDown, RedisBack, NextMinute, MonthEnds,
         Deactivate, vars, redis, flight, TypeOK, RedisType, CountType
  <2>3. (Answered(k) => Answered(k)') \/ disturbed'[k] > disturbed[k]
    BY <1>1, <1>2, <2>2, ExcessType DEF Answered
  <2>4. disturbed'[k] >= disturbed[k]
    BY <2>2, ExcessType
  <2>. QED BY <1>1, <2>1, <2>3, <2>4, CalmKey
<1>. QED BY <1>1, <1>2, <1>3, SteadyFlights

(* The coalescing part of the invariant is kept.                           *)
LEMMA FlightsStep == TypeOK /\ Progress /\ Flights /\ [Next]_vars => Flights'
<1> SUFFICES ASSUME TypeOK, Progress, Flights, [Next]_vars PROVE Flights'
  OBVIOUS
<1>0. TypeOK'
  BY NextType
<1>1. ASSUME NEW w \in Workers, Step(w) PROVE Flights'
  BY <1>0, <1>1, CalmSteps, WaitFlights, DoubleFlights, StartFlights DEF Step
<1>2. ASSUME NEW w \in Workers,
             \/ AcquireUnanswered(w) \/ WaitHit(w) \/ DatabaseFails(w) \/ Cancel(w)
             \/ Crash(w) \/ \E k \in Keys : Begin(w, k)
      PROVE  Flights'
  BY <1>0, <1>2, CalmSteps
<1>3. ASSUME NEW k \in Keys, LockExpires(k) PROVE Flights'
  BY <1>0, <1>3, ExpiryFlights
<1>4. CASE \/ \E k \in Keys : ResponseExpires(k)
           \/ RedisDown \/ RedisBack \/ NextMinute \/ MonthEnds \/ Deactivate
           \/ UNCHANGED vars
  BY <1>0, <1>4, QuietFlights
<1>. QED BY <1>1, <1>2, <1>3, <1>4 DEF Next, Event, Quiescent

-----------------------------------------------------------------------------
(* The invariant of the runs is inductive for any number of workers and    *)
(* keys, any quota and limit.                                              *)
THEOREM CallInvariant == Spec => []IInv
<1>1. Init => IInv
  <2> SUFFICES ASSUME Init PROVE IInv
    OBVIOUS
  <2>1. TypeOK /\ Progress
    BY InitType
  <2>2. Charges
    BY InitCharges
  <2>3. Rate
    BY PolicyAssumption DEF Init, Rate
  <2>4. ASSUME NEW k \in Keys PROVE Unguarded(k) = {}
    BY DEF Init, Unguarded, Exposed, Cleared, InPolicy
  <2>5. ASSUME NEW k \in Keys PROVE Excess(k) = 0
    <3>1. generations[k] = 0 /\ disturbed[k] = 0
      BY DEF Init
    <3>2. Cardinality(Unguarded(k)) = 0
      BY <2>4, FS_EmptySet
    <3>. QED BY <3>1, <3>2 DEF Excess
  <2>6. ASSUME NEW w \in Workers PROVE ~Asking(w)
    BY DEF Init, Asking, Cleared, InPolicy
  <2>7. Flights
    BY <2>5, <2>6 DEF Flights
  <2>. QED BY <2>1, <2>2, <2>3, <2>7 DEF IInv
<1>2. IInv /\ [Next]_vars => IInv'
  BY NextType, FlightsStep, ChargesStep, RateStep DEF IInv
<1>. QED BY <1>1, <1>2, PTL DEF Spec

(* Equal requests share one generation, except once per event that leaves  *)
(* no response to wait for.                                                *)
THEOREM FlightIsSingle == Spec => []SingleFlight
<1>1. IInv => SingleFlight
  <2> SUFFICES ASSUME IInv, NEW k \in Keys PROVE generations[k] <= 1 + disturbed[k]
    BY DEF SingleFlight
  <2>1. TypeOK /\ Excess(k) <= 1
    BY ExcessType DEF IInv, Flights
  <2>. QED BY <2>1, ExcessType DEF Excess
<1>. QED BY <1>1, CallInvariant, PTL

(* A lock goes when its TTL is over or when the call that took it releases *)
(* it.                                                                     *)
THEOREM LockKeepsItsOwner == Spec => LockIsNotStolen
<1> DEFINE Kept == \A k \in Keys : lock[k] # Nobody /\ lock'[k] # lock[k] =>
              /\ lock'[k] = Nobody
              /\ \/ disturbed'[k] > disturbed[k]
                 \/ \E w \in Workers : lock[k] = Token(w) /\ At(w, "release")
<1>1. TypeOK /\ [Next]_vars => [Kept]_vars
  <2> SUFFICES ASSUME TypeOK, Next, NEW k \in Keys, lock[k] # Nobody, lock'[k] # lock[k]
               PROVE  /\ lock'[k] = Nobody
                      /\ \/ disturbed'[k] > disturbed[k]
                         \/ \E w \in Workers : lock[k] = Token(w) /\ At(w, "release")
    OBVIOUS
  <2>0. lock \in [Keys -> (Workers \X Nat) \cup {Nobody}]
    BY DEF TypeOK, RedisType
  <2>1. ASSUME NEW w \in Workers, Acquire(w) \/ AcquireUnanswered(w) PROVE FALSE
    BY <2>0, <2>1 DEF Acquire, AcquireUnanswered, TypeOK, CallType
  <2>2. CASE \E w \in Workers : Release(w)
    <3> PICK w \in Workers : Release(w)
      BY <2>2
    <3>1. lock[key[w]] = Token(w) /\ lock' = [lock EXCEPT ![key[w]] = Nobody] /\ At(w, "release")
      BY DEF Release
    <3>2. k = key[w] /\ lock'[k] = Nobody
      BY <2>0, <3>1
    <3>. QED BY <3>1, <3>2
  <2>3. CASE \E j \in Keys : LockExpires(j)
    <3> PICK j \in Keys : LockExpires(j)
      BY <2>3
    <3>1. lock' = [lock EXCEPT ![j] = Nobody] /\ disturbed' = [disturbed EXCEPT ![j] = @ + 1]
      BY DEF LockExpires, Disturb
    <3>2. k = j /\ lock'[k] = Nobody /\ disturbed[k] \in Nat /\ disturbed'[k] = disturbed[k] + 1
      BY <2>0, <3>1 DEF TypeOK, CountType
    <3>. QED BY <3>2
  <2>4. ASSUME NEW w \in Workers, Step(w), ~Acquire(w), ~Release(w) PROVE FALSE
    BY <2>4 DEF Step, PolicyIsDue, ResetQuota, PolicyDenies, PolicyAllows, OpenTrace,
         Lookup, DoubleCheck, WaitGivesUp, Count, CountFails, HandlerReturns,
         HandlerFails, Charge, FinishTrace, Store, redis
  <2>5. ASSUME NEW w \in Workers,
               \/ WaitHit(w) \/ DatabaseFails(w) \/ Cancel(w) \/ Crash(w)
               \/ \E j \in Keys : Begin(w, j)
        PROVE  FALSE
    BY <2>5 DEF WaitHit, DatabaseFails, Cancel, Crash, Begin, redis
  <2>6. ASSUME \/ \E j \in Keys : ResponseExpires(j)
               \/ RedisDown \/ RedisBack \/ NextMinute \/ MonthEnds \/ Deactivate
               \/ UNCHANGED vars
        PROVE  FALSE
    BY <2>6 DEF ResponseExpires, RedisDown, RedisBack, NextMinute, MonthEnds,
         Deactivate, vars, redis
  <2>. QED BY <2>1, <2>2, <2>3, <2>4, <2>5, <2>6 DEF Next, Event, Quiescent
<1>2. Init => TypeOK /\ Progress
  BY InitType
<1>3. (TypeOK /\ Progress) /\ [Next]_vars => (TypeOK /\ Progress)'
  BY NextType
<1>4. LockIsNotStolen <=> [][Kept]_vars
  BY DEF LockIsNotStolen
<1> HIDE DEF Kept
<1>. QED BY <1>1, <1>2, <1>3, <1>4, PTL DEF Spec
=============================================================================
