----------------------------- MODULE ModelCall -----------------------------
(***************************************************************************)
(* The model calls of one user: the response cache that coalesces equal    *)
(* requests, the request rate counted in Redis and the monthly token quota *)
(* kept in PostgreSQL.                                                     *)
(*                                                                         *)
(*   app/agents/chat.py                 PolicyTraceMiddleware              *)
(*   app/policies/service.py            get_policy, enforce_model, ...     *)
(*   app/services/chat_response_cache.py, app/cache/service.py             *)
(*                                                                         *)
(* A worker runs awrap_model_call again and again; each run is a call, and *)
(* <<worker, number>> stands for the uuid4 token of the lock it may take.  *)
(* Every database transaction and every Redis command is a step; workers   *)
(* interleave between them.                                                *)
(***************************************************************************)
EXTENDS Integers, FiniteSets, Functions

CONSTANTS
    Workers,    \* concurrent executions of awrap_model_call for the user
    Keys,       \* cache keys: digests of user, model, messages
    Quota,      \* UserPolicy.monthly_token_quota
    RpmLimit,   \* UserPolicy.rpm_limit
    MaxCost,    \* total_tokens a generation may report at most
    MaxCalls,   \* calls of all workers
    MaxMinute,  \* minutes the clock may reach
    MaxEvents   \* turns of the clock, failures and interventions

ASSUME PolicyAssumption ==
    /\ Quota \in Nat /\ RpmLimit \in Nat \ {0}
    /\ MaxCost \in Nat \ {0}
    /\ Workers # {} /\ IsFiniteSet(Workers)
    /\ MaxCalls \in Nat /\ MaxMinute \in Nat \ {0}
    /\ MaxEvents \in Nat
    /\ Keys # {} /\ \A w \in Workers : w # "nobody"

Nobody == <<"nobody", 0>>
AnyKey == CHOOSE k \in Keys : TRUE

VARIABLES
    \* PostgreSQL.
    used,       \* UserPolicy.tokens_used
    due,        \* UserPolicy.quota_reset_at <= now
    active,     \* User.is_active
    \* Redis.
    redisUp,    \* whether commands succeed
    cached,     \* keys with a stored response
    lock,       \* token in the lock of a key, or Nobody
    rpm,        \* policy:rpm:<user>:<minute>
    \* The environment.
    minute, events,
    \* One call of a worker.
    pc, stage,  \* where it is; which of its three get_policy calls it makes
    up,         \* whether its process is alive
    calls,      \* its number
    key,        \* its cache key
    mine,       \* cache_lock is not None
    hadUsage,   \* tokens_used of the row get_policy has read is not zero
    cost,       \* total_tokens of its response
    hit,        \* its response comes from the cache
    keeps,      \* its response is cacheable plain text
    trace,      \* its TraceSpan
    \* History.
    generations,    \* handler calls per key
    disturbed,      \* events per key after which another one is in order
    admitted,       \* handler calls per minute
    uncounted,      \* those of them that Redis did not count
    spent           \* tokens charged since the quota was last renewed

database == <<used, due, active, spent>>
redis == <<redisUp, cached, lock, rpm>>
clock == <<minute, events>>
flight == <<generations, disturbed>>
rate == <<admitted, uncounted>>
own == <<up, calls, key>>
answer == <<cost, hit, keeps>>
vars == <<database, redis, clock, flight, rate, own, answer,
          pc, stage, mine, hadUsage, trace>>

PcStates == {"idle", "policy", "reset", "granted", "open", "lookup", "acquire",
             "double", "wait", "count", "generating", "charge", "finish",
             "store", "release"}

DatabaseType ==
    /\ used \in Nat /\ spent \in Nat /\ due \in BOOLEAN /\ active \in BOOLEAN

RedisType ==
    /\ redisUp \in BOOLEAN
    /\ cached \in [Keys -> BOOLEAN]
    /\ lock \in [Keys -> (Workers \X Nat) \cup {Nobody}]
    /\ rpm \in [1..MaxMinute -> Nat]

CallType ==
    /\ pc \in [Workers -> PcStates]
    /\ stage \in [Workers -> {"prepare", "enforce", "record"}]
    /\ up \in [Workers -> BOOLEAN]
    /\ calls \in [Workers -> Nat]
    /\ key \in [Workers -> Keys]
    /\ mine \in [Workers -> BOOLEAN]
    /\ hadUsage \in [Workers -> BOOLEAN]
    /\ cost \in [Workers -> Nat]
    /\ hit \in [Workers -> BOOLEAN]
    /\ keeps \in [Workers -> BOOLEAN]
    /\ trace \in [Workers -> {"none", "running", "success", "error"}]

CountType ==
    /\ minute \in 1..MaxMinute /\ events \in 0..MaxEvents
    /\ generations \in [Keys -> Nat] /\ disturbed \in [Keys -> Nat]
    /\ admitted \in [1..MaxMinute -> Nat] /\ uncounted \in [1..MaxMinute -> Nat]

TypeOK == DatabaseType /\ RedisType /\ CallType /\ CountType

\* Part of the quota, or all of it, may be used up already.
Init ==
    /\ used \in 0..Quota /\ spent = used /\ due = FALSE /\ active = TRUE
    /\ redisUp = TRUE /\ cached = [k \in Keys |-> FALSE]
    /\ lock = [k \in Keys |-> Nobody] /\ rpm = [m \in 1..MaxMinute |-> 0]
    /\ minute = 1 /\ events = 0
    /\ pc = [w \in Workers |-> "idle"] /\ stage = [w \in Workers |-> "prepare"]
    /\ up = [w \in Workers |-> TRUE] /\ calls = [w \in Workers |-> 0]
    /\ key = [w \in Workers |-> AnyKey] /\ mine = [w \in Workers |-> FALSE]
    /\ hadUsage = [w \in Workers |-> FALSE] /\ cost = [w \in Workers |-> 0]
    /\ hit = [w \in Workers |-> FALSE] /\ keeps = [w \in Workers |-> FALSE]
    /\ trace = [w \in Workers |-> "none"]
    /\ generations = [k \in Keys |-> 0] /\ disturbed = [k \in Keys |-> 0]
    /\ admitted = [m \in 1..MaxMinute |-> 0]
    /\ uncounted = [m \in 1..MaxMinute |-> 0]

-----------------------------------------------------------------------------
(* Helpers.                                                                *)

Started == FoldFunction(+, 0, calls)
Token(w) == <<w, calls[w]>>
At(w, p) == up[w] /\ pc[w] = p
Goto(w, p) == pc' = [pc EXCEPT ![w] = p]
Mark(w, final) == trace' = [trace EXCEPT ![w] = final]

(* The call has a generated response, or is generating it, and has not     *)
(* tried to store it.                                                      *)
Unstored(w) ==
    \/ pc[w] \in {"generating", "store"}
    \/ pc[w] \in {"policy", "reset", "granted"} /\ stage[w] = "record"
    \/ pc[w] \in {"charge", "finish"} /\ ~hit[w]

Happens == events < MaxEvents /\ events' = events + 1
Fault == Happens /\ UNCHANGED minute

Disturb(k) == disturbed' = [disturbed EXCEPT ![k] = @ + 1]

(* The call ends without storing what it may have generated.               *)
Abandon(w) ==
    /\ IF Unstored(w) THEN Disturb(key[w]) ELSE UNCHANGED disturbed
    /\ UNCHANGED generations

(* PolicyViolation: before there is a span the call just answers with the  *)
(* refusal, afterwards _fail_trace marks the span and the lock is released. *)
Refuse(w) ==
    /\ IF stage[w] = "prepare"
         THEN Goto(w, "idle") /\ UNCHANGED trace
         ELSE Goto(w, "release") /\ Mark(w, "error")
    /\ Abandon(w)

-----------------------------------------------------------------------------
(* _prepare_model_call                                                     *)

Begin(w, k) ==
    /\ At(w, "idle") /\ Started < MaxCalls
    /\ calls' = [calls EXCEPT ![w] = @ + 1]
    /\ key' = [key EXCEPT ![w] = k]
    /\ stage' = [stage EXCEPT ![w] = "prepare"]
    /\ hit' = [hit EXCEPT ![w] = FALSE]
    /\ keeps' = [keeps EXCEPT ![w] = FALSE]
    /\ cost' = [cost EXCEPT ![w] = 0]
    /\ Mark(w, "none")
    /\ Goto(w, "policy")
    /\ UNCHANGED <<database, redis, clock, flight, rate, up, mine, hadUsage>>

(* get_policy finds the period over and renews the quota: the row is read  *)
(* here and written by ResetQuota.                                         *)
PolicyIsDue(w) ==
    /\ At(w, "policy") /\ active /\ due
    /\ hadUsage' = [hadUsage EXCEPT ![w] = used # 0]
    /\ Goto(w, "reset")
    /\ UNCHANGED <<database, redis, clock, flight, rate, own, answer, stage,
                   mine, trace>>

(* tokens_used = 0 and the next quota_reset_at.  The ORM writes the        *)
(* columns that differ from what it has read, without comparing again.     *)
ResetQuota(w) ==
    /\ At(w, "reset")
    /\ used' = IF hadUsage[w] THEN 0 ELSE used
    /\ spent' = IF due THEN 0 ELSE spent
    /\ due' = FALSE
    /\ Goto(w, "granted")
    /\ UNCHANGED <<active, redis, clock, flight, rate, own, answer, stage,
                   mine, hadUsage, trace>>

(* Mutant: the last token of the quota may be spent again.                 *)
MutExhausted(w) == stage[w] # "record" /\ used > Quota

(* authorize_model_access, and get_policy alone in record_token_usage.     *)
Exhausted(w) == stage[w] # "record" /\ used >= Quota

(* The checks that follow get_policy see the row just read, or read again  *)
(* after the renewal.                                                      *)
PolicyRead(w) ==
    \/ At(w, "granted")
    \/ At(w, "policy") /\ active /\ ~due

PolicyDenies(w) ==
    /\ \/ At(w, "policy") /\ ~active
       \/ PolicyRead(w) /\ Exhausted(w)
    /\ Refuse(w)
    /\ UNCHANGED <<database, redis, clock, rate, own, answer, stage, mine, hadUsage>>

PolicyAllows(w) ==
    /\ PolicyRead(w) /\ ~Exhausted(w)
    /\ Goto(w, CASE stage[w] = "prepare" -> "open"
                 [] stage[w] = "enforce" -> "count"
                 [] OTHER                -> "charge")
    /\ UNCHANGED <<database, redis, clock, flight, rate, own, answer, stage,
                   mine, hadUsage, trace>>

(* The conversation and the span are committed.                            *)
OpenTrace(w) ==
    /\ At(w, "open")
    /\ Mark(w, "running")
    /\ Goto(w, "lookup")
    /\ UNCHANGED <<database, redis, clock, flight, rate, own, answer, stage,
                   mine, hadUsage>>

-----------------------------------------------------------------------------
(* The cache, before the model is asked.                                   *)

InCache(w) == redisUp /\ cached[key[w]]

TakeHit(w) ==
    /\ hit' = [hit EXCEPT ![w] = TRUE]
    /\ Goto(w, "finish")

(* get_cached_response; a RedisError reads as a miss.                      *)
Lookup(w) ==
    /\ At(w, "lookup")
    /\ IF InCache(w) THEN TakeHit(w) ELSE Goto(w, "acquire") /\ UNCHANGED hit
    /\ UNCHANGED <<database, redis, clock, flight, rate, own, cost, keeps, stage,
                   mine, hadUsage, trace>>

(* SET NX EX.  No lock, whatever the reason, means to wait.                *)
Acquire(w) ==
    /\ At(w, "acquire")
    /\ IF redisUp /\ lock[key[w]] = Nobody
         THEN /\ lock' = [lock EXCEPT ![key[w]] = Token(w)]
              /\ mine' = [mine EXCEPT ![w] = TRUE]
              /\ Goto(w, "double")
         ELSE Goto(w, "wait") /\ UNCHANGED <<lock, mine>>
    /\ UNCHANGED <<database, redisUp, cached, rpm, clock, flight, rate, own, answer,
                   stage, hadUsage, trace>>

(* The command is executed and its answer times out: a lock without owner. *)
AcquireUnanswered(w) ==
    /\ At(w, "acquire") /\ Fault /\ redisUp /\ lock[key[w]] = Nobody
    /\ lock' = [lock EXCEPT ![key[w]] = Token(w)]
    /\ Goto(w, "wait")
    /\ UNCHANGED <<database, redisUp, cached, rpm, flight, rate, own, answer,
                   stage, mine, hadUsage, trace>>

AskModel(w) ==
    /\ stage' = [stage EXCEPT ![w] = "enforce"]
    /\ Goto(w, "policy")

(* Mutant: the holder of the lock does not look again.                     *)
MutDoubleCheck(w) ==
    /\ At(w, "double")
    /\ AskModel(w)
    /\ UNCHANGED <<database, redis, clock, flight, rate, own, answer, mine,
                   hadUsage, trace>>

(* The holder of the lock looks again; if Redis fails now it may generate  *)
(* what is already there.                                                  *)
DoubleCheck(w) ==
    /\ At(w, "double")
    /\ IF InCache(w) THEN TakeHit(w) /\ UNCHANGED <<stage, disturbed>>
                     ELSE /\ AskModel(w) /\ UNCHANGED hit
                          /\ IF redisUp THEN UNCHANGED disturbed ELSE Disturb(key[w])
    /\ UNCHANGED <<database, redis, clock, generations, rate, own, cost, keeps,
                   mine, hadUsage, trace>>

(* wait_for_json polls until a response is there ...                       *)
WaitHit(w) ==
    /\ At(w, "wait") /\ InCache(w)
    /\ TakeHit(w)
    /\ UNCHANGED <<database, redis, clock, flight, rate, own, cost, keeps, stage,
                   mine, hadUsage, trace>>

(* Mutant: polls until somebody has stored a response.                     *)
MutWaitGivesUp(w) ==
    /\ At(w, "wait")
    /\ \/ redisUp /\ UNCHANGED vars
       \/ /\ ~redisUp
          /\ AskModel(w)
          /\ Disturb(key[w])
          /\ UNCHANGED <<database, redis, clock, generations, rate, own, answer, mine,
                         hadUsage, trace>>

(* ... or its deadline is over, or Redis fails: the model is asked without *)
(* the lock.                                                               *)
WaitGivesUp(w) ==
    /\ At(w, "wait")
    /\ AskModel(w)
    /\ Disturb(key[w])
    /\ UNCHANGED <<database, redis, clock, generations, rate, own, answer, mine,
                   hadUsage, trace>>

-----------------------------------------------------------------------------
(* enforce_model counts the request, then the handler runs.                *)

StartHandler(w) ==
    /\ generations' = [generations EXCEPT ![key[w]] = @ + 1]
    /\ admitted' = [admitted EXCEPT ![minute] = @ + 1]
    /\ Goto(w, "generating")
    /\ UNCHANGED <<disturbed, trace>>

(* Mutant: one request too many.                                           *)
MutOverLimit == rpm[minute] > RpmLimit

(* The INCR has returned more than rpm_limit.                              *)
OverLimit == rpm[minute] >= RpmLimit

Count(w) ==
    /\ At(w, "count") /\ redisUp
    /\ rpm' = [rpm EXCEPT ![minute] = @ + 1]
    /\ IF OverLimit THEN Refuse(w) /\ UNCHANGED admitted ELSE StartHandler(w)
    /\ UNCHANGED <<database, redisUp, cached, lock, clock, uncounted, own, answer,
                   stage, mine, hadUsage>>

(* RedisError: the request goes on uncounted, though a command whose       *)
(* answer timed out may have been executed.                                *)
CountFails(w) ==
    /\ At(w, "count")
    /\ \/ ~redisUp /\ UNCHANGED <<rpm, clock>>
       \/ redisUp /\ Fault /\ rpm' = [rpm EXCEPT ![minute] = @ + 1]
    /\ uncounted' = [uncounted EXCEPT ![minute] = @ + 1]
    /\ StartHandler(w)
    /\ UNCHANGED <<database, redisUp, cached, lock, own, answer, stage, mine,
                   hadUsage>>

HandlerReturns(w, n, plain) ==
    /\ At(w, "generating")
    /\ cost' = [cost EXCEPT ![w] = n]
    /\ keeps' = [keeps EXCEPT ![w] = plain]
    /\ IF n > 0
         THEN Goto(w, "policy") /\ stage' = [stage EXCEPT ![w] = "record"]
         ELSE Goto(w, "finish") /\ UNCHANGED stage
    /\ UNCHANGED <<database, redis, clock, flight, rate, own, hit, mine, hadUsage,
                   trace>>

HandlerFails(w) ==
    /\ At(w, "generating")
    /\ Mark(w, "error")
    /\ Goto(w, "release")
    /\ Abandon(w)
    /\ UNCHANGED <<database, redis, clock, rate, own, answer, stage, mine, hadUsage>>

(* record_token_usage: one UPDATE adds to the column.                      *)
Charge(w) ==
    /\ At(w, "charge")
    /\ used' = used + cost[w]
    /\ spent' = spent + cost[w]
    /\ Goto(w, "finish")
    /\ UNCHANGED <<due, active, redis, clock, flight, rate, own, answer, stage,
                   mine, hadUsage, trace>>

(* _finish_model_call commits the span; a cached response is not stored.   *)
FinishTrace(w) ==
    /\ At(w, "finish")
    /\ Mark(w, "success")
    /\ Goto(w, IF hit[w] THEN "release" ELSE "store")
    /\ UNCHANGED <<database, redis, clock, flight, rate, own, answer, stage, mine,
                   hadUsage>>

(* store_response keeps plain text only, and a Redis failure is ignored.   *)
Store(w) ==
    /\ At(w, "store")
    /\ IF redisUp /\ keeps[w]
         THEN cached' = [cached EXCEPT ![key[w]] = TRUE] /\ UNCHANGED disturbed
         ELSE Disturb(key[w]) /\ UNCHANGED cached
    /\ Goto(w, "release")
    /\ UNCHANGED <<database, redisUp, lock, rpm, clock, generations, rate, own,
                   answer, stage, mine, hadUsage, trace>>

(* Mutant: the lock is deleted whoever holds it.                           *)
MutRelease(w) ==
    /\ At(w, "release")
    /\ lock' = IF mine[w] /\ redisUp THEN [lock EXCEPT ![key[w]] = Nobody] ELSE lock
    /\ mine' = [mine EXCEPT ![w] = FALSE]
    /\ Goto(w, "idle")
    /\ UNCHANGED <<database, redisUp, cached, rpm, clock, flight, rate, own, answer,
                   stage, hadUsage, trace>>

(* release_response_lock, in the finally block, compares the token.        *)
Release(w) ==
    /\ At(w, "release")
    /\ lock' = IF mine[w] /\ redisUp /\ lock[key[w]] = Token(w)
                 THEN [lock EXCEPT ![key[w]] = Nobody] ELSE lock
    /\ mine' = [mine EXCEPT ![w] = FALSE]
    /\ Goto(w, "idle")
    /\ UNCHANGED <<database, redisUp, cached, rpm, clock, flight, rate, own, answer,
                   stage, hadUsage, trace>>

-----------------------------------------------------------------------------
(* What may go wrong around a call.                                        *)

(* A statement fails.  Before the span exists the session is closed and    *)
(* the run fails; later _fail_trace tries to commit, which may fail too.   *)
DatabaseFails(w) ==
    /\ Fault /\ up[w]
    /\ pc[w] \in {"policy", "reset", "granted", "open", "charge", "finish"}
    /\ \/ /\ trace[w] = "none"
          /\ Goto(w, "idle") /\ UNCHANGED trace
       \/ /\ trace[w] = "running"
          /\ Goto(w, "release") /\ (Mark(w, "error") \/ UNCHANGED trace)
    /\ Abandon(w)
    /\ UNCHANGED <<database, redis, rate, own, answer, stage, mine, hadUsage>>

(* The run is cancelled at an await: only the finally block runs.          *)
Cancel(w) ==
    /\ Fault /\ up[w] /\ pc[w] \in {"wait", "generating"}
    /\ Goto(w, "release")
    /\ Abandon(w)
    /\ UNCHANGED <<database, redis, rate, own, answer, stage, mine, hadUsage,
                   trace>>

Crash(w) ==
    /\ Fault /\ up[w] /\ pc[w] # "idle"
    /\ up' = [up EXCEPT ![w] = FALSE]
    /\ Abandon(w)
    /\ UNCHANGED <<database, redis, rate, calls, key, answer, pc, stage, mine,
                   hadUsage, trace>>

(* Mutant: the lock is set without an expiry.                              *)
MutLockExpires(k) == FALSE /\ UNCHANGED vars

(* The TTL of the lock, however long its holder still works.               *)
LockExpires(k) ==
    /\ lock[k] # Nobody
    /\ lock' = [lock EXCEPT ![k] = Nobody]
    /\ Disturb(k)
    /\ UNCHANGED <<database, redisUp, cached, rpm, clock, generations, rate, own,
                   answer, pc, stage, mine, hadUsage, trace>>

ResponseExpires(k) ==
    /\ Fault /\ cached[k]
    /\ cached' = [cached EXCEPT ![k] = FALSE]
    /\ Disturb(k)
    /\ UNCHANGED <<database, redisUp, lock, rpm, generations, rate, own,
                   answer, pc, stage, mine, hadUsage, trace>>

(* Redis stops answering, and answers again with what it has kept.         *)
RedisDown ==
    /\ redisUp /\ Fault
    /\ redisUp' = FALSE
    /\ UNCHANGED <<database, cached, lock, rpm, flight, rate, own, answer, pc,
                   stage, mine, hadUsage, trace>>

RedisBack ==
    /\ ~redisUp
    /\ redisUp' = TRUE
    /\ UNCHANGED <<database, cached, lock, rpm, clock, flight, rate, own, answer,
                   pc, stage, mine, hadUsage, trace>>

NextMinute ==
    /\ minute < MaxMinute /\ Happens
    /\ minute' = minute + 1
    /\ UNCHANGED <<database, redis, flight, rate, own, answer, pc, stage, mine,
                   hadUsage, trace>>

(* The first of a month.                                                   *)
MonthEnds ==
    /\ ~due /\ Fault
    /\ due' = TRUE
    /\ UNCHANGED <<used, active, spent, redis, flight, rate, own, answer, pc,
                   stage, mine, hadUsage, trace>>

(* An administrator disables the account.                                  *)
Deactivate ==
    /\ Fault /\ active
    /\ active' = FALSE
    /\ UNCHANGED <<used, due, spent, redis, flight, rate, own, answer, pc,
                   stage, mine, hadUsage, trace>>

-----------------------------------------------------------------------------
Step(w) ==
    \/ PolicyIsDue(w) \/ ResetQuota(w) \/ PolicyDenies(w) \/ PolicyAllows(w)
    \/ OpenTrace(w)
    \/ Lookup(w) \/ Acquire(w) \/ DoubleCheck(w) \/ WaitGivesUp(w)
    \/ Count(w) \/ CountFails(w)
    \/ \E n \in 0..MaxCost, plain \in BOOLEAN : HandlerReturns(w, n, plain)
    \/ HandlerFails(w)
    \/ Charge(w) \/ FinishTrace(w) \/ Store(w) \/ Release(w)

Event ==
    \/ \E w \in Workers : AcquireUnanswered(w) \/ WaitHit(w)
    \/ \E w \in Workers : DatabaseFails(w) \/ Cancel(w) \/ Crash(w)
    \/ \E k \in Keys : LockExpires(k) \/ ResponseExpires(k)
    \/ RedisDown \/ RedisBack \/ NextMinute \/ MonthEnds \/ Deactivate

(* Every worker is dead or has made its calls.                             *)
Quiescent ==
    /\ \A w \in Workers : up[w] => pc[w] = "idle" /\ Started = MaxCalls
    /\ UNCHANGED vars

Next ==
    \/ \E w \in Workers, k \in Keys : Begin(w, k)
    \/ \E w \in Workers : Step(w)
    \/ Event
    \/ Quiescent

Spec == Init /\ [][Next]_vars

(* A live worker goes on: PostgreSQL and Redis answer or fail (statement   *)
(* and socket timeouts), the wait has a deadline and the model client a    *)
(* timeout.  Redis removes a key whose TTL is over.                        *)
FairSpec ==
    /\ Spec
    /\ \A w \in Workers : WF_vars(Step(w))
    /\ \A k \in Keys : WF_vars(LockExpires(k))

-----------------------------------------------------------------------------
(* Properties.                                                             *)

(* Equal requests are answered by one generation: the model is asked again *)
(* only after an event that leaves no response to wait for (a lock or a    *)
(* response expired, a wait was over, Redis failed, a generation was lost  *)
(* or is not cacheable), once per event.  acquire_lock, the second lookup  *)
(* and the release after the store work together for this.                 *)
SingleFlight == \A k \in Keys : generations[k] <= 1 + disturbed[k]

(* Calls that are checked concurrently may all pass with the last token of *)
(* the quota; each worker can exceed it by one response, no more.          *)
QuotaOvershoot == used = 0 \/ used < Quota + MaxCost * Cardinality(Workers)

(* Requests that Redis has counted keep to the limit in every minute.      *)
RpmHolds == \A m \in 1..MaxMinute : admitted[m] <= RpmLimit + uncounted[m]

(* A lock goes when its TTL is over or when the call that took it releases *)
(* it; a call that outlived its lock does not free its successor's.        *)
LockIsNotStolen ==
    [][\A k \in Keys : lock[k] # Nobody /\ lock'[k] # lock[k] =>
          /\ lock'[k] = Nobody
          /\ \/ disturbed'[k] > disturbed[k]
             \/ \E w \in Workers : lock[k] = Token(w) /\ At(w, "release")]_vars

(* Every call that is not killed is answered.                              *)
CallsEnd == \A w \in Workers : (pc[w] # "idle") ~> (pc[w] = "idle" \/ ~up[w])

(* No lock stays, also when its holder is dead or could not release it.    *)
LockIsFreed == \A k \in Keys : (lock[k] # Nobody) ~> (lock[k] = Nobody)

(* Token updates are atomic: no token charged in the current period is     *)
(* missing from the policy row.  Two calls that find the period over at    *)
(* the same time both renew it, and the later one erases what was charged  *)
(* in between.                                                             *)
UsageIsKept == used >= spent

-----------------------------------------------------------------------------
(* The inductive invariant of the proofs.                                  *)

InPolicy(w) == pc[w] \in {"policy", "reset", "granted"}

(* What a call has done so far fits the place where it is.                 *)
Fits(w) ==
    /\ pc[w] \in {"open", "lookup", "acquire", "double", "wait"} => stage[w] = "prepare"
    /\ pc[w] \in {"count", "generating"} => stage[w] = "enforce"
    /\ pc[w] = "charge" => stage[w] = "record"
    /\ hit[w] => pc[w] \in {"finish", "release", "idle"}
    /\ cost[w] <= MaxCost
    /\ trace[w] = "none" =>
          \/ pc[w] \in {"idle", "open"}
          \/ InPolicy(w) /\ stage[w] = "prepare"
    /\ mine[w] => /\ pc[w] \notin {"idle", "open", "lookup", "acquire", "wait"}
                  /\ InPolicy(w) => stage[w] # "prepare"

Progress == \A w \in Workers : Fits(w)

(* The call holds the lock of its key, and Redis still has it.             *)
Covered(w) == mine[w] /\ lock[key[w]] = Token(w)

(* The call has found no response and is about to ask the model.           *)
Cleared(w) ==
    \/ pc[w] = "count"
    \/ InPolicy(w) /\ stage[w] = "enforce"

(* A call that is to ask the model, with the lock and without it, and one  *)
(* whose response is to be stored while it has the lock.                   *)
Asking(w) == Covered(w) /\ Cleared(w)
Exposed(w) == ~Covered(w) /\ (pc[w] = "double" \/ Cleared(w))
Producing(w) == Covered(w) /\ Unstored(w)

(* For each of these calls an event has been counted.                      *)
Unguarded(k) == {w \in Workers : key[w] = k /\ Exposed(w)}

(* The response of the latest generation is stored, or will be while the   *)
(* lock is held.                                                           *)
Answered(k) == cached[k] \/ \E w \in Workers : key[w] = k /\ Producing(w)

(* Generations, made and announced, beyond the events that explain them.   *)
Excess(k) == generations[k] + Cardinality(Unguarded(k)) - disturbed[k]

Flights ==
    /\ \A k \in Keys : Excess(k) <= IF Answered(k) THEN 1 ELSE 0
    /\ \A w \in Workers : Asking(w) => Excess(key[w]) <= 0

(* Calls that have passed the quota check and not charged their tokens.    *)
Checked ==
    {w \in Workers : \/ pc[w] \in {"count", "generating", "charge"}
                     \/ InPolicy(w) /\ stage[w] = "record"}

Charges ==
    /\ \/ used = 0
       \/ used < Quota + MaxCost * (Cardinality(Workers) - Cardinality(Checked))
    /\ Checked # {} => Quota > 0

Rate == \A m \in 1..MaxMinute :
    /\ admitted[m] <= uncounted[m] + rpm[m]
    /\ admitted[m] <= uncounted[m] + RpmLimit

IInv == TypeOK /\ Progress /\ Flights /\ Charges /\ Rate

=============================================================================
