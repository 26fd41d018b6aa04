------------------------- MODULE RunLifecycle_proofs -------------------------
(***************************************************************************)
(* The inductive invariant of RunLifecycle, for any number of threads,     *)
(* runs, clean-ups and troubles.                                           *)
(***************************************************************************)
EXTENDS RunLifecycle, TLAPS

\* The parts of the session that the four relations speak of.
Rest == ActiveIsLive /\ SettlingHasItsJob /\ LoadingIsWatched /\ TrackerIsWatched

-----------------------------------------------------------------------------
(* The helpers on the session record. *)

\* A new session is a session in which nothing is under way.
LEMMA NewSessionType ==
    ASSUME NEW t \in ThreadRef
    PROVE  /\ NewSession(t) \in TabRecord
           /\ NewSession(t).active = 0 /\ ~NewSession(t).settling
           /\ ~NewSession(t).loading /\ NewSession(t).tracker = "off"
BY BoundsAssumption DEF NewSession, TabRecord, ThreadRef

\* Clearing the timers leaves everything else alone.
LEMMA ClearedType ==
    ASSUME NEW s \in TabRecord
    PROVE  /\ Cleared(s) \in TabRecord
           /\ Cleared(s).tracker = "off"
           /\ Cleared(s).active = s.active /\ Cleared(s).loading = s.loading
           /\ Cleared(s).settling = s.settling /\ Cleared(s).latest = s.latest
           /\ Cleared(s).cancelOf = s.cancelOf /\ Cleared(s).was = s.was
BY DEF Cleared, TabRecord, ThreadRef

\* Arming starts the watchdog and leaves everything else alone.
LEMMA ArmedType ==
    ASSUME NEW s \in TabRecord, NEW t \in ThreadRef
    PROVE  /\ Armed(s, t) \in TabRecord
           /\ Armed(s, t).timer
           /\ Armed(s, t).active = s.active /\ Armed(s, t).loading = s.loading
           /\ Armed(s, t).settling = s.settling /\ Armed(s, t).latest = s.latest
           /\ Armed(s, t).cancelOf = s.cancelOf /\ Armed(s, t).was = s.was
BY DEF Armed, TabRecord, ThreadRef

\* The thread a stop aims at is a thread or none.
LEMMA TargetType ==
    ASSUME NEW s \in TabRecord
    PROVE  StopTarget(s) \in ThreadRef /\ TimedThread(s) \in ThreadRef
BY DEF StopTarget, TimedThread, Or, TabRecord

\* Replacing the controllers leaves what is known of each run well typed.
LEMMA DetachedType ==
    ASSUME TypeOK, NEW c \in [Runs -> CallRecord]
    PROVE  Detached(c) \in [Runs -> CallRecord]
BY DEF TypeOK, Detached, Closed, CallRecord, TabRecord, ThreadRef

\* So does leaving them behind.
LEMMA UnmountedType ==
    ASSUME TypeOK
    PROVE  Unmounted(call) \in [Runs -> CallRecord]
<1>1. \A r \in Runs : Or(IF call[r].live THEN tab.ctrl ELSE call[r].home, tab.url) \in ThreadRef
  BY DEF TypeOK, Or, CallRecord, TabRecord
<1>2. call \in [Runs -> CallRecord] /\ Closed \in CallRecord
  BY DEF TypeOK, Closed, CallRecord, ThreadRef
<1> QED BY <1>1, <1>2 DEF Unmounted, CallRecord

\* Cancelling runs keeps the runs well typed.
LEMMA CancelledType ==
    ASSUME TypeOK, NEW t, NEW ids
    PROVE  CancelledAt(t, ids) \in [Runs -> RunRecord]
BY DEF TypeOK, CancelledAt, RunRecord, Ended

\* A clean-up that starts knows the active run at most.
LEMMA StartedType ==
    ASSUME NEW s \in TabRecord, NEW t \in ThreadRef, NEW o \in BOOLEAN
    PROVE  /\ StartedJob(t, KnownRun(s, t), o) \in JobRecord
           /\ StartedJob(t, KnownRun(s, t), o).busy
           /\ StartedJob(t, KnownRun(s, t), o).ours = o
           /\ StartedJob(t, KnownRun(s, t), o).thread = t
<1>1. KnownRun(s, t) \in SUBSET Runs
  BY DEF KnownRun, TabRecord, Runs
<1> QED BY <1>1 DEF StartedJob, JobRecord

-----------------------------------------------------------------------------
(* stopCurrentRun, from a session s that differs from the current one in the *)
(* refs its caller has set.                                                 *)

LEMMA StopRunStep ==
    ASSUME TypeOK, SettlingHasItsJob,
           NEW s \in TabRecord, NEW target \in ThreadRef, NEW cancel \in BOOLEAN,
           s.settling = tab.settling, s.latest = tab.latest, s.cancelOf = tab.cancelOf,
           NEW c \in [Runs -> CallRecord], StopRun(s, c, target, cancel)
    PROVE  /\ call' \in [Runs -> CallRecord] /\ tab' \in TabRecord
           /\ jobs' \in [Jobs -> JobRecord]
           /\ Rest'
<1> DEFINE stopped == [Cleared(s) EXCEPT !.active = 0, !.activeThread = NoThread,
                                         !.loading = FALSE, !.ctrl = s.url]
<1>1. /\ stopped \in TabRecord /\ stopped.active = 0 /\ ~stopped.loading
      /\ stopped.tracker = "off" /\ stopped.settling = tab.settling
      /\ stopped.latest = tab.latest /\ stopped.cancelOf = tab.cancelOf
  <2>1. Cleared(s) \in TabRecord /\ Cleared(s).tracker = "off"
        /\ Cleared(s).settling = tab.settling /\ Cleared(s).latest = tab.latest
        /\ Cleared(s).cancelOf = tab.cancelOf
    BY ClearedType
  <2>2. 0 \in 0..MaxRuns /\ NoThread \in ThreadRef /\ s.url \in ThreadRef
    BY BoundsAssumption DEF TabRecord, ThreadRef
  <2> QED BY <2>1, <2>2 DEF TabRecord
<1>2. call' \in [Runs -> CallRecord]
  BY DetachedType DEF StopRun
<1>4. CASE cancel /\ target # NoThread
  <2>1. PICK j \in Jobs :
          /\ jobs' = [jobs EXCEPT ![j] = StartedJob(target, KnownRun(s, target), TRUE)]
          /\ tab' = [stopped EXCEPT !.settling = TRUE, !.cancelOf = target, !.latest = j]
    BY <1>4 DEF StopRun
  <2>2. jobs' \in [Jobs -> JobRecord]
    BY <2>1, StartedType DEF TypeOK
  <2>3. /\ tab' \in TabRecord /\ tab'.active = 0 /\ ~tab'.loading /\ tab'.tracker = "off"
        /\ tab'.settling /\ tab'.cancelOf = target /\ tab'.latest = j
    BY <1>1, <2>1 DEF TabRecord
  <2>4. jobs'[j].busy /\ jobs'[j].ours /\ jobs'[j].thread = target
    BY <2>1, StartedType DEF TypeOK
  <2> QED
    BY <1>2, <2>2, <2>3, <2>4
    DEF Rest, ActiveIsLive, SettlingHasItsJob, LoadingIsWatched, TrackerIsWatched
<1>5. CASE ~(cancel /\ target # NoThread)
  <2>1. jobs' = jobs /\ tab' = stopped
    BY <1>5 DEF StopRun
  <2> QED
    BY <1>1, <1>2, <2>1
    DEF TypeOK, Rest, ActiveIsLive, SettlingHasItsJob, LoadingIsWatched, TrackerIsWatched
<1> QED BY <1>4, <1>5

\* A move to another thread, on its own or because a stray thread id is told.
LEMMA MoveToStep ==
    ASSUME TypeOK, Rest, NEW t \in ThreadRef, NEW c \in [Runs -> CallRecord],
           \A r \in Runs : c[r].live = call[r].live /\ c[r].stream = call[r].stream,
           MoveTo(t, c)
    PROVE  /\ call' \in [Runs -> CallRecord] /\ tab' \in TabRecord
           /\ jobs' \in [Jobs -> JobRecord]
           /\ Rest'
<1> DEFINE moved == [tab EXCEPT !.url = t, !.runThread = t]
<1>0. tab \in TabRecord /\ SettlingHasItsJob
  BY DEF TypeOK, Rest
<1>1. /\ moved \in TabRecord /\ moved.settling = tab.settling
      /\ moved.latest = tab.latest /\ moved.cancelOf = tab.cancelOf
      /\ moved.active = tab.active /\ moved.timer = tab.timer /\ moved.tracker = tab.tracker
  BY <1>0 DEF TabRecord
<1>2. CASE StopRun(moved, c, StopTarget(tab), TRUE)
  BY <1>0, <1>1, <1>2, StopRunStep, TargetType
<1>3. CASE tab' = [moved EXCEPT !.loading = FALSE] /\ call' = c /\ UNCHANGED jobs
  <2>1. /\ tab' \in TabRecord
        /\ tab'.settling = tab.settling /\ tab'.latest = tab.latest /\ ~tab'.loading
        /\ tab'.cancelOf = tab.cancelOf /\ tab'.active = tab.active
        /\ tab'.timer = tab.timer /\ tab'.tracker = tab.tracker
    BY <1>1, <1>3 DEF TabRecord
  <2>2. ActiveIsLive'
    BY <1>0, <1>3, <2>1 DEF Rest, ActiveIsLive, TabRecord, Runs
  <2> QED
    BY <1>3, <2>1, <2>2
    DEF TypeOK, Rest, SettlingHasItsJob, LoadingIsWatched, TrackerIsWatched
<1> QED BY <1>2, <1>3 DEF MoveTo

-----------------------------------------------------------------------------
(* Every step keeps the types. *)

LEMMA TypesKept ==
    ASSUME TypeOK, Rest, [Next]_vars
    PROVE  TypeOK'
<1> USE BoundsAssumption DEF server, history
<1>R. SettlingHasItsJob
  BY DEF Rest
<1>0. /\ run \in [Runs -> RunRecord] /\ log \in Seq(Runs) /\ threads \subseteq Threads
      /\ call \in [Runs -> CallRecord] /\ tab \in TabRecord /\ jobs \in [Jobs -> JobRecord]
      /\ wanted \subseteq Runs /\ exposed \subseteq Runs /\ missed \subseteq Runs
      /\ troubles \in Nat
  BY DEF TypeOK
<1>T. tab.url \in ThreadRef /\ tab.ctrl \in ThreadRef
  BY <1>0 DEF TabRecord
<1>U. Trouble => troubles' \in Nat
  BY <1>0 DEF Trouble
<1>Z. 0 \in 0..MaxRuns /\ NoThread \in ThreadRef
  BY DEF ThreadRef
<1>L. LiveRuns \subseteq Runs /\ \A x : Aimed(x) \subseteq Runs
  BY DEF LiveRuns, Aimed, Submitted
<1>X. ASSUME NEW r \in Runs, NEW b \in BOOLEAN, Send(r, b), tab' \in TabRecord PROVE TypeOK'
  <2>1. call' \in [Runs -> CallRecord]
    BY <1>X, <1>0 DEF Send, Closed, CallRecord, ThreadRef
  <2>2. run' \in [Runs -> RunRecord]
    BY <1>X, <1>0, <1>T DEF Send, RunRecord
  <2> QED BY <1>X, <1>0, <2>1, <2>2 DEF Send, TypeOK
<1>1. ASSUME NEW r \in Runs, Submit(r) PROVE TypeOK'
  <2> DEFINE s == [tab EXCEPT !.runThread = tab.url, !.ctrl = tab.url, !.active = 0,
                              !.activeThread = NoThread, !.started = Len(log) + 1,
                              !.loading = TRUE]
  <2>1. Len(log) + 1 \in Nat
    BY <1>0
  <2>2. s \in TabRecord
    BY <1>0, <1>T, <1>Z, <2>1 DEF TabRecord
  <2>3. tab' = Armed(s, tab.url) /\ Send(r, FALSE)
    BY <1>1 DEF Submit
  <2> QED BY <1>X, <1>T, <2>2, <2>3, ArmedType
<1>2. ASSUME NEW r \in Runs, Respond(r) PROVE TypeOK'
  <2> DEFINE s == [tab EXCEPT !.runThread = tab.url, !.started = 0]
  <2>1. s \in TabRecord
    BY <1>0, <1>T DEF TabRecord
  <2>2. tab' = [Armed(s, tab.url) EXCEPT !.tracker = "waiting"]
    BY <1>2 DEF Respond
  <2>3. tab' \in TabRecord
    <3>1. Armed(s, tab.url) \in TabRecord
      BY <1>T, <2>1, ArmedType
    <3> QED BY <2>2, <3>1 DEF TabRecord
  <2> QED BY <1>2, <1>X, <2>3 DEF Respond
<1>S. ASSUME NEW s \in TabRecord, NEW target \in ThreadRef, NEW cancel \in BOOLEAN,
             s.settling = tab.settling, s.latest = tab.latest, s.cancelOf = tab.cancelOf,
             StopRun(s, call, target, cancel), UNCHANGED server, wanted' \subseteq Runs,
             exposed' \subseteq Runs, UNCHANGED missed, troubles' \in Nat
      PROVE  TypeOK'
  BY <1>S, <1>0, <1>R, StopRunStep DEF TypeOK
<1>3. ASSUME StopButton PROVE TypeOK'
  BY <1>3, <1>S, <1>0, <1>L, TargetType DEF StopButton
<1>4. ASSUME NEW t \in ThreadRef, OpenThread(t) PROVE TypeOK'
  <2>1. /\ call' \in [Runs -> CallRecord] /\ tab' \in TabRecord
        /\ jobs' \in [Jobs -> JobRecord]
    BY <1>4, <1>0, MoveToStep DEF OpenThread
  <2> QED BY <1>4, <1>0, <1>L, <1>U, <2>1 DEF OpenThread, TypeOK
<1>5. ASSUME NEW r \in Runs, NEW t \in Threads, OnThreadId(r, t) PROVE TypeOK'
  <2> DEFINE home == IF call[r].live THEN t ELSE tab.ctrl
             blamed == IF tab.timer /\ tab.watch = NoThread THEN t ELSE tab.watch
             told == [tab EXCEPT !.url = t, !.runThread = t, !.ctrl = home, !.watch = blamed]
  <2>0. home \in ThreadRef /\ blamed \in ThreadRef /\ t \in ThreadRef /\ blamed \in {t, tab.watch}
    BY <1>0 DEF TabRecord, ThreadRef
  <2>1. told \in TabRecord
    <3> HIDE DEF home, blamed
    <3> QED BY <1>0, <2>0 DEF TabRecord
  <2>2. tab' = (IF tab.loading THEN Armed(told, t) ELSE told)
    BY <1>5 DEF OnThreadId
  <2>3. tab' \in TabRecord
    BY <2>1, <2>2, ArmedType DEF ThreadRef
  <2>4. run' \in [Runs -> RunRecord]
    BY <1>5, <1>0 DEF OnThreadId, NewThread, RunRecord, ThreadRef
  <2>5. call' \in [Runs -> CallRecord]
    BY <1>5, <1>0 DEF OnThreadId, CallRecord, ThreadRef
  <2> QED BY <1>5, <1>0, <1>L, <2>3, <2>4, <2>5 DEF OnThreadId, NewThread, TypeOK
<1>L5. ASSUME NEW r \in Runs, NEW t \in Threads, OnThreadIdLate(r, t) PROVE TypeOK'
  <2> DEFINE c == [call EXCEPT ![r].home = t]
  <2>1. c \in [Runs -> CallRecord]
        /\ \A q \in Runs : c[q].live = call[q].live /\ c[q].stream = call[q].stream
    BY <1>0 DEF CallRecord, ThreadRef
  <2>2. t \in ThreadRef /\ MoveTo(t, c)
    BY <1>L5 DEF OnThreadIdLate, ThreadRef
  <2> HIDE DEF c
  <2>3. /\ call' \in [Runs -> CallRecord] /\ tab' \in TabRecord
        /\ jobs' \in [Jobs -> JobRecord]
    BY <2>1, <2>2, MoveToStep
  <2>4. run' \in [Runs -> RunRecord]
    BY <1>L5, <1>0 DEF OnThreadIdLate, NewThread, RunRecord, ThreadRef
  <2> QED BY <1>L5, <1>0, <1>L, <2>3, <2>4 DEF OnThreadIdLate, NewThread, TypeOK
<1>C. ASSUME NEW t, NEW r \in Runs, CancelRunExactly(t, r)
      PROVE  run' \in [Runs -> RunRecord] /\ troubles' \in Nat /\ missed' \subseteq Runs
  BY <1>C, <1>0, <1>U, CancelledType DEF CancelRunExactly
<1>6. ASSUME NEW r \in Runs, OnCreated(r) PROVE TypeOK'
  <2> DEFINE home == Or(IF call[r].live THEN tab.ctrl ELSE call[r].home, tab.url)
  <2>1. home \in ThreadRef
    BY <1>0, <1>T DEF Or, CallRecord
  <2>2. call' \in [Runs -> CallRecord]
    BY <1>6, <1>0 DEF OnCreated, CallRecord, Closed, ThreadRef
  <2>3. CASE UNCHANGED tab /\ CancelRunExactly(home, r)
    BY <1>6, <1>0, <1>C, <2>2, <2>3 DEF OnCreated, TypeOK
  <2>5. CASE UNCHANGED <<tab, run, troubles, missed>>
    BY <1>6, <1>0, <2>2, <2>5 DEF OnCreated, TypeOK
  <2>4. CASE /\ tab' = [tab EXCEPT !.active = r, !.activeThread = home]
             /\ UNCHANGED <<run, troubles, missed>>
    <3>0. r \in 0..MaxRuns
      BY DEF Runs
    <3>1. tab' \in TabRecord
      BY <1>0, <2>1, <2>4, <3>0 DEF TabRecord
    <3> QED BY <1>6, <1>0, <2>2, <2>4, <3>1 DEF OnCreated, TypeOK
  <2> QED BY <1>6, <2>3, <2>4, <2>5 DEF OnCreated
<1>7. ASSUME NEW r \in Runs, SeesRunning(r) PROVE TypeOK'
  <2>1. tab' \in TabRecord
    BY <1>7, <1>0 DEF SeesRunning, TabRecord
  <2> QED BY <1>7, <1>0, <2>1 DEF SeesRunning, TypeOK
<1>8. ASSUME ReplaysPause PROVE TypeOK'
  BY <1>8, <1>0, ClearedType DEF ReplaysPause, TypeOK
<1>9. ASSUME NEW r \in Runs, OnCompleted(r) PROVE TypeOK'
  <2>1. Completed(tab, r) \in TabRecord
    <3>1. [tab EXCEPT !.active = 0, !.activeThread = NoThread] \in TabRecord
      BY <1>0, <1>Z DEF TabRecord
    <3> QED BY <1>0, <3>1, ClearedType DEF Completed
  <2>2. [Completed(tab, r) EXCEPT !.loading = FALSE] \in TabRecord
    BY <2>1 DEF TabRecord
  <2>3. tab' \in TabRecord
    BY <1>9, <2>2, ClearedType DEF OnCompleted
  <2>4. call' \in [Runs -> CallRecord]
    BY <1>9, <1>0 DEF OnCompleted, CallRecord, Closed, ThreadRef
  <2> QED BY <1>9, <1>0, <2>3, <2>4 DEF OnCompleted, TypeOK
<1>10. ASSUME NEW r \in Runs, StreamLost(r) PROVE TypeOK'
  <2>1. call' \in [Runs -> CallRecord]
    BY <1>10, <1>0 DEF StreamLost, CallRecord
  <2> QED BY <1>10, <1>0, <1>U, <2>1 DEF StreamLost, TypeOK
<1>11. ASSUME NEW r \in Runs, SubmitRejected(r) PROVE TypeOK'
  <2>1. call' \in [Runs -> CallRecord]
    BY <1>11, <1>0 DEF SubmitRejected, CallRecord, Closed, ThreadRef
  <2>2. tab' \in TabRecord
    <3>1. Cleared(tab) \in TabRecord
      BY <1>0, ClearedType
    <3>2. CASE tab' = [Cleared(tab) EXCEPT !.loading = FALSE]
      BY <3>1, <3>2 DEF TabRecord
    <3>3. CASE tab' = tab
      BY <1>0, <3>3
    <3>4. CASE tab' = [Cleared(tab) EXCEPT !.bared = tab.loading /\ tab.was]
      <4>1. (tab.loading /\ tab.was) \in BOOLEAN
        BY <1>0 DEF TabRecord
      <4> QED BY <3>1, <3>4, <4>1 DEF TabRecord
    <3> QED BY <1>11, <3>2, <3>3, <3>4 DEF SubmitRejected
  <2> QED BY <1>11, <1>0, <1>U, <2>1, <2>2 DEF SubmitRejected, TypeOK
<1>12. ASSUME NEW r \in Runs, Attach(r) PROVE TypeOK'
  <2>1. call' \in [Runs -> CallRecord]
    BY <1>12, <1>0 DEF Attach, Closed, CallRecord, ThreadRef
  <2>2. tab' \in TabRecord
    BY <1>12, <1>0 DEF Attach, TabRecord
  <2> QED BY <1>12, <1>0, <2>1, <2>2 DEF Attach, TypeOK
<1>13. ASSUME NEW r \in Runs, CreateRun(r) \/ BeginRun(r) \/ EndRun(r) PROVE TypeOK'
  <2>1. run' \in [Runs -> RunRecord]
    <3>1. CASE CreateRun(r)
      BY <3>1, <1>0 DEF CreateRun, RunRecord, Unfinished
    <3>2. CASE BeginRun(r)
      BY <3>2, <1>0 DEF BeginRun, RunRecord, Unfinished
    <3>3. CASE EndRun(r)
      <4>1. PICK x \in {"done", "paused"} : run' = [run EXCEPT ![r].status = x]
        BY <3>3 DEF EndRun
      <4> QED BY <4>1, <1>0 DEF RunRecord, Ended
    <3> QED BY <1>13, <3>1, <3>2, <3>3
  <2>2. log' \in Seq(Runs)
    <3>1. log' = Append(log, r) \/ log' = log
      BY <1>13 DEF CreateRun, BeginRun, EndRun
    <3>2. Append(log, r) \in Seq(Runs)
      BY <1>0
    <3> QED BY <1>0, <3>1, <3>2
  <2>3. missed' \subseteq Runs
    BY <1>13, <1>0 DEF CreateRun, BeginRun, EndRun
  <2> QED BY <1>13, <1>0, <2>1, <2>2, <2>3 DEF CreateRun, BeginRun, EndRun, TypeOK
<1>14. ASSUME LoadingEffect PROVE TypeOK'
  <2>1. [tab EXCEPT !.was = TRUE] \in TabRecord /\ [tab EXCEPT !.was = FALSE] \in TabRecord
    BY <1>0 DEF TabRecord
  <2>2. tab' \in TabRecord
    BY <1>14, <1>0, <2>1, ArmedType, ClearedType, TargetType DEF LoadingEffect
  <2> QED BY <1>14, <1>0, <2>2 DEF LoadingEffect, TypeOK
<1>15. ASSUME Timeout PROVE TypeOK'
  <2> DEFINE s == [tab EXCEPT !.timer = FALSE]
  <2>1. /\ s \in TabRecord /\ s.settling = tab.settling
        /\ s.latest = tab.latest /\ s.cancelOf = tab.cancelOf
    BY <1>0 DEF TabRecord
  <2> QED BY <1>15, <1>S, <1>0, <1>L, <2>1, TargetType DEF Timeout
<1>16. ASSUME Reconcile PROVE TypeOK'
  <2> DEFINE s == [tab EXCEPT !.poll = FALSE]
             target == Or(tab.activeThread, TimedThread(tab))
  <2>1. /\ s \in TabRecord /\ s.settling = tab.settling
        /\ s.latest = tab.latest /\ s.cancelOf = tab.cancelOf
    BY <1>0 DEF TabRecord
  <2>2. target \in ThreadRef
    BY <1>0, TargetType DEF Or, TabRecord
  <2>3. StopRun(s, call, target, FALSE) /\ exposed' \subseteq Runs
    BY <1>16, <1>0, <1>L DEF Reconcile
  <2> QED BY <1>16, <1>S, <1>0, <2>1, <2>2, <2>3 DEF Reconcile
<1>17. ASSUME Remount PROVE TypeOK'
  <2> DEFINE orphaned == [j \in Jobs |-> [jobs[j] EXCEPT !.ours = FALSE]]
  <2>1. orphaned \in [Jobs -> JobRecord]
    BY <1>0 DEF JobRecord
  <2>2. jobs' \in [Jobs -> JobRecord]
    <3>1. StopTarget(tab) \in ThreadRef
      BY <1>0, TargetType
    <3>2. StartedJob(StopTarget(tab), KnownRun(tab, StopTarget(tab)), FALSE) \in JobRecord
      BY <1>0, <3>1, StartedType
    <3>3. \/ jobs' = orphaned
          \/ \E j \in Jobs : jobs' = [orphaned EXCEPT ![j] =
                StartedJob(StopTarget(tab), KnownRun(tab, StopTarget(tab)), FALSE)]
      BY <1>17 DEF Remount
    <3> QED BY <2>1, <3>2, <3>3
  <2>3. call' \in [Runs -> CallRecord] /\ tab' \in TabRecord
    BY <1>17, <1>T, UnmountedType, NewSessionType DEF Remount
  <2>4. wanted' \subseteq Runs
    BY <1>17, <1>0, <1>L DEF Remount
  <2> QED BY <1>17, <1>0, <1>U, <2>2, <2>3, <2>4 DEF Remount, TypeOK
<1>18. ASSUME NEW j \in Jobs, CancelKnown(j) PROVE TypeOK'
  <2>1. jobs' \in [Jobs -> JobRecord]
    BY <1>18, <1>0 DEF CancelKnown, JobRecord
  <2> QED BY <1>18, <1>0, <1>U, <2>1, CancelledType DEF CancelKnown, TypeOK
<1>19. ASSUME NEW j \in Jobs, NEW s \in Unfinished, ListRuns(j, s) PROVE TypeOK'
  <2>0. Found(j, s) \subseteq Runs
    BY DEF Found, OnThread
  <2>1. jobs' \in [Jobs -> JobRecord] /\ troubles' \in Nat /\ missed' \subseteq Runs
    BY <1>19, <1>0, <1>U, <2>0 DEF ListRuns, JobRecord
  <2> QED BY <1>19, <1>0, <2>1 DEF ListRuns, TypeOK
<1>20. ASSUME NEW j \in Jobs, CancelMany(j) PROVE TypeOK'
  <2>1. jobs' \in [Jobs -> JobRecord]
    BY <1>20, <1>0 DEF CancelMany, JobRecord, FreeJob, ThreadRef
  <2>2. tab' \in TabRecord
    BY <1>20, <1>0 DEF CancelMany, Settled, TabRecord, ThreadRef
  <2>3. run' \in [Runs -> RunRecord] /\ troubles' \in Nat /\ missed' \subseteq Runs
    <3>1. jobs[j].ids \subseteq Runs
      BY <1>0 DEF JobRecord
    <3> QED BY <1>20, <1>0, <1>U, <3>1, CancelledType DEF CancelMany
  <2> QED BY <1>20, <1>0, <2>1, <2>2, <2>3 DEF CancelMany, TypeOK
<1>21. CASE UNCHANGED vars
  BY <1>21, <1>0 DEF vars, TypeOK
<1> QED
  BY <1>0, <1>1, <1>2, <1>3, <1>4, <1>5, <1>6, <1>7, <1>8, <1>9, <1>10, <1>11, <1>12, <1>13,
     <1>14, <1>15, <1>16, <1>17, <1>18, <1>19, <1>20, <1>21, <1>L5
  DEF Next, ThreadRef

-----------------------------------------------------------------------------
(* Every step keeps the relations between the session, its runs and its     *)
(* clean-ups.                                                               *)

LEMMA RestKept ==
    ASSUME TypeOK, Rest, [Next]_vars
    PROVE  Rest'
<1> USE BoundsAssumption DEF server, history
<1>0. /\ call \in [Runs -> CallRecord] /\ tab \in TabRecord /\ jobs \in [Jobs -> JobRecord]
  BY DEF TypeOK
<1>R. ActiveIsLive /\ SettlingHasItsJob /\ LoadingIsWatched /\ TrackerIsWatched
  BY DEF Rest
<1>T. tab.url \in ThreadRef /\ 0 \in 0..MaxRuns /\ NoThread \in ThreadRef
  BY <1>0 DEF TabRecord, ThreadRef
\* A step that leaves the clean-ups alone, and what the session knows of them.
<1>J. ASSUME UNCHANGED jobs, tab'.settling = tab.settling, tab'.latest = tab.latest,
             tab'.cancelOf = tab.cancelOf
      PROVE  SettlingHasItsJob'
  BY <1>J, <1>R DEF SettlingHasItsJob
\* A step that leaves the session alone.
<1>A. ASSUME UNCHANGED tab PROVE LoadingIsWatched' /\ TrackerIsWatched'
  BY <1>A, <1>R DEF LoadingIsWatched, TrackerIsWatched
\* A submission is one no controller has known before.
<1>N. ASSUME NEW r \in Runs, NextRun(r) PROVE tab.active # r
  BY <1>N, <1>0, <1>R DEF NextRun, Submitted, ActiveIsLive, TabRecord, Runs
<1>1. ASSUME NEW r \in Runs, Submit(r) PROVE Rest'
  <2> DEFINE s == [tab EXCEPT !.runThread = tab.url, !.ctrl = tab.url, !.active = 0,
                              !.activeThread = NoThread, !.started = Len(log) + 1,
                              !.loading = TRUE]
  <2>1. Len(log) + 1 \in Nat
    BY DEF TypeOK
  <2>2. /\ s \in TabRecord /\ s.active = 0 /\ s.settling = tab.settling
        /\ s.latest = tab.latest /\ s.cancelOf = tab.cancelOf
    BY <1>0, <1>T, <2>1 DEF TabRecord
  <2>3. tab' = Armed(s, tab.url) /\ UNCHANGED jobs
    BY <1>1 DEF Submit, Send
  <2>4. /\ tab'.timer /\ tab'.active = 0 /\ tab'.settling = tab.settling
        /\ tab'.latest = tab.latest /\ tab'.cancelOf = tab.cancelOf
    BY <1>T, <2>2, <2>3, ArmedType
  <2> QED
    BY <1>J, <2>3, <2>4 DEF Rest, ActiveIsLive, LoadingIsWatched, TrackerIsWatched
<1>2. ASSUME NEW r \in Runs, Respond(r) PROVE Rest'
  <2> DEFINE s == [tab EXCEPT !.runThread = tab.url, !.started = 0]
             armed == Armed(s, tab.url)
  <2>1. /\ s \in TabRecord /\ s.active = tab.active /\ s.settling = tab.settling
        /\ s.latest = tab.latest /\ s.cancelOf = tab.cancelOf
    BY <1>0, <1>T DEF TabRecord
  <2>2. /\ armed \in TabRecord /\ armed.timer /\ armed.active = tab.active
        /\ armed.settling = tab.settling /\ armed.latest = tab.latest
        /\ armed.cancelOf = tab.cancelOf
    BY <1>T, <2>1, ArmedType
  <2>3. tab' = [armed EXCEPT !.tracker = "waiting"] /\ UNCHANGED jobs
    BY <1>2 DEF Respond, Send
  <2>4. /\ tab'.timer /\ tab'.active = tab.active /\ tab'.settling = tab.settling
        /\ tab'.latest = tab.latest /\ tab'.cancelOf = tab.cancelOf
    BY <2>2, <2>3 DEF TabRecord
  <2>5. ActiveIsLive'
    BY <1>0, <1>2, <1>N, <1>R, <2>4 DEF Respond, Send, ActiveIsLive, TabRecord, Runs
  <2> QED
    BY <1>J, <2>3, <2>4, <2>5 DEF Rest, LoadingIsWatched, TrackerIsWatched
<1>3. ASSUME StopButton PROVE Rest'
  BY <1>3, <1>0, <1>R, StopRunStep, TargetType DEF StopButton
<1>4. ASSUME NEW t \in ThreadRef, OpenThread(t) PROVE Rest'
  BY <1>4, <1>0, MoveToStep DEF OpenThread
<1>L5. ASSUME NEW r \in Runs, NEW t \in Threads, OnThreadIdLate(r, t) PROVE Rest'
  <2> DEFINE c == [call EXCEPT ![r].home = t]
  <2>1. c \in [Runs -> CallRecord]
        /\ \A q \in Runs : c[q].live = call[q].live /\ c[q].stream = call[q].stream
    BY <1>0 DEF CallRecord, ThreadRef
  <2>2. t \in ThreadRef /\ MoveTo(t, c)
    BY <1>L5 DEF OnThreadIdLate, ThreadRef
  <2> HIDE DEF c
  <2> QED BY <2>1, <2>2, MoveToStep
<1>5. ASSUME NEW r \in Runs, NEW t \in Threads, OnThreadId(r, t) PROVE Rest'
  <2> DEFINE home == IF call[r].live THEN t ELSE tab.ctrl
             blamed == IF tab.timer /\ tab.watch = NoThread THEN t ELSE tab.watch
             told == [tab EXCEPT !.url = t, !.runThread = t, !.ctrl = home, !.watch = blamed]
  <2>0. home \in ThreadRef /\ blamed \in ThreadRef /\ t \in ThreadRef /\ blamed \in {t, tab.watch}
    BY <1>0 DEF TabRecord, ThreadRef
  <2>1. /\ told \in TabRecord /\ told.settling = tab.settling
        /\ told.latest = tab.latest /\ told.cancelOf = tab.cancelOf
        /\ told.active = tab.active /\ told.timer = tab.timer /\ told.tracker = tab.tracker
        /\ told.loading = tab.loading
    <3> HIDE DEF home, blamed
    <3> QED BY <1>0, <2>0 DEF TabRecord
  <2>2. tab' = (IF tab.loading THEN Armed(told, t) ELSE told) /\ UNCHANGED jobs
    BY <1>5 DEF OnThreadId
  <2> HIDE DEF told
  <2>3. /\ tab'.settling = tab.settling /\ tab'.latest = tab.latest
        /\ tab'.cancelOf = tab.cancelOf /\ tab'.active = tab.active
        /\ (tab'.loading \/ tab.timer) => tab'.timer
    <3>1. CASE tab.loading
      <4>1. tab' = Armed(told, t) /\ t \in ThreadRef
        BY <2>2, <3>1 DEF ThreadRef
      <4>2. told \in TabRecord
        BY <2>1
      <4>3. /\ Armed(told, t).timer /\ Armed(told, t).active = told.active
            /\ Armed(told, t).settling = told.settling /\ Armed(told, t).latest = told.latest
            /\ Armed(told, t).cancelOf = told.cancelOf
        BY <4>1, <4>2, ArmedType
      <4> QED BY <2>1, <4>1, <4>3
    <3>2. CASE ~tab.loading
      <4>1. tab' = told
        BY <2>2, <3>2
      <4> QED BY <2>1, <3>2, <4>1
    <3> QED BY <3>1, <3>2
  <2>4. tab'.tracker = tab.tracker
    BY <2>1, <2>2 DEF Armed, TabRecord
  <2>6. call' = (IF call[r].live THEN call ELSE [call EXCEPT ![r].home = t])
    BY <1>5 DEF OnThreadId
  <2>7. \A q \in Runs : call'[q].live = call[q].live /\ call'[q].stream = call[q].stream
    BY <1>0, <2>6 DEF CallRecord
  <2>5. ActiveIsLive'
    BY <1>0, <1>R, <2>3, <2>7 DEF ActiveIsLive, TabRecord, Runs
  <2> QED
    BY <1>J, <1>R, <2>2, <2>3, <2>4, <2>5 DEF Rest, LoadingIsWatched, TrackerIsWatched
<1>6. ASSUME NEW r \in Runs, OnCreated(r) PROVE Rest'
  <2> DEFINE home == Or(IF call[r].live THEN tab.ctrl ELSE call[r].home, tab.url)
  <2>1. CASE UNCHANGED tab
    <3>1. ActiveIsLive'
      BY <1>0, <1>6, <1>R, <2>1 DEF OnCreated, ActiveIsLive, TabRecord, CallRecord, Runs
    <3> QED BY <1>6, <1>A, <1>J, <2>1, <3>1 DEF Rest, OnCreated
  <2>2. CASE tab' = [tab EXCEPT !.active = r, !.activeThread = home] /\ call[r].live
    <3>0. r \in 0..MaxRuns
      BY DEF Runs
    <3>1. /\ tab'.settling = tab.settling /\ tab'.latest = tab.latest
          /\ tab'.cancelOf = tab.cancelOf /\ tab'.active = r /\ tab'.timer = tab.timer
          /\ tab'.tracker = tab.tracker /\ tab'.loading = tab.loading /\ tab'.was = tab.was
          /\ tab'.bared = tab.bared
      BY <1>0, <2>2 DEF TabRecord
    <3>2. ActiveIsLive'
      BY <1>0, <1>6, <2>2, <3>1 DEF OnCreated, ActiveIsLive, CallRecord
    <3> QED
      BY <1>6, <1>J, <1>R, <3>1, <3>2 DEF Rest, OnCreated, LoadingIsWatched, TrackerIsWatched
  <2> QED BY <1>6, <2>1, <2>2 DEF OnCreated
<1>7. ASSUME NEW r \in Runs, SeesRunning(r) PROVE Rest'
  <2>1. /\ tab'.settling = tab.settling /\ tab'.latest = tab.latest
        /\ tab'.cancelOf = tab.cancelOf /\ tab'.active = tab.active /\ tab'.timer = tab.timer
        /\ tab.tracker = "waiting"
    BY <1>0, <1>7 DEF SeesRunning, TabRecord
  <2> QED
    BY <1>7, <1>J, <1>R, <2>1
    DEF Rest, SeesRunning, ActiveIsLive, LoadingIsWatched, TrackerIsWatched
<1>8. ASSUME ReplaysPause PROVE Rest'
  <2>1. UNCHANGED <<tab, call, jobs>>
    BY <1>8 DEF ReplaysPause, EndsResumed
  <2> QED BY <1>A, <1>J, <1>R, <2>1 DEF Rest, ActiveIsLive
<1>9. ASSUME NEW r \in Runs, OnCompleted(r) PROVE Rest'
  <2> DEFINE off == [tab EXCEPT !.active = 0, !.activeThread = NoThread]
             told == [Completed(tab, r) EXCEPT !.loading = FALSE]
  <2>1. /\ off \in TabRecord /\ off.active = 0 /\ off.settling = tab.settling
        /\ off.latest = tab.latest /\ off.cancelOf = tab.cancelOf
    BY <1>0, <1>T DEF TabRecord
  <2>2. /\ Completed(tab, r) \in TabRecord /\ Completed(tab, r).active \in {0, tab.active} \ {r}
        /\ Completed(tab, r).settling = tab.settling /\ Completed(tab, r).latest = tab.latest
        /\ Completed(tab, r).cancelOf = tab.cancelOf
        /\ Completed(tab, r).tracker # "off" => Completed(tab, r).timer
    <3>1. r # 0
      BY DEF Runs
    <3>2. CASE tab.active \in {0, r}
      <4>1. Completed(tab, r) = Cleared(off)
        BY <3>2 DEF Completed
      <4> QED BY <2>1, <3>1, <4>1, ClearedType
    <3>3. CASE tab.active \notin {0, r}
      <4>1. Completed(tab, r) = tab
        BY <3>3 DEF Completed
      <4> QED BY <1>0, <1>R, <3>3, <4>1 DEF TrackerIsWatched
    <3> QED BY <3>2, <3>3
  <2>3. /\ told \in TabRecord /\ told.active \in {0, tab.active} \ {r}
        /\ told.settling = tab.settling /\ told.latest = tab.latest
        /\ told.cancelOf = tab.cancelOf /\ ~told.loading
        /\ told.tracker # "off" => told.timer
    BY <2>2 DEF TabRecord
  <2>4. tab' \in {told, Cleared(told)} /\ UNCHANGED jobs
    BY <1>9 DEF OnCompleted
  <2>5. /\ tab'.active \in {0, tab.active} \ {r}
        /\ tab'.settling = tab.settling /\ tab'.latest = tab.latest
        /\ tab'.cancelOf = tab.cancelOf /\ ~tab'.loading
        /\ tab'.tracker # "off" => tab'.timer
    <3> HIDE DEF told
    <3>1. CASE tab' = told
      BY <2>3, <3>1
    <3>2. CASE tab' = Cleared(told)
      BY <2>3, <3>2, ClearedType
    <3> QED BY <2>4, <3>1, <3>2
  <2>6. ActiveIsLive'
    BY <1>0, <1>9, <1>R, <2>5 DEF OnCompleted, ActiveIsLive, TabRecord, Runs
  <2> QED BY <1>J, <2>4, <2>5, <2>6 DEF Rest, LoadingIsWatched, TrackerIsWatched
<1>10. ASSUME NEW r \in Runs, StreamLost(r) PROVE Rest'
  <2>1. ActiveIsLive'
    BY <1>0, <1>10, <1>R DEF StreamLost, ActiveIsLive, CallRecord, TabRecord, Runs
  <2> QED BY <1>10, <1>A, <1>J, <2>1 DEF Rest, StreamLost
<1>11. ASSUME NEW r \in Runs, SubmitRejected(r) PROVE Rest'
  <2>1. \A q \in Runs : q # r => call'[q] = call[q]
    BY <1>0, <1>11 DEF SubmitRejected
  <2>2. call[r].stream = "sent" /\ UNCHANGED jobs
    BY <1>11 DEF SubmitRejected
  <2>3. tab.active # r
    BY <1>R, <2>2 DEF ActiveIsLive, Runs
  <2>4. ASSUME tab'.active = tab.active PROVE ActiveIsLive'
    BY <1>0, <1>R, <2>1, <2>3, <2>4 DEF ActiveIsLive, TabRecord, Runs
  <2>5. CASE tab' = [Cleared(tab) EXCEPT !.loading = FALSE]
    <3>1. /\ tab'.active = tab.active /\ tab'.settling = tab.settling
          /\ tab'.latest = tab.latest /\ tab'.cancelOf = tab.cancelOf
          /\ tab'.tracker = "off" /\ ~tab'.loading
      BY <1>0, <2>5, ClearedType DEF TabRecord
    <3> QED BY <1>J, <2>2, <2>4, <3>1 DEF Rest, LoadingIsWatched, TrackerIsWatched
  <2>6. CASE tab' = tab
    BY <1>A, <1>J, <2>2, <2>4, <2>6 DEF Rest
  <2>7. CASE tab' = [Cleared(tab) EXCEPT !.bared = tab.loading /\ tab.was]
    <3>1. /\ tab'.active = tab.active /\ tab'.settling = tab.settling
          /\ tab'.latest = tab.latest /\ tab'.cancelOf = tab.cancelOf
          /\ tab'.tracker = "off" /\ tab'.loading = tab.loading /\ tab'.was = tab.was
          /\ tab'.bared = (tab.loading /\ tab.was)
      BY <1>0, <2>7, ClearedType DEF TabRecord
    <3> QED BY <1>J, <2>2, <2>4, <3>1 DEF Rest, LoadingIsWatched, TrackerIsWatched
  <2> QED BY <1>11, <2>5, <2>6, <2>7 DEF SubmitRejected
<1>12. ASSUME NEW r \in Runs, Attach(r) PROVE Rest'
  <2>1. /\ tab'.settling = tab.settling /\ tab'.latest = tab.latest
        /\ tab'.cancelOf = tab.cancelOf /\ tab'.active = tab.active /\ tab'.timer = tab.timer
        /\ tab'.tracker = tab.tracker /\ tab'.was = tab.was /\ tab.was = FALSE
    BY <1>0, <1>12 DEF Attach, Flushed, TabRecord
  <2>2. ActiveIsLive'
    BY <1>0, <1>12, <1>R, <2>1 DEF Attach, Closed, ActiveIsLive, CallRecord, TabRecord, Runs
  <2> QED
    BY <1>12, <1>J, <1>R, <2>1, <2>2 DEF Rest, Attach, LoadingIsWatched, TrackerIsWatched
<1>13. ASSUME NEW r \in Runs, CreateRun(r) \/ BeginRun(r) \/ EndRun(r) PROVE Rest'
  <2>1. UNCHANGED <<tab, call, jobs>>
    BY <1>13 DEF CreateRun, BeginRun, EndRun
  <2> QED BY <1>A, <1>J, <1>R, <2>1 DEF Rest, ActiveIsLive
<1>14. ASSUME LoadingEffect PROVE Rest'
  <2> DEFINE on == [tab EXCEPT !.was = TRUE]
             off == [tab EXCEPT !.was = FALSE]
  <2>1. /\ on \in TabRecord /\ on.settling = tab.settling /\ on.latest = tab.latest
        /\ on.cancelOf = tab.cancelOf /\ on.active = tab.active
        /\ off \in TabRecord /\ off.settling = tab.settling /\ off.latest = tab.latest
        /\ off.cancelOf = tab.cancelOf /\ off.active = tab.active /\ off.loading = tab.loading
    BY <1>0 DEF TabRecord
  <2>2. tab' = (IF tab.loading THEN Armed(on, StopTarget(tab)) ELSE Cleared(off))
        /\ UNCHANGED <<call, jobs>>
    BY <1>14 DEF LoadingEffect
  <2>3. /\ tab'.settling = tab.settling /\ tab'.latest = tab.latest
        /\ tab'.cancelOf = tab.cancelOf /\ tab'.active = tab.active
        /\ tab'.timer \/ (~tab'.loading /\ tab'.tracker = "off")
    BY <1>0, <2>1, <2>2, ArmedType, ClearedType, TargetType
  <2> QED
    BY <1>J, <1>R, <2>2, <2>3 DEF Rest, ActiveIsLive, LoadingIsWatched, TrackerIsWatched
<1>15. ASSUME Timeout PROVE Rest'
  <2> DEFINE s == [tab EXCEPT !.timer = FALSE]
  <2>1. /\ s \in TabRecord /\ s.settling = tab.settling
        /\ s.latest = tab.latest /\ s.cancelOf = tab.cancelOf
    BY <1>0 DEF TabRecord
  <2> QED BY <1>15, <1>0, <1>R, <2>1, TargetType, StopRunStep DEF Timeout
<1>16. ASSUME Reconcile PROVE Rest'
  <2> DEFINE s == [tab EXCEPT !.poll = FALSE]
             target == Or(tab.activeThread, TimedThread(tab))
  <2>1. /\ s \in TabRecord /\ s.settling = tab.settling
        /\ s.latest = tab.latest /\ s.cancelOf = tab.cancelOf
    BY <1>0 DEF TabRecord
  <2>2. target \in ThreadRef
    BY <1>0, TargetType DEF Or, TabRecord
  <2>3. StopRun(s, call, target, FALSE)
    BY <1>16 DEF Reconcile
  <2> QED BY <1>0, <1>R, <2>1, <2>2, <2>3, StopRunStep
<1>17. ASSUME Remount PROVE Rest'
  <2>1. tab' = NewSession(tab.url)
    BY <1>17 DEF Remount
  <2> QED
    BY <1>T, <2>1, NewSessionType
    DEF Rest, ActiveIsLive, SettlingHasItsJob, LoadingIsWatched, TrackerIsWatched
<1>18. ASSUME NEW j \in Jobs, CancelKnown(j) \/ \E s \in Unfinished : ListRuns(j, s) PROVE Rest'
  <2>1. UNCHANGED <<tab, call>>
    BY <1>18 DEF CancelKnown, ListRuns
  <2>2. \A k \in Jobs : /\ jobs'[k].busy = jobs[k].busy /\ jobs'[k].ours = jobs[k].ours
                        /\ jobs'[k].thread = jobs[k].thread
    <3>1. CASE CancelKnown(j)
      BY <1>0, <3>1 DEF CancelKnown, JobRecord
    <3>2. ASSUME NEW s \in Unfinished, ListRuns(j, s)
          PROVE  \A k \in Jobs : /\ jobs'[k].busy = jobs[k].busy /\ jobs'[k].ours = jobs[k].ours
                                 /\ jobs'[k].thread = jobs[k].thread
      BY <1>0, <3>2 DEF ListRuns, JobRecord
    <3> QED BY <1>18, <3>1, <3>2
  <2> QED BY <1>A, <1>R, <2>1, <2>2 DEF Rest, ActiveIsLive, SettlingHasItsJob
<1>20. ASSUME NEW j \in Jobs, CancelMany(j) PROVE Rest'
  <2>1. tab' = Settled(tab, j) /\ jobs' = [jobs EXCEPT ![j] = FreeJob] /\ UNCHANGED call
    BY <1>20 DEF CancelMany
  <2>2. /\ tab'.active = tab.active /\ tab'.timer = tab.timer /\ tab'.tracker = tab.tracker
        /\ tab'.loading = tab.loading /\ tab'.was = tab.was /\ tab'.bared = tab.bared
    BY <1>0, <2>1 DEF Settled, TabRecord
  <2>3. CASE jobs[j].ours /\ tab.latest = j
    <3>1. ~tab'.settling
      BY <1>0, <2>1, <2>3 DEF Settled, TabRecord
    <3> QED
      BY <1>R, <2>1, <2>2, <3>1
      DEF Rest, ActiveIsLive, SettlingHasItsJob, LoadingIsWatched, TrackerIsWatched
  <2>4. CASE ~(jobs[j].ours /\ tab.latest = j)
    <3>1. tab' = tab
      BY <2>1, <2>4 DEF Settled
    <3>2. SettlingHasItsJob'
      BY <1>0, <1>R, <2>1, <2>4, <3>1 DEF SettlingHasItsJob
    <3> QED BY <1>A, <1>R, <2>1, <3>1, <3>2 DEF Rest, ActiveIsLive
  <2> QED BY <2>3, <2>4
<1>21. CASE UNCHANGED vars
  BY <1>21, <1>A, <1>J, <1>R DEF vars, Rest, ActiveIsLive
<1> QED
  BY <1>1, <1>2, <1>3, <1>4, <1>5, <1>6, <1>7, <1>8, <1>9, <1>10, <1>11, <1>12, <1>13,
     <1>14, <1>15, <1>16, <1>17, <1>18, <1>20, <1>21, <1>L5, threads \subseteq Threads
  DEF Next, ThreadRef, TypeOK

-----------------------------------------------------------------------------

LEMMA Initially == Init => IInv
<1> SUFFICES ASSUME Init PROVE IInv
  OBVIOUS
<1> USE BoundsAssumption DEF Init
<1>1. PICK t \in OldThreads \cup {NoThread} : tab = NewSession(t)
  OBVIOUS
<1>2. /\ tab \in TabRecord /\ tab.active = 0 /\ ~tab.settling /\ ~tab.loading
      /\ tab.tracker = "off"
  BY <1>1, NewSessionType DEF ThreadRef
<1>3. run \in [Runs -> RunRecord] /\ call \in [Runs -> CallRecord]
  <2>1. PICK u \in OldThreads : run = [r \in Runs |->
            IF r = 1 THEN [thread |-> u, status |-> "paused"]
            ELSE [thread |-> NoThread, status |-> "none"]]
    OBVIOUS
  <2>2. run \in [Runs -> RunRecord]
    BY <2>1 DEF RunRecord, ThreadRef, Ended
  <2>3. call \in [Runs -> CallRecord]
    BY DEF CallRecord, Closed, ThreadRef
  <2> QED BY <2>2, <2>3
<1>4. log \in Seq(Runs)
  BY DEF Runs
<1>5. jobs \in [Jobs -> JobRecord]
  BY DEF JobRecord, FreeJob, ThreadRef
<1> QED
  BY <1>2, <1>3, <1>4, <1>5
  DEF IInv, TypeOK, ActiveIsLive, SettlingHasItsJob, LoadingIsWatched, TrackerIsWatched

LEMMA InvariantKept == IInv /\ [Next]_vars => IInv'
BY TypesKept, RestKept DEF IInv, Rest

\* In every reachable state the refs of the session, the runs its controllers
\* follow, its watchdog and its clean-ups fit together: a late event never makes
\* a stopped run active, the settling always has a clean-up that ends it, and a
\* stream that is loading is watched.
THEOREM SessionInvariant == Spec => []IInv
BY Initially, InvariantKept, PTL DEF Spec

-----------------------------------------------------------------------------
(* Cancellation: every run that is cancelled was to be cancelled. *)

\* The runs that may be cancelled.
Named == wanted \cup exposed

\* What of CancelInv speaks of runs, calls and clean-ups.
RunPart == RunsAreSubmitted /\ SweptIsWanted /\ LateIsWanted /\ CancelIsWanted
\* What of it speaks of the session and its threads.
TabPart == SettledIsFree /\ ThreadsExist

LEMMA CancelParts == CancelInv <=> TabPart /\ RunPart
BY DEF CancelInv, TabPart, RunPart

\* Clearing the timers, and arming them, keeps the other threads of a session.
LEMMA ClearedRefs ==
    ASSUME NEW s \in TabRecord
    PROVE  /\ Cleared(s).url = s.url /\ Cleared(s).runThread = s.runThread
           /\ Cleared(s).watch = NoThread
BY DEF Cleared, TabRecord

LEMMA ArmedRefs ==
    ASSUME NEW s \in TabRecord, NEW t \in ThreadRef
    PROVE  /\ Armed(s, t).url = s.url /\ Armed(s, t).runThread = s.runThread
           /\ Armed(s, t).watch = t
BY DEF Armed, TabRecord

\* A stop aims at a thread that exists, or at none.
LEMMA TargetExists ==
    ASSUME TypeOK, ThreadsExist
    PROVE  /\ StopTarget(tab) \in threads \cup {NoThread}
           /\ TimedThread(tab) \in threads \cup {NoThread}
BY DEF ThreadsExist, StopTarget, TimedThread, Or

\* A step that names what it forgets: no run is cancelled that is not named, no
\* controller is replaced and no clean-up begun without naming its runs.
LEMMA RunsKept ==
    ASSUME RunPart, Named \subseteq Named',
           \A r \in Runs :
               /\ run'[r].thread = run[r].thread
               /\ run'[r].status = "cancelled" => run[r].status = "cancelled" \/ r \in Named'
               /\ run[r].status \in Ended => run'[r].status \in Ended
               /\ run'[r].status # "none" =>
                     run[r].status # "none" \/ (call[r].stream # "none" /\ run[r].thread # NoThread)
               /\ call'[r].stream = "none" <=> call[r].stream = "none"
               /\ call'[r].stream = "none" => ~call'[r].live
               /\ call'[r].stream = "sent" /\ call'[r].stale =>
                     \/ call[r].stream = "sent" /\ call[r].stale
                     \/ r \in Named' \/ run'[r].status \in Ended,
           \A j \in Jobs : jobs'[j].busy =>
               \/ jobs[j].busy /\ jobs'[j].thread = jobs[j].thread
               \/ \A r \in Runs : call[r].stream # "none" /\ run[r].thread = jobs'[j].thread
                                      => r \in Named'
    PROVE  RunPart'
<1>1. RunsAreSubmitted'
  BY DEF RunPart, RunsAreSubmitted
<1>2. SweptIsWanted'
  BY DEF RunPart, SweptIsWanted, Named
<1>3. LateIsWanted'
  BY DEF RunPart, LateIsWanted, Named
<1>4. CancelIsWanted'
  BY DEF RunPart, CancelIsWanted, Named
<1> QED BY <1>1, <1>2, <1>3, <1>4 DEF RunPart

\* Runs of a thread that is being cleaned up may be cancelled.
LEMMA SweptMayBeCancelled ==
    ASSUME TypeOK, RunPart, NEW j \in Jobs, jobs[j].busy, NEW ids,
           run' = CancelledAt(jobs[j].thread, ids)
    PROVE  \A r \in Runs :
               /\ run'[r].thread = run[r].thread
               /\ run'[r].status = "cancelled" => run[r].status = "cancelled" \/ r \in Named
               /\ run[r].status \in Ended => run'[r].status \in Ended
               /\ run'[r].status # "none" => run[r].status # "none"
BY DEF TypeOK, RunRecord, CancelledAt, RunPart, RunsAreSubmitted, SweptIsWanted, Named,
       Unfinished, Ended

\* What a thread id that is told late changes of the calls is their home only.
SameCalls(c) ==
    \A r \in Runs : /\ c[r].stream = call[r].stream /\ c[r].live = call[r].live
                    /\ c[r].stale = call[r].stale

\* Replaced controllers leave their submissions open, and nothing else.
LEMMA DetachedCalls ==
    ASSUME TypeOK, RunsAreSubmitted, NEW c \in [Runs -> CallRecord], SameCalls(c), NEW r \in Runs
    PROVE  /\ Detached(c)[r].stream = "none" <=> call[r].stream = "none"
           /\ ~Detached(c)[r].live
           /\ Detached(c)[r].stream = "sent" /\ Detached(c)[r].stale =>
                 \/ r \in LiveRuns
                 \/ call[r].stream = "sent" /\ call[r].stale
BY DEF TypeOK, Detached, Closed, CallRecord, RunsAreSubmitted, LiveRuns, SameCalls

\* So do those of an unmounted session, which are not replaced.
LEMMA UnmountedCalls ==
    ASSUME TypeOK, RunsAreSubmitted, NEW r \in Runs
    PROVE  /\ Unmounted(call)[r].stream = "none" <=> call[r].stream = "none"
           /\ Unmounted(call)[r].stream = "none" => ~Unmounted(call)[r].live
           /\ Unmounted(call)[r].stream = "sent" =>
                 Unmounted(call)[r].stale = call[r].stale /\ call[r].stream = "sent"
<1>1. call[r] \in CallRecord /\ (call[r].stream = "none" => ~call[r].live)
  BY DEF TypeOK, RunsAreSubmitted
<1>2. CASE call[r].stream # "sent"
  BY <1>1, <1>2 DEF Unmounted, Closed, CallRecord
<1>3. CASE call[r].stream = "sent" /\ call[r].gone
  BY <1>1, <1>3 DEF Unmounted, CallRecord, TypeOK
<1>4. CASE call[r].stream = "sent" /\ ~call[r].gone
  BY <1>1, <1>4 DEF Unmounted, CallRecord
<1> QED BY <1>2, <1>3, <1>4

\* A stop keeps the session on its threads, and begins one clean-up at most.
LEMMA StopRunTab ==
    ASSUME TypeOK, SettledIsFree, ThreadsExist,
           NEW s \in TabRecord, NEW target \in threads \cup {NoThread},
           NEW cancel \in BOOLEAN, NEW c, StopRun(s, c, target, cancel),
           threads \subseteq threads',
           s.settling = tab.settling, s.latest = tab.latest, s.cancelOf = tab.cancelOf,
           {s.url, s.runThread} \subseteq threads' \cup {NoThread}
    PROVE  /\ TabPart'
           /\ \A j \in Jobs : jobs'[j].busy =>
                 \/ jobs[j].busy /\ jobs'[j].thread = jobs[j].thread
                 \/ cancel /\ target \in threads /\ jobs'[j].thread = target
<1> USE BoundsAssumption
<1>1. \A j \in Jobs : jobs'[j].busy =>
          \/ jobs[j].busy /\ jobs'[j].thread = jobs[j].thread
          \/ cancel /\ target \in threads /\ jobs'[j].thread = target
  <2>1. CASE cancel /\ target # NoThread
    <3>1. PICK j \in Jobs :
            jobs' = [jobs EXCEPT ![j] = StartedJob(target, KnownRun(s, target), TRUE)]
      BY <2>1 DEF StopRun
    <3>2. jobs'[j].thread = target /\ \A k \in Jobs \ {j} : jobs'[k] = jobs[k]
      BY <3>1, <2>1 DEF TypeOK, StartedJob
    <3> QED BY <2>1, <3>2
  <2>2. CASE ~(cancel /\ target # NoThread)
    BY <2>2 DEF StopRun
  <2> QED BY <2>1, <2>2
<1> DEFINE stopped == [Cleared(s) EXCEPT !.active = 0, !.activeThread = NoThread,
                                         !.loading = FALSE, !.ctrl = s.url]
<1>2. s.url \in ThreadRef /\ Cleared(s) \in TabRecord /\ 0 \in 0..MaxRuns /\ NoThread \in ThreadRef
  BY ClearedType DEF TabRecord, ThreadRef
<1>3. /\ stopped \in TabRecord
      /\ stopped.url = s.url /\ stopped.runThread = s.runThread
      /\ stopped.watch = NoThread /\ stopped.settling = tab.settling
      /\ stopped.latest = tab.latest /\ stopped.cancelOf = tab.cancelOf
  BY <1>2, ClearedType, ClearedRefs DEF TabRecord
<1>4. tab' = stopped \/ \E j \in Jobs : tab' =
          [stopped EXCEPT !.settling = TRUE, !.cancelOf = target, !.latest = j]
  BY DEF StopRun
<1> HIDE DEF stopped
<1>5. /\ tab'.url = s.url /\ tab'.runThread = s.runThread /\ tab'.watch = NoThread
      /\ \/ tab'.settling
         \/ tab'.settling = tab.settling /\ tab'.latest = tab.latest
            /\ tab'.cancelOf = tab.cancelOf
  BY <1>3, <1>4 DEF TabRecord
<1>6. SettledIsFree'
  BY <1>5 DEF SettledIsFree
<1>7. ThreadsExist'
  BY <1>1, <1>5 DEF ThreadsExist
<1> QED BY <1>1, <1>6, <1>7 DEF TabPart

\* A stop: with `cancel` its caller names what it stops, and without it somebody
\* else has named the live runs that have not ended.
LEMMA StopRunCancels ==
    ASSUME TypeOK, CancelInv,
           NEW s \in TabRecord, NEW target \in threads \cup {NoThread},
           NEW cancel \in BOOLEAN, StopRun(s, call, target, cancel), UNCHANGED server,
           s.settling = tab.settling, s.latest = tab.latest, s.cancelOf = tab.cancelOf,
           {s.url, s.runThread} \subseteq threads \cup {NoThread},
           wanted \subseteq wanted', exposed \subseteq exposed',
           IF cancel THEN Aimed(target) \subseteq wanted'
                     ELSE \A r \in LiveRuns : r \in exposed' \/ run[r].status \in Ended
    PROVE  CancelInv'
<1>0. /\ call' = Detached(call) /\ Named \subseteq Named' /\ UNCHANGED <<run, threads>>
      /\ SettledIsFree /\ ThreadsExist /\ RunPart /\ RunsAreSubmitted
      /\ call \in [Runs -> CallRecord] /\ SameCalls(call)
  BY DEF StopRun, Named, server, CancelInv, RunPart, TypeOK, SameCalls
<1>1. /\ TabPart'
      /\ \A j \in Jobs : jobs'[j].busy =>
            \/ jobs[j].busy /\ jobs'[j].thread = jobs[j].thread
            \/ cancel /\ target \in threads /\ jobs'[j].thread = target
  BY <1>0, StopRunTab
<1>2. \A j \in Jobs : jobs'[j].busy =>
          \/ jobs[j].busy /\ jobs'[j].thread = jobs[j].thread
          \/ \A r \in Runs : call[r].stream # "none" /\ run[r].thread = jobs'[j].thread
                                 => r \in Named'
  BY <1>1 DEF Aimed, Submitted, Named
<1>3. \A r \in LiveRuns : r \in Named' \/ run[r].status \in Ended
  BY DEF Aimed, Named
<1>4. \A r \in Runs : Detached(call)[r].stream = "sent" /\ Detached(call)[r].stale =>
          \/ call[r].stream = "sent" /\ call[r].stale
          \/ r \in Named' \/ run[r].status \in Ended
  BY <1>0, <1>3, DetachedCalls
<1>5. RunPart'
  BY <1>0, <1>2, <1>4, DetachedCalls, RunsKept
<1> QED BY <1>1, <1>5 DEF CancelInv, RunPart, TabPart

-----------------------------------------------------------------------------
(* Every step keeps CancelInv. *)

LEMMA CancelKept ==
    ASSUME IInv, CancelInv, [Next]_vars
    PROVE  CancelInv'
<1> USE BoundsAssumption DEF server, history
<1>0. /\ TypeOK /\ run \in [Runs -> RunRecord] /\ threads \subseteq Threads
      /\ call \in [Runs -> CallRecord] /\ tab \in TabRecord /\ jobs \in [Jobs -> JobRecord]
  BY DEF IInv, TypeOK
<1>R. /\ RunPart /\ TabPart /\ SettledIsFree /\ ThreadsExist
      /\ RunsAreSubmitted /\ SweptIsWanted /\ LateIsWanted /\ CancelIsWanted
  BY DEF CancelInv, RunPart, TabPart
<1>T. /\ tab.url \in threads \cup {NoThread} /\ tab.url \in ThreadRef
      /\ StopTarget(tab) \in threads \cup {NoThread} /\ StopTarget(tab) \in ThreadRef
  BY <1>0, <1>R, TargetExists, TargetType DEF ThreadsExist, TabRecord
\* A step that leaves the clean-ups alone, and the session on its threads.
<1>J. ASSUME UNCHANGED <<threads, jobs>>, tab'.settling = tab.settling,
             tab'.latest = tab.latest, tab'.cancelOf = tab.cancelOf,
             {tab'.url, tab'.runThread, tab'.watch} \subseteq threads \cup {NoThread}
      PROVE  TabPart'
  BY <1>J, <1>R DEF TabPart, SettledIsFree, ThreadsExist
\* A step of one controller that does not replace it.
<1>C. ASSUME NEW r \in Runs, UNCHANGED <<run, jobs, wanted, exposed>>,
             \A q \in Runs \ {r} : call'[q] = call[q],
             call[r].stream # "none", call'[r].stream \notin {"none", "sent"}
      PROVE  RunPart'
  BY <1>C, <1>R, RunsKept DEF Named, RunPart, RunsAreSubmitted
<1>X. ASSUME NEW r \in Runs, NEW b \in BOOLEAN, NextRun(r), ~IsBusy, Send(r, b) PROVE RunPart'
  <2>1. /\ run' = [run EXCEPT ![r].thread = tab.url]
        /\ call' = [call EXCEPT ![r] = [Closed EXCEPT !.stream = "sent", !.live = TRUE]]
        /\ UNCHANGED <<jobs, wanted>> /\ exposed \subseteq exposed'
        /\ SweptThread(tab.url) => r \in exposed'
    BY <1>X DEF Send
  <2>2. call[r].stream = "none" /\ run[r].status = "none"
    BY <1>X, <1>R DEF NextRun, Submitted, RunsAreSubmitted
  <2>3. \A q \in Runs \ {r} : call'[q] = call[q] /\ run'[q] = run[q]
    BY <2>1
  <2>4. /\ call'[r].stream = "sent" /\ call'[r].live /\ ~call'[r].stale
        /\ run'[r].thread = tab.url /\ run'[r].status = "none"
    BY <1>0, <2>1, <2>2 DEF RunRecord, Closed
  <2>5. tab.latest = NoJob
    BY <1>X, <1>R DEF IsBusy, SettledIsFree
  <2>6. \A j \in Jobs : jobs[j].busy /\ jobs[j].thread = tab.url => r \in exposed'
    BY <2>1, <2>5 DEF SweptThread
  <2>7. RunsAreSubmitted'
    BY <1>R, <2>3, <2>4 DEF RunsAreSubmitted
  <2>8. SweptIsWanted'
    BY <1>R, <2>1, <2>3, <2>4, <2>6 DEF SweptIsWanted
  <2>9. LateIsWanted'
    BY <1>R, <2>1, <2>3, <2>4 DEF LateIsWanted
  <2>10. CancelIsWanted'
    BY <1>R, <2>1, <2>3, <2>4 DEF CancelIsWanted
  <2> QED BY <2>7, <2>8, <2>9, <2>10 DEF RunPart
<1>1. ASSUME NEW r \in Runs, Submit(r) PROVE CancelInv'
  <2> DEFINE s == [tab EXCEPT !.runThread = tab.url, !.ctrl = tab.url, !.active = 0,
                              !.activeThread = NoThread, !.started = Len(log) + 1,
                              !.loading = TRUE]
  <2>1. Len(log) + 1 \in Nat /\ NoThread \in ThreadRef /\ 0 \in 0..MaxRuns
    BY <1>0 DEF TypeOK, ThreadRef
  <2>2. /\ s \in TabRecord /\ s.url = tab.url /\ s.runThread = tab.url
        /\ s.settling = tab.settling /\ s.latest = tab.latest /\ s.cancelOf = tab.cancelOf
    BY <1>0, <1>T, <2>1 DEF TabRecord
  <2>3. tab' = Armed(s, tab.url) /\ UNCHANGED <<threads, jobs>>
    BY <1>1 DEF Submit, Send
  <2> HIDE DEF s
  <2>4. TabPart'
    BY <1>J, <1>T, <2>2, <2>3, ArmedType, ArmedRefs
  <2>5. RunPart'
    BY <1>1, <1>X DEF Submit
  <2> QED BY <2>4, <2>5, CancelParts DEF CancelInv, RunPart, TabPart
<1>2. ASSUME NEW r \in Runs, Respond(r) PROVE CancelInv'
  <2> DEFINE s == [tab EXCEPT !.runThread = tab.url, !.started = 0]
             armed == Armed(s, tab.url)
  <2>1. /\ s \in TabRecord /\ s.url = tab.url /\ s.runThread = tab.url
        /\ s.settling = tab.settling /\ s.latest = tab.latest /\ s.cancelOf = tab.cancelOf
    BY <1>0, <1>T DEF TabRecord
  <2>2. tab' = [armed EXCEPT !.tracker = "waiting"] /\ UNCHANGED <<threads, jobs>>
    BY <1>2 DEF Respond, Send
  <2> HIDE DEF s
  <2>3. /\ armed \in TabRecord /\ armed.url = tab.url /\ armed.runThread = tab.url
        /\ armed.watch = tab.url /\ armed.settling = tab.settling
        /\ armed.latest = tab.latest /\ armed.cancelOf = tab.cancelOf
    BY <1>T, <2>1, ArmedType, ArmedRefs
  <2> HIDE DEF armed
  <2>4. /\ tab'.url = tab.url /\ tab'.runThread = tab.url /\ tab'.watch = tab.url
        /\ tab'.settling = tab.settling /\ tab'.latest = tab.latest
        /\ tab'.cancelOf = tab.cancelOf
    BY <2>2, <2>3 DEF TabRecord
  <2>5. TabPart'
    BY <1>J, <1>T, <2>2, <2>4
  <2>6. RunPart'
    BY <1>2, <1>X DEF Respond
  <2> QED BY <2>5, <2>6 DEF CancelInv, RunPart, TabPart
<1>3. ASSUME StopButton PROVE CancelInv'
  BY <1>3, <1>0, <1>R, <1>T, StopRunCancels DEF StopButton, ThreadsExist
<1>4. ASSUME NEW t \in threads \cup {NoThread}, OpenThread(t) PROVE CancelInv'
  <2> DEFINE moved == [tab EXCEPT !.url = t, !.runThread = t]
  <2>1. /\ moved \in TabRecord /\ moved.settling = tab.settling
        /\ moved.latest = tab.latest /\ moved.cancelOf = tab.cancelOf
        /\ moved.url = t /\ moved.runThread = t /\ moved.watch = tab.watch
    BY <1>0 DEF TabRecord, ThreadRef
  <2>2. CASE LeavesRuns
    <3>1. /\ StopRun(moved, call, StopTarget(tab), TRUE) /\ UNCHANGED <<server, exposed>>
          /\ wanted' = wanted \cup Aimed(StopTarget(tab))
      BY <1>4, <2>2 DEF OpenThread, MoveTo
    <3> HIDE DEF moved
    <3> QED BY <1>0, <1>T, <2>1, <3>1, StopRunCancels
  <2>3. CASE ~LeavesRuns
    <3>0. /\ tab' = [moved EXCEPT !.loading = FALSE]
          /\ UNCHANGED <<call, jobs, wanted, server, exposed>>
      BY <1>4, <2>3 DEF OpenThread, MoveTo
    <3> HIDE DEF moved
    <3>1. /\ tab'.settling = tab.settling /\ tab'.latest = tab.latest
          /\ tab'.cancelOf = tab.cancelOf
          /\ tab'.url = t /\ tab'.runThread = t /\ tab'.watch = tab.watch
      BY <2>1, <3>0 DEF TabRecord
    <3>2. TabPart'
      BY <1>J, <1>R, <3>0, <3>1 DEF ThreadsExist
    <3>3. RunPart'
      BY <1>R, <3>0 DEF RunPart, RunsAreSubmitted, SweptIsWanted, LateIsWanted, CancelIsWanted
    <3> QED BY <3>2, <3>3 DEF CancelInv, RunPart, TabPart
  <2> QED BY <2>2, <2>3
\* A thread id that is told, whatever it does to the session.
<1>I. ASSUME NEW r \in Runs, NEW t \in Threads, NewThread(r, t),
             wanted \subseteq wanted', exposed \subseteq exposed',
             \A j \in Jobs : jobs'[j].busy =>
                 \/ /\ jobs[j].busy
                    /\ jobs'[j].thread = jobs[j].thread
                 \/ /\ jobs'[j].thread \in threads
                    /\ \A q \in Runs : call[q].stream # "none" /\ run[q].thread = jobs'[j].thread
                                           => q \in Named',
             \A q \in Runs :
                 /\ call'[q].stream = "none" <=> call[q].stream = "none"
                 /\ call'[q].stream = "none" => ~call'[q].live
                 /\ call'[q].stream = "sent" /\ call'[q].stale =>
                       \/ call[q].stream = "sent" /\ call[q].stale
                       \/ q \in Named'
      PROVE  RunPart'
  <2>1. /\ t \notin threads /\ run[r].thread = NoThread /\ call[r].stream = "sent"
        /\ run' = [run EXCEPT ![r].thread = t] /\ Named \subseteq Named'
    BY <1>I DEF NewThread, Named
  <2>2. \A q \in Runs : /\ run'[q].status = run[q].status
                        /\ q # r => run'[q].thread = run[q].thread
    BY <1>0, <2>1 DEF RunRecord
  <2>3. run'[r].thread = t /\ run[r].status = "none" /\ t # NoThread
    BY <1>0, <1>R, <2>1 DEF RunRecord, RunsAreSubmitted
  <2>4. \A j \in Jobs : jobs'[j].busy => jobs'[j].thread # t
    BY <1>I, <1>R, <2>1 DEF ThreadsExist
  <2>5. RunsAreSubmitted'
    BY <1>I, <1>R, <2>2, <2>3 DEF RunsAreSubmitted
  <2>6. SweptIsWanted'
    BY <1>I, <1>R, <2>1, <2>2, <2>3, <2>4 DEF SweptIsWanted, Named
  <2>7. LateIsWanted' /\ CancelIsWanted'
    BY <1>I, <1>R, <2>1, <2>2 DEF LateIsWanted, CancelIsWanted, Named
  <2> QED BY <2>5, <2>6, <2>7 DEF RunPart
<1>5. ASSUME NEW r \in Runs, NEW t \in Threads, OnThreadId(r, t) PROVE CancelInv'
  <2> DEFINE home == IF call[r].live THEN t ELSE tab.ctrl
             blamed == IF tab.timer /\ tab.watch = NoThread THEN t ELSE tab.watch
             told == [tab EXCEPT !.url = t, !.runThread = t, !.ctrl = home, !.watch = blamed]
  <2>0. home \in ThreadRef /\ blamed \in ThreadRef /\ t \in ThreadRef /\ blamed \in {t, tab.watch}
    BY <1>0 DEF TabRecord, ThreadRef
  <2>1. /\ told \in TabRecord /\ told.settling = tab.settling
        /\ told.latest = tab.latest /\ told.cancelOf = tab.cancelOf
        /\ told.url = t /\ told.runThread = t /\ told.watch \in {t, tab.watch}
    <3> HIDE DEF home, blamed
    <3> QED BY <1>0, <2>0 DEF TabRecord
  <2>2. /\ tab' = (IF tab.loading THEN Armed(told, t) ELSE told)
        /\ threads' = threads \cup {t} /\ UNCHANGED jobs
    BY <1>5 DEF OnThreadId, NewThread
  <2> HIDE DEF told
  <2>3. t \in ThreadRef
    BY DEF ThreadRef
  <2>4. /\ tab'.settling = tab.settling /\ tab'.latest = tab.latest
        /\ tab'.cancelOf = tab.cancelOf
        /\ tab'.url = t /\ tab'.runThread = t /\ tab'.watch \in {t, tab.watch}
    BY <2>1, <2>2, <2>3, ArmedType, ArmedRefs
  <2>5. TabPart'
    BY <1>R, <2>2, <2>4 DEF TabPart, SettledIsFree, ThreadsExist
  <2>6. /\ NewThread(r, t) /\ call[r].stream = "sent"
        /\ call' = (IF call[r].live THEN call ELSE [call EXCEPT ![r].home = t])
        /\ wanted' = wanted /\ exposed \subseteq exposed'
    BY <1>5 DEF OnThreadId, NewThread
  <2>7. \A q \in Runs : /\ call'[q].live = call[q].live /\ call'[q].stream = call[q].stream
                        /\ call'[q].stale = call[q].stale
    BY <1>0, <2>6 DEF CallRecord
  <2>8. RunPart'
    BY <1>I, <1>R, <2>2, <2>6, <2>7 DEF RunsAreSubmitted
  <2> QED BY <2>5, <2>8 DEF CancelInv, RunPart, TabPart
<1>L5. ASSUME NEW r \in Runs, NEW t \in Threads, OnThreadIdLate(r, t) PROVE CancelInv'
  <2> DEFINE c == [call EXCEPT ![r].home = t]
             moved == [tab EXCEPT !.url = t, !.runThread = t]
  <2>1. c \in [Runs -> CallRecord] /\ SameCalls(c)
    BY <1>0 DEF CallRecord, ThreadRef, SameCalls
  <2>2. /\ moved \in TabRecord /\ moved.settling = tab.settling
        /\ moved.latest = tab.latest /\ moved.cancelOf = tab.cancelOf
        /\ moved.url = t /\ moved.runThread = t /\ moved.watch = tab.watch
    BY <1>0 DEF TabRecord, ThreadRef
  <2>3. /\ NewThread(r, t) /\ MoveTo(t, c) /\ UNCHANGED wanted /\ exposed \subseteq exposed'
        /\ threads' = threads \cup {t}
        /\ LeavesRuns => Aimed(StopTarget(tab)) \subseteq exposed'
    BY <1>L5 DEF OnThreadIdLate, NewThread
  <2> HIDE DEF c
  <2>4. CASE LeavesRuns
    <3>1. StopRun(moved, c, StopTarget(tab), TRUE) /\ call' = Detached(c)
      BY <2>3, <2>4 DEF MoveTo, StopRun
    <3>2. Aimed(StopTarget(tab)) \subseteq Named' /\ LiveRuns \subseteq Named'
      BY <2>3, <2>4 DEF Named, Aimed
    <3> HIDE DEF moved
    <3>3. /\ TabPart'
          /\ \A j \in Jobs : jobs'[j].busy =>
                \/ jobs[j].busy /\ jobs'[j].thread = jobs[j].thread
                \/ StopTarget(tab) \in threads /\ jobs'[j].thread = StopTarget(tab)
      BY <1>0, <1>R, <1>T, <2>2, <2>3, <3>1, StopRunTab
    <3>4. \A j \in Jobs : jobs'[j].busy =>
              \/ jobs[j].busy /\ jobs'[j].thread = jobs[j].thread
              \/ jobs'[j].thread \in threads
                 /\ \A q \in Runs : call[q].stream # "none" /\ run[q].thread = jobs'[j].thread
                                        => q \in Named'
      BY <3>2, <3>3 DEF Aimed, Submitted
    <3>5. \A q \in Runs :
              /\ call'[q].stream = "none" <=> call[q].stream = "none"
              /\ call'[q].stream = "none" => ~call'[q].live
              /\ call'[q].stream = "sent" /\ call'[q].stale =>
                    \/ call[q].stream = "sent" /\ call[q].stale
                    \/ q \in Named'
      BY <1>0, <1>R, <2>1, <3>1, <3>2, DetachedCalls
    <3>6. RunPart'
      BY <1>I, <2>3, <3>4, <3>5
    <3> QED BY <3>3, <3>6 DEF CancelInv, RunPart, TabPart
  <2>5. CASE ~LeavesRuns
    <3>0. tab' = [moved EXCEPT !.loading = FALSE] /\ call' = c /\ UNCHANGED jobs
      BY <2>3, <2>5 DEF MoveTo
    <3> HIDE DEF moved
    <3>1. /\ tab'.settling = tab.settling /\ tab'.latest = tab.latest
          /\ tab'.cancelOf = tab.cancelOf
          /\ tab'.url = t /\ tab'.runThread = t /\ tab'.watch = tab.watch
      BY <2>2, <3>0 DEF TabRecord
    <3>2. TabPart'
      BY <1>R, <2>3, <3>0, <3>1 DEF TabPart, SettledIsFree, ThreadsExist
    <3>3. RunPart'
      BY <1>I, <1>R, <2>1, <2>3, <3>0 DEF SameCalls, RunsAreSubmitted
    <3> QED BY <3>2, <3>3 DEF CancelInv, RunPart, TabPart
  <2> QED BY <2>4, <2>5
<1>6. ASSUME NEW r \in Runs, OnCreated(r) PROVE CancelInv'
  <2> DEFINE home == Or(IF call[r].live THEN tab.ctrl ELSE call[r].home, tab.url)
  <2>1. /\ call[r].stream = "sent" /\ run[r].status # "none"
        /\ call' = [call EXCEPT ![r] =
                       IF call[r].live THEN [@ EXCEPT !.stream = "open"] ELSE Closed]
        /\ UNCHANGED <<threads, jobs, wanted, exposed>>
    BY <1>6 DEF OnCreated
  <2>2. /\ \A q \in Runs \ {r} : call'[q] = call[q]
        /\ call'[r].stream \notin {"none", "sent"}
    BY <1>0, <2>1 DEF CallRecord, Closed
  <2>3. CASE /\ UNCHANGED tab /\ CancelRunExactly(home, r)
             /\ call[r].stale \/ (call[r].live /\ tab.cancelOf = home)
    <3>1. TabPart'
      BY <1>J, <1>R, <2>1, <2>3 DEF ThreadsExist
    <3>2. run[r].thread = home /\ run[r].status \in Unfinished => r \in Named
      <4>1. CASE call[r].stale
        BY <1>R, <2>1, <4>1 DEF LateIsWanted, Named, Unfinished, Ended
      <4>2. CASE call[r].live /\ tab.cancelOf = home
        <5>1. run[r].thread # NoThread
          BY <1>R, <2>1 DEF RunsAreSubmitted
        <5>2. run[r].thread = home => tab.settling
          BY <1>R, <4>2, <5>1 DEF SettledIsFree
        <5> QED BY <1>R, <2>1, <4>2, <5>2 DEF IInv, SettlingHasItsJob, SweptIsWanted, Named
      <4> QED BY <2>3, <4>1, <4>2
    <3>3. \A q \in Runs :
            /\ run'[q].thread = run[q].thread
            /\ run'[q].status = "cancelled" => run[q].status = "cancelled" \/ q \in Named
            /\ run[q].status \in Ended => run'[q].status \in Ended
            /\ run'[q].status # "none" => run[q].status # "none"
      BY <1>0, <2>1, <2>3, <3>2
      DEF CancelRunExactly, CancelledAt, RunRecord, Unfinished, Ended
    <3>4. RunPart'
      BY <1>R, <2>1, <2>2, <3>3, RunsKept DEF Named, RunsAreSubmitted
    <3> QED BY <3>1, <3>4 DEF CancelInv, RunPart, TabPart
  <2>4. CASE tab' = [tab EXCEPT !.active = r, !.activeThread = home] /\ UNCHANGED run
    <3>1. /\ tab'.settling = tab.settling /\ tab'.latest = tab.latest
          /\ tab'.cancelOf = tab.cancelOf
          /\ tab'.url = tab.url /\ tab'.runThread = tab.runThread /\ tab'.watch = tab.watch
      BY <1>0, <2>4 DEF TabRecord
    <3>2. TabPart'
      BY <1>J, <1>R, <2>1, <3>1 DEF ThreadsExist
    <3>3. RunPart'
      BY <1>C, <2>1, <2>2, <2>4
    <3> QED BY <3>2, <3>3 DEF CancelInv, RunPart, TabPart
  <2>5. CASE UNCHANGED <<tab, run>>
    <3>1. TabPart'
      BY <1>J, <1>R, <2>1, <2>5 DEF ThreadsExist
    <3>2. RunPart'
      BY <1>C, <2>1, <2>2, <2>5
    <3> QED BY <3>1, <3>2 DEF CancelInv, RunPart, TabPart
  <2> QED BY <1>6, <2>3, <2>4, <2>5 DEF OnCreated
<1>7. ASSUME ReplaysPause \/ \E r \in Runs : SeesRunning(r) PROVE CancelInv'
  <2>1. /\ tab'.settling = tab.settling /\ tab'.latest = tab.latest
        /\ tab'.cancelOf = tab.cancelOf
        /\ tab'.url = tab.url /\ tab'.runThread = tab.runThread /\ tab'.watch = tab.watch
    BY <1>0, <1>7 DEF SeesRunning, ReplaysPause, EndsResumed, TabRecord
  <2>2. UNCHANGED <<server, call, jobs, wanted, exposed>>
    BY <1>7 DEF SeesRunning, ReplaysPause
  <2>3. TabPart'
    BY <1>J, <1>R, <2>1, <2>2 DEF ThreadsExist
  <2>4. RunPart'
    BY <1>R, <2>2 DEF RunPart, RunsAreSubmitted, SweptIsWanted, LateIsWanted, CancelIsWanted
  <2> QED BY <2>3, <2>4 DEF CancelInv, RunPart, TabPart
<1>9. ASSUME NEW r \in Runs, OnCompleted(r) PROVE CancelInv'
  <2> DEFINE off == [tab EXCEPT !.active = 0, !.activeThread = NoThread]
             told == [Completed(tab, r) EXCEPT !.loading = FALSE]
  <2>1. /\ off \in TabRecord /\ off.settling = tab.settling
        /\ off.latest = tab.latest /\ off.cancelOf = tab.cancelOf
        /\ off.url = tab.url /\ off.runThread = tab.runThread
    <3>1. 0 \in 0..MaxRuns /\ NoThread \in ThreadRef
      BY DEF ThreadRef
    <3> QED BY <1>0, <3>1 DEF TabRecord
  <2>2. /\ Completed(tab, r) \in TabRecord
        /\ Completed(tab, r).settling = tab.settling /\ Completed(tab, r).latest = tab.latest
        /\ Completed(tab, r).cancelOf = tab.cancelOf
        /\ Completed(tab, r).url = tab.url /\ Completed(tab, r).runThread = tab.runThread
        /\ Completed(tab, r).watch \in {tab.watch, NoThread}
    <3> HIDE DEF off
    <3>1. Completed(tab, r) \in {tab, Cleared(off)}
      BY DEF Completed, off
    <3> QED BY <1>0, <2>1, <3>1, ClearedType, ClearedRefs
  <2>3. /\ told \in TabRecord /\ told.settling = tab.settling
        /\ told.latest = tab.latest /\ told.cancelOf = tab.cancelOf
        /\ told.url = tab.url /\ told.runThread = tab.runThread
        /\ told.watch \in {tab.watch, NoThread}
    <3>1. \A c \in TabRecord : LET d == [c EXCEPT !.loading = FALSE] IN
            /\ d \in TabRecord /\ d.settling = c.settling /\ d.latest = c.latest
            /\ d.cancelOf = c.cancelOf /\ d.url = c.url
            /\ d.runThread = c.runThread /\ d.watch = c.watch
      BY DEF TabRecord
    <3> QED BY <2>2, <3>1
  <2>4. tab' \in {told, Cleared(told)}
    BY <1>9 DEF OnCompleted
  <2> HIDE DEF told
  <2>5. /\ tab'.settling = tab.settling /\ tab'.latest = tab.latest
        /\ tab'.cancelOf = tab.cancelOf /\ tab'.url = tab.url
        /\ tab'.runThread = tab.runThread /\ tab'.watch \in {tab.watch, NoThread}
    BY <2>3, <2>4, ClearedType, ClearedRefs
  <2>6. /\ call' = [call EXCEPT ![r] = Closed] /\ call[r].stream = "open"
        /\ UNCHANGED <<server, jobs, wanted, exposed>>
    BY <1>9 DEF OnCompleted
  <2>7. TabPart'
    BY <1>J, <1>R, <2>5, <2>6 DEF ThreadsExist
  <2>8. RunPart'
    BY <1>0, <1>C, <2>6 DEF Closed
  <2> QED BY <2>7, <2>8 DEF CancelInv, RunPart, TabPart
<1>10. ASSUME NEW r \in Runs, StreamLost(r) PROVE CancelInv'
  <2>1. TabPart'
    BY <1>10, <1>J, <1>R DEF StreamLost, ThreadsExist
  <2>2. RunPart'
    BY <1>0, <1>10, <1>C DEF StreamLost, CallRecord
  <2> QED BY <2>1, <2>2 DEF CancelInv, RunPart, TabPart
<1>11. ASSUME NEW r \in Runs, SubmitRejected(r) PROVE CancelInv'
  <2>1. Cleared(tab) \in TabRecord
    BY <1>0, ClearedType
  <2>2. \E s \in {tab, Cleared(tab)}, x, y \in BOOLEAN :
            tab' = [s EXCEPT !.loading = x, !.bared = y]
    <3>1. CASE call[r].live
      <4>1. tab' = [Cleared(tab) EXCEPT !.loading = FALSE, !.bared = Cleared(tab).bared]
        BY <1>11, <2>1, <3>1 DEF SubmitRejected, TabRecord
      <4> QED BY <2>1, <4>1 DEF TabRecord
    <3>2. CASE ~call[r].live /\ call[r].gone
      <4>1. tab' = [tab EXCEPT !.loading = tab.loading, !.bared = tab.bared]
        BY <1>0, <1>11, <3>2 DEF SubmitRejected, TabRecord
      <4> QED BY <1>0, <4>1 DEF TabRecord
    <3>3. CASE ~call[r].live /\ ~call[r].gone
      <4>1. (tab.loading /\ tab.was) \in BOOLEAN /\ Cleared(tab).loading \in BOOLEAN
        BY <1>0, <2>1 DEF TabRecord
      <4>2. tab' = [Cleared(tab) EXCEPT !.loading = Cleared(tab).loading,
                                        !.bared = tab.loading /\ tab.was]
        BY <1>11, <2>1, <3>3 DEF SubmitRejected, TabRecord
      <4> QED BY <4>1, <4>2
    <3> QED BY <3>1, <3>2, <3>3
  <2>3. /\ tab'.settling = tab.settling
        /\ tab'.latest = tab.latest /\ tab'.cancelOf = tab.cancelOf /\ tab'.url = tab.url
        /\ tab'.runThread = tab.runThread /\ tab'.watch \in {tab.watch, NoThread}
    <3>1. PICK s \in {tab, Cleared(tab)}, x, y \in BOOLEAN :
              tab' = [s EXCEPT !.loading = x, !.bared = y]
      BY <2>2
    <3>2. /\ tab'.settling = s.settling /\ tab'.latest = s.latest
          /\ tab'.cancelOf = s.cancelOf /\ tab'.url = s.url
          /\ tab'.runThread = s.runThread /\ tab'.watch = s.watch
      BY <1>0, <2>1, <3>1 DEF TabRecord
    <3> QED BY <1>0, <3>2, ClearedType, ClearedRefs
  <2>4. TabPart'
    BY <1>11, <1>J, <1>R, <2>3 DEF SubmitRejected, ThreadsExist
  <2>5. RunPart'
    BY <1>0, <1>11, <1>C DEF SubmitRejected, Closed
  <2> QED BY <2>4, <2>5 DEF CancelInv, RunPart, TabPart
<1>12. ASSUME NEW r \in Runs, Attach(r) PROVE CancelInv'
  <2>1. /\ tab'.settling = tab.settling /\ tab'.latest = tab.latest
        /\ tab'.cancelOf = tab.cancelOf
        /\ tab'.url = tab.url /\ tab'.runThread = tab.runThread /\ tab'.watch = tab.watch
    BY <1>0, <1>12 DEF Attach, TabRecord
  <2>2. TabPart'
    BY <1>12, <1>J, <1>R, <2>1 DEF Attach, ThreadsExist
  <2>3. RunPart'
    BY <1>0, <1>12, <1>C DEF Attach, Closed, CallRecord
  <2> QED BY <2>2, <2>3 DEF CancelInv, RunPart, TabPart
<1>13. ASSUME NEW r \in Runs, CreateRun(r) \/ BeginRun(r) \/ EndRun(r) PROVE CancelInv'
  <2>1. UNCHANGED <<threads, call, tab, jobs, wanted>> /\ exposed \subseteq exposed'
    BY <1>13 DEF CreateRun, BeginRun, EndRun
  <2>2. PICK x \in {"pending", "running", "done", "paused"} :
          /\ run' = [run EXCEPT ![r].status = x]
          /\ run[r].status \in Ended => x \in Ended
          /\ run[r].status = "none" => call[r].stream = "sent" /\ run[r].thread # NoThread
    BY <1>13 DEF CreateRun, BeginRun, EndRun, Ended
  <2>3. TabPart'
    BY <1>J, <1>R, <2>1 DEF ThreadsExist
  <2>4. \A q \in Runs :
          /\ run'[q].thread = run[q].thread
          /\ run'[q].status = "cancelled" => run[q].status = "cancelled"
          /\ run[q].status \in Ended => run'[q].status \in Ended
          /\ run'[q].status # "none" =>
                run[q].status # "none" \/ (call[q].stream # "none" /\ run[q].thread # NoThread)
    BY <1>0, <2>2 DEF RunRecord
  <2>5. RunPart'
    BY <1>R, <2>1, <2>4, RunsKept DEF Named, RunsAreSubmitted
  <2> QED BY <2>3, <2>5 DEF CancelInv, RunPart, TabPart
<1>14. ASSUME LoadingEffect PROVE CancelInv'
  <2> DEFINE on == [tab EXCEPT !.was = TRUE]
             off == [tab EXCEPT !.was = FALSE]
  <2>1. /\ on \in TabRecord /\ on.settling = tab.settling /\ on.latest = tab.latest
        /\ on.cancelOf = tab.cancelOf /\ on.url = tab.url /\ on.runThread = tab.runThread
        /\ off \in TabRecord /\ off.settling = tab.settling /\ off.latest = tab.latest
        /\ off.cancelOf = tab.cancelOf /\ off.url = tab.url /\ off.runThread = tab.runThread
    BY <1>0 DEF TabRecord
  <2>2. /\ tab' = (IF tab.loading THEN Armed(on, StopTarget(tab)) ELSE Cleared(off))
        /\ UNCHANGED <<server, call, jobs, wanted, exposed>>
    BY <1>14 DEF LoadingEffect
  <2> HIDE DEF on, off
  <2>3. /\ tab'.settling = tab.settling /\ tab'.latest = tab.latest
        /\ tab'.cancelOf = tab.cancelOf /\ tab'.url = tab.url
        /\ tab'.runThread = tab.runThread /\ tab'.watch \in {StopTarget(tab), NoThread}
    <3>1. CASE tab.loading
      <4>1. tab' = Armed(on, StopTarget(tab)) /\ StopTarget(tab) \in ThreadRef
        BY <1>0, <2>2, <3>1, TargetType
      <4>2. /\ Armed(on, StopTarget(tab)).settling = on.settling
            /\ Armed(on, StopTarget(tab)).latest = on.latest
            /\ Armed(on, StopTarget(tab)).cancelOf = on.cancelOf
        BY <2>1, <4>1, ArmedType
      <4>3. /\ Armed(on, StopTarget(tab)).url = on.url
            /\ Armed(on, StopTarget(tab)).runThread = on.runThread
            /\ Armed(on, StopTarget(tab)).watch = StopTarget(tab)
        BY <2>1, <4>1, ArmedRefs
      <4> QED BY <2>1, <4>1, <4>2, <4>3
    <3>2. CASE ~tab.loading
      <4>1. tab' = Cleared(off)
        BY <2>2, <3>2
      <4> QED BY <2>1, <4>1, ClearedType, ClearedRefs
    <3> QED BY <3>1, <3>2
  <2>4. TabPart'
    BY <1>J, <1>R, <1>T, <2>2, <2>3 DEF ThreadsExist
  <2>5. RunPart'
    BY <1>R, <2>2 DEF RunPart, RunsAreSubmitted, SweptIsWanted, LateIsWanted, CancelIsWanted
  <2> QED BY <2>4, <2>5 DEF CancelInv, RunPart, TabPart
<1>15. ASSUME Timeout PROVE CancelInv'
  <2> DEFINE s == [tab EXCEPT !.timer = FALSE]
  <2>1. /\ s \in TabRecord /\ s.settling = tab.settling
        /\ s.latest = tab.latest /\ s.cancelOf = tab.cancelOf
        /\ s.url = tab.url /\ s.runThread = tab.runThread
    BY <1>0 DEF TabRecord
  <2>2. TimedThread(tab) \in threads \cup {NoThread}
    BY <1>0, <1>R, TargetExists
  <2>3. /\ StopRun(s, call, TimedThread(tab), TRUE) /\ UNCHANGED <<server, exposed>>
        /\ wanted' = wanted \cup Aimed(TimedThread(tab))
    BY <1>15 DEF Timeout
  <2> HIDE DEF s
  <2> QED BY <1>0, <1>R, <2>1, <2>2, <2>3, StopRunCancels DEF ThreadsExist
<1>16. ASSUME Reconcile PROVE CancelInv'
  <2> DEFINE s == [tab EXCEPT !.poll = FALSE]
             target == Or(tab.activeThread, TimedThread(tab))
  <2>1. /\ s \in TabRecord /\ s.settling = tab.settling
        /\ s.latest = tab.latest /\ s.cancelOf = tab.cancelOf
        /\ s.url = tab.url /\ s.runThread = tab.runThread
    BY <1>0 DEF TabRecord
  <2>2. /\ StopRun(s, call, target, FALSE) /\ UNCHANGED <<server, wanted>>
        /\ exposed \subseteq exposed'
        /\ \A r \in LiveRuns : r \in exposed' \/ run[r].status \in Ended
    BY <1>16 DEF Reconcile
  <2>3. StopRun(s, call, NoThread, FALSE)
    BY <2>2 DEF StopRun
  <2> HIDE DEF s
  <2> QED BY <1>0, <1>R, <2>1, <2>2, <2>3, StopRunCancels DEF ThreadsExist
<1>17. ASSUME Remount PROVE CancelInv'
  <2> DEFINE target == StopTarget(tab)
             orphaned == [j \in Jobs |-> [jobs[j] EXCEPT !.ours = FALSE]]
  <2>1. /\ call' = Unmounted(call) /\ tab' = NewSession(tab.url)
        /\ UNCHANGED <<server, exposed>>
        /\ Named \subseteq Named'
    BY <1>17 DEF Remount, Named
  <2>2. \A j \in Jobs : orphaned[j].busy = jobs[j].busy /\ orphaned[j].thread = jobs[j].thread
    BY <1>0 DEF JobRecord
  <2>3. \A j \in Jobs : jobs'[j].busy =>
            \/ jobs[j].busy /\ jobs'[j].thread = jobs[j].thread
            \/ /\ jobs'[j].thread \in threads
               /\ \A r \in Runs : call[r].stream # "none" /\ run[r].thread = jobs'[j].thread
                                      => r \in Named'
    <3>1. CASE jobs' = orphaned
      BY <2>2, <3>1
    <3>2. CASE jobs' # orphaned
      <4>1. /\ target # NoThread
            /\ wanted' = wanted \cup Aimed(target)
            /\ \E j \in Jobs : jobs' = [orphaned EXCEPT
                                          ![j] = StartedJob(target, KnownRun(tab, target), FALSE)]
        BY <1>17, <3>2 DEF Remount
      <4>2. PICK j \in Jobs :
              jobs' = [orphaned EXCEPT ![j] = StartedJob(target, KnownRun(tab, target), FALSE)]
        BY <4>1
      <4> HIDE DEF target
      <4>3. jobs'[j].thread = target /\ \A k \in Jobs \ {j} : jobs'[k] = orphaned[k]
        BY <4>2 DEF StartedJob
      <4>4. target \in threads
        BY <1>T, <4>1 DEF target
      <4>5. \A r \in Runs : call[r].stream # "none" /\ run[r].thread = target => r \in Named'
        BY <4>1 DEF Named, Aimed, Submitted
      <4> QED BY <2>2, <4>3, <4>4, <4>5
    <3> QED BY <3>1, <3>2
  <2>4. RunPart'
    BY <1>0, <1>R, <2>1, <2>3, UnmountedCalls, RunsKept
  <2>5. TabPart'
    <3>1. /\ tab'.url = tab.url /\ tab'.runThread = tab.url /\ tab'.watch = tab.url
          /\ ~tab'.settling /\ tab'.latest = NoJob /\ tab'.cancelOf = NoThread
      BY <2>1 DEF NewSession
    <3> QED BY <1>R, <1>T, <2>1, <2>3, <3>1 DEF TabPart, SettledIsFree, ThreadsExist
  <2> QED BY <2>4, <2>5 DEF CancelInv, RunPart, TabPart
<1>18. ASSUME NEW j \in Jobs, CancelKnown(j) \/ \E s \in Unfinished : ListRuns(j, s)
       PROVE  CancelInv'
  <2>1. UNCHANGED <<threads, tab, call, wanted, exposed>> /\ jobs[j].busy
    BY <1>18 DEF CancelKnown, ListRuns
  <2>2. \A k \in Jobs : jobs'[k].busy = jobs[k].busy /\ jobs'[k].thread = jobs[k].thread
    <3>1. CASE CancelKnown(j)
      BY <1>0, <3>1 DEF CancelKnown, JobRecord
    <3>2. ASSUME NEW s \in Unfinished, ListRuns(j, s)
          PROVE  \A k \in Jobs : jobs'[k].busy = jobs[k].busy /\ jobs'[k].thread = jobs[k].thread
      BY <1>0, <3>2 DEF ListRuns, JobRecord
    <3> QED BY <1>18, <3>1, <3>2
  <2>3. run' = run \/ run' = CancelledAt(jobs[j].thread, jobs[j].ids)
    BY <1>18 DEF CancelKnown, ListRuns
  <2>4. TabPart'
    BY <1>R, <2>1, <2>2 DEF TabPart, SettledIsFree, ThreadsExist
  <2>5. RunPart'
    BY <1>0, <1>R, <2>1, <2>2, <2>3, SweptMayBeCancelled, RunsKept DEF Named, RunsAreSubmitted
  <2> QED BY <2>4, <2>5 DEF CancelInv, RunPart, TabPart
<1>20. ASSUME NEW j \in Jobs, CancelMany(j) PROVE CancelInv'
  <2>1. /\ tab' = Settled(tab, j) /\ jobs' = [jobs EXCEPT ![j] = FreeJob] /\ jobs[j].busy
        /\ UNCHANGED <<threads, call, wanted, exposed>>
        /\ \E ids \in SUBSET jobs[j].ids : run' = CancelledAt(jobs[j].thread, ids)
    BY <1>20 DEF CancelMany
  <2>2. \A k \in Jobs : jobs'[k].busy => jobs[k].busy /\ jobs'[k].thread = jobs[k].thread
    BY <1>0, <2>1 DEF FreeJob
  <2>3. /\ tab'.url = tab.url /\ tab'.runThread = tab.runThread /\ tab'.watch = tab.watch
        /\ \/ tab'.settling = tab.settling /\ tab'.latest = tab.latest
              /\ tab'.cancelOf = tab.cancelOf
           \/ tab'.latest = NoJob /\ tab'.cancelOf = NoThread
    BY <1>0, <2>1 DEF Settled, TabRecord
  <2>4. TabPart'
    BY <1>R, <2>1, <2>2, <2>3 DEF TabPart, SettledIsFree, ThreadsExist
  <2>5. RunPart'
    BY <1>0, <1>R, <2>1, <2>2, SweptMayBeCancelled, RunsKept DEF Named, RunsAreSubmitted
  <2> QED BY <2>4, <2>5 DEF CancelInv, RunPart, TabPart
<1>21. CASE UNCHANGED vars
  BY <1>21, <1>R
  DEF vars, CancelInv, SettledIsFree, ThreadsExist, RunsAreSubmitted, SweptIsWanted,
      LateIsWanted, CancelIsWanted
<1> QED
  BY <1>1, <1>2, <1>3, <1>4, <1>5, <1>6, <1>7, <1>9, <1>10, <1>11, <1>12, <1>13,
     <1>14, <1>15, <1>16, <1>17, <1>18, <1>20, <1>21, <1>L5
  DEF Next

LEMMA CancelInitially == Init => CancelInv
<1> SUFFICES ASSUME Init PROVE CancelInv
  OBVIOUS
<1> USE BoundsAssumption DEF Init
<1>1. PICK t \in OldThreads \cup {NoThread} : tab = NewSession(t)
  OBVIOUS
<1>2. SettledIsFree /\ ThreadsExist
  BY <1>1 DEF SettledIsFree, ThreadsExist, NewSession, FreeJob
<1>3. PICK u \in OldThreads : run = [r \in Runs |->
          IF r = 1 THEN [thread |-> u, status |-> "paused"]
          ELSE [thread |-> NoThread, status |-> "none"]]
  OBVIOUS
<1>4. RunsAreSubmitted
  BY <1>3 DEF RunsAreSubmitted, Closed
<1>5. SweptIsWanted /\ LateIsWanted
  BY DEF SweptIsWanted, LateIsWanted, FreeJob, Closed
<1>6. CancelIsWanted
  BY <1>3 DEF CancelIsWanted
<1> QED BY <1>2, <1>4, <1>5, <1>6 DEF CancelInv

\* Whatever is lost, late or superseded, and with any number of clean-ups in
\* flight, no run is cancelled that nobody wanted to end, but for the gaps that
\* `exposed` names.
THEOREM NothingElseIsCancelled == Spec => []CancelIsWanted
<1>1. IInv /\ CancelInv /\ [Next]_vars => (IInv /\ CancelInv)'
  BY InvariantKept, CancelKept
<1>2. CancelInv => CancelIsWanted
  BY DEF CancelInv
<1> QED BY <1>1, <1>2, Initially, CancelInitially, PTL DEF Spec
=============================================================================
