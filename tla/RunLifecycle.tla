---------------------------- MODULE RunLifecycle ----------------------------
(***************************************************************************)
(* One browser tab of the chat and the Agent runs it starts.               *)
(*                                                                         *)
(* StreamSession (src/frontend/src/providers/Stream.tsx) wraps the SDK's   *)
(* stream: it arms a watchdog and a reconciler for every attempt, stops an *)
(* attempt on the user's wish, on a timeout, when the user leaves the      *)
(* thread and when the session is unmounted, and cleans the runs of that   *)
(* thread up on the server with cancelActiveThreadRuns.  While a clean-up  *)
(* is under way the session is "settling" and refuses new submissions.     *)
(*                                                                         *)
(* The SDK and the Agent server are external: what is modelled of them is  *)
(* what the code relies on - a submission creates a run, the thread id is  *)
(* told before the run is created, events of a replaced controller may     *)
(* still arrive, terminal events may be lost.                              *)
(***************************************************************************)
EXTENDS Naturals, Sequences, FiniteSets

CONSTANTS
    Threads,        \* thread ids
    OldThreads,     \* the threads that exist when the tab is opened
    NoThread,       \* null: a new chat that has no thread yet
    Jobs,           \* clean-ups that can be in flight together
    NoJob,
    MaxRuns,        \* bound: submissions of the tab
    MaxTroubles     \* bound: failed requests, lost events, navigations and token
                    \* refreshes, taken together

ASSUME BoundsAssumption ==
    /\ MaxRuns \in Nat \ {0} /\ MaxTroubles \in Nat
    /\ OldThreads \subseteq Threads /\ NoThread \notin Threads /\ NoJob \notin Jobs

VARIABLES
    run,        \* the server's runs: thread and status
    log,        \* the order in which the server created them
    threads,    \* the threads that exist
    call,       \* what this tab's controllers know of each submission
    tab,        \* the refs and the state of StreamSession
    jobs,       \* cancelActiveThreadRuns calls in flight
    wanted,     \* history: runs somebody asked to end
    exposed,    \* history: runs a known gap of the code leaves open to a clean-up
    missed,     \* history: runs a failed request or a known gap hides from clean-ups
    troubles    \* how much of MaxTroubles is used

history == <<wanted, exposed, missed>>
vars == <<run, log, threads, call, tab, jobs, history, troubles>>
server == <<run, log, threads>>

Runs == 1..MaxRuns
ThreadRef == Threads \cup {NoThread}
Unfinished == {"pending", "running"}
Ended == {"done", "paused", "cancelled"}

\* What a controller that has finished with a submission knows of it.
Closed == [stream |-> "closed", home |-> NoThread, live |-> FALSE, stale |-> FALSE,
           gone |-> FALSE]

FreeJob == [busy |-> FALSE, thread |-> NoThread, ids |-> {}, todo |-> {}, ours |-> FALSE]

\* The refs of a session that has just been mounted on thread t.
NewSession(t) ==
    [url |-> t, runThread |-> t, ctrl |-> t, active |-> 0, activeThread |-> NoThread,
     timer |-> FALSE, bared |-> FALSE, watch |-> t, poll |-> FALSE, started |-> 0,
     tracker |-> "off",
     loading |-> FALSE, was |-> FALSE, settling |-> FALSE, cancelOf |-> NoThread,
     latest |-> NoJob]

Init ==
    /\ \E t \in OldThreads :
         run = [r \in Runs |-> IF r = 1 THEN [thread |-> t, status |-> "paused"]
                               ELSE [thread |-> NoThread, status |-> "none"]]
    /\ log = <<1>>
    /\ threads = OldThreads
    /\ call = [r \in Runs |-> IF r = 1 THEN Closed ELSE [Closed EXCEPT !.stream = "none"]]
    /\ \E t \in OldThreads \cup {NoThread} : tab = NewSession(t)
    /\ jobs = [j \in Jobs |-> FreeJob]
    /\ wanted = {} /\ exposed = {} /\ missed = {}
    /\ troubles = 0

-----------------------------------------------------------------------------
(* The helpers of StreamSession, on the session record. *)

\* a ?? b
Or(a, b) == IF a # NoThread THEN a ELSE b

\* clearRunTimer: watchdog, reconciler and approval tracker off.
Cleared(s) ==
    [s EXCEPT !.timer = FALSE, !.bared = FALSE, !.poll = FALSE, !.watch = NoThread,
              !.started = 0, !.tracker = "off"]

\* armRunWatchdog: a timer or a reconciler that already runs is left running.
Armed(s, t) == [s EXCEPT !.watch = t, !.timer = TRUE, !.bared = FALSE, !.poll = TRUE]

\* The thread a stop without an argument aims at.
StopTarget(s) == Or(s.runThread, s.url)
\* The thread the watchdog blames.
TimedThread(s) == Or(s.watch, StopTarget(s))

\* The run of the active ref, when it belongs to thread t.
KnownRun(s, t) == IF s.active # 0 /\ s.activeThread = t THEN {s.active} ELSE {}

LiveRuns == {r \in Runs : call[r].live}
Submitted == {r \in Runs : call[r].stream # "none"}

\* The controllers of the session are replaced: the runs they started keep the
\* thread recorded for their generation, and an open stream is closed.
Detached(c) ==
    [r \in Runs |->
        IF c[r].live
        THEN IF c[r].stream = "sent"
             THEN [c[r] EXCEPT !.home = tab.ctrl, !.live = FALSE, !.stale = TRUE]
             ELSE Closed
        ELSE c[r]]

\* The session is unmounted: nothing replaces its controllers, and what they
\* have not been told yet they still tell the refs it has left behind.
Unmounted(c) ==
    [r \in Runs |->
        IF c[r].stream # "sent" THEN IF c[r].live THEN Closed ELSE c[r]
        ELSE IF c[r].gone THEN c[r]
        ELSE [c[r] EXCEPT !.live = FALSE, !.gone = TRUE,
                          !.home = Or(IF c[r].live THEN tab.ctrl ELSE c[r].home, tab.url)]]

\* Pending runs are not looked for.
MutStartedJob(t, known, ours) ==
    [busy |-> TRUE, thread |-> t, ids |-> known, ours |-> ours,
     todo |-> {"running"} \cup (IF known # {} THEN {"known"} ELSE {})]

StartedJob(t, known, ours) ==
    [busy |-> TRUE, thread |-> t, ids |-> known, ours |-> ours,
     todo |-> {"pending", "running"} \cup (IF known # {} THEN {"known"} ELSE {})]

\* stopCurrentRun with resetController, as all its callers use it: the local
\* stream is stopped and replaced, and with `cancel` the thread is cleaned up.
StopRun(s, c, target, cancel) ==
    LET stopped == [Cleared(s) EXCEPT !.active = 0, !.activeThread = NoThread,
                                      !.loading = FALSE, !.ctrl = s.url]
    IN /\ call' = Detached(c)
       /\ IF cancel /\ target # NoThread
          THEN \E j \in Jobs :
                 /\ ~jobs[j].busy
                 /\ jobs' = [jobs EXCEPT ![j] = StartedJob(target, KnownRun(s, target), TRUE)]
                 /\ tab' = [stopped EXCEPT !.settling = TRUE, !.cancelOf = target, !.latest = j]
          ELSE jobs' = jobs /\ tab' = stopped

\* The runs a stop of that thread is meant for.
Aimed(target) == LiveRuns \cup {r \in Submitted : run[r].thread = target}

\* runs.cancel and runs.cancelMany (external): unfinished runs of the thread that is named.
CancelledAt(t, ids) ==
    [r \in Runs |-> IF r \in ids /\ run[r].thread = t /\ run[r].status \in Unfinished
                    THEN [run[r] EXCEPT !.status = "cancelled"] ELSE run[r]]

Trouble == troubles < MaxTroubles /\ troubles' = troubles + 1

-----------------------------------------------------------------------------
(* What the user does.  React flushes the loading effect before it hands    *)
(* over the next user event.                                                *)

Flushed == tab.was = tab.loading
\* The thread view does not wait for the clean-up.
MutIsBusy == tab.loading
IsBusy == tab.loading \/ tab.settling

\* A clean-up of the thread is in flight that this session does not wait for:
\* one of an unmounted session, or one that a later clean-up has superseded.
SweptThread(t) == \E j \in Jobs : jobs[j].busy /\ jobs[j].thread = t /\ j # tab.latest

NextRun(r) == r \in Runs \ Submitted /\ \A q \in Runs : q < r => q \in Submitted

\* `astray`: the controller's record of its thread is not that of the URL, so that
\* a late onCreated may name another thread than the run's.
Send(r, astray) ==
    /\ call' = [call EXCEPT ![r] = [Closed EXCEPT !.stream = "sent", !.live = TRUE]]
    /\ run' = [run EXCEPT ![r].thread = tab.url]
    /\ exposed' = IF SweptThread(tab.url) \/ LiveRuns # {} \/ (astray /\ tab.ctrl # NoThread)
                  THEN exposed \cup {r} ELSE exposed
    /\ missed' = IF astray THEN missed \cup {r} ELSE missed
    /\ UNCHANGED <<log, threads, jobs, wanted, troubles>>

\* handleSubmit and handleRegenerate of the thread view, then submitWithTimeout.
Submit(r) ==
    /\ NextRun(r) /\ Flushed /\ ~IsBusy
    /\ tab' = Armed([tab EXCEPT !.runThread = tab.url, !.ctrl = tab.url, !.active = 0,
                                !.activeThread = NoThread, !.started = Len(log) + 1,
                                !.loading = TRUE], tab.url)
    /\ Send(r, FALSE)

OnThread(t) == {r \in Runs : run[r].thread = t /\ run[r].status # "none"}
CreatedAt(r) == CHOOSE i \in DOMAIN log : log[i] = r
Newest(t) == CHOOSE r \in OnThread(t) : \A q \in OnThread(t) : CreatedAt(q) <= CreatedAt(r)

\* respondWithTimeout and respondAllWithTimeout: an approval resumes a paused
\* run.  No start time is recorded, so the reconciler has nothing to look for;
\* the lifecycle tracker is subscribed instead.  The stream is loading only once
\* the run is seen running.
Respond(r) ==
    /\ NextRun(r) /\ Flushed /\ ~IsBusy
    /\ OnThread(tab.url) # {} /\ run[Newest(tab.url)].status = "paused"
    /\ tab' = [Armed([tab EXCEPT !.runThread = tab.url, !.started = 0], tab.url)
                 EXCEPT !.tracker = "waiting"]
    /\ Send(r, tab.ctrl # tab.url)

\* The stop button, shown while the stream is loading.
StopButton ==
    /\ Flushed /\ tab.loading
    /\ StopRun(tab, call, StopTarget(tab), TRUE)
    /\ wanted' = wanted \cup Aimed(StopTarget(tab))
    /\ UNCHANGED <<server, exposed, missed, troubles>>

\* The thread in the URL changes: the layout effect stops what runs on the
\* thread that is left.  A new chat that has no thread yet cannot be stopped.
LeavesRuns ==
    StopTarget(tab) # NoThread /\ (tab.timer \/ tab.loading \/ tab.active # 0)

MoveTo(t, c) ==
    LET moved == [tab EXCEPT !.url = t, !.runThread = t]
    IN IF LeavesRuns
       THEN StopRun(moved, c, StopTarget(tab), TRUE)
       ELSE tab' = [moved EXCEPT !.loading = FALSE] /\ call' = c /\ UNCHANGED jobs

OpenThread(t) ==
    /\ Flushed /\ t # tab.url /\ Trouble
    /\ MoveTo(t, call)
    /\ wanted' = IF LeavesRuns THEN wanted \cup Aimed(StopTarget(tab)) ELSE wanted
    /\ UNCHANGED <<server, exposed, missed>>

-----------------------------------------------------------------------------
(* What the SDK reports. *)

\* cancelRunExactly: one request for one run, whose failure is only logged.
CancelRunExactly(t, r) ==
    \/ run' = CancelledAt(t, {r}) /\ UNCHANGED <<troubles, missed>>
    \/ UNCHANGED run /\ Trouble /\ missed' = missed \cup {r}

\* The SDK has created the thread of a new chat.
NewThread(r, t) ==
    /\ call[r].stream = "sent" /\ run[r].thread = NoThread
    /\ t \in Threads \ threads
    /\ threads' = threads \cup {t}
    /\ run' = [run EXCEPT ![r].thread = t]

\* onThreadId.  There is no check of the controller's generation: the URL follows
\* wherever the user is now.
OnThreadId(r, t) ==
    /\ NewThread(r, t) /\ ~call[r].gone
    /\ call' = IF call[r].live THEN call ELSE [call EXCEPT ![r].home = t]
    /\ LET told == [tab EXCEPT !.url = t, !.runThread = t,
                               !.ctrl = IF call[r].live THEN t ELSE tab.ctrl,
                               !.watch = IF tab.timer /\ tab.watch = NoThread THEN t ELSE tab.watch]
       IN tab' = IF tab.loading THEN Armed(told, t) ELSE told
    /\ LET astray == IF tab.url # NoThread THEN LiveRuns ELSE {}
       IN /\ exposed' = exposed \cup (astray \ {r}) \cup (IF SweptThread(t) THEN {r} ELSE {})
          /\ missed' = missed \cup astray
    /\ UNCHANGED <<log, jobs, wanted, troubles>>

\* onThreadId of an unmounted session: of its refs only the URL is shared with
\* the session that is mounted now, which takes it for a navigation of the user.
OnThreadIdLate(r, t) ==
    /\ NewThread(r, t) /\ call[r].gone
    /\ MoveTo(t, [call EXCEPT ![r].home = t])
    /\ LET others == IF LeavesRuns THEN Aimed(StopTarget(tab)) ELSE LiveRuns
       IN exposed' = exposed \cup others /\ missed' = missed \cup others
    /\ UNCHANGED <<log, wanted, troubles>>

\* The generation of the controller is not compared.
MutOnCreated(r) ==
    LET home == Or(tab.ctrl, tab.url)
    IN /\ call[r].stream = "sent" /\ run[r].status # "none"
       /\ call' = [call EXCEPT ![r] = IF call[r].live THEN [@ EXCEPT !.stream = "open"] ELSE Closed]
       /\ IF tab.cancelOf = home
          THEN UNCHANGED tab /\ CancelRunExactly(home, r)
          ELSE /\ tab' = [tab EXCEPT !.active = r, !.activeThread = home]
               /\ UNCHANGED <<run, troubles, missed>>
       /\ UNCHANGED <<log, threads, jobs, wanted, exposed>>

\* onCreated: the run of a replaced controller, or of a thread that is being
\* cleaned up, is cancelled exactly; any other becomes the active run.  A session
\* unmounted meanwhile adopts the run all the same, and nobody cancels it.
OnCreated(r) ==
    LET home == Or(IF call[r].live THEN tab.ctrl ELSE call[r].home, tab.url)
        stale == call[r].stale \/ (call[r].live /\ tab.cancelOf = home)
    IN /\ call[r].stream = "sent" /\ run[r].status # "none"
       /\ call' = [call EXCEPT ![r] = IF call[r].live THEN [@ EXCEPT !.stream = "open"] ELSE Closed]
       /\ IF stale
          THEN UNCHANGED tab /\ CancelRunExactly(home, r)
          ELSE /\ tab' = IF call[r].live
                         THEN [tab EXCEPT !.active = r, !.activeThread = home] ELSE tab
               /\ UNCHANGED <<run, troubles, missed>>
       /\ UNCHANGED <<log, threads, jobs, wanted, exposed>>

\* ResumedRunLifecycleTracker.observe: does this event end the attempt?
EndsResumed(s, event) ==
    /\ s.tracker # "off"
    /\ event \in {"completed", "failed"} \/ (event = "interrupted" /\ s.tracker = "running")

\* The lifecycle event "running" of the resumed run.
SeesRunning(r) ==
    /\ tab.tracker = "waiting"
    /\ call[r].stream = "open" /\ call[r].live /\ run[r].status = "running"
    /\ tab' = [tab EXCEPT !.tracker = "running", !.loading = TRUE]
    /\ UNCHANGED <<server, call, jobs, history, troubles>>

\* The pause that is being answered is replayed to the new subscription.
ReplaysPause ==
    /\ tab.tracker = "waiting"
    /\ tab' = IF EndsResumed(tab, "interrupted") THEN Cleared(tab) ELSE tab
    /\ UNCHANGED <<server, call, jobs, history, troubles>>

\* onCompleted of a controller that is still in use.
Completed(s, r) ==
    IF s.active \in {0, r} THEN Cleared([s EXCEPT !.active = 0, !.activeThread = NoThread]) ELSE s

\* The terminal event of a run: the stream is no longer loading.
OnCompleted(r) ==
    LET told == [Completed(tab, r) EXCEPT !.loading = FALSE]
        event == IF run[r].status = "paused" THEN "interrupted" ELSE "completed"
    IN /\ call[r].stream = "open" /\ call[r].live /\ run[r].status \in Ended
       /\ call' = [call EXCEPT ![r] = Closed]
       /\ tab' = IF EndsResumed(tab, event) THEN Cleared(told) ELSE told
       /\ UNCHANGED <<server, jobs, history, troubles>>

\* The connection dies without a terminal event.
StreamLost(r) ==
    /\ call[r].stream = "open" /\ call[r].live /\ Trouble
    /\ call' = [call EXCEPT ![r].stream = "lost"]
    /\ UNCHANGED <<server, tab, jobs, history>>

\* The submission fails (a lost request, or a thread that is busy and rejects
\* it): its promise is rejected, and the watchdog is cleared whichever attempt it
\* is of.  A run that exists all the same is known to nobody any more.
SubmitRejected(r) ==
    /\ call[r].stream = "sent"
    /\ \/ run[r].status = "none" /\ UNCHANGED <<troubles, missed>>
       \/ run[r].status # "none" /\ Trouble /\ missed' = missed \cup {r}
    /\ call' = [call EXCEPT ![r] = Closed]
    /\ tab' = IF call[r].live THEN [Cleared(tab) EXCEPT !.loading = FALSE]
              ELSE IF call[r].gone THEN tab
              ELSE [Cleared(tab) EXCEPT !.bared = tab.loading /\ tab.was]
    /\ UNCHANGED <<server, jobs, wanted, exposed>>

\* A controller that is put on a thread with an unfinished run follows it.
Attach(r) ==
    /\ Flushed /\ ~tab.loading /\ call[r].stream = "closed"
    /\ run[r].thread = tab.url /\ run[r].status \in Unfinished
    /\ call' = [call EXCEPT ![r] = [Closed EXCEPT !.stream = "open", !.live = TRUE]]
    /\ tab' = [tab EXCEPT !.loading = TRUE]
    /\ UNCHANGED <<server, jobs, history, troubles>>

-----------------------------------------------------------------------------
(* Timers and effects of the session. *)

LoadingEffect ==
    /\ ~Flushed
    /\ tab' = IF tab.loading
              THEN Armed([tab EXCEPT !.was = TRUE], StopTarget(tab))
              ELSE Cleared([tab EXCEPT !.was = FALSE])
    /\ UNCHANGED <<server, call, jobs, history, troubles>>

\* AgentRunWatchdog fires.
Timeout ==
    /\ tab.timer
    /\ StopRun([tab EXCEPT !.timer = FALSE], call, TimedThread(tab), TRUE)
    /\ wanted' = wanted \cup Aimed(TimedThread(tab))
    /\ UNCHANGED <<server, exposed, missed, troubles>>

\* The run whose record the reconciler reads: the active one, or the newest of
\* the thread if it was created since the attempt began - or up to two seconds
\* before it, which can be the run before it.
Polled(s) ==
    LET t == Or(s.activeThread, TimedThread(s))
    IN IF s.started = 0 THEN {}
       ELSE IF s.active # 0
            THEN {r \in {s.active} : run[r].thread = t}
            ELSE {r \in OnThread(t) : r = Newest(t) /\ CreatedAt(r) + 1 >= s.started}

\* AgentRunCompletionReconciler reads a terminal status: the stream is replaced
\* without any cancellation.  An answer that arrives after clear() is dropped.
Reconcile ==
    /\ tab.poll
    /\ \E r \in Polled(tab) :
         /\ run[r].status \in Ended
         /\ exposed' = exposed \cup (LiveRuns \ {r})
    /\ StopRun([tab EXCEPT !.poll = FALSE], call, Or(tab.activeThread, TimedThread(tab)), FALSE)
    /\ UNCHANGED <<server, wanted, missed, troubles>>

\* The access token is refreshed: the session's key changes, the old session is
\* unmounted - its clean-up runs on, unknown to the new one - and a new session
\* is mounted on the same thread.  The watchdog is cleared before it is looked at,
\* so an answer to a pause that is not loading yet is left to run.
Remount ==
    LET target == StopTarget(tab)
        unsettled == tab.loading \/ tab.active # 0 \/ tab.settling
        orphaned == [j \in Jobs |-> [jobs[j] EXCEPT !.ours = FALSE]]
    IN /\ Trouble
       /\ call' = Unmounted(call)
       /\ tab' = NewSession(tab.url)
       /\ IF unsettled /\ target # NoThread
          THEN /\ \E j \in Jobs :
                    /\ ~jobs[j].busy
                    /\ jobs' = [orphaned EXCEPT
                                  ![j] = StartedJob(target, KnownRun(tab, target), FALSE)]
               /\ wanted' = wanted \cup Aimed(target)
          ELSE jobs' = orphaned /\ UNCHANGED wanted
       /\ UNCHANGED <<server, exposed, missed>>

-----------------------------------------------------------------------------
(* cancelActiveThreadRuns: the known run is cancelled and the pending and   *)
(* the running runs are listed, all at the same time; then what was found   *)
(* is cancelled.  Every request may fail, or be aborted after 10 s.         *)

CancelKnown(j) ==
    /\ jobs[j].busy /\ "known" \in jobs[j].todo
    /\ jobs' = [jobs EXCEPT ![j].todo = @ \ {"known"}]
    /\ \/ run' = CancelledAt(jobs[j].thread, jobs[j].ids) /\ UNCHANGED troubles
       \/ UNCHANGED run /\ Trouble
    /\ UNCHANGED <<log, threads, call, tab, history>>

Found(j, status) == {r \in OnThread(jobs[j].thread) : run[r].status = status}

ListRuns(j, status) ==
    /\ jobs[j].busy /\ status \in jobs[j].todo
    /\ \/ /\ jobs' = [jobs EXCEPT ![j].todo = @ \ {status}, ![j].ids = @ \cup Found(j, status)]
          /\ UNCHANGED <<troubles, missed>>
       \/ /\ jobs' = [jobs EXCEPT ![j].todo = @ \ {status}]
          /\ Trouble /\ missed' = missed \cup Found(j, status)
    /\ UNCHANGED <<server, call, tab, wanted, exposed>>

\* A clean-up that finds nothing to cancel returns early.
MutSettled(s, j) ==
    IF jobs[j].ours /\ s.latest = j /\ jobs[j].ids # {}
    THEN [s EXCEPT !.settling = FALSE, !.cancelOf = NoThread, !.latest = NoJob]
    ELSE s

\* The finally of cancelThreadRuns: only the latest clean-up ends the settling.
Settled(s, j) ==
    IF jobs[j].ours /\ s.latest = j
    THEN [s EXCEPT !.settling = FALSE, !.cancelOf = NoThread, !.latest = NoJob]
    ELSE s

CancelMany(j) ==
    /\ jobs[j].busy /\ jobs[j].todo = {}
    /\ \/ run' = CancelledAt(jobs[j].thread, jobs[j].ids) /\ UNCHANGED <<troubles, missed>>
       \/ /\ Trouble
          /\ \E some \in SUBSET jobs[j].ids :
                /\ run' = CancelledAt(jobs[j].thread, some)
                /\ missed' = missed \cup (jobs[j].ids \ some)
    /\ jobs' = [jobs EXCEPT ![j] = FreeJob]
    /\ tab' = Settled(tab, j)
    /\ UNCHANGED <<log, threads, call, wanted, exposed>>

-----------------------------------------------------------------------------
(* The Agent server (external). *)

\* A thread with an unfinished run rejects a second one (multitaskStrategy).  What
\* is created for a session unmounted meanwhile, nobody knows of.
CreateRun(r) ==
    /\ call[r].stream = "sent" /\ run[r].thread # NoThread /\ run[r].status = "none"
    /\ \A q \in OnThread(run[r].thread) : run[q].status \notin Unfinished
    /\ run' = [run EXCEPT ![r].status = "pending"]
    /\ log' = Append(log, r)
    /\ missed' = IF call[r].gone /\ ~call[r].stale THEN missed \cup {r} ELSE missed
    /\ UNCHANGED <<threads, call, tab, jobs, wanted, exposed, troubles>>

\* A run that begins between the two lists of a clean-up is in neither.
BeginRun(r) ==
    /\ run[r].status = "pending"
    /\ run' = [run EXCEPT ![r].status = "running"]
    /\ missed' = IF \E j \in Jobs : /\ jobs[j].busy /\ jobs[j].thread = run[r].thread
                                     /\ "pending" \in jobs[j].todo /\ "running" \notin jobs[j].todo
                 THEN missed \cup {r} ELSE missed
    /\ UNCHANGED <<log, threads, call, tab, jobs, wanted, exposed, troubles>>

EndRun(r) ==
    /\ run[r].status = "running"
    /\ \E s \in {"done", "paused"} : run' = [run EXCEPT ![r].status = s]
    /\ UNCHANGED <<log, threads, call, tab, jobs, history, troubles>>

Next ==
    \/ \E r \in Runs :
         \/ Submit(r) \/ Respond(r)
         \/ \E t \in Threads : OnThreadId(r, t) \/ OnThreadIdLate(r, t)
         \/ OnCreated(r) \/ SeesRunning(r) \/ OnCompleted(r) \/ StreamLost(r)
         \/ SubmitRejected(r) \/ Attach(r)
         \/ CreateRun(r) \/ BeginRun(r) \/ EndRun(r)
    \/ StopButton \/ ReplaysPause \/ LoadingEffect \/ Timeout \/ Reconcile \/ Remount
    \/ \E t \in threads \cup {NoThread} : OpenThread(t)
    \/ \E j \in Jobs :
         \/ CancelKnown(j) \/ CancelMany(j)
         \/ \E s \in Unfinished : ListRuns(j, s)

Spec == Init /\ [][Next]_vars

(* A timer that is armed fires, an effect that is due is flushed, the answer *)
(* to a submission and to a clean-up request arrives or is aborted.  Nothing *)
(* is assumed of the server: a run may hang for ever.                        *)
Fairness ==
    /\ WF_vars(LoadingEffect) /\ WF_vars(Timeout)
    /\ WF_vars(\E r \in Runs : OnCreated(r))
    /\ \A j \in Jobs : WF_vars(\/ CancelKnown(j) \/ CancelMany(j)
                               \/ \E s \in Unfinished : ListRuns(j, s))

LiveSpec == Spec /\ Fairness

-----------------------------------------------------------------------------
(* Properties *)

RunRecord == [thread : ThreadRef, status : {"none"} \cup Unfinished \cup Ended]
CallRecord == [stream : {"none", "sent", "open", "lost", "closed"},
               home : ThreadRef,
               live : BOOLEAN,      \* its controller is the session's
               stale : BOOLEAN,     \* its controller was replaced
               gone : BOOLEAN]      \* its session was unmounted
TabRecord ==
    [url : ThreadRef, runThread : ThreadRef, ctrl : ThreadRef, active : 0..MaxRuns,
     activeThread : ThreadRef, timer : BOOLEAN, watch : ThreadRef, poll : BOOLEAN,
     bared : BOOLEAN,       \* history: another attempt's rejection took its timer
     started : Nat, tracker : {"off", "waiting", "running"}, loading : BOOLEAN,
     was : BOOLEAN, settling : BOOLEAN, cancelOf : ThreadRef, latest : Jobs \cup {NoJob}]
JobRecord ==
    [busy : BOOLEAN, thread : ThreadRef, ids : SUBSET Runs,
     todo : SUBSET {"pending", "running", "known"}, ours : BOOLEAN]

TypeOK ==
    /\ run \in [Runs -> RunRecord]
    /\ log \in Seq(Runs)
    /\ threads \subseteq Threads
    /\ call \in [Runs -> CallRecord]
    /\ tab \in TabRecord
    /\ jobs \in [Jobs -> JobRecord]
    /\ wanted \subseteq Runs /\ exposed \subseteq Runs /\ missed \subseteq Runs
    /\ troubles \in Nat

\* The active run is one the current controller follows: an event that comes
\* late can never make a stopped run the active one again.
ActiveIsLive ==
    tab.active # 0 =>
        call[tab.active].live /\ call[tab.active].stream \in {"open", "lost"}

\* While submissions are refused a clean-up of this session is in flight that
\* will lift the refusal, and onCreated refuses the runs of the same thread.
SettlingHasItsJob ==
    tab.settling => /\ tab.latest \in Jobs
                    /\ jobs[tab.latest].busy /\ jobs[tab.latest].ours
                    /\ jobs[tab.latest].thread = tab.cancelOf

\* A stream that is loading, once React has seen it, has a watchdog: whatever
\* cleared the timer of an earlier attempt has not taken this one's - except the
\* rejection of a replaced attempt's promise, which does (`bared`).
LoadingIsWatched == tab.loading /\ tab.was => tab.timer \/ tab.bared

\* The tracker of a resumed run lives exactly as long as its watchdog.
TrackerIsWatched == tab.tracker # "off" => tab.timer

\* The inductive invariant: the parts above.
IInv ==
    /\ TypeOK
    /\ ActiveIsLive
    /\ SettlingHasItsJob
    /\ LoadingIsWatched
    /\ TrackerIsWatched

\* A run is cancelled only if, after it was submitted, the user stopped it or
\* left its thread, or it timed out, or the session was unmounted.  `exposed`
\* names the gaps: a submission made while an orphaned or superseded clean-up of
\* its thread is in flight, a new chat left before its thread is known, and a
\* reconciler that takes another run of the thread for the attempt's.
CancelIsWanted ==
    \A r \in Runs : run[r].status = "cancelled" => r \in wanted \cup exposed

\* What makes it so.  A session that is not settling knows of no clean-up.
SettledIsFree == ~tab.settling => tab.latest = NoJob /\ tab.cancelOf = NoThread

\* Clean-ups are of threads that exist, as are the threads of the session.
ThreadsExist ==
    /\ {tab.url, tab.runThread, tab.watch} \subseteq threads \cup {NoThread}
    /\ \A j \in Jobs : jobs[j].busy => jobs[j].thread \in threads

\* A run on the server has been submitted, to a thread.
RunsAreSubmitted ==
    \A r \in Runs : /\ call[r].stream = "none" => ~call[r].live
                    /\ run[r].status # "none" => /\ call[r].stream # "none"
                                                 /\ run[r].thread # NoThread

\* Everything submitted to a thread that is being cleaned up is to be cancelled.
SweptIsWanted ==
    \A j \in Jobs, r \in Runs :
        jobs[j].busy /\ call[r].stream # "none" /\ run[r].thread = jobs[j].thread
            => r \in wanted \cup exposed

\* A run whose controller was replaced before onCreated is to be cancelled.
LateIsWanted ==
    \A r \in Runs : call[r].stream = "sent" /\ call[r].stale
        => r \in wanted \cup exposed \/ run[r].status \in Ended

CancelInv ==
    /\ SettledIsFree
    /\ ThreadsExist
    /\ RunsAreSubmitted
    /\ SweptIsWanted
    /\ LateIsWanted
    /\ CancelIsWanted

\* The composer is given back: loading and settling both end, even if the run
\* hangs and its terminal event never comes - unless the rejection of a replaced
\* attempt's promise has taken the watchdog.
BusyEnds == IsBusy ~> (~IsBusy \/ tab.bared)

\* Runs that were to end and have not, and that no failed request of their own and
\* no named gap has hidden from the clean-ups.
Surviving == {r \in wanted \ missed : run[r].status \in Unfinished}

\* A run that was stopped - by the button, the watchdog, leaving its thread or
\* unmounting its session - ends on the server, also when it was stopped before
\* its id was known and whatever else goes wrong.  `missed` names the runs that may
\* go on: a request that was to list or cancel this run failed; it began between
\* the two lists of a clean-up; it was created after its session was unmounted; its
\* controller recorded another thread than the one it was sent to.
StopReachesServer == Surviving # {} ~> Surviving = {}
=============================================================================
