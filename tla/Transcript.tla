------------------------------ MODULE Transcript ------------------------------
(***************************************************************************)
(* What a conversation shows while its messages arrive: the messages and   *)
(* tool results, the place where a pause is approved, the sign that an     *)
(* answer is awaited, the failure of a run                                 *)
(* (src/frontend/src/components/thread: message-list.tsx, messages/*.tsx,  *)
(* hooks/use-thread-message-state.ts; lib/ensure-tool-responses.ts,        *)
(* lib/stream-errors.ts).                                                  *)
(*                                                                         *)
(* The messages are those of the stream; the agent server, which sends     *)
(* them, is external.  A message calls tools or is the result of one;      *)
(* `turn` is the place of the message whose calls a result belongs to.     *)
(***************************************************************************)
EXTENDS Naturals, Sequences, FiniteSets, SequencesExt

CONSTANTS
    Tools, Gated,   \* the tools, and those a run pauses for
    Errors,         \* the errors a run may end with
    MaxMessages,    \* bound: messages of the conversation
    MaxEvents       \* bound: messages sent, edits, failures, reloads together

VARIABLES
    msgs,       \* stream.messages
    pause,      \* the tools stream.interrupt asks about
    run,        \* how the run was begun, where it forks, what it came to, and the
                \* calls it has paused for that are still to arrive
    error,      \* stream.error
    told,       \* the error last told by a toast
    view,       \* tool calls hidden, first token received, thread loading
    editing,    \* the messages that are being edited
    sent,       \* history: the messages as they were when one was last sent
    events

vars == <<msgs, pause, run, error, told, view, editing, sent, events>>

Counted == events < MaxEvents /\ events' = events + 1
NoError == [timeout |-> FALSE, consumed |-> FALSE, policy |-> "none", busy |-> FALSE,
            fetch |-> FALSE, failed |-> FALSE]

Human == [type |-> "human", text |-> TRUE, tools |-> {}, turn |-> 0, hidden |-> FALSE]
Ai(text) == [Human EXCEPT !.type = "ai", !.text = text]
Result(t, turn, hidden) ==
    [type |-> "tool", text |-> TRUE, tools |-> {t}, turn |-> turn, hidden |-> hidden]

Running == run.state = "running"
Busy == Running
LastIs(type) == msgs # <<>> /\ Last(msgs).type = type

\* The calls of the last message with calls that have no result.
CallsAt(i) == msgs[i].tools \ UNION {msgs[k].tools : k \in {k \in DOMAIN msgs : msgs[k].turn = i}}
Turn == LET callers == {i \in DOMAIN msgs : msgs[i].type = "ai" /\ msgs[i].tools # {}}
        IN IF callers = {} THEN 0 ELSE CHOOSE i \in callers : \A k \in callers : k <= i
Open == IF Turn = 0 THEN {} ELSE CallsAt(Turn)

\* Results for some calls of the message at `turn`.
Results(ts, turn, hidden) ==
    LET order == SetToSeq(ts)
    IN [k \in DOMAIN order |-> Result(order[k], turn, hidden)]

\* A message that nothing follows is passed over.
MutUnanswered(i) == i < Len(msgs) /\ msgs[i].type = "ai" /\ msgs[i + 1].type # "tool"
Unanswered(i) ==
    /\ msgs[i].type = "ai"
    /\ ~(i < Len(msgs) /\ msgs[i + 1].type = "tool")

\* ensureToolCallsHaveResponses: results for the calls of a message that none follows,
\* hidden ones, so that their order is seen by nobody.
Answers ==
    LET owed == {e \in (DOMAIN msgs) \X Tools : Unanswered(e[1]) /\ e[2] \in msgs[e[1]].tools}
        order == SetToSeq(owed)
    IN [k \in DOMAIN order |-> Result(order[k][2], order[k][1], TRUE)]

-----------------------------------------------------------------------------
(* What is shown (MessageItems, AssistantMessage). *)

Renderable == IF view.loading THEN {} ELSE {i \in DOMAIN msgs : ~msgs[i].hidden}
NoAiOrTool == \A i \in DOMAIN msgs : msgs[i].type = "human"

\* Any message that calls a tool the pause is about, however old.
MutShouldRenderInterrupt(i) == msgs[i].tools \cap pause # {}

\* shouldRenderInterruptForMessage, for a message that is not the user's.
ShouldRenderInterrupt(i) == i = Len(msgs) /\ msgs[i].tools \cap pause # {}

\* The messages a pause is shown under; 0 stands for the message list's own place.
PausePlaces ==
    {i \in Renderable : /\ msgs[i].type # "human" /\ ShouldRenderInterrupt(i)
                        /\ ~(msgs[i].type = "tool" /\ view.hide)}
    \cup (IF ~view.loading /\ NoAiOrTool /\ pause # {} THEN {0} ELSE {})

\* HiddenToolResultFallback: results stand in for an answer that was not given.
Fallback(i) ==
    /\ msgs[i].type = "tool" /\ view.hide /\ ~Running
    /\ ~\E k \in DOMAIN msgs : k > i /\ msgs[k].type = "ai" /\ msgs[k].text

\* ToolCalls and ToolResult.
ShowsCalls(i) == msgs[i].type = "ai" /\ msgs[i].tools # {} /\ ~view.hide
ShowsResult(i) == msgs[i].type = "tool" /\ ~view.hide
ShowsText(i) == msgs[i].type \in {"human", "ai"} /\ msgs[i].text
Shown == {i \in Renderable : ShowsText(i) \/ ShowsCalls(i) \/ ShowsResult(i) \/ Fallback(i)}

\* AssistantMessageLoading.
ShowsAwaited == Running /\ ~view.first

\* isAlreadyConsumedInterruptError, and getKnownStreamErrorInfo in the order of its tests.
Known(e) == CASE e.timeout -> "timeout"
              [] ~e.timeout /\ (e.policy = "rate" \/ e.busy) -> "rate-limit"
              [] ~e.timeout /\ ~e.busy /\ e.policy \in {"tool", "account", "quota"} -> e.policy
              [] ~e.timeout /\ ~e.busy /\ e.policy = "none" /\ e.fetch -> "network"
              [] OTHER -> "unknown"
RunError == IF error.consumed THEN NoError ELSE error

ShowsFailure ==
    /\ RunError # NoError /\ ~Running /\ pause = {} /\ Renderable # {}
    /\ LastIs("human") \/ Known(RunError) = "timeout"

-----------------------------------------------------------------------------
(* What the user does. *)

\* The effects of useThreadMessageState: an answer has begun to arrive.
FirstToken(ms, loading, first) ==
    first \/ (~loading /\ ms # <<>> /\ Last(ms).type = "ai" /\ Last(ms).text)

\* The page goes on believing that it has its first token.
MutWaitForFirstToken == view.first
WaitForFirstToken == FALSE

EditingAfter(ms) == {i \in editing : i <= Len(ms)}

Arrive(ms) ==
    /\ Len(ms) <= MaxMessages /\ msgs' = ms
    /\ editing' = EditingAfter(ms)
    /\ view' = [view EXCEPT !.first = FirstToken(ms, view.loading, @)]

Begin(by, fork) == run' = [state |-> "running", by |-> by, fork |-> fork, base |-> Len(msgs'),
                           approved |-> by = "respond", due |-> {}]
Ended(state) == run' = [run EXCEPT !.state = state]

\* What the run has paused for is there before the user acts on it.
CaughtUp == run.due = {}

\* handleSubmit: unanswered calls get their results before the new message.
Submit ==
    /\ ~Busy /\ CaughtUp /\ ~view.loading /\ Counted
    /\ msgs' = msgs \o Answers \o <<Human>> /\ Len(msgs') <= MaxMessages
    /\ sent' = msgs' /\ Begin("submit", 0)
    /\ view' = [view EXCEPT !.first = WaitForFirstToken]
    /\ pause' = {} /\ error' = NoError /\ told' = NoError
    /\ UNCHANGED editing

\* handleRegenerate, from the command bar of an answer.
Regenerate(i) ==
    /\ ~Busy /\ CaughtUp /\ Counted /\ i \in Renderable /\ msgs[i].type = "ai"
    /\ UNCHANGED msgs /\ Begin("regenerate", i)
    /\ view' = [view EXCEPT !.first = WaitForFirstToken]
    /\ pause' = {} /\ error' = NoError /\ told' = NoError
    /\ UNCHANGED <<editing, sent>>

\* Every message of the user has an editor of its own.
StartEdit(i) ==
    /\ ~Running /\ i \in Renderable \ editing /\ msgs[i].type = "human"
    /\ editing' = editing \cup {i}
    /\ UNCHANGED <<msgs, pause, run, error, told, view, sent, events>>

CancelEdit(i) ==
    /\ ~Running /\ i \in editing /\ editing' = editing \ {i}
    /\ UNCHANGED <<msgs, pause, run, error, told, view, sent, events>>

\* handleSubmitEdit: a fork before the message; nothing waits for the first token.
SubmitEdit(i) ==
    /\ ~Busy /\ CaughtUp /\ Counted /\ i \in editing
    /\ UNCHANGED msgs /\ Begin("edit", i) /\ editing' = editing \ {i}
    /\ pause' = {} /\ error' = NoError /\ told' = NoError
    /\ UNCHANGED <<view, sent>>

\* The calls in `rejected` get a result without being run, the others are run.
Respond(rejected) ==
    /\ ~Busy /\ CaughtUp /\ pause # {} /\ rejected \subseteq pause /\ Counted
    /\ Arrive(msgs \o Results(rejected, Turn, FALSE))
    /\ Begin("respond", 0) /\ pause' = {} /\ error' = NoError /\ told' = NoError
    /\ UNCHANGED sent

ToggleToolCalls ==
    /\ Counted /\ view' = [view EXCEPT !.hide = ~@]
    /\ UNCHANGED <<msgs, pause, run, error, told, editing, sent>>

\* The thread is left and opened again.
LoadThread ==
    /\ ~Busy /\ CaughtUp /\ ~view.loading /\ Counted
    /\ view' = [view EXCEPT !.loading = TRUE, !.first = FALSE] /\ editing' = {}
    /\ error' = NoError /\ told' = NoError /\ run' = [run EXCEPT !.state = "left"]
    /\ UNCHANGED <<msgs, pause, sent>>

Hydrated ==
    /\ view.loading
    /\ view' = [view EXCEPT !.loading = FALSE, !.first = FirstToken(msgs, FALSE, @)]
    /\ UNCHANGED <<msgs, pause, run, error, told, editing, sent, events>>

-----------------------------------------------------------------------------
(* What the stream brings. *)

Streaming == Running /\ run.fork = 0
\* A run that has paused, or was stopped meanwhile, may still be bringing its message.
Coming == Streaming \/ ~CaughtUp

\* The messages at the checkpoint before message i: what was sent along with it is not.
Before(i) ==
    LET earlier == {k \in 1..i - 1 : ~msgs[k].hidden}
    IN IF msgs[i].type = "ai" \/ earlier = {} THEN SubSeq(msgs, 1, i - 1)
       ELSE SubSeq(msgs, 1, CHOOSE k \in earlier : \A n \in earlier : n <= k)

\* The first values of a run that forks: what came before message `fork`.
Forked ==
    /\ Running /\ run.fork > 0
    /\ Arrive(Before(run.fork) \o (IF run.by = "edit" THEN <<Human>> ELSE <<>>))
    /\ run' = [run EXCEPT !.fork = 0, !.base = Len(msgs')]
    /\ UNCHANGED <<pause, error, told, sent, events>>

AiMessage(text) ==
    /\ Coming /\ Open = {} /\ msgs # <<>> /\ ~LastIs("ai")
    /\ Arrive(Append(msgs, Ai(text)))
    /\ UNCHANGED <<pause, run, error, told, sent, events>>

AiCalls(ts) ==
    /\ Coming /\ LastIs("ai") /\ Last(msgs).tools = {} /\ ts # {}
    /\ run.due \in {{}, ts}
    /\ Arrive([msgs EXCEPT ![Len(msgs)].tools = ts])
    /\ run' = [run EXCEPT !.approved = FALSE, !.due = {}]
    /\ UNCHANGED <<pause, error, told, sent, events>>

ToolResult(t) ==
    /\ Streaming /\ ~LastIs("human") /\ t \in Open /\ (Open \cap Gated = {} \/ run.approved)
    /\ Arrive(Append(msgs, Result(t, Turn, FALSE)))
    /\ UNCHANGED <<pause, run, error, told, sent, events>>

\* The agent asks about some of the calls `ts` of a message.  The messages and what
\* the run asks come on channels of their own: the page may know of the pause first.
PauseTold(ts) ==
    /\ Streaming /\ pause = {} /\ ~run.approved /\ ts \cap Gated # {}
    /\ pause' = ts \cap Gated
    /\ \/ LastIs("ai") /\ ts = Open /\ UNCHANGED run
       \/ /\ Open = {} /\ msgs # <<>> /\ Len(msgs) < MaxMessages
          /\ LastIs("ai") => Last(msgs).tools = {}
          /\ run' = [run EXCEPT !.due = ts]
    /\ UNCHANGED <<msgs, error, told, view, editing, sent, events>>

RunPauses ==
    /\ Streaming /\ pause # {} /\ Ended("paused")
    /\ UNCHANGED <<msgs, pause, error, told, view, editing, sent, events>>

RunEnds ==
    /\ Streaming /\ pause = {} /\ LastIs("ai") /\ Last(msgs).tools = {}
    /\ Ended("done")
    /\ UNCHANGED <<msgs, pause, error, told, view, editing, sent, events>>

Stop ==
    /\ Running /\ Counted /\ Ended("stopped")
    /\ UNCHANGED <<msgs, pause, error, told, view, editing, sent>>

\* The effect on stream.error tells of every error that is not a consumed pause.
RunFails(e) ==
    /\ Running /\ Counted /\ Ended("failed")
    /\ error' = e /\ told' = IF e.consumed THEN told ELSE e
    /\ UNCHANGED <<msgs, pause, view, editing, sent>>

-----------------------------------------------------------------------------
Init ==
    /\ msgs = <<>> /\ pause = {} /\ sent = <<>>
    /\ run = [state |-> "new", by |-> "none", fork |-> 0, base |-> 0, approved |-> FALSE,
              due |-> {}]
    /\ error = NoError /\ told = NoError /\ editing = {} /\ events = 0
    /\ \E hide \in BOOLEAN : view = [hide |-> hide, first |-> FALSE, loading |-> FALSE]

Next ==
    \/ Submit \/ ToggleToolCalls \/ LoadThread \/ Hydrated
    \/ Forked \/ RunPauses \/ RunEnds \/ Stop
    \/ \E i \in DOMAIN msgs : Regenerate(i) \/ StartEdit(i) \/ CancelEdit(i) \/ SubmitEdit(i)
    \/ \E ts \in SUBSET Tools : Respond(ts) \/ AiCalls(ts) \/ PauseTold(ts)
    \/ \E text \in BOOLEAN : AiMessage(text)
    \/ \E t \in Tools : ToolResult(t)
    \/ \E e \in Errors : RunFails(e)

Spec == Init /\ [][Next]_vars

-----------------------------------------------------------------------------
(* What is to hold. *)

\* Types; what is edited is a message of the user that is in the list.
TypeOK ==
    /\ \A i \in DOMAIN msgs : /\ msgs[i].type \in {"human", "ai", "tool"}
                              /\ msgs[i].tools \subseteq Tools /\ msgs[i].turn < i
    /\ pause \subseteq Gated
    /\ view \in [hide : BOOLEAN, first : BOOLEAN, loading : BOOLEAN]
    /\ \A i \in editing : i \in DOMAIN msgs /\ msgs[i].type = "human"

\* A run that waits for a decision can be decided, and at one place only, as soon as its
\* message is there: whichever came first, and whatever was called before, edited,
\* regenerated, hidden or loaded again.
PauseIsShownOnce ==
    ~view.loading /\ pause # {} /\ CaughtUp => Cardinality(PausePlaces) = 1

\* After a message of the box is sent or an answer regenerated, the page shows that it
\* waits until the first words are there (waitForFirstToken).
AwaitedIsShown == Streaming /\ run.by \in {"submit", "regenerate"} /\ LastIs("human") => ShowsAwaited

\* What is sent from the box leaves no message of the model whose calls have no result
\* at all (ensureToolCallsHaveResponses), which a model would refuse.
TurnsAnswered ==
    \A i \in DOMAIN sent : sent[i].type = "ai" /\ sent[i].tools # {}
                              => \E k \in DOMAIN sent : sent[k].type = "tool" /\ sent[k].turn = i

\* What a run has come to is on display, with tool calls hidden or not: its pause, its
\* failure, or its words or results if it brought any.
OutcomeIsSeen ==
    ~view.loading =>
        /\ run.state = "failed" => ShowsFailure \/ (error # NoError => error.consumed \/ told = error)
        /\ run.state = "done" /\ (\E i \in DOMAIN msgs : /\ i > run.base /\ ~msgs[i].hidden
                                                         /\ msgs[i].text)
              => \E i \in Shown : i > run.base
=============================================================================
