---------------------------- MODULE ApprovalInbox ----------------------------
(***************************************************************************)
(* The approval of tool calls in the browser.                              *)
(*                                                                         *)
(* A paused run shows its action requests in ThreadActionsView             *)
(* (src/frontend/src/components/thread/agent-inbox).  A single request is  *)
(* answered from the form (useInterruptedActions, InboxItemInput); several *)
(* are decided one by one and submitted together, or approved all at once; *)
(* and a tool the user has ticked "do not ask again" for is approved by an *)
(* effect, which retries transient failures.  All of them end in           *)
(* stream.respond, which answers the pause the stream shows at that        *)
(* moment.                                                                 *)
(*                                                                         *)
(* Arguments are "orig" (as the model asked) or "changed" (as the user has *)
(* edited them); a decision remembers which ones were displayed.           *)
(***************************************************************************)
EXTENDS Naturals, Sequences, FiniteSets

CONSTANTS
    Requests,       \* the shapes of a pause: its tools and their review configs
    AutoTools,      \* AUTO_APPROVAL_SUPPORTED_TOOLS
    MaxPauses,      \* bound: pauses of the thread
    MaxRetries,     \* length of AUTO_APPROVAL_RETRY_DELAYS_MS
    MaxEvents       \* bound: later pauses, edits, stream updates, navigations, lost requests and
                    \* answers from elsewhere, taken together

Types == {"approve", "edit", "reject"}

VARIABLES
    pause,      \* the server: number and shape of the last pause, and whether it waits;
                \* histories: `trusted`, the preferences when it began; `gap`, whether
                \* what answered it was a retry that met a pause it did not know yet
    taken,      \* history: the decisions the server took for the last pause
    view,       \* the state and the refs of the mounted components
    flight,     \* requests of the components that are not settled
    prefs,      \* localStorage: the tools that are approved without asking
    events      \* how much of MaxEvents is used

vars == <<pause, taken, view, flight, prefs, events>>

Pauses == 1..MaxPauses
AutoSlots == {"auto1", "auto2"}
SubmitSlots == {"submit", "again"}
Slots == SubmitSlots \cup {"all", "approve", "resolve"} \cup AutoSlots
Selections == Types \cup {"none"}

Idle == [state |-> "idle", pause |-> 0, decisions |-> <<>>, tries |-> 0,
         own |-> FALSE, alive |-> FALSE, gap |-> FALSE]
Unmounted == [shown |-> 0]

\* A decision, the arguments on display when it was made, by whom and at which pause.
Decision(type, args, seen, by, at) ==
    [type |-> type, args |-> args, seen |-> seen, by |-> by, at |-> at]
NoDecision == Decision("none", "orig", "orig", "nobody", 0)

-----------------------------------------------------------------------------
(* What is asked, and what may be answered. *)

\* The pause on display, which may be over on the server.
Shape == view.shape
Many == Len(Shape.tools) > 1

\* matchingConfig: the first config with the tool's name, else the one at its place.
Allowed(i) ==
    LET named == {k \in DOMAIN Shape.configs : Shape.configs[k].name = Shape.tools[i]}
    IN IF named = {} THEN Shape.configs[i].allowed
       ELSE Shape.configs[CHOOSE k \in named : \A j \in named : k <= j].allowed

\* allAllowApprove: decided by name alone.
AllAllowApprove ==
    Many /\ \A i \in DOMAIN Shape.tools :
              \E k \in DOMAIN Shape.configs :
                 /\ Shape.configs[k].name = Shape.tools[i]
                 /\ \A j \in 1..(k - 1) : Shape.configs[j].name # Shape.tools[i]
                 /\ "approve" \in Shape.configs[k].allowed

May(t) == t \in Allowed(view.index)
Tool == Shape.tools[view.index]

-----------------------------------------------------------------------------
(* The form of one action. *)

\* createDefaultHumanResponse: approve before reject before edit.
DefaultType(allowed) ==
    IF "approve" \in allowed THEN "approve"
    ELSE IF "reject" \in allowed THEN "reject"
    ELSE IF "edit" \in allowed THEN "edit" ELSE "none"

\* The effect of useInterruptedActions when the interrupt or the action changes.
FreshForm(i) ==
    [sel |-> DefaultType(Allowed(i)), args |-> "orig", made |-> FALSE, edited |-> FALSE,
     reason |-> FALSE, base |-> TRUE, at |-> view.shown]

\* A change of the arguments is not remembered as one.
MutEdited(form, args) ==
    [form EXCEPT !.args = args, !.edited = args = "changed",
                 !.sel = IF args = "changed" THEN "edit" ELSE "approve"]

\* onEditChange.  Without the initial values, which a submission discards, every
\* edit counts as a change.
Edited(form, args) ==
    LET changed == ~form.base \/ args = "changed"
    IN [form EXCEPT
          !.args = args,
          !.edited = changed,
          !.made = IF May("approve") THEN changed ELSE form.made,
          !.sel = IF changed THEN "edit"
                  ELSE IF May("approve") THEN "approve"
                  ELSE IF form.reason THEN "reject" ELSE "edit"]

\* onRejectChange.
Reasoned(form, reason) ==
    [form EXCEPT
       !.reason = reason,
       !.sel = IF reason THEN "reject"
               ELSE IF form.edited THEN "edit"
               ELSE IF May("approve") THEN "approve"
               ELSE IF May("edit") THEN "edit" ELSE form.sel]

\* handleReset and setDefaultSubmitType: approve before edit before reject.
ResetForm(form) ==
    [form EXCEPT
       !.args = "orig", !.made = FALSE, !.edited = FALSE, !.reason = FALSE,
       !.sel = IF May("approve") THEN "approve"
               ELSE IF May("edit") THEN "edit"
               ELSE IF May("reject") THEN "reject" ELSE form.sel]

\* showRejectForm.
RejectShown ==
    /\ May("reject")
    /\ \/ view.form.sel = "reject" \/ view.form.reason
       \/ ~May("approve") /\ ~May("edit")

\* primarySubmitType, which the keyboard shortcut of the argument fields uses too.
Primary ==
    IF view.form.edited THEN "edit"
    ELSE IF May("approve") THEN "approve"
    ELSE IF May("edit") THEN "edit" ELSE "none"

Offered == {Primary} \cup (IF RejectShown THEN {"reject"} ELSE {})

\* What the form was filled in for, whatever is on display by now.
Made(form, type, args) == Decision(type, args, form.args, "user", form.at)

\* An edit without changes is an approval whether that is allowed or not.
MutBuilt(form, type) ==
    CASE type = "reject" /\ May("reject") /\ form.reason -> Made(form, "reject", "orig")
      [] type = "edit" /\ form.made -> Made(form, "edit", form.args)
      [] type \in {"approve", "edit"} /\ ~form.made -> Made(form, "approve", "orig")
      [] OTHER -> NoDecision

\* buildDecisionFromState: an edit without changes is an approval when that is
\* allowed; a rejection needs a reason.
Built(form, type) ==
    CASE type = "approve" /\ May("approve") -> Made(form, "approve", "orig")
      [] type = "reject" /\ May("reject") /\ form.reason -> Made(form, "reject", "orig")
      [] type = "edit" /\ May("edit") /\ May("approve") /\ ~form.made ->
            Made(form, "approve", "orig")
      [] type = "edit" /\ May("edit") /\ ~(May("approve") /\ ~form.made) ->
            Made(form, "edit", form.args)
      [] OTHER -> NoDecision

-----------------------------------------------------------------------------
(* Rendering. *)

IsShown == view.shown # 0

\* isToolAutoApproved, as it was read when the view was last rendered.
AutoEnabled ==
    May("approve") /\ Tool \in AutoTools /\ view.autoSeen /\ ~view.autoFailed

\* The disabled flag of InboxItemInput, and actionsDisabled.
InputDisabled == IF Many THEN view.allBusy ELSE view.busy \/ view.autoBusy \/ AutoEnabled
ActionsDisabled == view.busy \/ view.allBusy \/ view.autoBusy \/ AutoEnabled

\* The view is rendered again: preferences are read afresh.  Until the effects have run,
\* the action on display may be none of the new pause.
Rendered(v) ==
    [v EXCEPT !.autoSeen = v.index \in DOMAIN v.shape.tools /\ v.shape.tools[v.index] \in prefs]

\* A dependency of the auto-approval effect changed as well.
Due(v) == [Rendered(v) EXCEPT !.due = TRUE]

\* `moved`: another pause is on display and the effects have not run for it.  `cut` is a
\* history: nothing will end what the view shows of an approval on its own (see below).
NewView ==
    LET form == [sel |-> "none", args |-> "orig", made |-> FALSE, edited |-> FALSE,
                 reason |-> FALSE, base |-> TRUE, at |-> 0]
    IN Due([shown |-> pause.n, shape |-> pause.shape, index |-> 1, form |-> form,
            saved |-> <<>>, busy |-> FALSE, allBusy |-> FALSE, lock |-> FALSE,
            finished |-> FALSE, autoBusy |-> FALSE, autoKey |-> FALSE, autoFailed |-> FALSE,
            autoSeen |-> FALSE, due |-> TRUE, moved |-> TRUE, cut |-> FALSE])

\* A user event is handled when the effects of the last render have run.
Ready == IsShown /\ ~view.due

\* The components are unmounted: nothing they still wait for reaches a view.
Unmount ==
    /\ view' = Unmounted
    /\ flight' = [s \in Slots |-> [flight[s] EXCEPT !.own = FALSE, !.alive = FALSE]]

Bounded == events < MaxEvents /\ events' = events + 1

-----------------------------------------------------------------------------
Waiting(n, q) == [n |-> n, shape |-> q, open |-> TRUE, trusted |-> prefs, gap |-> FALSE]

Init ==
    /\ prefs \in SUBSET AutoTools
    /\ \E q \in Requests : pause = Waiting(1, q)
    /\ taken = <<>>
    /\ view = Unmounted
    /\ flight = [s \in Slots |-> Idle]
    /\ events = 0

\* The run goes on and pauses again; the browser may still show the pause before.
PauseAgain ==
    /\ ~pause.open /\ pause.n < MaxPauses /\ Bounded
    /\ \E q \in Requests : pause' = Waiting(pause.n + 1, q)
    /\ taken' = <<>>
    /\ UNCHANGED <<view, flight, prefs>>

\* The stream learns of the pause: ThreadView and its children are mounted.
Show ==
    /\ pause.open /\ ~IsShown
    /\ view' = NewView
    /\ UNCHANGED <<pause, taken, flight, prefs, events>>

\* The stream learns of the next pause while the one before is on display: the mounted
\* components are rendered with it.
Switch ==
    /\ IsShown /\ pause.open /\ view.shown # pause.n /\ ~view.due
    /\ view' = Due([view EXCEPT !.shown = pause.n, !.shape = pause.shape, !.moved = TRUE])
    /\ UNCHANGED <<pause, taken, flight, prefs, events>>

\* The stream learns that the pause is over, or the user leaves the thread.
Hide ==
    /\ IsShown
    /\ Unmount
    /\ IF pause.open /\ view.shown = pause.n THEN Bounded ELSE UNCHANGED events
    /\ UNCHANGED <<pause, taken, prefs>>

\* Another tab or device answers the pause.
AnsweredElsewhere ==
    /\ pause.open
    /\ pause' = [pause EXCEPT !.open = FALSE]
    /\ Bounded
    /\ UNCHANGED <<taken, view, flight, prefs>>

\* The stream's context value is replaced, a dependency of the effect.
StreamUpdate ==
    /\ IsShown /\ Bounded
    /\ view' = Due(view)
    /\ UNCHANGED <<pause, taken, flight, prefs>>

-----------------------------------------------------------------------------
(* The user's actions. *)

ChangeForm(form) ==
    /\ Ready
    /\ view' = Rendered([view EXCEPT !.form = form])
    /\ UNCHANGED <<pause, taken, flight, prefs>>

EditArgs ==
    /\ Ready /\ May("edit") /\ Bounded
    /\ \E args \in {"orig", "changed"} \ {view.form.args} : ChangeForm(Edited(view.form, args))

WriteReason ==
    /\ Ready /\ RejectShown /\ Bounded
    /\ ChangeForm(Reasoned(view.form, ~view.form.reason))

\* The reject button while the reason is not shown.
ChooseReject ==
    /\ Ready /\ May("reject") /\ ~RejectShown /\ ~InputDisabled
    /\ UNCHANGED events
    /\ ChangeForm([view.form EXCEPT !.sel = "reject"])

Reset ==
    /\ Ready /\ Allowed(view.index) \cap {"edit", "reject"} # {}
    /\ UNCHANGED events
    /\ ChangeForm(ResetForm(view.form))

\* handleAutoApprovalChange: the box is the input's own state, so that the view
\* above it is not rendered again.
TogglePreference ==
    /\ Ready /\ May("approve") /\ Tool \in AutoTools /\ Bounded
    /\ prefs' = IF Tool \in prefs THEN prefs \ {Tool} ELSE prefs \cup {Tool}
    /\ view' = [view EXCEPT !.cut = @ \/ Tool \notin prefs]
    /\ UNCHANGED <<pause, taken, flight>>

\* The first slot that is free (which one is of no importance).
FreeSubmitSlot ==
    LET idle == {s \in SubmitSlots : flight[s].state = "idle"}
    IN IF idle = SubmitSlots THEN {"submit"} ELSE idle

FreeAutoSlot ==
    LET idle == {s \in AutoSlots : flight[s].state = "idle"}
    IN IF idle = AutoSlots THEN {"auto1"} ELSE idle

\* What the stream shows when it is asked is what is answered.
Request(slot, decisions) ==
    flight' = [flight EXCEPT ![slot] =
                 [state |-> "sent", pause |-> view.shown, decisions |-> decisions,
                  tries |-> 0, own |-> TRUE, alive |-> TRUE, gap |-> FALSE]]

\* handleSubmit: one submission at a time for each pause (submittingRef).  A click needs an
\* enabled button, the keyboard shortcut does not.
Submit ==
    /\ Ready /\ ~Many /\ ~view.lock
    /\ \E slot \in FreeSubmitSlot, type \in Offered :
         LET decision == Built(view.form, type)
         IN /\ ~InputDisabled \/ type = "reject" \/ May("edit")
            /\ decision # NoDecision
            /\ Request(slot, <<decision>>)
            /\ view' = Due([view EXCEPT !.busy = TRUE, !.lock = TRUE, !.form.sel = type,
                                        !.form.base = FALSE])
    /\ UNCHANGED <<pause, taken, prefs, events>>

\* handleResolve: respond(null, goto END).
Resolve ==
    /\ Ready /\ ~ActionsDisabled /\ flight["resolve"].state = "idle"
    /\ Request("resolve", <<>>)
    /\ view' = Due([view EXCEPT !.busy = TRUE, !.form.base = FALSE])
    /\ UNCHANGED <<pause, taken, prefs, events>>

\* setCurrentIndex: the form starts afresh for the action that is shown.
GoTo ==
    /\ Ready /\ Many /\ Bounded
    /\ \E i \in DOMAIN Shape.tools \ {view.index} :
          view' = Due([view EXCEPT !.index = i, !.form = FreshForm(i)])
    /\ UNCHANGED <<pause, taken, flight, prefs>>

Saved(i, decision) ==
    [k \in DOMAIN view.saved \cup {i} |-> IF k = i THEN decision ELSE view.saved[k]]

\* handleSaveDecision: the decision is kept for this action, and the next is shown.
SaveDecision ==
    /\ Ready /\ Many
    /\ \E type \in Offered :
         LET decision == Built(view.form, type)
             last == view.index = Len(Shape.tools)
             next == IF last THEN view.index ELSE view.index + 1
         IN /\ ~InputDisabled \/ type = "reject" \/ May("edit")
            /\ decision # NoDecision
            /\ view' = Due([view EXCEPT
                              !.saved = Saved(view.index, decision),
                              !.index = next,
                              !.form = IF last THEN [view.form EXCEPT !.sel = type]
                                       ELSE FreshForm(next)])
    /\ UNCHANGED <<pause, taken, flight, prefs, events>>

\* handleSubmitAll: every action has a decision.
SubmitAll ==
    /\ Ready /\ Many /\ ~view.allBusy /\ flight["all"].state = "idle"
    /\ DOMAIN view.saved = DOMAIN Shape.tools
    /\ Request("all", [i \in DOMAIN Shape.tools |-> view.saved[i]])
    /\ view' = Due([view EXCEPT !.allBusy = TRUE])
    /\ UNCHANGED <<pause, taken, prefs, events>>

\* handleApproveAll: nothing marks it as running.  A second click before the first
\* is answered repeats the same request, which adds nothing to one that waits.
ApproveAll ==
    /\ Ready /\ AllAllowApprove /\ ~ActionsDisabled /\ flight["approve"].state = "idle"
    /\ Request("approve", [i \in DOMAIN Shape.tools |-> Decision("approve", "orig", "orig", "all", view.shown)])
    /\ UNCHANGED <<pause, taken, view, prefs, events>>

-----------------------------------------------------------------------------
(* The effect that approves on its own. *)

\* The effects of a new pause: the form, what was decided for the pause before, and whether
\* it was approved already are forgotten (useInterruptedActions, ThreadActionsView).
MutRenewed == [view EXCEPT !.index = 1, !.form = FreshForm(1), !.autoFailed = FALSE,
                           !.autoKey = FALSE, !.lock = FALSE]
Renewed == [view EXCEPT !.index = 1, !.form = FreshForm(1), !.saved = <<>>,
                        !.autoFailed = FALSE, !.autoKey = FALSE, !.lock = FALSE]

\* What the effect of the automatic approval finds: those before it have run.
Found == [(IF view.moved THEN Renewed ELSE view) EXCEPT !.moved = FALSE, !.due = FALSE]

AutoWanted(v) ==
    /\ ~Many /\ "approve" \in Allowed(1) /\ Shape.tools[1] \in AutoTools \cap prefs
    /\ ~v.busy /\ ~v.allBusy /\ ~v.finished /\ ~v.autoFailed

AutoDecision(v) == Decision("approve", "orig", v.form.args, "auto", v.shown)

\* The closure of the last run of the effect is no longer mounted.
Killed == [s \in Slots |-> IF s \in AutoSlots THEN [flight[s] EXCEPT !.alive = FALSE] ELSE flight[s]]
Approving == \E s \in AutoSlots : flight[s].state # "idle" /\ flight[s].own /\ flight[s].alive

\* Whenever a dependency has changed: a new approval starts unless this request had one.
AutoEffect ==
    /\ IsShown /\ view.due
    /\ IF AutoWanted(Found) /\ ~Found.autoKey
       THEN \E slot \in FreeAutoSlot :
              /\ flight' = [Killed EXCEPT ![slot] =
                     [state |-> "sent", pause |-> view.shown, decisions |-> <<AutoDecision(Found)>>,
                      tries |-> 0, own |-> TRUE, alive |-> TRUE, gap |-> FALSE]]
              /\ view' = Rendered([Found EXCEPT !.autoKey = TRUE, !.autoBusy = TRUE, !.cut = FALSE])
       ELSE flight' = Killed /\ view' = Rendered([Found EXCEPT !.cut = @ \/ Approving])
    /\ UNCHANGED <<pause, taken, prefs, events>>

\* After the delay: only a closure that is still mounted tries again, and it
\* answers whatever the stream shows now.
AutoRetry(slot) ==
    /\ flight[slot].state = "waiting"
    /\ flight' = [flight EXCEPT ![slot] =
                    IF flight[slot].alive
                    THEN [flight[slot] EXCEPT !.state = "sent", !.pause = view.shown,
                                              !.tries = @ + 1, !.gap = view.moved]
                    ELSE Idle]
    /\ UNCHANGED <<pause, taken, view, prefs, events>>

-----------------------------------------------------------------------------
(* The answers.  The server takes the first answer to a pause and says of a  *)
(* later one that the interrupt is consumed already; a request can be lost   *)
(* before or after it was taken, and the stream drops one without an error   *)
(* while it is settling.                                                     *)

\* Loading ends after a success only.
MutAfterUser(v, slot, ok) ==
    CASE slot \in SubmitSlots /\ ok -> Due([v EXCEPT !.busy = FALSE, !.lock = FALSE, !.finished = ok])
      [] slot = "resolve" /\ ok -> Due([v EXCEPT !.busy = FALSE])
      [] slot = "all" /\ ok -> Due([v EXCEPT !.allBusy = FALSE, !.saved = <<>>])
      [] OTHER -> v

\* The finally blocks of the handlers; `ok` is what the handler takes for success.
AfterUser(v, slot, ok) ==
    CASE slot \in SubmitSlots -> Due([v EXCEPT !.busy = FALSE, !.lock = FALSE, !.finished = ok])
      [] slot = "resolve" -> Due([v EXCEPT !.busy = FALSE])
      [] slot = "all" -> Due([v EXCEPT !.allBusy = FALSE,
                                       !.saved = IF ok THEN <<>> ELSE @])
      [] OTHER -> v

\* An approval on its own that is over, if its closure is still mounted; one that failed
\* gives the request back, and may be begun again in any case.
AfterAuto(v, alive, failed) ==
    IF ~failed THEN IF alive THEN Rendered([v EXCEPT !.autoBusy = FALSE]) ELSE v
    ELSE IF alive THEN Due([v EXCEPT !.autoKey = FALSE, !.autoFailed = TRUE, !.autoBusy = FALSE])
    ELSE [v EXCEPT !.autoKey = FALSE]

Settle(slot, ok, dropped) ==
    LET v == [view EXCEPT !.cut = @ \/ dropped]
    IN /\ flight' = [flight EXCEPT ![slot] = Idle]
       /\ view' = IF ~flight[slot].own THEN view
                  ELSE IF slot \in AutoSlots THEN AfterAuto(v, flight[slot].alive, ~ok)
                  ELSE AfterUser(v, slot, ok)

Answers(slot) == flight[slot].state = "sent" /\ pause.open /\ pause.n = flight[slot].pause
Accepted(slot) ==
    /\ Answers(slot) /\ taken' = flight[slot].decisions
    /\ pause' = [pause EXCEPT !.open = FALSE, !.gap = flight[slot].gap]

Take(slot) ==
    /\ Accepted(slot)
    /\ Settle(slot, TRUE, FALSE)
    /\ UNCHANGED <<prefs, events>>

\* isAlreadyConsumedInterruptError: handleSubmit and the approval take it for done.
Consumed(slot) ==
    /\ flight[slot].state = "sent" /\ ~Answers(slot)
    /\ Settle(slot, slot \in SubmitSlots \cup AutoSlots, FALSE)
    /\ UNCHANGED <<pause, taken, prefs, events>>

\* respondWithTimeout returns without sending while a clean-up is settling.
Dropped(slot) ==
    /\ flight[slot].state = "sent"
    /\ Bounded
    /\ Settle(slot, TRUE, TRUE)
    /\ UNCHANGED <<pause, taken, prefs>>

\* A failure does not tell whether the server has taken the answer.
Unheard(slot) == UNCHANGED <<pause, taken>> \/ Accepted(slot)

\* The request, or its answer, is lost: the handler gives the request back to the user, as
\* does the approval after an error that is not transient, or the last.
Fails(slot) ==
    /\ flight[slot].state = "sent"
    /\ Bounded
    /\ Unheard(slot)
    /\ Settle(slot, FALSE, FALSE)
    /\ UNCHANGED prefs

\* A transient error is retried after a delay, be the closure mounted or not.
AutoFails(slot) ==
    /\ flight[slot].state = "sent" /\ flight[slot].tries < MaxRetries
    /\ Bounded
    /\ Unheard(slot)
    /\ flight' = [flight EXCEPT ![slot].state = "waiting"]
    /\ UNCHANGED <<view, prefs>>

Next ==
    \/ PauseAgain \/ Show \/ Switch \/ Hide \/ AnsweredElsewhere \/ StreamUpdate
    \/ EditArgs \/ WriteReason \/ ChooseReject \/ Reset \/ TogglePreference
    \/ Submit \/ Resolve \/ SaveDecision \/ SubmitAll \/ ApproveAll
    \/ GoTo \/ AutoEffect
    \/ \E slot \in AutoSlots : AutoRetry(slot) \/ AutoFails(slot)
    \/ \E slot \in Slots : Take(slot) \/ Consumed(slot) \/ Dropped(slot) \/ Fails(slot)

Spec == Init /\ [][Next]_vars

-----------------------------------------------------------------------------
(* Properties *)

Args == {"orig", "changed"}
DecisionRecord ==
    [type : Types, args : Args, seen : Args, by : {"user", "all", "auto"}, at : Pauses]
FormRecord ==
    [sel : Selections, args : Args, made : BOOLEAN, edited : BOOLEAN, reason : BOOLEAN,
     base : BOOLEAN, at : 0..MaxPauses]
FlightRecord ==
    [state : {"idle", "sent", "waiting"}, pause : 0..MaxPauses, decisions : Seq(DecisionRecord),
     tries : 0..MaxRetries, own : BOOLEAN, alive : BOOLEAN, gap : BOOLEAN]

TypeOK ==
    /\ pause.n \in Pauses /\ pause.shape \in Requests /\ pause.open \in BOOLEAN
    /\ taken \in Seq(DecisionRecord)
    /\ IsShown =>
         /\ view.shown \in 1..pause.n /\ view.shape \in Requests /\ view.form \in FormRecord
         /\ ~view.moved => /\ view.index \in DOMAIN Shape.tools
                           /\ DOMAIN view.saved \subseteq DOMAIN Shape.tools
         /\ \A i \in DOMAIN view.saved : view.saved[i] \in DecisionRecord
    /\ flight \in [Slots -> FlightRecord]
    /\ prefs \subseteq AutoTools
    /\ events \in 0..MaxEvents

\* Every decision the server takes is one the review config of its tool allows,
\* and there is one for each action, in their order - whichever way it was given.
AllowedOnly ==
    taken # <<>> /\ ~pause.gap =>
        /\ DOMAIN taken = DOMAIN pause.shape.tools
        /\ \A i \in DOMAIN taken : \A k \in DOMAIN pause.shape.configs :
              pause.shape.configs[k].name = pause.shape.tools[i]
              => taken[i].type \in pause.shape.configs[k].allowed

\* A decision that lets a tool run runs it with the arguments the user was
\* looking at when they decided: an edit is never dropped on the way ("approve
\* all" and the automatic approval do not look at the form).
SeenIsRun ==
    \A i \in DOMAIN taken :
        taken[i].by = "user" /\ taken[i].type # "reject" => taken[i].args = taken[i].seen

\* A decision answers the pause it was made for: not when a view that still shows a pause
\* that is over is asked to answer it, when decisions are saved and submitted later, when the
\* view goes on to the next pause with its form, its saved decisions and a retry of the
\* one before.  Excepted is only a retry whose delay ends after the next pause is rendered
\* and before the effects have run that end it (thread-actions-view.tsx:255).
DecidedHere == ~pause.gap => \A i \in DOMAIN taken : taken[i].at = pause.n

\* What disables the buttons of a view ends: a submission has a request in flight whose
\* answer enables them again, and the buttons that answer the action on display of a pause
\* that waits are disabled only while a request is in flight, or an approval will begin or
\* goes on whose end gives them back.  Excepted is what the code leaves disabled until the
\* stream changes: by `cut`, an approval whose closure a new context of the stream has
\* ended (thread-actions-view.tsx:282), one the settling stream has dropped (Stream.tsx:510)
\* and a box that was ticked at this pause; by `finished`, which the next pause does not
\* reset, a submission that was taken for done (use-interrupted-actions.tsx:161).
BusyIsExplained ==
    IsShown =>
        /\ view.busy => \E s \in SubmitSlots \cup {"resolve"} :
                           flight[s].state = "sent" /\ flight[s].own
        /\ view.allBusy => flight["all"].state = "sent" /\ flight["all"].own
        /\ ~view.due /\ pause.open /\ view.shown = pause.n /\ InputDisabled =>
              view.busy \/ view.allBusy \/ Approving \/ view.finished \/ view.cut

\* What the box next to the arguments says: once it is ticked, LATER calls of the
\* tool are approved by this browser - not the one the user is looking at.
LaterOnly ==
    \A i \in DOMAIN taken : taken[i].by = "auto" => pause.shape.tools[i] \in pause.trusted
=============================================================================
