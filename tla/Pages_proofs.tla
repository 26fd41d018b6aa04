----------------------------- MODULE Pages_proofs -----------------------------
(***************************************************************************)
(* Proofs about Pages: nothing remains busy, a deleted conversation        *)
(* remains hidden, a copy is not deleted under a run, and every part keeps *)
(* its types.  A behaviour follows one part, so each section states an     *)
(* invariant of one part and shows that the steps of that part keep it;    *)
(* the last section puts them together.                                    *)
(***************************************************************************)
EXTENDS PagesData_proofs

-----------------------------------------------------------------------------
(* The approval of tool calls. *)

\* An action of its own that is approved without asking, or is to be, by the preferences ps.
Automatic(v, ps) ==
    /\ ~(Len(v.shape.tools) > 1) /\ "approve" \in AllowedIn(v.shape, v.index)
    /\ v.shape.tools[v.index] \in AutoTools /\ ~v.autoFailed
    /\ v.autoSeen \/ v.shape.tools[v.index] \in ps

\* The view is of a pause that waits.
AtHand == pause.open /\ view.shown = pause.n

Asked(s) == flight[s].state = "sent" /\ flight[s].own

UserMarks ==
    Inbox!IsShown => /\ view.busy => \E s \in Inbox!SubmitSlots \cup {"resolve"} : Asked(s)
                     /\ view.allBusy => Asked("all")

\* What is shown of an approval on its own is of one that goes on, or of one that was cut off;
\* and where one would begin, it has, or something else is under way.
AutoMarks ==
    Inbox!IsShown =>
        /\ view.autoBusy => Inbox!Approving \/ view.cut
        /\ view.autoKey /\ ~view.moved /\ AtHand => Inbox!Approving \/ view.cut
        /\ ~view.due /\ AtHand /\ Automatic(view, prefs) =>
              view.busy \/ view.allBusy \/ Inbox!Approving \/ view.finished \/ view.cut

InboxMarks == UserMarks /\ AutoMarks

LEMMA InboxInitially == Inbox!Init => InboxMarks
BY DEF Inbox!Init, Inbox!Unmounted, InboxMarks, UserMarks, AutoMarks, Inbox!IsShown

LEMMA MarksExplain == InboxMarks => Inbox!BusyIsExplained
<1> SUFFICES ASSUME InboxMarks, Inbox!IsShown PROVE Inbox!BusyIsExplained
  BY DEF Inbox!BusyIsExplained
<1>1. ASSUME ~view.due, pause.open, view.shown = pause.n, Inbox!InputDisabled
      PROVE  view.busy \/ view.allBusy \/ Inbox!Approving \/ view.finished \/ view.cut
  <2>1. CASE Inbox!Many
    BY <1>1, <2>1 DEF Inbox!InputDisabled
  <2>2. CASE ~Inbox!Many /\ Inbox!AutoEnabled
    <3>1. Automatic(view, prefs)
      BY <2>2, AllowedHere DEF Inbox!AutoEnabled, Inbox!May, Inbox!Tool, Inbox!Shape, Inbox!Many, Automatic
    <3> QED BY <1>1, <3>1 DEF InboxMarks, AutoMarks, AtHand
  <2>3. CASE ~Inbox!Many /\ ~Inbox!AutoEnabled
    BY <1>1, <2>3 DEF Inbox!InputDisabled, InboxMarks, AutoMarks
  <2> QED BY <2>1, <2>2, <2>3
<1> QED BY <1>1 DEF InboxMarks, UserMarks, Asked, Inbox!BusyIsExplained

\* Steps that begin and end nothing the user waits for.
LEMMA UserGoesOn ==
    ASSUME UserMarks, \A s \in Inbox!SubmitSlots \cup {"resolve", "all"} : flight'[s] = flight[s],
           Inbox!IsShown' => /\ Inbox!IsShown
                             /\ view'.busy => view.busy
                             /\ view'.allBusy => view.allBusy
    PROVE  UserMarks'
BY DEF UserMarks, Asked

\* Steps that begin no approval.
LEMMA AutoGoesOn ==
    ASSUME AutoMarks,
           Inbox!IsShown' =>
               /\ Inbox!IsShown
               /\ view'.autoBusy => view.autoBusy
               /\ Inbox!Approving \/ view.cut => Inbox!Approving' \/ view'.cut
               /\ view'.autoKey /\ ~view'.moved /\ AtHand' => view.autoKey /\ ~view.moved /\ AtHand
               /\ ~view'.due /\ AtHand' /\ Automatic(view', prefs') =>
                     \/ view'.cut
                     \/ /\ ~view.due /\ AtHand /\ Automatic(view, prefs)
                        /\ view.busy => view'.busy
                        /\ view.allBusy => view'.allBusy
                        /\ view.finished => view'.finished
    PROVE  AutoMarks'
BY DEF AutoMarks

\* The requests of the approval are untouched.
LEMMA ApprovingLikeBefore ==
    ASSUME \A s \in Inbox!AutoSlots : flight'[s] = flight[s]
    PROVE  Inbox!Approving' = Inbox!Approving
BY DEF Inbox!Approving

\* A view that is rendered again says the same of what is under way, and would approve
\* nothing that it would not have before.
LEMMA RenderedAgain ==
    ASSUME InboxMarks, ViewFine(view, pause), Inbox!IsShown, NEW v,
           v.shown = view.shown, v.busy = view.busy, v.allBusy = view.allBusy,
           v.autoBusy = view.autoBusy, v.autoKey = view.autoKey, v.moved = view.moved,
           v.cut = view.cut, v.finished = view.finished, DOMAIN v = DOMAIN view,
           \/ view' = Inbox!Due(v)
           \/ /\ view' = Inbox!Rendered(v) /\ v.due = view.due /\ v.shape = view.shape
              /\ v.index = view.index /\ v.autoFailed = view.autoFailed,
           UNCHANGED <<pause, flight, prefs>>
    PROVE  InboxMarks'
<1>1. /\ view'.shown = view.shown /\ view'.busy = view.busy /\ view'.allBusy = view.allBusy
      /\ view'.autoBusy = view.autoBusy /\ view'.autoKey = view.autoKey
      /\ view'.moved = view.moved /\ view'.cut = view.cut /\ view'.finished = view.finished
  BY DEF Inbox!Due, Inbox!Rendered, ViewFine
<1>2. view'.due \/ (view'.due = view.due /\ (Automatic(view', prefs') => Automatic(view, prefs)))
  <2>1. CASE view' = Inbox!Due(v)
    BY <2>1 DEF Inbox!Due, Inbox!Rendered, ViewFine
  <2>2. CASE /\ view' = Inbox!Rendered(v) /\ v.due = view.due /\ v.shape = view.shape
             /\ v.index = view.index /\ v.autoFailed = view.autoFailed
    <3>1. /\ view'.due = view.due /\ view'.shape = view.shape /\ view'.index = view.index
          /\ view'.autoFailed = view.autoFailed
          /\ view'.autoSeen => view.shape.tools[view.index] \in prefs
      BY <2>2 DEF Inbox!Rendered, ViewFine
    <3> QED BY <3>1 DEF Automatic
  <2> QED BY <2>1, <2>2
<1>3. Inbox!IsShown' /\ Inbox!Approving' = Inbox!Approving /\ (AtHand' <=> AtHand)
  BY <1>1, ApprovingLikeBefore DEF Inbox!IsShown, AtHand
<1>4. UserMarks'
  BY <1>1, UserGoesOn DEF InboxMarks
<1>5. AutoMarks'
  BY <1>1, <1>2, <1>3, AutoGoesOn DEF InboxMarks
<1> QED BY <1>4, <1>5 DEF InboxMarks

\* The user fills in the form and goes from action to action.
LEMMA FormChanged ==
    ASSUME AskInv, InboxMarks,
           Inbox!StreamUpdate \/ Inbox!EditArgs \/ Inbox!WriteReason \/ Inbox!ChooseReject
           \/ Inbox!Reset \/ Inbox!GoTo \/ Inbox!SaveDecision
    PROVE  InboxMarks'
<1>1. Inbox!IsShown /\ UNCHANGED <<pause, flight, prefs>> /\ ViewFine(view, pause)
  <2>1. Inbox!IsShown /\ UNCHANGED <<pause, flight, prefs>>
    BY DEF Inbox!StreamUpdate, Inbox!EditArgs, Inbox!WriteReason, Inbox!ChooseReject, Inbox!Reset,
           Inbox!GoTo, Inbox!SaveDecision, Inbox!ChangeForm, Inbox!Ready
  <2> QED BY <2>1, ShownIs
<1>2. CASE Inbox!StreamUpdate
  BY <1>1, <1>2, RenderedAgain DEF Inbox!StreamUpdate
<1>3. CASE Inbox!EditArgs \/ Inbox!WriteReason \/ Inbox!ChooseReject \/ Inbox!Reset
  <2>1. PICK f : Inbox!ChangeForm(f)
    BY <1>3 DEF Inbox!EditArgs, Inbox!WriteReason, Inbox!ChooseReject, Inbox!Reset
  <2> DEFINE v == [view EXCEPT !.form = f]
  <2>2. view' = Inbox!Rendered(v)
    BY <2>1 DEF Inbox!ChangeForm
  <2>3. /\ DOMAIN v = DOMAIN view /\ v.shown = view.shown /\ v.busy = view.busy
        /\ v.allBusy = view.allBusy /\ v.autoBusy = view.autoBusy /\ v.autoKey = view.autoKey
        /\ v.moved = view.moved /\ v.cut = view.cut /\ v.finished = view.finished
        /\ v.due = view.due /\ v.shape = view.shape /\ v.index = view.index
        /\ v.autoFailed = view.autoFailed
    BY <1>1 DEF ViewFine
  <2> HIDE DEF v
  <2> QED BY <1>1, <2>2, <2>3, RenderedAgain
<1>4. CASE Inbox!GoTo \/ Inbox!SaveDecision
  <2>1. PICK saved, index, filled :
          view' = Inbox!Due([view EXCEPT !.saved = saved, !.index = index, !.form = filled])
    <3>1. CASE Inbox!SaveDecision
      BY <3>1 DEF Inbox!SaveDecision
    <3>2. CASE Inbox!GoTo
      <4>1. PICK i : view' = Inbox!Due([view EXCEPT !.index = i, !.form = Inbox!FreshForm(i)])
        BY <3>2 DEF Inbox!GoTo
      <4>2. [view EXCEPT !.index = i, !.form = Inbox!FreshForm(i)]
              = [view EXCEPT !.saved = view.saved, !.index = i, !.form = Inbox!FreshForm(i)]
        BY <1>1 DEF ViewFine
      <4> QED BY <4>1, <4>2
    <3> QED BY <1>4, <3>1, <3>2
  <2> DEFINE v == [view EXCEPT !.saved = saved, !.index = index, !.form = filled]
  <2>2. /\ DOMAIN v = DOMAIN view /\ v.shown = view.shown /\ v.busy = view.busy
        /\ v.allBusy = view.allBusy /\ v.autoBusy = view.autoBusy /\ v.autoKey = view.autoKey
        /\ v.moved = view.moved /\ v.cut = view.cut /\ v.finished = view.finished
    BY <1>1 DEF ViewFine
  <2> HIDE DEF v
  <2> QED BY <1>1, <2>1, <2>2, RenderedAgain DEF v
<1> QED BY <1>2, <1>3, <1>4

\* A box that is ticked approves nothing until the stream changes.
LEMMA BoxTicked == AskInv /\ InboxMarks /\ Inbox!TogglePreference => InboxMarks'
<1> SUFFICES ASSUME AskInv, InboxMarks, Inbox!TogglePreference PROVE InboxMarks'
  OBVIOUS
<1> DEFINE cut == view.cut \/ Inbox!Tool \notin prefs
<1>1. /\ Inbox!IsShown /\ ViewFine(view, pause) /\ UNCHANGED <<pause, flight>>
      /\ view' = [view EXCEPT !.cut = cut]
      /\ prefs' = IF Inbox!Tool \in prefs THEN prefs \ {Inbox!Tool} ELSE prefs \cup {Inbox!Tool}
  BY ShownIs DEF Inbox!TogglePreference, Inbox!Ready, ViewFine
<1>2. /\ view'.cut = cut /\ view'.shown = view.shown /\ view'.busy = view.busy
      /\ view'.allBusy = view.allBusy /\ view'.autoBusy = view.autoBusy
      /\ view'.autoKey = view.autoKey /\ view'.moved = view.moved
      /\ view'.finished = view.finished /\ view'.due = view.due /\ view'.shape = view.shape
      /\ view'.index = view.index /\ view'.autoFailed = view.autoFailed
      /\ view'.autoSeen = view.autoSeen
  <2> HIDE DEF cut
  <2> QED BY <1>1 DEF ViewFine
<1>3. view.cut => view'.cut
  BY <1>2
<1>4. view'.cut \/ (Automatic(view', prefs') => Automatic(view, prefs))
  <2>1. CASE Inbox!Tool \notin prefs
    BY <1>2, <2>1
  <2>2. CASE Inbox!Tool \in prefs
    <3>1. view.shape.tools[view.index] \notin prefs'
      BY <1>1, <2>2 DEF Inbox!Tool, Inbox!Shape
    <3> QED BY <1>2, <3>1 DEF Automatic
  <2> QED BY <2>1, <2>2
<1>5. Inbox!IsShown' /\ Inbox!Approving' = Inbox!Approving /\ (AtHand' <=> AtHand)
  BY <1>1, <1>2, ApprovingLikeBefore DEF Inbox!IsShown, AtHand
<1> HIDE DEF cut
<1>6. UserMarks'
  BY <1>1, <1>2, UserGoesOn DEF InboxMarks
<1>7. AutoMarks'
  BY <1>1, <1>2, <1>3, <1>4, <1>5, AutoGoesOn DEF InboxMarks
<1> QED BY <1>6, <1>7 DEF InboxMarks

\* The run pauses, and its pause is shown, hidden and answered elsewhere.
LEMMA ViewFollows ==
    ASSUME AskInv, InboxMarks,
           \/ Inbox!PauseAgain \/ Inbox!Show \/ Inbox!Switch \/ Inbox!Hide
           \/ Inbox!AnsweredElsewhere \/ UNCHANGED inbox
    PROVE  InboxMarks'
<1>1. CASE Inbox!Hide
  BY <1>1 DEF Inbox!Hide, Inbox!Unmount, Inbox!Unmounted, Inbox!IsShown, InboxMarks, UserMarks,
              AutoMarks
<1>2. CASE Inbox!Show
  <2>1. /\ ~view'.busy /\ ~view'.allBusy /\ ~view'.autoBusy /\ ~view'.autoKey /\ view'.due
    BY <1>2 DEF Inbox!Show, Inbox!NewView, Inbox!Due, Inbox!Rendered
  <2> QED BY <2>1 DEF InboxMarks, UserMarks, AutoMarks
<1>3. CASE Inbox!Switch
  <2>1. Inbox!IsShown /\ ViewFine(view, pause) /\ UNCHANGED <<flight, prefs>>
    BY <1>3, ShownIs DEF Inbox!Switch
  <2>2. /\ view'.due /\ view'.moved /\ view'.busy = view.busy /\ view'.allBusy = view.allBusy
        /\ view'.autoBusy = view.autoBusy /\ view'.cut = view.cut
    BY <1>3, <2>1 DEF Inbox!Switch, Inbox!Due, Inbox!Rendered, ViewFine
  <2>3. Inbox!Approving' = Inbox!Approving
    BY <2>1, ApprovingLikeBefore
  <2>4. UserMarks'
    BY <2>1, <2>2, UserGoesOn DEF InboxMarks
  <2>5. AutoMarks'
    BY <2>1, <2>2, <2>3, AutoGoesOn DEF InboxMarks
  <2> QED BY <2>4, <2>5 DEF InboxMarks
<1>4. CASE Inbox!PauseAgain \/ Inbox!AnsweredElsewhere \/ UNCHANGED inbox
  <2>1. UNCHANGED <<view, flight, prefs>> /\ (Inbox!IsShown' <=> Inbox!IsShown)
    BY <1>4 DEF Inbox!PauseAgain, Inbox!AnsweredElsewhere, inbox, Inbox!IsShown
  <2>2. ASSUME Inbox!IsShown, AtHand' PROVE AtHand
    <3>1. ViewFine(view, pause) /\ pause.n \in Nat
      BY <2>2, ShownIs DEF AskInv
    <3>2. CASE Inbox!PauseAgain
      <4>1. pause'.n = pause.n + 1
        BY <3>2 DEF Inbox!PauseAgain, Inbox!Waiting
      <4> QED BY <2>1, <2>2, <3>1, <4>1 DEF AtHand, ViewFine
    <3>3. CASE Inbox!AnsweredElsewhere
      BY <2>2, <3>3 DEF Inbox!AnsweredElsewhere, AtHand, AskInv
    <3>4. CASE UNCHANGED inbox
      BY <2>2, <3>4 DEF inbox, AtHand
    <3> QED BY <1>4, <3>2, <3>3, <3>4
  <2>3. Inbox!Approving' = Inbox!Approving
    BY <2>1, ApprovingLikeBefore
  <2>4. UserMarks'
    BY <2>1, UserGoesOn DEF InboxMarks
  <2>5. AutoMarks'
    BY <2>1, <2>2, <2>3, AutoGoesOn DEF InboxMarks
  <2> QED BY <2>4, <2>5 DEF InboxMarks
<1> QED BY <1>1, <1>2, <1>3, <1>4

\* The user's decisions are sent.
LEMMA Requested ==
    ASSUME AskInv, InboxMarks,
           Inbox!Submit \/ Inbox!Resolve \/ Inbox!SubmitAll \/ Inbox!ApproveAll
    PROVE  InboxMarks'
<1>1. Inbox!IsShown /\ UNCHANGED <<pause, prefs>> /\ ViewFine(view, pause) /\ DOMAIN flight = Inbox!Slots
  <2>1. Inbox!IsShown /\ UNCHANGED <<pause, prefs>>
    BY DEF Inbox!Submit, Inbox!Resolve, Inbox!SubmitAll, Inbox!ApproveAll, Inbox!Ready
  <2> QED BY <2>1, ShownIs DEF AskInv
<1>2. PICK slot \in Inbox!Slots \ Inbox!AutoSlots :
         /\ \E decisions : Inbox!Request(slot, decisions)
         /\ \/ view' = view /\ slot = "approve"
            \/ \E v : /\ view' = Inbox!Due(v) /\ DOMAIN v = DOMAIN view /\ v.shown = view.shown
                      /\ v.busy = view.busy \/ (v.busy = TRUE /\ slot \in Inbox!SubmitSlots \cup {"resolve"})
                      /\ v.allBusy = view.allBusy \/ (v.allBusy = TRUE /\ slot = "all")
                      /\ v.autoBusy = view.autoBusy /\ v.autoKey = view.autoKey
                      /\ v.moved = view.moved /\ v.cut = view.cut
  <2> USE DEF ViewFine
  <2>1. CASE Inbox!Submit
    <3>0. PICK slot \in Inbox!SubmitSlots : \E type, decision :
            Inbox!Request(slot, <<decision>>)
            /\ view' = Inbox!Due([view EXCEPT !.busy = TRUE, !.lock = TRUE, !.form.sel = type,
                                              !.form.base = FALSE])
      <4>1. Inbox!FreeSubmitSlot \subseteq Inbox!SubmitSlots
        BY DEF Inbox!FreeSubmitSlot, Inbox!SubmitSlots
      <4> QED BY <2>1, <4>1, Zenon DEF Inbox!Submit
    <3>1. PICK type, decision :
            Inbox!Request(slot, <<decision>>)
            /\ view' = Inbox!Due([view EXCEPT !.busy = TRUE, !.lock = TRUE, !.form.sel = type,
                                              !.form.base = FALSE])
      BY <3>0
    <3> DEFINE v == [view EXCEPT !.busy = TRUE, !.lock = TRUE, !.form.sel = type,
                                 !.form.base = FALSE]
    <3>2. /\ DOMAIN v = DOMAIN view /\ v.shown = view.shown /\ v.busy = TRUE
          /\ v.allBusy = view.allBusy /\ v.autoBusy = view.autoBusy
          /\ v.autoKey = view.autoKey /\ v.moved = view.moved /\ v.cut = view.cut
      BY <1>1
    <3>3. slot \in Inbox!Slots \ Inbox!AutoSlots
      BY <3>0 DEF Inbox!Slots, Inbox!SubmitSlots, Inbox!AutoSlots
    <3> HIDE DEF v
    <3> QED BY <3>1, <3>2, <3>3 DEF v
  <2>2. CASE Inbox!Resolve
    <3>1. Inbox!Request("resolve", <<>>)
          /\ view' = Inbox!Due([view EXCEPT !.busy = TRUE, !.form.base = FALSE])
      BY <2>2 DEF Inbox!Resolve
    <3> DEFINE v == [view EXCEPT !.busy = TRUE, !.form.base = FALSE]
    <3>2. /\ DOMAIN v = DOMAIN view /\ v.shown = view.shown /\ v.busy = TRUE
          /\ v.allBusy = view.allBusy /\ v.autoBusy = view.autoBusy
          /\ v.autoKey = view.autoKey /\ v.moved = view.moved /\ v.cut = view.cut
      BY <1>1
    <3>3. "resolve" \in Inbox!Slots \ Inbox!AutoSlots
      BY DEF Inbox!Slots, Inbox!AutoSlots
    <3> HIDE DEF v
    <3> QED BY <3>1, <3>2, <3>3 DEF v
  <2>3. CASE Inbox!SubmitAll
    <3>1. (\E decisions : Inbox!Request("all", decisions))
          /\ view' = Inbox!Due([view EXCEPT !.allBusy = TRUE])
      BY <2>3 DEF Inbox!SubmitAll
    <3> DEFINE v == [view EXCEPT !.allBusy = TRUE]
    <3>2. /\ DOMAIN v = DOMAIN view /\ v.shown = view.shown /\ v.busy = view.busy
          /\ v.allBusy = TRUE /\ v.autoBusy = view.autoBusy
          /\ v.autoKey = view.autoKey /\ v.moved = view.moved /\ v.cut = view.cut
      BY <1>1
    <3>3. "all" \in Inbox!Slots \ Inbox!AutoSlots
      BY DEF Inbox!Slots, Inbox!AutoSlots
    <3> HIDE DEF v
    <3> QED BY <3>1, <3>2, <3>3 DEF v
  <2>4. CASE Inbox!ApproveAll
    <3>1. (\E decisions : Inbox!Request("approve", decisions)) /\ view' = view
      BY <2>4 DEF Inbox!ApproveAll
    <3>2. "approve" \in Inbox!Slots \ Inbox!AutoSlots
      BY DEF Inbox!Slots, Inbox!AutoSlots
    <3> QED BY <3>1, <3>2
  <2> QED BY <2>1, <2>2, <2>3, <2>4
<1>3. /\ flight'[slot].state = "sent" /\ flight'[slot].own
      /\ \A s \in Inbox!Slots \ {slot} : flight'[s] = flight[s]
  BY <1>1, <1>2 DEF Inbox!Request
<1>4. Inbox!Approving' = Inbox!Approving
  <2>1. \A s \in Inbox!AutoSlots : s \in Inbox!Slots \ {slot}
    BY <1>2 DEF Inbox!Slots
  <2> QED BY <1>3, <2>1, ApprovingLikeBefore
<1>5. CASE view' = view /\ slot = "approve"
  <2>1. /\ \A s \in Inbox!SubmitSlots \cup {"resolve", "all"} : flight'[s] = flight[s]
        /\ Inbox!IsShown' /\ (AtHand' <=> AtHand)
    BY <1>1, <1>3, <1>5 DEF Inbox!Slots, Inbox!SubmitSlots, Inbox!IsShown, AtHand
  <2>2. UserMarks'
    BY <1>1, <1>5, <2>1, UserGoesOn DEF InboxMarks
  <2>3. AutoMarks'
    BY <1>1, <1>4, <1>5, <2>1, AutoGoesOn DEF InboxMarks
  <2> QED BY <2>2, <2>3 DEF InboxMarks
<1>6. ASSUME NEW v, view' = Inbox!Due(v), DOMAIN v = DOMAIN view, v.shown = view.shown,
             v.busy = view.busy \/ (v.busy = TRUE /\ slot \in Inbox!SubmitSlots \cup {"resolve"}),
             v.allBusy = view.allBusy \/ (v.allBusy = TRUE /\ slot = "all"),
             v.autoBusy = view.autoBusy, v.autoKey = view.autoKey,
             v.moved = view.moved, v.cut = view.cut
      PROVE  InboxMarks'
  <2>1. /\ view'.due /\ view'.shown = view.shown
        /\ view'.busy = view.busy \/ slot \in Inbox!SubmitSlots \cup {"resolve"}
        /\ view'.allBusy = view.allBusy \/ slot = "all"
        /\ view'.autoBusy = view.autoBusy /\ view'.autoKey = view.autoKey
        /\ view'.moved = view.moved /\ view'.cut = view.cut
    BY <1>1, <1>6 DEF Inbox!Due, Inbox!Rendered, ViewFine
  <2>2. Inbox!IsShown' /\ (AtHand' <=> AtHand)
    BY <1>1, <2>1 DEF Inbox!IsShown, AtHand
  <2>3. UserMarks'
    BY <1>1, <1>2, <1>3, <2>1, <2>2 DEF InboxMarks, UserMarks, Asked, Inbox!Slots, Inbox!SubmitSlots
  <2>4. AutoMarks'
    BY <1>1, <1>4, <2>1, <2>2, AutoGoesOn DEF InboxMarks
  <2> QED BY <2>3, <2>4 DEF InboxMarks
<1> QED BY <1>2, <1>5, <1>6

\* The effect runs: where an approval would begin, it does, or has.
LEMMA EffectRuns == PagesAssumption /\ AskInv /\ InboxMarks /\ Inbox!AutoEffect => InboxMarks'
<1> SUFFICES ASSUME PagesAssumption, AskInv, InboxMarks, Inbox!AutoEffect PROVE InboxMarks'
  OBVIOUS
<1> DEFINE found == Inbox!Found
<1>1. /\ Inbox!IsShown /\ ViewFine(view, pause) /\ UNCHANGED <<pause, prefs>>
      /\ DOMAIN flight = Inbox!Slots
  BY ShownIs DEF Inbox!AutoEffect, AskInv
<1>2. /\ ViewFine(found, pause) /\ found.moved = FALSE /\ found.shown = view.shown
      /\ found.shape = view.shape
  BY <1>1, FoundIsFine
<1>3. /\ found.due = FALSE /\ found.busy = view.busy /\ found.allBusy = view.allBusy
      /\ found.autoBusy = view.autoBusy /\ found.finished = view.finished /\ found.cut = view.cut
      /\ found.autoKey => view.autoKey /\ ~view.moved
  <2>1. CASE view.moved
    <3>1. found = [Inbox!Renewed EXCEPT !.moved = FALSE, !.due = FALSE]
      BY <2>1 DEF Inbox!Found
    <3> QED BY <1>1, <3>1 DEF Inbox!Renewed, ViewFine
  <2>2. CASE ~view.moved
    <3>1. found = [view EXCEPT !.moved = FALSE, !.due = FALSE]
      BY <2>2 DEF Inbox!Found
    <3> QED BY <1>1, <2>2, <3>1 DEF ViewFine
  <2> QED BY <2>1, <2>2
<1> HIDE DEF found
<1>4. CASE \E slot \in Inbox!AutoSlots : \E f :
             /\ flight' = [Inbox!Killed EXCEPT ![slot] = f] /\ f.state = "sent" /\ f.own /\ f.alive
             /\ view' = Inbox!Rendered([found EXCEPT !.autoKey = TRUE, !.autoBusy = TRUE, !.cut = FALSE])
  <2>0. PICK slot \in Inbox!AutoSlots : \E f :
             /\ flight' = [Inbox!Killed EXCEPT ![slot] = f] /\ f.state = "sent" /\ f.own /\ f.alive
             /\ view' = Inbox!Rendered([found EXCEPT !.autoKey = TRUE, !.autoBusy = TRUE, !.cut = FALSE])
    BY <1>4
  <2>1. PICK f :
             /\ flight' = [Inbox!Killed EXCEPT ![slot] = f] /\ f.state = "sent" /\ f.own /\ f.alive
             /\ view' = Inbox!Rendered([found EXCEPT !.autoKey = TRUE, !.autoBusy = TRUE, !.cut = FALSE])
    BY <2>0
  <2>2. Inbox!Approving'
    BY <2>1 DEF Inbox!Approving, Inbox!Killed, Inbox!Slots
  <2>3. \A s \in Inbox!SubmitSlots \cup {"resolve", "all"} : flight'[s] = flight[s]
    BY <2>1 DEF Inbox!Killed, Inbox!Slots, Inbox!AutoSlots, Inbox!SubmitSlots
  <2>4. view'.busy = view.busy /\ view'.allBusy = view.allBusy
    BY <1>2, <1>3, <2>1 DEF Inbox!Rendered, ViewFine
  <2>5. UserMarks'
    BY <1>1, <2>3, <2>4, UserGoesOn DEF InboxMarks
  <2> QED BY <2>2, <2>5 DEF InboxMarks, AutoMarks
<1>5. CASE /\ ~(Inbox!AutoWanted(found) /\ ~found.autoKey) /\ flight' = Inbox!Killed
           /\ view' = Inbox!Rendered([found EXCEPT !.cut = found.cut \/ Inbox!Approving])
  <2> DEFINE cut == found.cut \/ Inbox!Approving
  <2>1. /\ view'.busy = view.busy /\ view'.allBusy = view.allBusy /\ view'.autoBusy = view.autoBusy
        /\ view'.finished = view.finished /\ view'.cut = cut /\ view'.autoKey = found.autoKey
        /\ view'.shown = view.shown /\ view'.shape = view.shape /\ view'.index = found.index
        /\ view'.autoFailed = found.autoFailed
        /\ view'.autoSeen => view.shape.tools[found.index] \in prefs
    <3> HIDE DEF cut
    <3> QED BY <1>2, <1>3, <1>5 DEF Inbox!Rendered, ViewFine, cut
  <2>2. view.cut \/ Inbox!Approving => view'.cut
    BY <1>3, <2>1
  <2> HIDE DEF cut
  <2>3. \A s \in Inbox!SubmitSlots \cup {"resolve", "all"} : flight'[s] = flight[s]
    BY <1>5 DEF Inbox!Killed, Inbox!Slots, Inbox!AutoSlots, Inbox!SubmitSlots
  <2>4. UserMarks'
    BY <1>1, <2>1, <2>3, UserGoesOn DEF InboxMarks
  <2>5. (AtHand' <=> AtHand) /\ Inbox!IsShown'
    BY <1>1, <2>1 DEF AtHand, Inbox!IsShown
  <2>6. ASSUME AtHand', Automatic(view', prefs')
        PROVE  view'.busy \/ view'.allBusy \/ view'.finished \/ view'.cut
    <3>1. found.index = 1
      <4>1. found.index \in DOMAIN view.shape.tools /\ ~(Len(view.shape.tools) > 1)
        BY <1>2, <2>1, <2>6 DEF ViewFine, Automatic
      <4>2. Len(view.shape.tools) \in Nat \ {0} /\ DOMAIN view.shape.tools = 1..Len(view.shape.tools)
        BY <1>1, ActionsOf DEF Inbox!Shape
      <4> QED BY <4>1, <4>2
    <3>2. /\ "approve" \in AllowedIn(view.shape, 1) /\ ~(Len(view.shape.tools) > 1)
          /\ view.shape.tools[1] \in AutoTools \cap prefs /\ ~found.autoFailed
      BY <1>1, <2>1, <2>6, <3>1 DEF Automatic
    <3>3. Inbox!AutoWanted(found) \/ found.busy \/ found.allBusy \/ found.finished
      BY <3>2, AllowedHere DEF Inbox!AutoWanted, Inbox!Many, Inbox!Shape
    <3>4. ASSUME Inbox!AutoWanted(found) PROVE view'.cut
      <4>1. view.autoKey /\ ~view.moved /\ AtHand
        BY <1>3, <1>5, <2>5, <2>6, <3>4
      <4> QED BY <1>1, <2>2, <4>1 DEF InboxMarks, AutoMarks
    <3> QED BY <1>3, <2>1, <3>3, <3>4
  <2>7. AutoMarks'
    <3>1. view'.autoBusy => view'.cut
      BY <1>1, <2>1, <2>2 DEF InboxMarks, AutoMarks
    <3>2. view'.autoKey /\ AtHand' => view'.cut
      BY <1>1, <1>3, <2>1, <2>2, <2>5 DEF InboxMarks, AutoMarks
    <3> QED BY <2>6, <3>1, <3>2 DEF AutoMarks
  <2> QED BY <2>4, <2>7 DEF InboxMarks
<1> QED
  <2>1. Inbox!FreeAutoSlot \subseteq Inbox!AutoSlots
    BY DEF Inbox!FreeAutoSlot, Inbox!AutoSlots
  <2>2. [found EXCEPT !.cut = @ \/ Inbox!Approving] = [found EXCEPT !.cut = found.cut \/ Inbox!Approving]
    BY <1>2 DEF ViewFine
  <2>3. CASE Inbox!AutoWanted(found) /\ ~found.autoKey
    <3>1. PICK slot \in Inbox!FreeAutoSlot :
            /\ flight' = [Inbox!Killed EXCEPT ![slot] =
                            [state |-> "sent", pause |-> view.shown,
                             decisions |-> <<Inbox!AutoDecision(found)>>, tries |-> 0,
                             own |-> TRUE, alive |-> TRUE, gap |-> FALSE]]
            /\ view' = Inbox!Rendered([found EXCEPT !.autoKey = TRUE, !.autoBusy = TRUE, !.cut = FALSE])
      BY <2>3, Zenon DEF Inbox!AutoEffect, found
    <3> DEFINE f == [state |-> "sent", pause |-> view.shown,
                     decisions |-> <<Inbox!AutoDecision(found)>>, tries |-> 0,
                     own |-> TRUE, alive |-> TRUE, gap |-> FALSE]
    <3>2. f.state = "sent" /\ f.own /\ f.alive /\ flight' = [Inbox!Killed EXCEPT ![slot] = f]
      BY <3>1
    <3> HIDE DEF f
    <3> QED BY <1>4, <2>1, <3>1, <3>2
  <2>4. CASE ~(Inbox!AutoWanted(found) /\ ~found.autoKey)
    <3>1. /\ flight' = Inbox!Killed
          /\ view' = Inbox!Rendered([found EXCEPT !.cut = @ \/ Inbox!Approving])
      BY <2>4, Zenon DEF Inbox!AutoEffect, found
    <3> QED BY <1>5, <2>2, <2>4, <3>1
  <2> QED BY <2>3, <2>4

\* An approval that is to be tried again goes on.
LEMMA TriedAgain ==
    ASSUME AskInv, InboxMarks, NEW slot \in Inbox!AutoSlots,
           Inbox!AutoRetry(slot) \/ Inbox!AutoFails(slot)
    PROVE  InboxMarks'
<1>1. /\ DOMAIN flight = Inbox!Slots /\ slot \in Inbox!Slots /\ SlotFine(flight[slot], slot, view, pause)
      /\ flight[slot].state # "idle" /\ UNCHANGED <<view, prefs>>
  BY DEF AskInv, Inbox!Slots, Inbox!AutoRetry, Inbox!AutoFails
<1>2. /\ \A s \in Inbox!Slots \ {slot} : flight'[s] = flight[s]
      /\ flight[slot].alive => /\ flight'[slot].state # "idle" /\ flight'[slot].alive
                               /\ flight'[slot].own = flight[slot].own
  <2> DEFINE f == flight[slot]
             tries == f.tries + 1
             again == [f EXCEPT !.state = "sent", !.pause = view.shown, !.tries = tries,
                                !.gap = view.moved]
             later == [f EXCEPT !.state = "waiting"]
  <2>1. /\ f.alive => again.state = "sent" /\ again.alive /\ again.own = f.own
        /\ later.state = "waiting" /\ later.alive = f.alive /\ later.own = f.own
    <3> HIDE DEF tries
    <3> QED BY <1>1 DEF SlotFine, RequestFine
  <2>2. \/ flight' = [flight EXCEPT ![slot] = IF f.alive THEN again ELSE Inbox!Idle]
        \/ flight' = [flight EXCEPT ![slot] = later]
    BY DEF Inbox!AutoRetry, Inbox!AutoFails
  <2> HIDE DEF again, later
  <2> QED BY <1>1, <2>1, <2>2
<1>3. Inbox!Approving => Inbox!Approving'
  BY <1>2 DEF Inbox!Approving, Inbox!Slots
<1>4. \A s \in Inbox!SubmitSlots \cup {"resolve", "all"} : flight'[s] = flight[s]
  BY <1>2 DEF Inbox!Slots, Inbox!AutoSlots, Inbox!SubmitSlots
<1>5. (AtHand' => AtHand) /\ (Inbox!IsShown' <=> Inbox!IsShown)
  BY <1>1 DEF Inbox!AutoRetry, Inbox!AutoFails, Inbox!Unheard, Inbox!Accepted, AtHand, AskInv,
              Inbox!IsShown
<1>6. UserMarks'
  BY <1>1, <1>4, <1>5, UserGoesOn DEF InboxMarks
<1>7. AutoMarks'
  BY <1>1, <1>3, <1>5, AutoGoesOn DEF InboxMarks
<1> QED BY <1>6, <1>7 DEF InboxMarks

\* An answer is given to the view that waits for it, and to no other.
LEMMA Answered ==
    ASSUME AskInv, InboxMarks, NEW slot \in Inbox!Slots,
           Inbox!Take(slot) \/ Inbox!Consumed(slot) \/ Inbox!Dropped(slot) \/ Inbox!Fails(slot)
    PROVE  InboxMarks'
<1>1. /\ DOMAIN flight = Inbox!Slots /\ SlotFine(flight[slot], slot, view, pause) /\ UNCHANGED prefs
      /\ flight[slot].state = "sent" /\ DOMAIN pause = {"n", "shape", "open", "trusted", "gap"}
  BY DEF AskInv, Inbox!Take, Inbox!Consumed, Inbox!Dropped, Inbox!Fails, Inbox!Accepted, Inbox!Answers
<1>2. PICK ok \in BOOLEAN, dropped \in BOOLEAN :
         /\ Inbox!Settle(slot, ok, dropped)
         /\ slot \in Inbox!AutoSlots /\ ok /\ ~dropped => Inbox!Accepted(slot) \/ ~Inbox!Answers(slot)
         /\ Inbox!Accepted(slot) \/ UNCHANGED pause
  <2>1. slot \in Inbox!SubmitSlots \cup Inbox!AutoSlots \/ slot \notin Inbox!SubmitSlots \cup Inbox!AutoSlots
    OBVIOUS
  <2>2. CASE Inbox!Take(slot)
    BY <2>2 DEF Inbox!Take
  <2>3. CASE Inbox!Consumed(slot)
    <3>1. PICK b \in BOOLEAN : b = (slot \in Inbox!SubmitSlots \cup Inbox!AutoSlots)
      <4> DEFINE b == slot \in Inbox!SubmitSlots \cup Inbox!AutoSlots
      <4>1. b \in BOOLEAN
        OBVIOUS
      <4> HIDE DEF b
      <4>2. \E x \in BOOLEAN : x = b
        BY <4>1
      <4> QED BY <4>2 DEF b
    <3> QED BY <2>3, <3>1 DEF Inbox!Consumed
  <2>4. CASE Inbox!Dropped(slot)
    BY <2>4 DEF Inbox!Dropped
  <2>5. CASE Inbox!Fails(slot)
    BY <2>5 DEF Inbox!Fails, Inbox!Unheard
  <2> QED BY <2>2, <2>3, <2>4, <2>5
<1>3. /\ \A s \in Inbox!Slots \ {slot} : flight'[s] = flight[s]
      /\ flight'[slot].state = "idle"
  BY <1>1, <1>2 DEF Inbox!Settle, Inbox!Idle
<1>4. AtHand' /\ view'.shown = view.shown => AtHand
  BY <1>1, <1>2 DEF Inbox!Accepted, AtHand
<1>5. CASE ~Inbox!IsShown
  <2>2. ~flight[slot].own
    BY <1>1, <1>5 DEF SlotFine, ViewFine, Inbox!IsShown
  <2>3. view' = view
    BY <1>2, <2>2 DEF Inbox!Settle
  <2> QED BY <1>5, <2>3 DEF InboxMarks, UserMarks, AutoMarks, Inbox!IsShown
<1>6. CASE Inbox!IsShown /\ ~flight[slot].own
  <2>1. view' = view
    BY <1>2, <1>6 DEF Inbox!Settle
  <2>2. Inbox!Approving => Inbox!Approving'
    BY <1>3, <1>6 DEF Inbox!Approving, Inbox!Slots
  <2>3. UserMarks'
    BY <1>3, <1>6, <2>1 DEF InboxMarks, UserMarks, Asked, Inbox!Slots, Inbox!SubmitSlots, Inbox!IsShown
  <2>4. AutoMarks'
    BY <1>1, <1>4, <1>6, <2>1, <2>2, AutoGoesOn DEF InboxMarks
  <2> QED BY <2>3, <2>4 DEF InboxMarks
<1> DEFINE cut == view.cut \/ dropped
           v == [view EXCEPT !.cut = cut]
<1>7. CASE Inbox!IsShown /\ flight[slot].own
  <2>1. ViewFine(view, pause)
    BY <1>7, ShownIs
  <2>2. /\ DOMAIN v = DOMAIN view /\ v.shown = view.shown /\ v.busy = view.busy
        /\ v.allBusy = view.allBusy /\ v.autoBusy = view.autoBusy /\ v.autoKey = view.autoKey
        /\ v.moved = view.moved /\ v.cut = cut /\ v.finished = view.finished
        /\ v.due = view.due /\ v.shape = view.shape /\ v.index = view.index
        /\ v.autoFailed = view.autoFailed /\ v.autoSeen = view.autoSeen
    <3> HIDE DEF cut
    <3> QED BY <2>1 DEF ViewFine
  <2>3. view.cut \/ dropped => v.cut
    BY <2>2
  <2>4. view' = IF slot \in Inbox!AutoSlots THEN Inbox!AfterAuto(v, flight[slot].alive, ~ok)
                ELSE Inbox!AfterUser(v, slot, ok)
    <3>1. [view EXCEPT !.cut = @ \/ dropped] = v
      BY <2>1 DEF ViewFine
    <3> HIDE DEF v
    <3> QED BY <1>2, <1>7, <3>1 DEF Inbox!Settle
  <2> HIDE DEF cut, v
  <2>5. CASE slot \in Inbox!AutoSlots
    <3>1. \A s \in Inbox!SubmitSlots \cup {"resolve", "all"} : flight'[s] = flight[s]
      BY <1>3, <2>5 DEF Inbox!Slots, Inbox!AutoSlots, Inbox!SubmitSlots
    <3>2. /\ view'.busy = view.busy /\ view'.allBusy = view.allBusy /\ view'.shown = view.shown
          /\ view'.moved = view.moved /\ view'.cut = v.cut /\ view'.finished = view.finished
          /\ view'.shape = view.shape /\ view'.index = view.index
          /\ view'.due \/ view'.due = view.due
          /\ view'.autoKey => view.autoKey
          /\ view'.autoBusy => view.autoBusy
      BY <2>1, <2>2, <2>4, <2>5 DEF Inbox!AfterAuto, Inbox!Due, Inbox!Rendered, ViewFine
    <3>3. UserMarks'
      BY <1>7, <3>1, <3>2, UserGoesOn DEF InboxMarks
    <3>4. CASE ~flight[slot].alive
      <4>1. Inbox!Approving => Inbox!Approving'
        BY <1>3, <3>4 DEF Inbox!Approving, Inbox!Slots
      <4>2. /\ view'.due = view.due /\ view'.autoFailed = view.autoFailed
            /\ view'.autoSeen = view.autoSeen
        BY <2>1, <2>2, <2>4, <2>5, <3>4 DEF Inbox!AfterAuto, ViewFine
      <4>3. Automatic(view', prefs') => Automatic(view, prefs)
        BY <1>1, <3>2, <4>2 DEF Automatic
      <4>4. AutoMarks'
        BY <1>4, <1>7, <2>3, <3>2, <4>1, <4>2, <4>3, AutoGoesOn DEF InboxMarks
      <4> QED BY <3>3, <4>4 DEF InboxMarks
    <3>5. CASE flight[slot].alive /\ ok
      <4>1. view'.autoBusy = FALSE /\ view'.due = view.due
        BY <2>1, <2>2, <2>4, <2>5, <3>5 DEF Inbox!AfterAuto, Inbox!Rendered, ViewFine
      <4>2. ASSUME ~view.moved, AtHand' PROVE view'.cut
        <5>1. flight[slot].pause = view.shown /\ AtHand
          BY <1>1, <1>4, <2>5, <3>2, <3>5, <4>2 DEF SlotFine
        <5>2. Inbox!Answers(slot)
          BY <1>1, <5>1 DEF Inbox!Answers, AtHand
        <5>3. ~Inbox!Accepted(slot)
          BY <1>1, <4>2 DEF Inbox!Accepted, AtHand
        <5> QED BY <1>2, <2>3, <2>5, <3>2, <3>5, <5>2, <5>3
      <4>3. ~view'.due => ~view.moved
        BY <2>1, <4>1 DEF ViewFine
      <4>4. AutoMarks'
        BY <3>2, <4>1, <4>2, <4>3 DEF AutoMarks
      <4> QED BY <3>3, <4>4 DEF InboxMarks
    <3>6. CASE flight[slot].alive /\ ~ok
      <4>1. view'.autoBusy = FALSE /\ view'.due = TRUE /\ view'.autoKey = FALSE
        BY <2>1, <2>2, <2>4, <2>5, <3>6 DEF Inbox!AfterAuto, Inbox!Due, Inbox!Rendered, ViewFine
      <4>2. AutoMarks'
        BY <4>1 DEF AutoMarks
      <4> QED BY <3>3, <4>2 DEF InboxMarks
    <3> QED BY <3>4, <3>5, <3>6
  <2>6. CASE slot \notin Inbox!AutoSlots
    <3>1. Inbox!Approving' = Inbox!Approving
      <4>1. \A s \in Inbox!AutoSlots : s \in Inbox!Slots \ {slot}
        BY <2>6 DEF Inbox!Slots
      <4> QED BY <1>3, <4>1, ApprovingLikeBefore
    <3>2. view' = Inbox!AfterUser(v, slot, ok)
      BY <2>4, <2>6
    <3>3. CASE slot = "approve"
      <4>1. view' = v
        BY <3>2, <3>3 DEF Inbox!AfterUser, Inbox!SubmitSlots
      <4>2. Automatic(view', prefs') => Automatic(view, prefs)
        BY <1>1, <2>2, <4>1 DEF Automatic
      <4>3. \A s \in Inbox!SubmitSlots \cup {"resolve", "all"} : flight'[s] = flight[s]
        BY <1>3, <3>3 DEF Inbox!Slots, Inbox!SubmitSlots
      <4>4. UserMarks'
        BY <1>7, <2>2, <4>1, <4>3, UserGoesOn DEF InboxMarks
      <4>5. AutoMarks'
        BY <1>4, <1>7, <2>2, <2>3, <3>1, <4>1, <4>2, AutoGoesOn DEF InboxMarks
      <4> QED BY <4>4, <4>5 DEF InboxMarks
    <3>4. CASE slot # "approve"
      <4> DEFINE kept == IF ok THEN <<>> ELSE v.saved
                 w == IF slot = "all" THEN [v EXCEPT !.allBusy = FALSE, !.saved = kept]
                      ELSE IF slot = "resolve" THEN [v EXCEPT !.busy = FALSE]
                      ELSE [v EXCEPT !.busy = FALSE, !.lock = FALSE, !.finished = ok]
      <4>1. view' = Inbox!Due(w)
        <5>1. [v EXCEPT !.allBusy = FALSE, !.saved = IF ok THEN <<>> ELSE @]
                = [v EXCEPT !.allBusy = FALSE, !.saved = kept]
          BY <2>1, <2>2 DEF ViewFine
        <5> HIDE DEF kept
        <5>2. CASE slot \in Inbox!SubmitSlots
          BY <3>2, <5>2 DEF Inbox!AfterUser, Inbox!SubmitSlots
        <5>3. CASE slot = "resolve"
          BY <3>2, <5>3 DEF Inbox!AfterUser, Inbox!SubmitSlots
        <5>4. CASE slot = "all"
          BY <3>2, <5>1, <5>4 DEF Inbox!AfterUser, Inbox!SubmitSlots
        <5> QED BY <2>6, <3>4, <5>2, <5>3, <5>4 DEF Inbox!Slots
      <4> HIDE DEF kept
      <4>2. /\ DOMAIN w = DOMAIN view /\ w.shown = view.shown
            /\ w.busy => view.busy /\ slot \notin Inbox!SubmitSlots \cup {"resolve"}
            /\ w.allBusy => view.allBusy /\ slot # "all"
            /\ w.autoBusy = view.autoBusy /\ w.autoKey = view.autoKey /\ w.moved = view.moved
            /\ w.cut = v.cut
        BY <2>1, <2>2, <2>6, <3>4 DEF ViewFine, Inbox!Slots, Inbox!SubmitSlots
      <4> HIDE DEF w
      <4>3. /\ view'.due /\ view'.shown = view.shown
            /\ view'.busy => view.busy /\ slot \notin Inbox!SubmitSlots \cup {"resolve"}
            /\ view'.allBusy => view.allBusy /\ slot # "all"
            /\ view'.autoBusy = view.autoBusy /\ view'.autoKey = view.autoKey
            /\ view'.moved = view.moved /\ view'.cut = v.cut
        BY <2>1, <4>1, <4>2 DEF Inbox!Due, Inbox!Rendered, ViewFine
      <4>4. UserMarks'
        BY <1>3, <1>7, <4>3 DEF InboxMarks, UserMarks, Asked, Inbox!Slots, Inbox!SubmitSlots
      <4>5. AutoMarks'
        BY <1>4, <1>7, <2>3, <3>1, <4>3, AutoGoesOn DEF InboxMarks
      <4> QED BY <4>4, <4>5 DEF InboxMarks
    <3> QED BY <3>3, <3>4
  <2> QED BY <2>5, <2>6
<1> QED BY <1>5, <1>6, <1>7

LEMMA InboxKept ==
    PagesAssumption /\ AskInv /\ InboxMarks /\ (Inbox!Next \/ UNCHANGED inbox) => InboxMarks'
BY FormChanged, BoxTicked, ViewFollows, Requested, EffectRuns, TriedAgain, Answered DEF Inbox!Next

-----------------------------------------------------------------------------
(* The list of conversations. *)

\* What a deletion leaves behind: its tombstone is in memory and in the storage, every
\* list that is being read carries it, and so do the lists to be read after a reload.
Tombs ==
    /\ List!TypeOK
    /\ stored = list.tombs /\ buried \subseteq list.tombs
    /\ \A l \in loads : buried \subseteq l.tombs /\ \A t \in buried : l.found[t] = "hidden"
    /\ List!BuriedStayHidden

ListMarks == Tombs /\ List!MarksEnd

LoadRecord == [tombs : SUBSET Threads, stage : {"sent", "read", "named"},
               found : [Threads -> List!Titles \cup {"hidden"}]]

\* A load that goes on keeps its tombstones.
LEMMA LoadGoesOn ==
    ASSUME NEW l \in LoadRecord, NEW s \in {"sent", "read", "named"},
           NEW f \in [Threads -> List!Titles \cup {"hidden"}]
    PROVE  /\ [l EXCEPT !.stage = s, !.found = f] \in LoadRecord
           /\ [l EXCEPT !.stage = s, !.found = f].tombs = l.tombs
           /\ [l EXCEPT !.stage = s, !.found = f].found = f
BY DEF LoadRecord

LEMMA ListInitially == List!Init => ListMarks
<1> SUFFICES ASSUME List!Init PROVE ListMarks
  OBVIOUS
<1> USE DEF List!Init, List!FreshList, List!NoForm, List!Nothing
<1>1. List!TypeOK
  <2>1. rows \in [Threads -> List!Titles \cup {"none"}]
    BY DEF List!Titles
  <2> QED BY <2>1 DEF List!TypeOK, List!Titles, List!Maybe
<1> QED BY <1>1 DEF ListMarks, Tombs, List!BuriedStayHidden, List!MarksEnd

LEMMA ListKept == ListMarks /\ (List!Next \/ UNCHANGED threads) => ListMarks'
<1> SUFFICES ASSUME ListMarks, List!Next \/ UNCHANGED threads PROVE ListMarks'
  OBVIOUS
<1> USE DEF ListMarks, Tombs, List!TypeOK, List!BuriedStayHidden, List!MarksEnd
<1>0. loads \subseteq LoadRecord
  BY DEF LoadRecord
<1>1. CASE List!Reload
  <2> DEFINE m == List!NewLoad
  <2>1. m \in LoadRecord /\ m.tombs = list.tombs /\ \A t \in Threads : m.found[t] = "hidden"
    BY DEF List!NewLoad, List!Nothing, LoadRecord
  <2>2. /\ loads' = loads \cup {m}
        /\ list' \in [tombs : SUBSET Threads, shown : [Threads -> List!Titles \cup {"hidden"}],
                      loading : BOOLEAN, due : BOOLEAN]
        /\ list'.tombs = list.tombs /\ list'.shown = list.shown
        /\ UNCHANGED <<graph, rows, stored, form, url, jobs, buried>>
    BY <1>1 DEF List!Reload
  <2> HIDE DEF m
  <2> QED BY <1>0, <2>1, <2>2 DEF LoadRecord
<1>2. CASE List!TokenRefreshed
  BY <1>2 DEF List!TokenRefreshed
<1>3. CASE List!NewChat
  BY <1>3 DEF List!NewChat, List!Maybe
<1>4. CASE List!LoadPage
  BY <1>4 DEF List!LoadPage, List!FreshList, List!NoForm, List!Nothing, List!Maybe
<1>5. ASSUME NEW l \in loads, List!ReadThreads(l) PROVE ListMarks'
  <2> DEFINE m == [l EXCEPT !.stage = "read", !.found = List!Visible(l.tombs)]
  <2>1. /\ loads' = (loads \ {l}) \cup {m} /\ loads' # {}
        /\ UNCHANGED <<graph, rows, stored, list, form, url, jobs, buried>>
    BY <1>5 DEF List!ReadThreads
  <2>2. List!Visible(l.tombs) \in [Threads -> List!Titles \cup {"hidden"}]
    BY DEF List!Visible
  <2>3. \A t \in buried : List!Visible(l.tombs)[t] = "hidden"
    BY DEF List!Visible
  <2>4. m \in LoadRecord /\ m.tombs = l.tombs /\ m.found = List!Visible(l.tombs)
    <3> HIDE DEF ListMarks
    <3>1. l \in LoadRecord /\ "read" \in {"sent", "read", "named"}
      BY <1>0
    <3> QED BY <2>2, <3>1, LoadGoesOn
  <2> HIDE DEF m
  <2> QED BY <1>0, <2>1, <2>3, <2>4 DEF LoadRecord
<1>6. ASSUME NEW l \in loads, List!ReadTitles(l) PROVE ListMarks'
  <2>1. PICK found \in {l.found, List!Titled(l.found)} :
          loads' = (loads \ {l}) \cup {[l EXCEPT !.stage = "named", !.found = found]}
    <3>1. [l EXCEPT !.stage = "named"] = [l EXCEPT !.stage = "named", !.found = l.found]
      OBVIOUS
    <3> QED BY <1>6, <3>1 DEF List!ReadTitles
  <2> DEFINE m == [l EXCEPT !.stage = "named", !.found = found]
  <2>2. UNCHANGED <<graph, rows, stored, list, form, url, jobs, buried>>
    BY <1>6 DEF List!ReadTitles
  <2>3. /\ found \in [Threads -> List!Titles \cup {"hidden"}]
        /\ \A t \in buried : found[t] = "hidden"
    BY <2>1 DEF List!Titled
  <2>4. m \in LoadRecord /\ m.tombs = l.tombs /\ m.found = found
    <3> HIDE DEF ListMarks
    <3>1. l \in LoadRecord /\ "named" \in {"sent", "read", "named"}
      BY <1>0
    <3> QED BY <2>3, <3>1, LoadGoesOn
  <2>5. loads' = (loads \ {l}) \cup {m}
    BY <2>1
  <2> HIDE DEF m
  <2> QED BY <1>0, <2>2, <2>3, <2>4, <2>5 DEF LoadRecord
<1>7. ASSUME NEW l \in loads, List!LoadDone(l) \/ List!LoadFails(l) PROVE ListMarks'
  <2>1. /\ loads' = loads \ {l} /\ list'.loading = FALSE
        /\ list' \in [tombs : SUBSET Threads, shown : [Threads -> List!Titles \cup {"hidden"}],
                      loading : BOOLEAN, due : BOOLEAN]
        /\ list'.tombs = list.tombs /\ list'.shown \in {list.shown, l.found}
        /\ UNCHANGED <<graph, rows, stored, form, url, jobs, buried>>
    <3>1. l.found \in [Threads -> List!Titles \cup {"hidden"}]
      BY <1>0 DEF LoadRecord
    <3>2. CASE List!LoadDone(l)
      BY <3>1, <3>2 DEF List!LoadDone
    <3>3. CASE List!LoadFails(l)
      BY <3>3 DEF List!LoadFails
    <3> QED BY <1>7, <3>2, <3>3
  <2> QED BY <2>1
<1>8. ASSUME NEW t \in Threads, List!Open(t) PROVE ListMarks'
  BY <1>8 DEF List!Open, List!Maybe
<1>9. ASSUME NEW t \in Threads, List!StartEditing(t) \/ List!CancelEditing(t) PROVE ListMarks'
  BY <1>9 DEF List!StartEditing, List!CancelEditing, List!Maybe
<1>10. ASSUME NEW t \in Threads, List!SaveTitle(t) \/ List!RemoveThread(t) PROVE ListMarks'
  BY <1>10 DEF List!SaveTitle, List!RemoveThread, List!Begin, List!Job, List!Maybe
<1>11. ASSUME NEW j \in jobs, List!RenameGraph(j) PROVE ListMarks'
  <2> DEFINE k == [j EXCEPT !.stage = "second"]
  <2>1. /\ k \in [kind : {"rename", "delete", "purge"}, thread : Threads,
                  stage : {"first", "second"}, open : List!Maybe]
        /\ k.kind = "rename" /\ k.thread = j.thread
    BY <1>11 DEF List!RenameGraph
  <2>2. /\ jobs' = (jobs \ {j}) \cup {k} /\ j.kind = "rename"
        /\ graph' \in [Threads -> List!Titles \cup {"gone"}]
        /\ UNCHANGED <<rows, stored, list, form, url, loads, buried>>
    BY <1>11 DEF List!RenameGraph, List!Titles
  <2> HIDE DEF k
  <2> QED BY <2>1, <2>2
<1>12. ASSUME NEW j \in jobs, List!RenameRow(j) PROVE ListMarks'
  <2>1. /\ rows' \in [Threads -> List!Titles \cup {"none"}] /\ jobs' = jobs \ {j}
        /\ j.kind = "rename" /\ UNCHANGED <<graph, stored, url, loads, buried>>
    BY <1>12 DEF List!RenameRow, List!Titles
  <2>2. /\ list' \in [tombs : SUBSET Threads, shown : [Threads -> List!Titles \cup {"hidden"}],
                      loading : BOOLEAN, due : BOOLEAN]
        /\ list'.tombs = list.tombs /\ list'.loading = list.loading
        /\ \A t \in Threads : list.shown[t] = "hidden" => list'.shown[t] = "hidden"
    BY <1>12 DEF List!RenameRow, List!Titles
  <2>3. /\ form' \in [editing : List!Maybe, saving : List!Maybe, deleting : List!Maybe]
        /\ form'.saving = "none" /\ form'.deleting = form.deleting
    BY <1>12 DEF List!RenameRow, List!Maybe
  <2> QED BY <2>1, <2>2, <2>3
<1>13. ASSUME NEW j \in jobs, List!RenameGone(j) \/ List!JobFails(j) PROVE ListMarks'
  BY <1>13 DEF List!RenameGone, List!JobFails, List!Released, List!Titles, List!Maybe, List!Servers
<1>14. ASSUME NEW j \in jobs, List!RowDeleted(j) PROVE ListMarks'
  <2> DEFINE tombs == list.tombs \cup {j.thread}
             p == [List!Job("purge", j.thread) EXCEPT !.open = "none"]
  <2>1. /\ j.kind = "delete" /\ stored' = tombs /\ tombs \subseteq Threads
        /\ rows' \in [Threads -> List!Titles \cup {"none"}] /\ url' \in List!Maybe
        /\ jobs' = (jobs \ {j}) \cup {p} /\ UNCHANGED <<graph, loads, buried>>
    BY <1>14 DEF List!RowDeleted, List!Persist, List!Titles, List!Maybe
  <2>2. p \in [kind : {"rename", "delete", "purge"}, thread : Threads,
               stage : {"first", "second"}, open : List!Maybe]
    BY DEF List!Job, List!Maybe
  <2>3. list' = [list EXCEPT !.tombs = tombs, !.due = TRUE, !.shown[j.thread] = "hidden"]
    BY <1>14 DEF List!RowDeleted
  <2>4. /\ list' \in [tombs : SUBSET Threads, shown : [Threads -> List!Titles \cup {"hidden"}],
                      loading : BOOLEAN, due : BOOLEAN]
        /\ list'.tombs = tombs /\ list'.loading = list.loading
        /\ \A t \in Threads : list.shown[t] = "hidden" => list'.shown[t] = "hidden"
    BY <2>1, <2>3
  <2>5. /\ form' \in [editing : List!Maybe, saving : List!Maybe, deleting : List!Maybe]
        /\ form'.saving = form.saving /\ form'.deleting = "none"
    BY <1>14 DEF List!RowDeleted, List!Released, List!Maybe
  <2> HIDE DEF p
  <2> QED BY <2>1, <2>2, <2>4, <2>5
<1>15. ASSUME NEW j \in jobs, List!Purge(j) PROVE ListMarks'
  BY <1>15 DEF List!Purge, List!Titles
<1>16. CASE UNCHANGED threads
  BY <1>16 DEF threads
<1> QED
  BY <1>1, <1>2, <1>3, <1>4, <1>5, <1>6, <1>7, <1>8, <1>9, <1>10, <1>11, <1>12, <1>13,
     <1>14, <1>15, <1>16 DEF List!Next

-----------------------------------------------------------------------------
(* The page of the coding agent. *)

Fields == {"kind", "subject", "run", "chain", "status", "names", "found"}
Flags == {"loading", "submitting", "importing", "deleting"}

\* The chain of calls that each flag of the page stands for.
Submission(c) == \/ c.kind = "submit" /\ c.chain = "none"
                 \/ c.kind \in {"runs", "detail"} /\ c.chain = "submit"
Removal(c) == \/ c.kind = "delete" /\ c.chain = "none"
              \/ c.kind = "workspaces" /\ c.chain = "delete"
Import(c) == c.kind = "import" /\ c.chain = "none"

\* A call the page has given up is in no chain.
Working == {"submit", "delete", "import"}
Chained(c) == /\ c.kind \in Working => c.chain \in {"none", "lost"}
              /\ c.chain = "lost" => c.kind \in Working /\ c.status = "sent"
              /\ c.kind \in Working /\ c.status = "sent" => c.run = 0

CodingTypes ==
    /\ Flags \subseteq DOMAIN page /\ \A f \in Flags : page[f] \in BOOLEAN
    /\ \A c \in asks : Fields = DOMAIN c /\ Chained(c)
    /\ DOMAIN runs = Coding!RunIds
    /\ \A r \in Coding!RunIds : DOMAIN runs[r] = {"status", "workspace"}

\* One chain at a time, one call of it at a time.
Chains ==
    /\ page.submitting = (\E c \in asks : Submission(c))
    /\ page.deleting = (\E c \in asks : Removal(c))
    /\ page.importing = (\E c \in asks : Import(c))
    /\ ~(page.submitting /\ page.deleting)
    /\ \A c, d \in asks : (Submission(c) /\ Submission(d)) \/ (Removal(c) /\ Removal(d))
                          \/ (Import(c) /\ Import(d)) => c = d
    /\ page.loading => \E c \in asks : c.kind = "runs"

\* A run that goes on is known to the page, unless the page has given it up.
Attended ==
    \A r \in Coding!RunIds : runs[r].status = "running" /\ r \notin lost =>
        \E c \in asks : c.kind = "submit" /\ c.status = "running" /\ c.run = r

CodingMarks == CodingTypes /\ Chains /\ Attended

LEMMA CodingInitially == Coding!Init => CodingMarks
<1> SUFFICES ASSUME Coding!Init PROVE CodingMarks
  OBVIOUS
<1>1. CodingTypes
  BY DEF Coding!Init, CodingTypes, Flags, Fields, Coding!EffectLoads, Coding!Load, Coding!Call,
         Chained, Working, Coding!NoRun
<1>2. \A c \in asks : ~Submission(c) /\ ~Removal(c) /\ ~Import(c)
  BY DEF Coding!Init, Coding!EffectLoads, Coding!Load, Coding!Call, Submission, Removal, Import
<1>3. \E c \in asks : c.kind = "runs"
  <2>1. Coding!Load("runs", "effect") \in asks
    BY DEF Coding!Init, Coding!EffectLoads
  <2> QED BY <2>1 DEF Coding!Load, Coding!Call
<1>4. Chains
  BY <1>2, <1>3 DEF Coding!Init, Chains
<1>5. Attended
  BY DEF Coding!Init, Attended, Coding!NoRun
<1> QED BY <1>1, <1>4, <1>5 DEF CodingMarks

\* A call that is served or fails stays in its chain; what the page gives up is in none.
LEMMA ChainsGoOn ==
    ASSUME CodingTypes, Chains, NEW c \in asks, NEW d, DOMAIN d = Fields, Chained(d),
           d.kind = c.kind, d.chain = c.chain, NEW more,
           \A e \in more : /\ DOMAIN e = Fields /\ Chained(e)
                           /\ ~Submission(e) /\ ~Removal(e) /\ ~Import(e),
           asks' = ((asks \ {c}) \cup {d}) \cup more, page' = page
    PROVE  Chains' /\ (Flags \subseteq DOMAIN page /\ \A f \in Flags : page[f] \in BOOLEAN)'
           /\ \A e \in asks' : Fields = DOMAIN e /\ Chained(e)
<1>1. Submission(d) = Submission(c) /\ Removal(d) = Removal(c) /\ Import(d) = Import(c)
  BY DEF Submission, Removal, Import
<1>2. (\E e \in asks' : Submission(e)) = (\E e \in asks : Submission(e))
  BY <1>1
<1>3. (\E e \in asks' : Removal(e)) = (\E e \in asks : Removal(e))
  BY <1>1
<1>4. (\E e \in asks' : Import(e)) = (\E e \in asks : Import(e))
  BY <1>1
<1>5. (\E e \in asks : e.kind = "runs") => \E e \in asks' : e.kind = "runs"
  OBVIOUS
<1>6. ASSUME NEW e \in asks', NEW f \in asks',
             (Submission(e) /\ Submission(f)) \/ (Removal(e) /\ Removal(f))
             \/ (Import(e) /\ Import(f))
      PROVE  e = f
  BY <1>1, <1>6 DEF Chains
<1> QED BY <1>1, <1>2, <1>3, <1>4, <1>5, <1>6 DEF Chains, CodingTypes

\* The backend handles a call that the page has given up.
LEMMA LostHandled ==
    ASSUME CodingTypes, Chains, NEW c \in asks, c.chain = "lost", asks' = asks \ {c}, page' = page
    PROVE  Chains' /\ (Flags \subseteq DOMAIN page /\ \A f \in Flags : page[f] \in BOOLEAN)'
           /\ \A e \in asks' : Fields = DOMAIN e /\ Chained(e)
<1>1. ~Submission(c) /\ ~Removal(c) /\ ~Import(c) /\ c.kind # "runs"
  BY DEF Submission, Removal, Import, CodingTypes, Chained, Working
<1>2. (\E e \in asks' : Submission(e)) = (\E e \in asks : Submission(e))
  BY <1>1
<1>3. (\E e \in asks' : Removal(e)) = (\E e \in asks : Removal(e))
  BY <1>1
<1>4. (\E e \in asks' : Import(e)) = (\E e \in asks : Import(e))
  BY <1>1
<1>5. (\E e \in asks : e.kind = "runs") => \E e \in asks' : e.kind = "runs"
  BY <1>1
<1> QED BY <1>2, <1>3, <1>4, <1>5 DEF Chains, CodingTypes

\* The backend answers a call that reads.
LEMMA ServedCall ==
    ASSUME CodingMarks, NEW c \in asks, Coding!ServeLoad(c)
    PROVE  CodingMarks'
<1> DEFINE d == CASE c.kind = "runs" -> [Coding!Answered(c) EXCEPT
                                           !.found = {<<r, runs[r].status>> : r \in Coding!Known}]
                  [] c.kind = "models" -> [Coding!Answered(c) EXCEPT !.names = Models]
                  [] c.kind = "workspaces" -> [Coding!Answered(c) EXCEPT
                                                 !.names = {"root"} \cup copies]
                  [] OTHER -> Coding!Answered(c)
<1>1. asks' = (asks \ {c}) \cup {d} /\ page' = page /\ UNCHANGED <<runs, lost>>
  BY DEF Coding!ServeLoad, Coding!Swap
<1>2. c.kind \in {"runs", "models", "workspaces", "detail"} /\ c.status = "sent"
  BY DEF Coding!ServeLoad
<1>3. DOMAIN d = Fields /\ d.kind = c.kind /\ d.chain = c.chain
  <2>1. DOMAIN c = Fields
    BY DEF CodingMarks, CodingTypes
  <2> QED BY <1>2, <2>1 DEF Coding!Answered, Fields
<1> HIDE DEF d
<1>6. Chained(d)
  BY <1>2, <1>3 DEF CodingMarks, CodingTypes, Chained, Working
<1>4. Chains' /\ CodingTypes'
  <2>1. PICK more : more = {}
    OBVIOUS
  <2>2. asks' = ((asks \ {c}) \cup {d}) \cup more
    BY <1>1, <2>1
  <2> QED BY <1>1, <1>3, <1>6, <2>1, <2>2, ChainsGoOn DEF CodingMarks, CodingTypes
<1>5. Attended'
  BY <1>1, <1>2 DEF CodingMarks, Attended
<1> QED BY <1>4, <1>5 DEF CodingMarks

\* The backend answers a call that changes something; or a call fails, or is given up.
LEMMA WorkedCall ==
    ASSUME CodingMarks, NEW c \in asks,
           Coding!ServeImport(c) \/ Coding!ServeDelete(c) \/ Coding!CallFails(c)
    PROVE  CodingMarks'
<1>0. DOMAIN c = Fields /\ Chained(c)
  BY DEF CodingMarks, CodingTypes
<1>1. /\ page' = page /\ runs' = runs
      /\ \/ c.kind \in {"import", "delete"} /\ lost' = lost
         \/ lost' = IF c.kind = "submit" THEN lost \cup ({c.run} \ {0}) ELSE lost
  BY DEF Coding!ServeImport, Coding!ServeDelete, Coding!CallFails
<1>2. CASE c.chain = "lost"
  <2>1. asks' = asks \ {c}
    BY <1>2 DEF Coding!ServeImport, Coding!ServeDelete, Coding!CallFails, Coding!Swap, Coding!Reply
  <2>2. Chains' /\ CodingTypes'
    BY <1>1, <1>2, <2>1, LostHandled DEF CodingMarks, CodingTypes
  <2>3. Attended'
    BY <1>0, <1>1, <1>2, <2>1 DEF CodingMarks, Attended, Coding!RunIds, Chained
  <2> QED BY <2>2, <2>3 DEF CodingMarks
<1>3. CASE c.chain # "lost"
  <2> DEFINE gone == [c EXCEPT !.chain = "lost"]
  <2>1. PICK s \in {"ok", "failed"}, more \in {{}, {gone}} :
           /\ asks' = ((asks \ {c}) \cup {[c EXCEPT !.status = s]}) \cup more
           /\ more = {gone} => c.kind \in Working /\ c.status = "sent"
    <3>1. CASE Coding!ServeImport(c) \/ Coding!ServeDelete(c)
      <4>1. PICK s \in {"ok", "failed"} : asks' = (asks \ {c}) \cup {[c EXCEPT !.status = s]}
        BY <1>3, <3>1 DEF Coding!ServeImport, Coding!ServeDelete, Coding!Swap, Coding!Reply,
                          Coding!Answered
      <4> HIDE DEF gone
      <4>2. PICK more : more = {}
        OBVIOUS
      <4> QED BY <4>1, <4>2
    <3>2. CASE Coding!CallFails(c)
      <4>1. \/ asks' = (asks \ {c}) \cup {[c EXCEPT !.status = "failed"]}
            \/ /\ asks' = (asks \ {c}) \cup {[c EXCEPT !.status = "failed"], gone}
               /\ c.kind \in Working /\ c.status = "sent"
        BY <3>2 DEF Coding!CallFails, Coding!Swap, Working
      <4> HIDE DEF gone
      <4> QED BY <4>1
    <3> QED BY <3>1, <3>2
  <2> DEFINE d == [c EXCEPT !.status = s]
  <2>2. DOMAIN d = Fields /\ d.kind = c.kind /\ d.chain = c.chain /\ d.status = s
    BY <1>0 DEF Fields
  <2>3. asks' = ((asks \ {c}) \cup {d}) \cup more
    BY <2>1
  <2> HIDE DEF d
  <2>4. Chained(d)
    BY <1>0, <1>3, <2>1, <2>2 DEF Chained, Working
  <2>5. ASSUME NEW e \in more
        PROVE  /\ DOMAIN e = Fields /\ Chained(e) /\ ~Submission(e) /\ ~Removal(e) /\ ~Import(e)
    <3>1. e = gone /\ c.kind \in Working /\ c.status = "sent"
      BY <2>1, <2>5
    <3>2. /\ DOMAIN gone = Fields /\ gone.kind = c.kind /\ gone.chain = "lost"
          /\ gone.status = c.status /\ gone.run = c.run
      BY <1>0 DEF Fields
    <3> HIDE DEF gone
    <3> QED BY <1>0, <3>1, <3>2 DEF Chained, Working, Submission, Removal, Import
  <2>6. Chains' /\ CodingTypes'
    BY <1>1, <2>2, <2>3, <2>4, <2>5, ChainsGoOn DEF CodingMarks, CodingTypes
  <2>7. Attended'
    BY <1>1, <2>3 DEF CodingMarks, Attended, Coding!RunIds
  <2> QED BY <2>6, <2>7 DEF CodingMarks
<1> QED BY <1>2, <1>3

LEMMA RunBegun ==
    ASSUME CodingMarks, NEW c \in asks, NEW r \in Coding!RunIds, Coding!BeginRun(c, r)
    PROVE  CodingMarks'
<1> DEFINE d == [c EXCEPT !.status = "running", !.run = r]
<1>1. /\ page' = page /\ c.status = "sent" /\ c.kind = "submit"
      /\ runs' = [runs EXCEPT ![r] = [status |-> "running", workspace |-> c.subject]]
      /\ lost' = IF c.chain = "lost" THEN lost \cup {r} ELSE lost
  BY DEF Coding!BeginRun
<1>2. CASE c.chain = "lost"
  <2>1. asks' = asks \ {c}
    BY <1>2 DEF Coding!BeginRun, Coding!Swap, Coding!Reply
  <2>2. Chains' /\ CodingTypes'
    BY <1>1, <1>2, <2>1, LostHandled DEF CodingMarks, CodingTypes
  <2>3. Attended'
    BY <1>1, <1>2, <2>1 DEF CodingMarks, CodingTypes, Attended
  <2> QED BY <2>2, <2>3 DEF CodingMarks
<1>3. CASE c.chain # "lost"
  <2>0. PICK more : more = {}
    OBVIOUS
  <2>1. asks' = ((asks \ {c}) \cup {d}) \cup more
    BY <1>3, <2>0 DEF Coding!BeginRun, Coding!Swap, Coding!Reply
  <2>2. /\ DOMAIN d = Fields /\ d.kind = c.kind /\ d.chain = c.chain
        /\ d.status = "running" /\ d.run = r
    BY DEF CodingMarks, CodingTypes, Fields
  <2> HIDE DEF d
  <2>3. Chained(d)
    BY <1>3, <2>2 DEF CodingMarks, CodingTypes, Chained, Working
  <2>4. /\ Chains' /\ (Flags \subseteq DOMAIN page /\ \A f \in Flags : page[f] \in BOOLEAN)'
        /\ \A e \in asks' : Fields = DOMAIN e /\ Chained(e)
    <3>1. CodingTypes /\ Chains
      BY DEF CodingMarks
    <3>2. \A e \in more : /\ DOMAIN e = Fields /\ Chained(e)
                           /\ ~Submission(e) /\ ~Removal(e) /\ ~Import(e)
      BY <2>0
    <3> QED BY <1>1, <2>1, <2>2, <2>3, <3>1, <3>2, ChainsGoOn
  <2>6. DOMAIN runs' = Coding!RunIds /\ \A q \in Coding!RunIds : DOMAIN runs'[q] = {"status", "workspace"}
    BY <1>1 DEF CodingMarks, CodingTypes
  <2>7. Chains' /\ CodingTypes'
    BY <2>4, <2>6 DEF CodingTypes
  <2>5. Attended'
    BY <1>1, <1>3, <2>0, <2>1, <2>2 DEF CodingMarks, CodingTypes, Attended
  <2> QED BY <2>5, <2>7 DEF CodingMarks
<1> QED BY <1>2, <1>3

LEMMA RunEnded ==
    ASSUME CodingMarks, NEW r \in Coding!RunIds, NEW s \in {"success", "failed"},
           Coding!EndRun(r, s)
    PROVE  CodingMarks'
<1> DEFINE over == [c \in asks |->
                     IF c.kind = "submit" /\ c.run = r
                     THEN [c EXCEPT !.status = IF s = "success" THEN "ok" ELSE "failed"] ELSE c]
<1>1. /\ asks' = {over[c] : c \in asks} /\ UNCHANGED <<page, lost>>
      /\ runs' = [runs EXCEPT ![r].status = s]
  BY DEF Coding!EndRun
<1>2. \A c \in asks : /\ DOMAIN over[c] = Fields /\ over[c].kind = c.kind
                      /\ over[c].chain = c.chain /\ over[c].run = c.run
                      /\ c.kind # "submit" \/ c.run # r => over[c] = c
                      /\ c.kind = "submit" /\ c.run = r => over[c].status \in {"ok", "failed"}
  BY DEF CodingMarks, CodingTypes, Fields
<1> HIDE DEF over
<1>3. \A c \in asks : /\ Submission(over[c]) = Submission(c) /\ Removal(over[c]) = Removal(c)
                      /\ Import(over[c]) = Import(c)
  BY <1>2 DEF Submission, Removal, Import
<1>4. CodingTypes'
  <2>1. \A c \in asks : Chained(over[c])
    BY <1>2 DEF CodingMarks, CodingTypes, Chained, Working, Coding!RunIds
  <2> QED BY <1>1, <1>2, <2>1 DEF CodingMarks, CodingTypes
<1>5. Chains'
  <2>1. (\E c \in asks' : Submission(c)) = (\E c \in asks : Submission(c))
    BY <1>1, <1>3
  <2>2. (\E c \in asks' : Removal(c)) = (\E c \in asks : Removal(c))
    BY <1>1, <1>3
  <2>3. (\E c \in asks' : Import(c)) = (\E c \in asks : Import(c))
    BY <1>1, <1>3
  <2>4. (\E c \in asks : c.kind = "runs") => \E c \in asks' : c.kind = "runs"
    BY <1>1, <1>2
  <2>5. ASSUME NEW e \in asks', NEW f \in asks',
               (Submission(e) /\ Submission(f)) \/ (Removal(e) /\ Removal(f))
               \/ (Import(e) /\ Import(f))
        PROVE  e = f
    <3>1. PICK c \in asks, b \in asks : e = over[c] /\ f = over[b]
      BY <1>1
    <3> QED BY <1>3, <2>5, <3>1 DEF CodingMarks, Chains
  <2> QED BY <1>1, <2>1, <2>2, <2>3, <2>4, <2>5 DEF CodingMarks, Chains
<1>6. Attended'
  <2> SUFFICES ASSUME NEW q \in Coding!RunIds, runs'[q].status = "running", q \notin lost
               PROVE  \E c \in asks' : c.kind = "submit" /\ c.status = "running" /\ c.run = q
    BY <1>1 DEF Attended
  <2>1. q # r /\ runs[q].status = "running"
    BY <1>1 DEF CodingMarks, CodingTypes
  <2>2. PICK c \in asks : c.kind = "submit" /\ c.status = "running" /\ c.run = q
    BY <2>1 DEF CodingMarks, Attended
  <2>3. over[c] = c
    BY <1>2, <2>1, <2>2
  <2> QED BY <1>1, <2>2, <2>3
<1> QED BY <1>4, <1>5, <1>6 DEF CodingMarks

\* What a step may do to the calls without disturbing the chains: a call that is in none
\* begins or ends.
LEMMA OutsideChains ==
    ASSUME CodingMarks, NEW new, NEW old,
           \A c \in old \cup new : ~Submission(c) /\ ~Removal(c) /\ ~Import(c),
           \A c \in new : DOMAIN c = Fields /\ Chained(c),
           asks' = (asks \ old) \cup new,
           Flags \subseteq DOMAIN page', \A f \in Flags : page'[f] \in BOOLEAN,
           \A f \in Flags \ {"loading"} : page'[f] = page[f],
           page'["loading"] => (\E c \in new : c.kind = "runs")
                               \/ (page["loading"] /\ \A c \in old : c.kind # "runs"),
           UNCHANGED <<runs, lost>>
    PROVE  CodingMarks'
<1>1. CodingTypes'
  BY DEF CodingMarks, CodingTypes
<1>2. \A c : Submission(c) \/ Removal(c) \/ Import(c) => (c \in asks' <=> c \in asks)
  OBVIOUS
<1>3. Chains'
  <2>1. page'.submitting = (\E c \in asks' : Submission(c))
    BY <1>2 DEF CodingMarks, Chains, Flags
  <2>2. page'.deleting = (\E c \in asks' : Removal(c))
    BY <1>2 DEF CodingMarks, Chains, Flags
  <2>3. page'.importing = (\E c \in asks' : Import(c))
    BY <1>2 DEF CodingMarks, Chains, Flags
  <2>4. ~(page'.submitting /\ page'.deleting)
    BY DEF CodingMarks, Chains, Flags
  <2>5. ASSUME NEW e \in asks', NEW f \in asks',
               (Submission(e) /\ Submission(f)) \/ (Removal(e) /\ Removal(f))
               \/ (Import(e) /\ Import(f))
        PROVE  e = f
    BY <1>2, <2>5 DEF CodingMarks, Chains
  <2>6. page'.loading => \E c \in asks' : c.kind = "runs"
    BY DEF CodingMarks, Chains
  <2> QED BY <2>1, <2>2, <2>3, <2>4, <2>5, <2>6 DEF Chains
<1>4. Attended'
  BY DEF CodingMarks, Attended, CodingTypes, Chained, Working, Submission
<1> QED BY <1>1, <1>3, <1>4 DEF CodingMarks

\* A step that changes neither the calls nor the flags.
LEMMA Undisturbed ==
    ASSUME CodingMarks, asks' = asks, UNCHANGED <<runs, lost>>, DOMAIN page' = DOMAIN page,
           \A f \in Flags : page'[f] = page[f]
    PROVE  CodingMarks'
<1>1. CodingTypes'
  BY DEF CodingMarks, CodingTypes
<1>2. /\ page'.submitting = page.submitting /\ page'.deleting = page.deleting
      /\ page'.importing = page.importing /\ page'.loading = page.loading
  BY DEF Flags
<1>3. Chains'
  BY <1>2 DEF CodingMarks, Chains
<1>4. Attended'
  BY DEF CodingMarks, Attended
<1> QED BY <1>1, <1>3, <1>4 DEF CodingMarks

LEMMA PageLoads == CodingMarks /\ (Coding!TokenRefreshed \/ Coding!Refresh) => CodingMarks'
<1> SUFFICES ASSUME CodingMarks, Coding!TokenRefreshed \/ Coding!Refresh PROVE CodingMarks'
  OBVIOUS
<1>1. PICK new \in {Coding!EffectLoads, {Coding!Load("runs", "button")}} :
         /\ asks' = asks \cup new /\ page' = [page EXCEPT !.loading = TRUE]
         /\ UNCHANGED <<runs, lost>>
  BY DEF Coding!TokenRefreshed, Coding!Refresh
<1>2. \A c \in new : DOMAIN c = Fields /\ Chained(c) /\ ~Submission(c) /\ ~Removal(c) /\ ~Import(c)
  BY DEF Coding!EffectLoads, Coding!Load, Coding!Call, Fields, Chained, Working, Submission, Removal, Import
<1>3. \E c \in new : c.kind = "runs"
  <2>1. Coding!Load("runs", "effect") \in new \/ Coding!Load("runs", "button") \in new
    BY DEF Coding!EffectLoads
  <2> QED BY <2>1 DEF Coding!Load, Coding!Call
<1>4. asks' = (asks \ {}) \cup new
  BY <1>1
<1> QED BY <1>1, <1>2, <1>3, <1>4, OutsideChains DEF CodingMarks, CodingTypes, Flags

LEMMA PageChoices ==
    ASSUME CodingMarks,
           Coding!WriteTask \/ Coding!CloseRun \/ (\E w \in Coding!Workspaces : Coding!Choose(w))
           \/ (\E m \in Models : Coding!ChooseModel(m)) \/ UNCHANGED coding
    PROVE  CodingMarks'
<1>1. /\ asks' = asks /\ UNCHANGED <<runs, lost>>
      /\ \/ page' = page
         \/ \E x \in {"task", "detail", "chosen", "model"} : \E y : page' = [page EXCEPT ![x] = y]
  BY DEF Coding!WriteTask, Coding!CloseRun, Coding!Choose, Coding!ChooseModel, coding
<1>2. DOMAIN page' = DOMAIN page /\ \A f \in Flags : page'[f] = page[f]
  BY <1>1 DEF CodingMarks, CodingTypes, Flags
<1> QED BY <1>1, <1>2, Undisturbed DEF CodingMarks, CodingTypes

LEMMA RunOpened ==
    ASSUME CodingMarks, NEW r \in Coding!RunIds, Coding!OpenRun(r)
    PROVE  CodingMarks'
<1> DEFINE d == Coding!Call("detail", "all", r, "click")
<1>1. asks' = (asks \ {}) \cup {d} /\ UNCHANGED <<page, runs, lost>>
  BY DEF Coding!OpenRun
<1>2. DOMAIN d = Fields /\ Chained(d) /\ ~Submission(d) /\ ~Removal(d) /\ ~Import(d)
  BY DEF Coding!Call, Fields, Chained, Working, Submission, Removal, Import
<1> HIDE DEF d
<1>3. PICK old, new : old = {} /\ new = {d}
  OBVIOUS
<1>4. asks' = (asks \ old) \cup new
  BY <1>1, <1>3
<1>5. /\ \A c \in old \cup new : ~Submission(c) /\ ~Removal(c) /\ ~Import(c)
      /\ \A c \in new : DOMAIN c = Fields /\ Chained(c)
  BY <1>2, <1>3
<1>6. /\ Flags \subseteq DOMAIN page' /\ \A f \in Flags : page'[f] \in BOOLEAN
      /\ \A f \in Flags \ {"loading"} : page'[f] = page[f]
  BY <1>1 DEF CodingMarks, CodingTypes
<1>7. page'["loading"] => page["loading"] /\ \A c \in old : c.kind # "runs"
  BY <1>1, <1>3
<1> QED BY <1>1, <1>4, <1>5, <1>6, <1>7, OutsideChains

\* A chain begins while there is no other.
LEMMA ChainBegins ==
    ASSUME CodingMarks, NEW f \in {"submitting", "importing", "deleting"}, NEW d,
           ~(page.submitting \/ page.importing \/ page.deleting),
           f = "submitting" => d.kind = "submit", f = "importing" => d.kind = "import",
           f = "deleting" => d.kind = "delete",
           DOMAIN d = Fields, d.chain = "none", d.run = 0,
           asks' = asks \cup {d}, page' = [page EXCEPT ![f] = TRUE], UNCHANGED <<runs, lost>>
    PROVE  CodingMarks'
<1>1. \A c \in asks : ~Submission(c) /\ ~Removal(c) /\ ~Import(c)
  BY DEF CodingMarks, Chains
<1>2. /\ Submission(d) = (f = "submitting") /\ Removal(d) = (f = "deleting")
      /\ Import(d) = (f = "importing") /\ Chained(d)
  BY DEF Submission, Removal, Import, Chained, Working
<1>3. /\ DOMAIN page' = DOMAIN page /\ page'[f] = TRUE
      /\ \A g \in Flags \ {f} : page'[g] = page[g]
  BY DEF CodingMarks, CodingTypes, Flags
<1>4. CodingTypes'
  BY <1>2, <1>3 DEF CodingMarks, CodingTypes, Flags
<1>5. Chains'
  <2>1. /\ page'.submitting = (f = "submitting") /\ page'.deleting = (f = "deleting")
        /\ page'.importing = (f = "importing") /\ page'.loading = page.loading
    BY <1>3 DEF Flags, CodingMarks, CodingTypes
  <2>2. \A c \in asks' : Submission(c) \/ Removal(c) \/ Import(c) => c = d
    BY <1>1
  <2>3. d \in asks' /\ asks \subseteq asks'
    OBVIOUS
  <2>4. page.loading => \E c \in asks : c.kind = "runs"
    BY DEF CodingMarks, Chains
  <2>5. /\ page'.submitting = (\E c \in asks' : Submission(c))
        /\ page'.deleting = (\E c \in asks' : Removal(c))
        /\ page'.importing = (\E c \in asks' : Import(c))
    BY <1>2, <2>1, <2>2, <2>3
  <2> QED BY <2>1, <2>2, <2>3, <2>4, <2>5 DEF Chains
<1>6. Attended'
  BY DEF CodingMarks, Attended
<1> QED BY <1>4, <1>5, <1>6 DEF CodingMarks

LEMMA TaskBegun ==
    ASSUME CodingMarks,
           Coding!SubmitRun \/ Coding!DeleteImportedWorkspace
           \/ \E w \in Imports, folder \in Folders : Coding!ImportLocalFolder(folder, w)
    PROVE  CodingMarks'
<1>1. PICK f \in {"submitting", "importing", "deleting"},
           kind \in {"submit", "import", "delete"} :
         /\ f = "submitting" => kind = "submit"
         /\ f = "importing" => kind = "import"
         /\ f = "deleting" => kind = "delete"
         /\ \E w : asks' = asks \cup {Coding!Call(kind, w, 0, "none")}
         /\ page' = [page EXCEPT ![f] = TRUE] /\ UNCHANGED <<runs, lost>>
         /\ ~(page.submitting \/ page.importing \/ page.deleting)
  <2>1. CASE Coding!SubmitRun
    BY <2>1 DEF Coding!SubmitRun, Coding!CanSubmit, Coding!Busy
  <2>2. CASE Coding!DeleteImportedWorkspace
    BY <2>2 DEF Coding!DeleteImportedWorkspace, Coding!CanDelete, Coding!Busy
  <2>3. CASE \E w \in Imports, folder \in Folders : Coding!ImportLocalFolder(folder, w)
    BY <2>3 DEF Coding!ImportLocalFolder, Coding!CanImport, Coding!Busy
  <2> QED BY <2>1, <2>2, <2>3
<1>4. PICK w : asks' = asks \cup {Coding!Call(kind, w, 0, "none")}
  BY <1>1
<1> DEFINE d == Coding!Call(kind, w, 0, "none")
<1>2. DOMAIN d = Fields /\ d.kind = kind /\ d.chain = "none" /\ d.run = 0
  BY DEF Coding!Call, Fields
<1>3. asks' = asks \cup {d}
  BY <1>4
<1> HIDE DEF d
<1> QED BY <1>1, <1>2, <1>3, ChainBegins

\* An answer ends a call, and with the last call of a chain its flag.
LEMMA CallEnds ==
    ASSUME CodingMarks, NEW c \in asks, asks' = asks \ {c},
           c.kind = "submit" => c.status # "running",
           DOMAIN page' = DOMAIN page,
           page'.submitting = (page.submitting /\ ~Submission(c)),
           page'.deleting = (page.deleting /\ ~Removal(c)),
           page'.importing = (page.importing /\ ~Import(c)),
           page'.loading = (page.loading /\ c.kind # "runs"), UNCHANGED <<runs, lost>>
    PROVE  CodingMarks'
<1>1. CodingTypes'
  BY DEF CodingMarks, CodingTypes, Flags
<1>2. Chains'
  <2>1. page'.submitting = (\E b \in asks' : Submission(b))
    BY DEF CodingMarks, Chains
  <2>2. page'.deleting = (\E b \in asks' : Removal(b))
    BY DEF CodingMarks, Chains
  <2>3. page'.importing = (\E b \in asks' : Import(b))
    BY DEF CodingMarks, Chains
  <2>4. page'.loading => \E b \in asks' : b.kind = "runs"
    BY DEF CodingMarks, Chains
  <2>5. ~(page'.submitting /\ page'.deleting)
    BY DEF CodingMarks, Chains
  <2> QED BY <2>1, <2>2, <2>3, <2>4, <2>5 DEF CodingMarks, Chains
<1>3. Attended'
  BY DEF CodingMarks, Attended
<1> QED BY <1>1, <1>2, <1>3 DEF CodingMarks

\* An answer makes the page go on with the next call of a chain.
LEMMA CallFollows ==
    ASSUME CodingMarks, NEW c \in asks, NEW d, DOMAIN d = Fields, Chained(d),
           Submission(d) = Submission(c), Removal(d) = Removal(c), Import(d) = Import(c),
           asks' = (asks \ {c}) \cup {d},
           c.kind = "submit" => c.status # "running",
           DOMAIN page' = DOMAIN page,
           page'.submitting = page.submitting, page'.deleting = page.deleting,
           page'.importing = page.importing, page'.loading \in BOOLEAN,
           page'.loading => d.kind = "runs" \/ (page.loading /\ c.kind # "runs"),
           UNCHANGED <<runs, lost>>
    PROVE  CodingMarks'
<1>1. CodingTypes'
  BY DEF CodingMarks, CodingTypes, Flags
<1>2. Chains'
  <2>1. page'.submitting = (\E b \in asks' : Submission(b))
    BY DEF CodingMarks, Chains
  <2>2. page'.deleting = (\E b \in asks' : Removal(b))
    BY DEF CodingMarks, Chains
  <2>3. page'.importing = (\E b \in asks' : Import(b))
    BY DEF CodingMarks, Chains
  <2>4. page'.loading => \E b \in asks' : b.kind = "runs"
    BY DEF CodingMarks, Chains
  <2>5. ASSUME NEW e \in asks', NEW f \in asks',
               (Submission(e) /\ Submission(f)) \/ (Removal(e) /\ Removal(f))
               \/ (Import(e) /\ Import(f))
        PROVE  e = f
    BY <2>5 DEF CodingMarks, Chains
  <2> QED BY <2>1, <2>2, <2>3, <2>4, <2>5 DEF CodingMarks, Chains
<1>3. Attended'
  BY DEF CodingMarks, Attended
<1> QED BY <1>1, <1>2, <1>3 DEF CodingMarks

LEMMA ListAnswered ==
    ASSUME CodingMarks, NEW c \in asks,
           Coding!ModelsAnswer(c) \/ Coding!WorkspacesAnswer(c) \/ Coding!ImportAnswer(c)
           \/ Coding!DetailAnswer(c)
    PROVE  CodingMarks'
<1> USE DEF Submission, Removal, Import, Flags
<1>0. Flags \subseteq DOMAIN page /\ \A f \in Flags : page[f] \in BOOLEAN
  BY DEF CodingMarks, CodingTypes
<1>5. c.kind \in Working /\ Coding!Settled(c) => c.chain = "none"
  BY DEF CodingMarks, CodingTypes, Chained, Coding!Settled
<1>1. CASE Coding!ModelsAnswer(c)
  <2>1. /\ asks' = asks \ {c} /\ c.kind = "models" /\ UNCHANGED <<runs, lost>>
        /\ DOMAIN page' = DOMAIN page /\ \A f \in Flags : page'[f] = page[f]
    BY <1>0, <1>1 DEF Coding!ModelsAnswer, Coding!Swap
  <2> QED BY <1>0, <2>1, CallEnds
<1>2. CASE Coding!WorkspacesAnswer(c)
  <2>1. /\ asks' = asks \ {c} /\ c.kind = "workspaces" /\ UNCHANGED <<runs, lost>>
        /\ DOMAIN page' = DOMAIN page /\ \A f \in Flags \ {"deleting"} : page'[f] = page[f]
        /\ page'.deleting = (page.deleting /\ c.chain # "delete")
    BY <1>0, <1>2 DEF Coding!WorkspacesAnswer, Coding!Swap
  <2> QED BY <1>0, <2>1, CallEnds
<1>3. CASE Coding!ImportAnswer(c)
  <2>1. /\ asks' = asks \ {c} /\ c.kind = "import" /\ c.chain = "none" /\ UNCHANGED <<runs, lost>>
        /\ DOMAIN page' = DOMAIN page /\ \A f \in Flags \ {"importing"} : page'[f] = page[f]
        /\ page'.importing = FALSE
    BY <1>0, <1>3, <1>5 DEF Coding!ImportAnswer, Coding!Swap, Working
  <2> QED BY <1>0, <2>1, CallEnds
<1>4. CASE Coding!DetailAnswer(c)
  <2>1. /\ asks' = asks \ {c} /\ c.kind = "detail" /\ UNCHANGED <<runs, lost>>
        /\ DOMAIN page' = DOMAIN page /\ \A f \in Flags \ {"submitting"} : page'[f] = page[f]
        /\ page'.submitting = (page.submitting /\ c.chain # "submit")
    BY <1>0, <1>4 DEF Coding!DetailAnswer, Coding!Swap
  <2> QED BY <1>0, <2>1, CallEnds
<1> QED BY <1>1, <1>2, <1>3, <1>4

LEMMA ChainAnswered ==
    ASSUME CodingMarks, NEW c \in asks,
           Coding!RunsAnswer(c) \/ Coding!DeleteAnswer(c) \/ Coding!SubmitAnswer(c)
    PROVE  CodingMarks'
<1> USE DEF Flags
<1>0. /\ Flags \subseteq DOMAIN page /\ \A f \in Flags : page[f] \in BOOLEAN
      /\ DOMAIN c = Fields /\ Chained(c)
  BY DEF CodingMarks, CodingTypes
<1>7. c.kind \in Working /\ Coding!Settled(c) => c.chain = "none"
  BY <1>0 DEF Chained, Coding!Settled
<1>1. CASE Coding!RunsAnswer(c) /\ c.chain # "submit"
  <2>1. /\ asks' = asks \ {c} /\ c.kind = "runs" /\ UNCHANGED <<runs, lost>>
        /\ DOMAIN page' = DOMAIN page /\ \A f \in Flags \ {"loading"} : page'[f] = page[f]
        /\ page'.loading = FALSE
    BY <1>0, <1>1 DEF Coding!RunsAnswer, Coding!Swap
  <2> QED BY <1>0, <1>1, <2>1, CallEnds DEF Submission, Removal, Import
<1>2. CASE Coding!RunsAnswer(c) /\ c.chain = "submit"
  <2> DEFINE d == Coding!Call("detail", "all", c.run, "submit")
  <2>1. /\ asks' = (asks \ {c}) \cup {d} /\ c.kind = "runs" /\ UNCHANGED <<runs, lost>>
        /\ DOMAIN page' = DOMAIN page /\ \A f \in Flags \ {"loading"} : page'[f] = page[f]
        /\ page'.loading = FALSE
    BY <1>0, <1>2 DEF Coding!RunsAnswer, Coding!Swap
  <2>2. DOMAIN d = Fields /\ d.kind = "detail" /\ d.chain = "submit"
    BY DEF Coding!Call, Fields
  <2> HIDE DEF d
  <2> QED BY <1>0, <1>2, <2>1, <2>2, CallFollows DEF Submission, Removal, Import, Chained, Working
<1>3. CASE Coding!DeleteAnswer(c) /\ c.status = "failed"
  <2>1. /\ asks' = asks \ {c} /\ c.kind = "delete" /\ c.chain = "none" /\ UNCHANGED <<runs, lost>>
        /\ DOMAIN page' = DOMAIN page /\ \A f \in Flags \ {"deleting"} : page'[f] = page[f]
        /\ page'.deleting = FALSE
    BY <1>0, <1>3, <1>7 DEF Coding!DeleteAnswer, Coding!Swap, Working
  <2> QED BY <1>0, <2>1, CallEnds DEF Submission, Removal, Import, Chained, Working
<1>4. CASE Coding!DeleteAnswer(c) /\ c.status # "failed"
  <2> DEFINE d == Coding!Load("workspaces", "delete")
  <2>1. /\ asks' = (asks \ {c}) \cup {d} /\ c.kind = "delete" /\ c.chain = "none"
        /\ UNCHANGED <<runs, lost>>
        /\ DOMAIN page' = DOMAIN page /\ \A f \in Flags : page'[f] = page[f]
    BY <1>0, <1>4, <1>7 DEF Coding!DeleteAnswer, Coding!Swap, Working
  <2>2. DOMAIN d = Fields /\ d.kind = "workspaces" /\ d.chain = "delete"
    BY DEF Coding!Load, Coding!Call, Fields
  <2> HIDE DEF d
  <2> QED BY <1>0, <1>4, <2>1, <2>2, CallFollows DEF Submission, Removal, Import, Chained, Working
<1>5. CASE Coding!SubmitAnswer(c) /\ c.status = "failed"
  <2>1. /\ asks' = asks \ {c} /\ c.kind = "submit" /\ c.chain = "none" /\ UNCHANGED <<runs, lost>>
        /\ DOMAIN page' = DOMAIN page /\ \A f \in Flags \ {"submitting"} : page'[f] = page[f]
        /\ page'.submitting = FALSE
    BY <1>0, <1>5, <1>7 DEF Coding!SubmitAnswer, Coding!Swap, Working
  <2> QED BY <1>0, <1>5, <2>1, CallEnds DEF Submission, Removal, Import, Chained, Working
<1>6. CASE Coding!SubmitAnswer(c) /\ c.status # "failed"
  <2> DEFINE d == [Coding!Load("runs", "submit") EXCEPT !.run = c.run]
  <2>1. /\ asks' = (asks \ {c}) \cup {d} /\ c.kind = "submit" /\ c.chain = "none" /\ c.status = "ok"
        /\ UNCHANGED <<runs, lost>>
        /\ DOMAIN page' = DOMAIN page /\ \A f \in Flags \ {"loading"} : page'[f] = page[f]
        /\ page'.loading = TRUE
    BY <1>0, <1>6, <1>7 DEF Coding!SubmitAnswer, Coding!Swap, Working
  <2>2. DOMAIN d = Fields /\ d.kind = "runs" /\ d.chain = "submit"
    BY DEF Coding!Load, Coding!Call, Fields
  <2> HIDE DEF d
  <2> QED BY <1>0, <1>6, <2>1, <2>2, CallFollows DEF Submission, Removal, Import, Chained, Working
<1> QED BY <1>1, <1>2, <1>3, <1>4, <1>5, <1>6

LEMMA CodingKept == CodingMarks /\ (Coding!Next \/ UNCHANGED coding) => CodingMarks'
<1> SUFFICES ASSUME CodingMarks, Coding!Next \/ UNCHANGED coding PROVE CodingMarks'
  OBVIOUS
<1>1. CASE Coding!TokenRefreshed \/ Coding!Refresh
  BY <1>1, PageLoads
<1>2. CASE Coding!WriteTask \/ Coding!CloseRun \/ (\E w \in Coding!Workspaces : Coding!Choose(w))
           \/ (\E m \in Models : Coding!ChooseModel(m)) \/ UNCHANGED coding
  BY <1>2, PageChoices
<1>3. CASE Coding!SubmitRun \/ Coding!DeleteImportedWorkspace
           \/ \E w \in Imports, folder \in Folders : Coding!ImportLocalFolder(folder, w)
  BY <1>3, TaskBegun
<1>4. ASSUME NEW r \in Coding!RunIds,
             Coding!OpenRun(r) \/ \E s \in {"success", "failed"} : Coding!EndRun(r, s)
      PROVE  CodingMarks'
  BY <1>4, RunOpened, RunEnded
<1>5. ASSUME NEW c \in asks,
             Coding!ServeLoad(c) \/ Coding!ServeImport(c) \/ Coding!ServeDelete(c)
             \/ Coding!CallFails(c) \/ \E r \in Coding!RunIds : Coding!BeginRun(c, r)
      PROVE  CodingMarks'
  BY <1>5, ServedCall, WorkedCall, RunBegun
<1>6. ASSUME NEW c \in asks,
             Coding!RunsAnswer(c) \/ Coding!ModelsAnswer(c) \/ Coding!WorkspacesAnswer(c)
             \/ Coding!ImportAnswer(c) \/ Coding!DeleteAnswer(c) \/ Coding!SubmitAnswer(c)
             \/ Coding!DetailAnswer(c)
      PROVE  CodingMarks'
  BY <1>6, ListAnswered, ChainAnswered
<1> QED BY <1>1, <1>2, <1>3, <1>4, <1>5, <1>6 DEF Coding!Next

LEMMA CopiesKept == CodingMarks /\ Coding!Next => Coding!KeepsCopies
<1> SUFFICES ASSUME CodingMarks, Coding!Next, NEW r \in Coding!RunIds,
                    runs[r].status = "running", runs[r].workspace \in copies \ copies', r \notin lost
             PROVE  \E c \in asks \ asks' : /\ c.kind = "delete" /\ c.chain = "lost"
                                            /\ c.subject = runs[r].workspace
  BY DEF Coding!KeepsCopies
<1>1. PICK c \in asks : Coding!ServeDelete(c)
  BY DEF Coding!Next, Coding!TokenRefreshed, Coding!Refresh, Coding!WriteTask, Coding!Choose,
         Coding!DeleteImportedWorkspace, Coding!SubmitRun, Coding!CloseRun, Coding!ChooseModel,
         Coding!ImportLocalFolder, Coding!OpenRun, Coding!EndRun, Coding!ServeLoad,
         Coding!ServeImport, Coding!CallFails, Coding!BeginRun, Coding!RunsAnswer,
         Coding!ModelsAnswer, Coding!WorkspacesAnswer, Coding!ImportAnswer,
         Coding!DeleteAnswer, Coding!SubmitAnswer, Coding!DetailAnswer
<1>2. c.kind = "delete" /\ c.subject = runs[r].workspace
  BY <1>1 DEF Coding!ServeDelete
<1>3. c.chain # "lost" => page.deleting
  BY <1>2 DEF CodingMarks, CodingTypes, Chains, Chained, Working, Removal
<1>4. page.submitting
  <2>1. PICK d \in asks : d.kind = "submit" /\ d.status = "running"
    BY DEF CodingMarks, Attended
  <2>2. Submission(d)
    BY <2>1 DEF CodingMarks, CodingTypes, Chained, Working, Submission
  <2> QED BY <2>2 DEF CodingMarks, Chains
<1>5. c.chain = "lost"
  BY <1>3, <1>4 DEF CodingMarks, Chains
<1>6. c \notin asks'
  BY <1>1, <1>5 DEF Coding!ServeDelete, Coding!Reply, Coding!Swap
<1> QED BY <1>2, <1>5, <1>6

-----------------------------------------------------------------------------
(* The pages beside the chat. *)

Marked == {"list", "saving", "deleting"}

BesideTypes ==
    /\ Marked \subseteq DOMAIN admin /\ "uploading" \in DOMAIN files
    /\ "loading" \in DOMAIN traces /\ open \in {"admin", "files", "traces"}
    /\ \A w \in work : "job" \in DOMAIN w /\ (w.job \in {"save", "delete"} => "who" \in DOMAIN w)

\* What belongs to a page is not touched while another one is open.
Apart ==
    /\ open # "admin" => /\ \A m \in Members : admin.list[m] = Beside!Gone
                         /\ admin.saving = "none" /\ admin.deleting = "none"
    /\ open # "traces" => ~traces.loading
    /\ \A w \in work : w.job \in {"save", "delete"} => open = "admin"

BesideMarks == BesideTypes /\ Apart /\ Beside!BusyIsWork

LEMMA FirstLoads ==
    ASSUME open \in {"admin", "files", "traces"}
    PROVE  "job" \in DOMAIN Beside!FirstLoad /\ Beside!FirstLoad.job = "load"
BY DEF Beside!FirstLoad, Beside!Handler, Beside!Fetch

LEMMA BesideInitially == Beside!Init => BesideMarks
<1> SUFFICES ASSUME Beside!Init PROVE BesideMarks
  OBVIOUS
<1>1. "job" \in DOMAIN Beside!FirstLoad /\ Beside!FirstLoad.job = "load"
  BY FirstLoads DEF Beside!Init
<1>2. BesideTypes
  BY <1>1 DEF Beside!Init, BesideTypes, Marked
<1>3. Apart
  BY <1>1 DEF Beside!Init, Apart, Beside!Nobody
<1>4. Beside!BusyIsWork
  BY <1>1 DEF Beside!Init, Beside!BusyIsWork
<1> QED BY <1>2, <1>3, <1>4 DEF BesideMarks

\* Handlers that begin, and marks that stay or come with them.
LEMMA BesideBegins ==
    ASSUME BesideMarks, NEW w, "job" \in DOMAIN w,
           w.job \in {"save", "delete"} => "who" \in DOMAIN w,
           work' = work \cup {w}, UNCHANGED <<open, thrown>>,
           DOMAIN admin' = DOMAIN admin, DOMAIN files' = DOMAIN files,
           DOMAIN traces' = DOMAIN traces, admin'.list = admin.list,
           admin'.saving = admin.saving \/ (w.job = "save" /\ admin'.saving = w.who),
           admin'.deleting = admin.deleting \/ (w.job = "delete" /\ admin'.deleting = w.who),
           w.job \in {"save", "delete"} => open = "admin",
           files'.uploading => files.uploading \/ w.job = "upload",
           traces'.loading => traces.loading \/ (w.job = "load" /\ open = "traces")
    PROVE  BesideMarks'
<1>1. BesideTypes'
  BY DEF BesideMarks, BesideTypes, Marked
<1>2. Apart'
  BY DEF BesideMarks, Apart
<1>3. Beside!BusyIsWork'
  BY DEF BesideMarks, Beside!BusyIsWork
<1> QED BY <1>1, <1>2, <1>3 DEF BesideMarks

\* A handler that goes on remains what it is, and the marks stay.
LEMMA BesideGoesOn ==
    ASSUME BesideMarks, NEW w \in work, NEW x, "job" \in DOMAIN x, x.job = w.job,
           w.job \in {"save", "delete"} => "who" \in DOMAIN x /\ x.who = w.who,
           work' = (work \ {w}) \cup {x},
           UNCHANGED <<open, thrown, admin, files, traces>>
    PROVE  BesideMarks'
<1>1. BesideTypes'
  BY DEF BesideMarks, BesideTypes
<1>2. Apart'
  BY DEF BesideMarks, Apart
<1>3. Beside!BusyIsWork'
  BY DEF BesideMarks, Beside!BusyIsWork
<1> QED BY <1>1, <1>2, <1>3 DEF BesideMarks

\* A handler that ends takes its mark with it, unless it is ended by an exception; it may
\* have the list read afterwards.
LEMMA BesideEnds ==
    ASSUME BesideMarks, NEW w \in work, NEW new,
           \A x \in new : "job" \in DOMAIN x /\ x.job \notin {"save", "delete"},
           work' = (work \ {w}) \cup new, open' = open, thrown => thrown',
           DOMAIN admin' = DOMAIN admin, DOMAIN files' = DOMAIN files,
           DOMAIN traces' = DOMAIN traces,
           admin'.list = admin.list \/ open = "admin",
           (admin'.saving = admin.saving /\ w.job # "save") \/ admin'.saving = "none",
           (admin'.deleting = admin.deleting /\ w.job # "delete") \/ admin'.deleting = "none",
           files'.uploading => files.uploading /\ (w.job # "upload" \/ thrown'),
           traces'.loading => traces.loading /\ (w.job # "load" \/ thrown')
    PROVE  BesideMarks'
<1>1. BesideTypes'
  BY DEF BesideMarks, BesideTypes, Marked
<1>2. Apart'
  BY DEF BesideMarks, Apart
<1>3. Beside!BusyIsWork'
  BY DEF BesideMarks, Beside!BusyIsWork
<1> QED BY <1>1, <1>2, <1>3 DEF BesideMarks

LEMMA PageBegins ==
    ASSUME BesideMarks,
           Beside!TokenRefreshed \/ Beside!ChooseFiles
           \/ (\E f \in held \cup files.list : Beside!RemoveFile(f))
           \/ (\E filter \in {"all", "model", "tool"} : Beside!LoadTraces(filter))
           \/ (\E x \in Spans : Beside!OpenTrace(x))
    PROVE  BesideMarks'
<1> USE DEF BesideTypes, Marked
<1>0. /\ Marked \subseteq DOMAIN admin /\ "uploading" \in DOMAIN files
      /\ "loading" \in DOMAIN traces /\ open \in {"admin", "files", "traces"}
  BY DEF BesideMarks
<1>1. CASE Beside!TokenRefreshed
  <2> DEFINE w == Beside!FirstLoad
  <2>1. "job" \in DOMAIN w /\ w.job = "load"
    BY <1>0, FirstLoads
  <2>2. /\ work' = work \cup {w} /\ UNCHANGED <<open, thrown, admin, files>>
        /\ traces' = [traces EXCEPT !.loading = (open = "traces")]
    BY <1>1 DEF Beside!TokenRefreshed, Beside!Begins
  <2>3. DOMAIN traces' = DOMAIN traces /\ (traces'.loading => open = "traces")
    BY <1>0, <2>2
  <2> HIDE DEF w
  <2> QED BY <2>1, <2>2, <2>3, BesideBegins
<1>2. CASE Beside!ChooseFiles
  <2> DEFINE w == Beside!Upload(Uploads)
  <2>1. "job" \in DOMAIN w /\ w.job = "upload"
    BY DEF Beside!Upload
  <2>2. /\ work' = work \cup {w} /\ UNCHANGED <<open, thrown, admin, traces>>
        /\ DOMAIN files' = DOMAIN files
    BY <1>2 DEF Beside!ChooseFiles, Beside!Begins
  <2> HIDE DEF w
  <2> QED BY <2>1, <2>2, BesideBegins
<1>3. ASSUME NEW job \in {"remove", "load", "open"}, NEW of,
             LET w == Beside!Fetch(job, of)
             IN /\ work' = work \cup {w} /\ UNCHANGED <<open, thrown, admin, files>>
                /\ DOMAIN traces' = DOMAIN traces
                /\ traces'.loading => traces.loading \/ (job = "load" /\ open = "traces")
      PROVE  BesideMarks'
  <2> DEFINE w == Beside!Fetch(job, of)
  <2>1. "job" \in DOMAIN w /\ w.job = job
    BY DEF Beside!Fetch
  <2>2. work' = work \cup {w}
    BY <1>3
  <2> HIDE DEF w
  <2> QED BY <1>3, <2>1, <2>2, BesideBegins
<1>4. CASE \E f \in held \cup files.list : Beside!RemoveFile(f)
  BY <1>3, <1>4 DEF Beside!RemoveFile, Beside!Begins
<1>5. CASE \E filter \in {"all", "model", "tool"} : Beside!LoadTraces(filter)
  BY <1>0, <1>3, <1>5 DEF Beside!LoadTraces, Beside!Begins
<1>6. CASE \E x \in Spans : Beside!OpenTrace(x)
  BY <1>3, <1>6 DEF Beside!OpenTrace, Beside!Begins
<1> QED BY <1>1, <1>2, <1>4, <1>5, <1>6

\* A member is saved or removed only from a list that is shown.
LEMMA MemberBegins ==
    ASSUME BesideMarks, NEW m \in Members,
           Beside!Remove(m) \/ \E fields \in Beside!Row : Beside!Save(m, fields)
    PROVE  BesideMarks'
<1>1. open = "admin"
  BY DEF Beside!Remove, Beside!CanRemove, Beside!Save, Beside!CanSave, BesideMarks, Apart
<1>2. CASE Beside!Remove(m)
  <2> DEFINE w == Beside!Handler("delete", m)
  <2>1. {"job", "who"} \subseteq DOMAIN w /\ w.job = "delete" /\ w.who = m
    BY DEF Beside!Handler
  <2>2. /\ work' = work \cup {w} /\ UNCHANGED <<open, thrown, files, traces>>
        /\ DOMAIN admin' = DOMAIN admin /\ admin'.list = admin.list
        /\ admin'.saving = admin.saving /\ admin'.deleting = m
    BY <1>2 DEF Beside!Remove, Beside!Begins, BesideMarks, BesideTypes, Marked
  <2> HIDE DEF w
  <2> QED BY <1>1, <2>1, <2>2, BesideBegins
<1>3. ASSUME NEW fields \in Beside!Row, Beside!Save(m, fields) PROVE BesideMarks'
  <2> DEFINE w == [Beside!Handler("save", m) EXCEPT !.form = fields]
  <2>1. {"job", "who"} \subseteq DOMAIN w /\ w.job = "save" /\ w.who = m
    BY DEF Beside!Handler
  <2>2. /\ work' = work \cup {w} /\ UNCHANGED <<open, thrown, files, traces>>
        /\ DOMAIN admin' = DOMAIN admin /\ admin'.list = admin.list
        /\ admin'.deleting = admin.deleting /\ admin'.saving = m
    BY <1>3 DEF Beside!Save, Beside!Begins, BesideMarks, BesideTypes, Marked
  <2> HIDE DEF w
  <2> QED BY <1>1, <2>1, <2>2, BesideBegins
<1> QED BY <1>2, <1>3

LEMMA HandlerGoesOn ==
    ASSUME BesideMarks, NEW w \in work,
           Beside!PatchAccount(w) \/ Beside!PatchPolicy(w) \/ Beside!DeleteMember(w)
           \/ Beside!ReadMembers(w) \/ Beside!ReadFiles(w)
    PROVE  BesideMarks'
<1>1. PICK x : /\ Beside!GoesOn(w, x) /\ DOMAIN x = DOMAIN w /\ x.job = w.job
               /\ "who" \in DOMAIN w => x.who = w.who
               /\ UNCHANGED <<open, thrown, admin, files, traces>>
  <2>1. CASE Beside!PatchAccount(w)
    BY <2>1 DEF Beside!PatchAccount, BesideMarks, BesideTypes
  <2>2. CASE Beside!PatchPolicy(w)
    BY <2>2 DEF Beside!PatchPolicy, BesideMarks, BesideTypes
  <2>3. CASE Beside!DeleteMember(w)
    BY <2>3 DEF Beside!DeleteMember, BesideMarks, BesideTypes
  <2>4. CASE Beside!ReadMembers(w)
    BY <2>4 DEF Beside!ReadMembers, BesideMarks, BesideTypes
  <2>5. CASE Beside!ReadFiles(w)
    BY <2>5 DEF Beside!ReadFiles, BesideMarks, BesideTypes
  <2> QED BY <2>1, <2>2, <2>3, <2>4, <2>5
<1> QED BY <1>1, BesideGoesOn DEF Beside!GoesOn, BesideMarks, BesideTypes

LEMMA MemberEnds ==
    ASSUME BesideMarks, NEW w \in work,
           Beside!Saved(w) \/ Beside!SaveFails(w) \/ Beside!Listed(w) \/ Beside!ListFails(w)
    PROVE  BesideMarks'
<1>1. /\ work' = work \ {w} /\ UNCHANGED <<open, thrown, files, traces>> /\ open = "admin"
      /\ DOMAIN admin' = DOMAIN admin
      /\ (admin'.saving = admin.saving /\ w.job # "save") \/ admin'.saving = "none"
      /\ (admin'.deleting = admin.deleting /\ w.job # "delete") \/ admin'.deleting = "none"
      /\ w.job \in {"save", "load", "delete"}
  <2> USE DEF BesideMarks, BesideTypes, Marked, Apart, Beside!Ends
  <2>1. CASE Beside!Saved(w)
    BY <2>1 DEF Beside!Saved
  <2>2. CASE Beside!SaveFails(w)
    BY <2>2 DEF Beside!SaveFails
  <2>3. CASE Beside!Listed(w)
    BY <2>3 DEF Beside!Listed
  <2>4. CASE Beside!ListFails(w)
    BY <2>4 DEF Beside!ListFails
  <2> QED BY <2>1, <2>2, <2>3, <2>4
<1>2. ~traces.loading
  BY <1>1 DEF BesideMarks, Apart
<1>3. PICK new : new = {}
  OBVIOUS
<1>4. work' = (work \ {w}) \cup new
  BY <1>1, <1>3
<1> QED BY <1>1, <1>2, <1>3, <1>4, BesideEnds

LEMMA FileEnds ==
    ASSUME BesideMarks, NEW w \in work, Beside!FileAnswered(w) \/ Beside!FileRemoved(w)
    PROVE  BesideMarks'
<1>1. /\ "job" \in DOMAIN Beside!FirstLoad /\ Beside!FirstLoad.job = "load"
      /\ "uploading" \in DOMAIN files
  BY FirstLoads DEF BesideMarks, BesideTypes
<1>2. CASE Beside!FileAnswered(w) /\ Len(w.left) > 1
  <2> DEFINE x == Beside!Upload(Tail(w.left))
  <2>1. /\ work' = (work \ {w}) \cup {x} /\ w.job = "upload"
        /\ UNCHANGED <<open, thrown, admin, files, traces>>
    BY <1>2 DEF Beside!FileAnswered, Beside!GoesOn
  <2>2. "job" \in DOMAIN x /\ x.job = "upload"
    BY DEF Beside!Upload
  <2> HIDE DEF x
  <2> QED BY <2>1, <2>2, BesideGoesOn
<1>3. CASE (Beside!FileAnswered(w) /\ ~(Len(w.left) > 1)) \/ Beside!FileRemoved(w)
  <2>1. PICK new : new = {Beside!FirstLoad}
    OBVIOUS
  <2>2. /\ work' = (work \ {w}) \cup new /\ w.job \in {"upload", "remove"}
        /\ UNCHANGED <<open, thrown, admin, traces>> /\ DOMAIN files' = DOMAIN files
        /\ files'.uploading => files.uploading /\ w.job # "upload"
    BY <1>1, <1>3, <2>1 DEF Beside!FileAnswered, Beside!FileRemoved, Beside!GoesOn
  <2>3. \A x \in new : "job" \in DOMAIN x /\ x.job \notin {"save", "delete"}
    BY <1>1, <2>1
  <2> QED BY <2>2, <2>3, BesideEnds
<1> QED BY <1>2, <1>3

LEMMA ReadingEnds ==
    ASSUME BesideMarks, NEW w \in work,
           Beside!FilesListed(w) \/ Beside!TracesListed(w) \/ Beside!TraceOpened(w)
           \/ Beside!Throws(w)
    PROVE  BesideMarks'
<1>1. /\ work' = work \ {w} /\ UNCHANGED <<open, admin>> /\ (thrown => thrown')
      /\ DOMAIN files' = DOMAIN files /\ DOMAIN traces' = DOMAIN traces
      /\ w.job \notin {"save", "delete"}
      /\ files'.uploading => files.uploading /\ (w.job # "upload" \/ thrown')
      /\ traces'.loading => traces.loading /\ (w.job # "load" \/ thrown')
  <2> USE DEF BesideMarks, BesideTypes, Apart, Beside!Ends
  <2>1. CASE Beside!FilesListed(w)
    BY <2>1 DEF Beside!FilesListed
  <2>2. CASE Beside!TracesListed(w)
    BY <2>2 DEF Beside!TracesListed
  <2>3. CASE Beside!TraceOpened(w)
    BY <2>3 DEF Beside!TraceOpened
  <2>4. CASE Beside!Throws(w)
    BY <2>4 DEF Beside!Throws
  <2> QED BY <2>1, <2>2, <2>3, <2>4
<1>2. PICK new : new = {}
  OBVIOUS
<1>3. work' = (work \ {w}) \cup new
  BY <1>1, <1>2
<1> QED BY <1>1, <1>2, <1>3, BesideEnds

LEMMA BesideKept == BesideMarks /\ (Beside!Next \/ UNCHANGED beside) => BesideMarks'
<1> SUFFICES ASSUME BesideMarks, Beside!Next \/ UNCHANGED beside PROVE BesideMarks'
  OBVIOUS
<1>1. CASE Beside!CloseTrace \/ UNCHANGED beside
  <2>1. /\ UNCHANGED <<work, open, thrown, admin, files>> /\ DOMAIN traces' = DOMAIN traces
        /\ traces'.loading = traces.loading
    BY <1>1 DEF Beside!CloseTrace, beside, BesideMarks, BesideTypes
  <2> QED BY <2>1 DEF BesideMarks, BesideTypes, Apart, Beside!BusyIsWork
<1> QED BY <1>1, PageBegins, MemberBegins, HandlerGoesOn, MemberEnds, FileEnds, ReadingEnds
        DEF Beside!Next

-----------------------------------------------------------------------------
(* The types of the accounts of a browser. *)

ListOK(l) == l \in Seq(Accounts!Account) /\ NoTwice(l)

TabOK(r) ==
    /\ r \in [phase : Accounts!Phases, accounts : Seq(Accounts!Account),
              active : Users \cup {"none"}, mode : Accounts!Modes, busy : BOOLEAN,
              fired : BOOLEAN]
    /\ NoTwice(r.accounts) /\ r.active \in Accounts!UsersOf(r.accounts) \cup {"none"}

CallOK(c) ==
    /\ c \in [tab : Tabs, kind : Accounts!Kinds, stage : {"sent", "refreshing", "again"},
              acc : Accounts!Account, accounts : Seq(Accounts!Account),
              me : {"none", "denied", "lost"},
              status : {"none", "ok", "denied", "refused", "lost", "odd"},
              token : Accounts!Account \cup {Accounts!Nobody}]
    /\ NoTwice(c.accounts) /\ (c.status = "ok" => c.token \in Accounts!Account)

\* Nobody's tokens were ended more often than events were counted.
ServerOK ==
    /\ server \in [Users -> [ver : 0..Bound.accounts.events, era : 0..Bound.accounts.events]]
    /\ \A u \in Users : server[u].era <= events
    /\ events \in 0..Bound.accounts.events

StoreOK == /\ storage \in [accounts : Seq(Accounts!Account), active : Users \cup {"none"}]
           /\ NoTwice(storage.accounts)

\* A page that is being restored has its one boot call out, and no other page has one.
BootsOK ==
    /\ \A c \in calls : c.kind = "boot" =>
          /\ c.tab \in Tabs /\ tab[c.tab].phase = "boot"
          /\ \A d \in calls : d.kind = "boot" /\ d.tab = c.tab => d = c
    /\ \A t \in Tabs : tab[t].phase = "boot" => \E c \in calls : c.kind = "boot" /\ c.tab = t

AccountsShape ==
    /\ ServerOK /\ StoreOK /\ BootsOK
    /\ DOMAIN tab = Tabs /\ \A t \in Tabs : TabOK(tab[t])
    /\ \A c \in calls : CallOK(c)
    /\ ended \in [Tabs -> SUBSET Users]

-----------------------------------------------------------------------------
(* Lists of accounts. *)

\* A list without repetition is as long as the users in it are many.
LEMMA AsManyAsUsers ==
    ASSUME NEW S, NEW l \in Seq(S), NoTwice(l)
    PROVE  Len(l) = Cardinality(Accounts!UsersOf(l))
<1> DEFINE n == Len(l)
           U == Accounts!UsersOf(l)
           f == [i \in 1..n |-> l[i].user]
<1>1. n \in Nat /\ DOMAIN l = 1..n
  OBVIOUS
<1>2. f \in [1..n -> U] /\ (\A i, j \in 1..n : f[i] = f[j] => i = j)
      /\ \A u \in U : \E i \in 1..n : f[i] = u
  BY <1>1 DEF Accounts!UsersOf, NoTwice
<1> HIDE DEF f, n, U
<1>3. f \in Bijection(1..n, U)
  BY <1>2 DEF Bijection, Injection, Surjection, IsInjective
<1>4. IsFiniteSet(1..n) /\ Cardinality(1..n) = n
  <2>1. n \in Int /\ 1 \in Int /\ n - 1 + 1 = n /\ (1 > n => n = 0)
    BY <1>1
  <2>2. IsFiniteSet(1..n) /\ Cardinality(1..n) = IF 1 > n THEN 0 ELSE n - 1 + 1
    BY <2>1, FS_Interval
  <2> QED BY <2>1, <2>2
<1>5. Cardinality(U) = n
  BY <1>3, <1>4, FS_Bijection DEF ExistsBijection
<1> QED BY <1>5 DEF n, U

LEMMA WithoutOK ==
    ASSUME NEW l, ListOK(l), NEW u
    PROVE  /\ ListOK(Accounts!Without(l, u))
           /\ u \notin Accounts!UsersOf(Accounts!Without(l, u))
BY WithoutOne DEF ListOK

LEMMA PrependedOK ==
    ASSUME NEW a \in Accounts!Account, NEW l, ListOK(l), a.user \notin Accounts!UsersOf(l)
    PROVE  ListOK(<<a>> \o l) /\ a.user \in Accounts!UsersOf(<<a>> \o l)
BY PrependedOne DEF ListOK

LEMMA FoundOK ==
    ASSUME PagesAssumption, NEW l, ListOK(l), NEW u
    PROVE  /\ Accounts!Find(l, u) # Accounts!Nobody =>
                 /\ Accounts!Find(l, u) \in Accounts!Account
                 /\ u \in Accounts!UsersOf(l)
           /\ Accounts!First(l) # Accounts!Nobody => Accounts!First(l) \in Accounts!Account
           /\ Accounts!First(l).user \in Accounts!UsersOf(l) \cup {"none"}
           /\ Accounts!UsersOf(l) \subseteq Users
<1>1. DOMAIN l = 1..Len(l) /\ Len(l) \in Nat /\ \A i \in 1..Len(l) : l[i] \in Accounts!Account
  BY DEF ListOK
<1>2. \A a \in Accounts!Account : a # Accounts!Nobody /\ a.user \in Users
  BY DEF PagesAssumption, ConstantsOK, Accounts!Account, Accounts!Nobody
<1>3. u \in Accounts!UsersOf(l) => Accounts!PlaceOf(l, u) \in DOMAIN l
  BY DEF Accounts!UsersOf, Accounts!PlaceOf
<1>4. l # <<>> => 1 \in DOMAIN l
  BY <1>1 DEF ListOK
<1>5. Accounts!UsersOf(l) \subseteq Users
  BY <1>1, <1>2 DEF Accounts!UsersOf
<1> QED BY <1>1, <1>2, <1>3, <1>4, <1>5
        DEF Accounts!Find, Accounts!First, Accounts!UsersOf, Accounts!Nobody

-----------------------------------------------------------------------------
LEMMA AccountsShapeIsType == AccountsShape => Accounts!TypeOK
<1> SUFFICES ASSUME AccountsShape PROVE Accounts!TypeOK
  OBVIOUS
<1>0. \A S : Accounts!Cardinality(S) = Cardinality(S)
  BY DEF Accounts!Cardinality, Cardinality
<1>1. ASSUME NEW l \in Seq(Accounts!Account), NoTwice(l),
             NEW a \in Accounts!UsersOf(l) \cup {"none"}
      PROVE  Accounts!Sound(l, a)
  BY <1>0, <1>1, AsManyAsUsers DEF Accounts!Sound
<1>2. /\ Accounts!Sound(storage.accounts, IF storage.active \in Accounts!UsersOf(storage.accounts)
                                          THEN storage.active ELSE "none")
  BY <1>1 DEF AccountsShape, StoreOK
<1>3. ASSUME NEW t \in Tabs
      PROVE  /\ Accounts!Sound(tab[t].accounts, tab[t].active)
             /\ Accounts!Cardinality({c \in Accounts!CallsOf(t) : c.kind = "boot"})
                  = IF tab[t].phase = "boot" THEN 1 ELSE 0
  <2> DEFINE B == {c \in Accounts!CallsOf(t) : c.kind = "boot"}
  <2>1. Accounts!Sound(tab[t].accounts, tab[t].active)
    BY <1>1 DEF AccountsShape, TabOK
  <2>2. CASE tab[t].phase = "boot"
    <3>1. PICK c \in calls : c.kind = "boot" /\ c.tab = t
      BY <2>2 DEF AccountsShape, BootsOK
    <3>2. B = {c}
      BY <3>1 DEF AccountsShape, BootsOK, Accounts!CallsOf
    <3> HIDE DEF B
    <3>3. Cardinality(B) = 1
      BY <3>2, FS_Singleton
    <3>4. Accounts!Cardinality(B) = 1
      BY <1>0, <3>3
    <3> QED BY <2>1, <2>2, <3>4 DEF B
  <2>3. CASE tab[t].phase # "boot"
    <3>1. B = {}
      BY <2>3 DEF AccountsShape, BootsOK, Accounts!CallsOf
    <3> HIDE DEF B
    <3>2. Cardinality(B) = 0
      BY <3>1, FS_EmptySet
    <3>3. Accounts!Cardinality(B) = 0
      BY <1>0, <3>2
    <3> QED BY <2>1, <2>3, <3>3 DEF B
  <2> QED BY <2>2, <2>3
<1>4. \A t \in Tabs : /\ tab[t].phase \in Accounts!Phases /\ tab[t].mode \in Accounts!Modes
                      /\ tab[t].busy \in BOOLEAN /\ tab[t].fired \in BOOLEAN
  BY DEF AccountsShape, TabOK
<1>5. ASSUME NEW c \in calls
      PROVE  /\ c.tab \in Tabs /\ c.kind \in Accounts!Kinds
             /\ c.stage \in {"sent", "refreshing", "again"}
             /\ c.status \in {"none", "ok", "denied", "refused", "lost", "odd"}
             /\ Accounts!Sound(c.accounts, "none")
  BY <1>1 DEF AccountsShape, CallOK
<1> QED BY <1>2, <1>3, <1>4, <1>5 DEF AccountsShape, ServerOK, Accounts!TypeOK

-----------------------------------------------------------------------------
(* The steps of the accounts. *)

LEMMA AccountsShapeInitially == PagesAssumption /\ BoundsAssumption /\ Accounts!Init => AccountsShape
<1> SUFFICES ASSUME PagesAssumption, BoundsAssumption, Accounts!Init PROVE AccountsShape
  OBVIOUS
<1>1. PICK s \in Stores :
        storage = [accounts |-> [i \in DOMAIN s |-> [user |-> s[i], ver |-> 0, era |-> 0]],
                   active |-> IF s = <<>> THEN "none" ELSE s[1]]
  BY DEF Accounts!Init
<1>2. /\ Len(s) \in Nat /\ DOMAIN s = 1..Len(s)
      /\ \A i, j \in DOMAIN s : s[i] \in Users /\ (s[i] = s[j] => i = j)
  BY DEF PagesAssumption, ConstantsOK
<1>3. Bound.accounts.events \in Nat
  BY DEF BoundsAssumption, BoundsOK
<1>4. StoreOK
  <2> DEFINE l == [i \in DOMAIN s |-> [user |-> s[i], ver |-> 0, era |-> 0]]
  <2>1. l \in Seq(Accounts!Account)
    <3>1. \A i \in 1..Len(s) : [user |-> s[i], ver |-> 0, era |-> 0] \in Accounts!Account
      BY <1>2, <1>3 DEF Accounts!Account
    <3> QED BY <1>2, <3>1
  <2>2. NoTwice(l)
    BY <1>2 DEF NoTwice
  <2>3. s # <<>> => s[1] \in Users
    <3>1. s # <<>> => 1 \in DOMAIN s
      BY <1>2
    <3> QED BY <1>2, <3>1
  <2> HIDE DEF l
  <2>4. storage = [accounts |-> l, active |-> IF s = <<>> THEN "none" ELSE s[1]]
    BY <1>1 DEF l
  <2> QED BY <2>1, <2>2, <2>3, <2>4 DEF StoreOK
<1>5. PICK tabs \in Opened :
        tab = [t \in Tabs |-> [phase |-> IF t \in tabs THEN "loading" ELSE "closed",
                               accounts |-> <<>>, active |-> "none",
                               mode |-> "login", busy |-> FALSE, fired |-> FALSE]]
  BY DEF Accounts!Init
<1>6. DOMAIN tab = Tabs /\ \A t \in Tabs : TabOK(tab[t]) /\ tab[t].phase # "boot"
  BY <1>5 DEF TabOK, NoTwice, Accounts!Phases, Accounts!Modes
<1>7. calls = {} /\ ended \in [Tabs -> SUBSET Users] /\ ServerOK
  BY <1>3 DEF Accounts!Init, ServerOK
<1> QED BY <1>4, <1>6, <1>7 DEF AccountsShape, BootsOK

\* A call is made, goes on or is settled; those of the start are told apart.
LEMMA BootsKept ==
    ASSUME BootsOK, \A t \in Tabs : tab'[t].phase = "boot" <=> tab[t].phase = "boot",
           \A d : d.kind = "boot" => (d \in calls' <=> d \in calls)
    PROVE  BootsOK'
BY DEF BootsOK

LEMMA BootsReplaced ==
    ASSUME BootsOK, UNCHANGED tab, NEW c \in calls, NEW e, e.tab = c.tab, e.kind = c.kind,
           calls' = (calls \ {c}) \cup {e}
    PROVE  BootsOK'
<1>1. CASE c.kind = "boot"
  <2>1. /\ \A d \in calls' : d.kind = "boot" /\ d.tab = c.tab => d = e
        /\ c.tab \in Tabs /\ tab[c.tab].phase = "boot" /\ e \in calls'
    BY <1>1 DEF BootsOK
  <2>2. \A d \in calls' : d = e \/ d \in calls
    OBVIOUS
  <2>3. \A d \in calls : d = c \/ d \in calls'
    OBVIOUS
  <2> QED BY <1>1, <2>1, <2>2, <2>3 DEF BootsOK
<1>2. CASE c.kind # "boot"
  BY <1>2, BootsKept
<1> QED BY <1>1, <1>2

\* One tab is rendered with other accounts, another mode, or busy.
LEMMA TabIs ==
    ASSUME AccountsShape, NEW t \in Tabs, NEW r, TabOK(r), tab' = [tab EXCEPT ![t] = r]
    PROVE  DOMAIN tab' = Tabs /\ \A s \in Tabs : TabOK(tab'[s])
BY DEF AccountsShape

\* The tabs and the calls go on, with the server as it is.
LEMMA PageShapes ==
    ASSUME AccountsShape, BootsOK', StoreOK', UNCHANGED server,
           events' = events \/ Accounts!Counted, BoundsAssumption,
           DOMAIN tab' = Tabs, \A s \in Tabs : TabOK(tab'[s]),
           \A d \in calls' : CallOK(d), ended' \in [Tabs -> SUBSET Users]
    PROVE  AccountsShape'
<1>1. ServerOK'
  BY DEF AccountsShape, ServerOK, Accounts!Counted, BoundsAssumption, BoundsOK
<1> QED BY <1>1 DEF AccountsShape

\* persist and saveAccount.
LEMMA PersistOK ==
    ASSUME PagesAssumption, AccountsShape, NEW c \in calls, c.status = "ok", NEW busy \in BOOLEAN,
           Accounts!SaveAccount(c, c.token, busy)
    PROVE  /\ DOMAIN tab' = Tabs /\ \A s \in Tabs : TabOK(tab'[s])
           /\ \A s \in Tabs : tab'[s].phase = tab[s].phase
           /\ StoreOK' /\ c.token.user \in Users
<1> DEFINE t == c.tab
           u == c.token.user
           l == <<c.token>> \o Accounts!Without(c.accounts, u)
<1>1. t \in Tabs /\ TabOK(tab[t]) /\ ListOK(c.accounts) /\ c.token \in Accounts!Account
  BY DEF AccountsShape, CallOK, ListOK
<1>2. ListOK(l) /\ u \in Accounts!UsersOf(l) /\ u \in Users
  BY <1>1, WithoutOK, PrependedOK DEF Accounts!Account
<1> DEFINE r == [tab[t] EXCEPT !.accounts = l, !.active = u, !.busy = busy, !.mode = "login",
                               !.fired = FALSE]
<1>3. tab' = [tab EXCEPT ![t] = r] /\ storage' = [accounts |-> l, active |-> u]
  BY <1>2 DEF Accounts!SaveAccount, Accounts!Persist
<1> HIDE DEF l, u
<1>4. TabOK(r) /\ r.phase = tab[t].phase
  BY <1>1, <1>2 DEF TabOK, ListOK, Accounts!Modes
<1> HIDE DEF r
<1>5. DOMAIN tab' = Tabs /\ \A s \in Tabs : TabOK(tab'[s]) /\ tab'[s].phase = tab[s].phase
  BY <1>1, <1>3, <1>4 DEF AccountsShape
<1>6. StoreOK'
  BY <1>2, <1>3 DEF StoreOK, ListOK, NoTwice
<1> QED BY <1>2, <1>5, <1>6 DEF u

\* A call that is asked again, of which the answer so far is forgotten.
LEMMA PendingOK ==
    ASSUME NEW c, CallOK(c), NEW stage \in {"refreshing", "again"}, NEW acc \in Accounts!Account
    PROVE  LET e == Accounts!Pending(c, stage, acc)
           IN CallOK(e) /\ e.tab = c.tab /\ e.kind = c.kind
BY DEF CallOK, Accounts!Pending

LEMMA NobodyIsNone == Accounts!Nobody.user = "none"
BY DEF Accounts!Nobody

\* The page is loaded: the accounts are read, and the boot call is made.
LEMMA LoadOK ==
    ASSUME PagesAssumption, BoundsAssumption, AccountsShape, NEW t \in Tabs, Accounts!Load(t)
    PROVE  AccountsShape'
<1> DEFINE found == storage.accounts
           wanted == Accounts!Find(found, storage.active)
           active == IF wanted = Accounts!Nobody THEN Accounts!First(found) ELSE wanted
           others == {c \in calls : c.tab # t}
           blank == [phase |-> "boot", accounts |-> <<>>, active |-> "none",
                     mode |-> "login", busy |-> FALSE, fired |-> FALSE]
           e == [Accounts!Call(t, "boot", "sent", active) EXCEPT !.accounts = found]
<1>1. ListOK(found) /\ tab[t].accounts \in Seq(Accounts!Account)
  BY DEF AccountsShape, StoreOK, TabOK, ListOK
<1>2. active # Accounts!Nobody => active \in Accounts!Account
  BY <1>1, FoundOK
<1>3. TabOK(blank) /\ TabOK([blank EXCEPT !.phase = "ready"])
  <2>1. TabOK(blank)
    BY DEF TabOK, NoTwice, Accounts!Phases, Accounts!Modes
  <2> HIDE DEF blank
  <2>2. TabOK([blank EXCEPT !.phase = "ready"])
    BY <2>1 DEF TabOK, Accounts!Phases
  <2> QED BY <2>1, <2>2
<1>4. /\ events' = events \/ Accounts!Counted
      /\ UNCHANGED server /\ ended' \in [Tabs -> SUBSET Users]
  BY DEF Accounts!Load, AccountsShape
<1>5. CASE active = Accounts!Nobody
  <2> DEFINE r == [blank EXCEPT !.phase = "ready"]
  <2>1. /\ tab' = [tab EXCEPT ![t] = r] /\ calls' = others
        /\ storage' = [accounts |-> <<>>, active |-> "none"]
    BY <1>5 DEF Accounts!Load, AccountsShape
  <2>2. TabOK(r) /\ r.phase = "ready"
    BY <1>3
  <2> HIDE DEF r
  <2>3. DOMAIN tab' = Tabs /\ \A s \in Tabs : TabOK(tab'[s])
    BY <2>1, <2>2, TabIs
  <2>4. tab'[t].phase = "ready" /\ \A s \in Tabs \ {t} : tab'[s] = tab[s]
    BY <2>1, <2>2 DEF AccountsShape
  <2>5. BootsOK'
    BY <2>1, <2>4 DEF AccountsShape, BootsOK
  <2>6. StoreOK' /\ \A d \in calls' : CallOK(d)
    BY <2>1 DEF StoreOK, NoTwice, AccountsShape
  <2> QED BY <1>4, <2>3, <2>5, <2>6, PageShapes
<1>6. CASE active # Accounts!Nobody
  <2>1. /\ tab' = [tab EXCEPT ![t] = blank] /\ calls' = others \cup {e} /\ UNCHANGED storage
    BY <1>6 DEF Accounts!Load
  <2>2. CallOK(e) /\ e.kind = "boot" /\ e.tab = t
    BY <1>1, <1>2, <1>6 DEF CallOK, Accounts!Call, Accounts!Kinds, ListOK
  <2>3. blank.phase = "boot"
    OBVIOUS
  <2> HIDE DEF e, blank
  <2>4. DOMAIN tab' = Tabs /\ \A s \in Tabs : TabOK(tab'[s])
    BY <1>3, <2>1, TabIs
  <2>5. tab'[t].phase = "boot" /\ \A s \in Tabs \ {t} : tab'[s] = tab[s]
    BY <2>1, <2>3 DEF AccountsShape
  <2>6. BootsOK'
    <3>1. \A c \in others : c \in calls /\ c.tab # t
      OBVIOUS
    <3>2. \A c \in calls : c.tab # t => c \in others
      OBVIOUS
    <3> HIDE DEF others
    <3> QED BY <2>1, <2>2, <2>5, <3>1, <3>2 DEF AccountsShape, BootsOK
  <2>7. StoreOK' /\ \A d \in calls' : CallOK(d)
    BY <2>1, <2>2 DEF StoreOK, NoTwice, AccountsShape
  <2> QED BY <1>4, <2>4, <2>6, <2>7, PageShapes
<1> QED BY <1>5, <1>6

LEMMA BootAnswerOK ==
    ASSUME PagesAssumption, BoundsAssumption, AccountsShape, NEW c \in calls, Accounts!BootAnswer(c)
    PROVE  AccountsShape'
<1> DEFINE t == c.tab
<1>1. /\ c.kind = "boot" /\ UNCHANGED <<server, events>> /\ CallOK(c) /\ t \in Tabs
      /\ ListOK(c.accounts) /\ c.acc \in Accounts!Account /\ TabOK(tab[t])
      /\ c.status = "ok" => c.token \in Accounts!Account
  BY DEF Accounts!BootAnswer, AccountsShape, CallOK, ListOK
<1>2. CASE /\ c.stage = "sent" /\ c.status \in {"denied", "lost"}
           /\ Accounts!Replace(c, [Accounts!Pending(c, "refreshing", c.acc) EXCEPT !.me = c.status])
           /\ UNCHANGED <<tab, storage, ended>>
  <2> DEFINE e == [Accounts!Pending(c, "refreshing", c.acc) EXCEPT !.me = c.status]
  <2>1. CallOK(e) /\ e.tab = c.tab /\ e.kind = c.kind
    BY <1>1, <1>2 DEF CallOK, Accounts!Pending
  <2>2. calls' = (calls \ {c}) \cup {e}
    BY <1>2 DEF Accounts!Replace
  <2> HIDE DEF e
  <2>3. BootsOK'
    BY <1>2, <2>1, <2>2, BootsReplaced DEF AccountsShape
  <2>4. /\ DOMAIN tab' = Tabs /\ (\A s \in Tabs : TabOK(tab'[s])) /\ StoreOK'
        /\ \A d \in calls' : CallOK(d)
    BY <1>2, <2>1, <2>2 DEF AccountsShape, StoreOK, NoTwice
  <2> QED BY <1>1, <1>2, <2>3, <2>4, PageShapes DEF AccountsShape
<1>3. CASE Accounts!Settle(c) /\ ended' \in [Tabs -> SUBSET Users] /\ \E kept, active :
             /\ kept = (IF c.stage = "refreshing" /\ Accounts!Refused(c)
                        THEN Accounts!Without(c.accounts, c.acc.user) ELSE c.accounts)
             /\ active = (IF c.status = "odd" THEN Accounts!Nobody
                          ELSE IF c.status = "ok" THEN c.token
                          ELSE IF kept = c.accounts THEN c.acc ELSE Accounts!First(kept))
             /\ Accounts!FinishBoot(t, kept, active)
  <2>1. PICK kept, active :
             /\ kept = (IF c.stage = "refreshing" /\ Accounts!Refused(c)
                        THEN Accounts!Without(c.accounts, c.acc.user) ELSE c.accounts)
             /\ active = (IF c.status = "odd" THEN Accounts!Nobody
                          ELSE IF c.status = "ok" THEN c.token
                          ELSE IF kept = c.accounts THEN c.acc ELSE Accounts!First(kept))
             /\ Accounts!FinishBoot(t, kept, active)
    BY <1>3
  <2>2. ListOK(kept)
    BY <1>1, <2>1, WithoutOK
  <2>3. active # Accounts!Nobody => active \in Accounts!Account
    BY <1>1, <2>1, <2>2, FoundOK
  <2> DEFINE next == IF active = Accounts!Nobody THEN kept
                     ELSE <<active>> \o Accounts!Without(kept, active.user)
             r == [tab[t] EXCEPT !.phase = "ready", !.accounts = next, !.active = active.user]
  <2>4. tab' = [tab EXCEPT ![t] = r] /\ storage' = [accounts |-> next, active |-> active.user]
    BY <2>1 DEF Accounts!FinishBoot
  <2>5. /\ ListOK(next) /\ active.user \in Users \cup {"none"}
        /\ active.user \in Accounts!UsersOf(next) \cup {"none"}
    <3>1. CASE active = Accounts!Nobody
      BY <2>2, <3>1, NobodyIsNone
    <3>2. CASE active # Accounts!Nobody
      BY <2>2, <2>3, <3>2, WithoutOK, PrependedOK DEF Accounts!Account
    <3> QED BY <3>1, <3>2
  <2> HIDE DEF next
  <2>6. TabOK(r) /\ r.phase = "ready"
    BY <1>1, <2>5 DEF TabOK, ListOK, Accounts!Phases
  <2> HIDE DEF r
  <2>7. DOMAIN tab' = Tabs /\ \A s \in Tabs : TabOK(tab'[s])
    BY <1>1, <2>4, <2>6, TabIs
  <2>8. tab'[t].phase = "ready" /\ \A s \in Tabs \ {t} : tab'[s] = tab[s]
    BY <1>1, <2>4, <2>6 DEF AccountsShape
  <2>9. calls' = calls \ {c}
    BY <1>3 DEF Accounts!Settle
  <2>10. BootsOK'
    BY <1>1, <2>8, <2>9 DEF AccountsShape, BootsOK
  <2>11. StoreOK' /\ (\A d \in calls' : CallOK(d)) /\ ended' \in [Tabs -> SUBSET Users]
    BY <1>1, <1>3, <2>4, <2>5, <2>9 DEF StoreOK, AccountsShape, ListOK, NoTwice, Accounts!Account
  <2> QED BY <1>1, <2>7, <2>10, <2>11, PageShapes
<1>4. c.acc.user \in Users /\ ended \in [Tabs -> SUBSET Users]
  BY <1>1 DEF AccountsShape, Accounts!Account
<1> QED BY <1>1, <1>2, <1>3, <1>4 DEF Accounts!BootAnswer

\* A page makes a call with the list it shows.
LEMMA CallMade ==
    ASSUME PagesAssumption, BoundsAssumption, AccountsShape, NEW t \in Tabs,
           NEW kind \in Accounts!Kinds \ {"boot"}, NEW stage \in {"sent", "refreshing"},
           NEW acc \in Accounts!Account, calls' = calls \cup {Accounts!Call(t, kind, stage, acc)},
           NEW r, TabOK(r), r.phase = tab[t].phase, tab' = [tab EXCEPT ![t] = r],
           UNCHANGED <<server, storage, ended>>, events' = events \/ Accounts!Counted
    PROVE  AccountsShape'
<1> DEFINE e == Accounts!Call(t, kind, stage, acc)
<1>1. CallOK(e) /\ e.kind # "boot"
  BY DEF AccountsShape, TabOK, CallOK, Accounts!Call
<1> HIDE DEF e
<1>2. DOMAIN tab' = Tabs /\ \A s \in Tabs : TabOK(tab'[s])
  BY TabIs
<1>3. \A s \in Tabs : tab'[s].phase = tab[s].phase
  BY DEF AccountsShape
<1>4. calls' = calls \cup {e}
  BY DEF e
<1>5. BootsOK'
  <2>1. \A d : d.kind = "boot" => (d \in calls' <=> d \in calls)
    BY <1>1, <1>4
  <2> QED BY <1>3, <2>1, BootsKept DEF AccountsShape
<1>6. StoreOK' /\ (\A d \in calls' : CallOK(d)) /\ ended' \in [Tabs -> SUBSET Users]
  BY <1>1, <1>4 DEF AccountsShape, StoreOK, NoTwice
<1> QED BY <1>2, <1>5, <1>6, PageShapes

LEMMA PageAsksOK ==
    ASSUME PagesAssumption, BoundsAssumption, AccountsShape, NEW t \in Tabs,
           Accounts!TimerFires(t) \/ \E kind \in {"request", "change", "logout"} : Accounts!Request(t, kind)
    PROVE  AccountsShape'
<1> DEFINE a == Accounts!Shown(t)
<1>1. TabOK(tab[t]) /\ ListOK(tab[t].accounts)
  BY DEF AccountsShape, TabOK, ListOK
<1>2. /\ a # Accounts!Nobody /\ UNCHANGED <<server, storage, ended>>
      /\ events' = events \/ Accounts!Counted
  BY DEF Accounts!TimerFires, Accounts!Request, Accounts!Screen, Accounts!Live
<1>3. a \in Accounts!Account
  BY <1>1, <1>2, FoundOK DEF Accounts!Shown
<1>4. PICK kind \in {"timer", "request", "change", "logout"}, stage \in {"sent", "refreshing"} :
        calls' = calls \cup {Accounts!Call(t, kind, stage, a)}
  BY DEF Accounts!TimerFires, Accounts!Request, Accounts!Add
<1>5. \E r : TabOK(r) /\ r.phase = tab[t].phase /\ tab' = [tab EXCEPT ![t] = r]
  <2>1. CASE tab' = [tab EXCEPT ![t].fired = TRUE]
    <3> DEFINE r == [tab[t] EXCEPT !.fired = TRUE]
    <3>1. TabOK(r) /\ r.phase = tab[t].phase
      BY <1>1 DEF TabOK
    <3>2. tab' = [tab EXCEPT ![t] = r]
      BY <2>1
    <3> QED BY <3>1, <3>2
  <2>2. ASSUME NEW b \in BOOLEAN, tab' = [tab EXCEPT ![t].busy = b]
        PROVE  \E r : TabOK(r) /\ r.phase = tab[t].phase /\ tab' = [tab EXCEPT ![t] = r]
    <3> DEFINE r == [tab[t] EXCEPT !.busy = b]
    <3>1. TabOK(r) /\ r.phase = tab[t].phase
      BY <1>1 DEF TabOK
    <3>2. tab' = [tab EXCEPT ![t] = r]
      BY <2>2
    <3> QED BY <3>1, <3>2
  <2>3. CASE tab' # [tab EXCEPT ![t].fired = TRUE]
    <3>1. PICK k \in {"request", "change", "logout"} : tab' = [tab EXCEPT ![t].busy = @ \/ k = "change"]
      BY <2>3 DEF Accounts!TimerFires, Accounts!Request
    <3>2. tab[t].busy \in BOOLEAN
      BY <1>1 DEF TabOK
    <3>3. \E b \in BOOLEAN : tab' = [tab EXCEPT ![t].busy = b]
      BY <3>1, <3>2, Zenon
    <3> QED BY <2>2, <3>3
  <2> QED BY <2>1, <2>3
<1>6. kind \in Accounts!Kinds \ {"boot"}
  BY DEF Accounts!Kinds
<1> HIDE DEF a
<1> QED BY <1>2, <1>3, <1>4, <1>5, <1>6, CallMade

LEMMA SubmitOK ==
    ASSUME PagesAssumption, BoundsAssumption, AccountsShape, NEW t \in Tabs, NEW u \in Users,
           Accounts!Submit(t, u)
    PROVE  AccountsShape'
<1> DEFINE a == [Accounts!Nobody EXCEPT !.user = u]
           r == [tab[t] EXCEPT !.busy = TRUE]
<1>1. TabOK(tab[t]) /\ a \in Accounts!Account
  BY DEF AccountsShape, BoundsAssumption, BoundsOK, Accounts!Account, Accounts!Nobody
<1>2. PICK kind \in {"login", "forgot", "reset"} :
        calls' = calls \cup {Accounts!Call(t, kind, "sent", a)}
  BY DEF Accounts!Submit, Accounts!Add
<1>3. TabOK(r) /\ r.phase = tab[t].phase
  BY <1>1 DEF TabOK
<1>4. /\ tab' = [tab EXCEPT ![t] = r] /\ UNCHANGED <<server, storage, ended>>
      /\ events' = events \/ Accounts!Counted
  BY DEF Accounts!Submit
<1>5. kind \in Accounts!Kinds \ {"boot"}
  BY DEF Accounts!Kinds
<1> HIDE DEF a, r
<1> QED BY <1>1, <1>2, <1>3, <1>4, <1>5, CallMade

\* A call that is not of the start is answered, and the tab goes on.
LEMMA CallIsOver ==
    ASSUME BoundsAssumption, AccountsShape, NEW c \in calls, c.kind # "boot", StoreOK',
           UNCHANGED server, events' = events \/ Accounts!Counted, ended' \in [Tabs -> SUBSET Users],
           DOMAIN tab' = Tabs, \A s \in Tabs : TabOK(tab'[s]) /\ tab'[s].phase = tab[s].phase,
           NEW next, \A d \in next : CallOK(d) /\ d.kind # "boot", calls' = (calls \ {c}) \cup next
    PROVE  AccountsShape'
<1>1. BootsOK'
  <2>1. \A d : d.kind = "boot" => (d \in calls' <=> d \in calls)
    OBVIOUS
  <2> QED BY <2>1, BootsKept DEF AccountsShape
<1>2. \A d \in calls' : CallOK(d)
  BY DEF AccountsShape
<1> QED BY <1>1, <1>2, PageShapes

\* A call that is not of the start has failed: a form is given back.
LEMMA GivenBackOK ==
    ASSUME BoundsAssumption, AccountsShape, NEW c \in calls, c.kind # "boot",
           Accounts!GiveBack(c), Accounts!Settle(c), UNCHANGED <<server, events>>
    PROVE  AccountsShape'
<1> DEFINE t == c.tab
<1>1. /\ t \in Tabs /\ TabOK(tab[t]) /\ tab[t].busy \in BOOLEAN
      /\ ended' \in [Tabs -> SUBSET Users]
  BY DEF Accounts!GiveBack, AccountsShape, CallOK, TabOK
<1>2. \E b \in BOOLEAN : tab' = [tab EXCEPT ![t].busy = b]
  BY <1>1, Zenon DEF Accounts!GiveBack
<1>3. PICK b \in BOOLEAN : tab' = [tab EXCEPT ![t].busy = b]
  BY <1>2
<1> DEFINE r == [tab[t] EXCEPT !.busy = b]
<1>4. tab' = [tab EXCEPT ![t] = r]
  BY <1>3
<1>5. TabOK(r) /\ r.phase = tab[t].phase
  BY <1>1 DEF TabOK
<1> HIDE DEF r
<1>6. /\ DOMAIN tab' = Tabs
      /\ \A s \in Tabs : TabOK(tab'[s]) /\ tab'[s].phase = tab[s].phase
  BY <1>1, <1>4, <1>5 DEF AccountsShape
<1>7. StoreOK' /\ calls' = calls \ {c}
  BY <1>4 DEF Accounts!GiveBack, Accounts!Settle, AccountsShape, StoreOK, NoTwice
<1>8. PICK new : new = {}
  OBVIOUS
<1>9. (\A d \in new : CallOK(d) /\ d.kind # "boot") /\ calls' = (calls \ {c}) \cup new
  BY <1>7, <1>8
<1> QED BY <1>1, <1>6, <1>7, <1>9, CallIsOver

LEMMA RequestAnswerOK ==
    ASSUME PagesAssumption, BoundsAssumption, AccountsShape, NEW c \in calls,
           Accounts!RequestAnswer(c)
    PROVE  AccountsShape'
<1> DEFINE t == c.tab
<1>1. /\ c.kind \in {"timer", "request", "change", "logout"} /\ UNCHANGED <<server, ended, events>>
      /\ CallOK(c) /\ t \in Tabs /\ TabOK(tab[t]) /\ tab[t].busy \in BOOLEAN
      /\ c.acc \in Accounts!Account /\ (c.status = "ok" => c.token \in Accounts!Account)
      /\ ended' \in [Tabs -> SUBSET Users]
  BY DEF Accounts!RequestAnswer, Accounts!GiveBack, AccountsShape, CallOK, TabOK
<1>2. CASE /\ Accounts!Replace(c, Accounts!Pending(c, "refreshing", c.acc))
           /\ UNCHANGED <<tab, storage>>
  <2> DEFINE e == Accounts!Pending(c, "refreshing", c.acc)
  <2>1. CallOK(e) /\ e.kind = c.kind
    BY <1>1, PendingOK
  <2>2. calls' = (calls \ {c}) \cup {e}
    BY <1>2 DEF Accounts!Replace
  <2> HIDE DEF e
  <2>3. StoreOK' /\ DOMAIN tab' = Tabs
        /\ \A s \in Tabs : TabOK(tab'[s]) /\ tab'[s].phase = tab[s].phase
    BY <1>2 DEF AccountsShape, StoreOK, NoTwice
  <2>4. PICK new : new = {e}
    OBVIOUS
  <2>5. (\A d \in new : CallOK(d) /\ d.kind # "boot") /\ calls' = (calls \ {c}) \cup new
    BY <1>1, <2>1, <2>2, <2>4
  <2> QED BY <1>1, <2>3, <2>5, CallIsOver
<1>3. CASE c.status = "ok" /\ \E b \in BOOLEAN : Accounts!SaveAccount(c, c.token, b)
  <2>1. /\ DOMAIN tab' = Tabs
        /\ \A s \in Tabs : TabOK(tab'[s]) /\ tab'[s].phase = tab[s].phase
        /\ StoreOK'
    BY <1>3, PersistOK
  <2> DEFINE e == Accounts!Pending(c, "again", c.token)
  <2>2. CallOK(e) /\ e.kind = c.kind
    BY <1>1, <1>3, PendingOK
  <2>3. calls' = calls \ {c} \/ calls' = (calls \ {c}) \cup {e}
    BY <1>3 DEF Accounts!RequestAnswer, Accounts!Settle, Accounts!Replace
  <2> HIDE DEF e
  <2>4. PICK new : new \in SUBSET {e} /\ calls' = (calls \ {c}) \cup new
    <3>1. CASE calls' = calls \ {c}
      <4>1. PICK new : new = {}
        OBVIOUS
      <4> QED BY <3>1, <4>1
    <3>2. CASE calls' = (calls \ {c}) \cup {e}
      <4>1. PICK new : new = {e}
        OBVIOUS
      <4> QED BY <3>2, <4>1
    <3> QED BY <2>3, <3>1, <3>2
  <2>5. \A d \in new : CallOK(d) /\ d.kind # "boot"
    BY <1>1, <2>2, <2>4
  <2> QED BY <1>1, <2>1, <2>4, <2>5, CallIsOver
<1>4. CASE Accounts!GiveBack(c) /\ Accounts!Settle(c)
  BY <1>1, <1>4, GivenBackOK
<1>5. c.status = "ok" /\ (Accounts!SaveAccount(c, c.token, tab[t].busy)
                           \/ Accounts!SaveAccount(c, c.token, FALSE))
        => \E b \in BOOLEAN : Accounts!SaveAccount(c, c.token, b)
  BY <1>1, Zenon
<1>6. \/ Accounts!Replace(c, Accounts!Pending(c, "refreshing", c.acc)) /\ UNCHANGED <<tab, storage>>
      \/ c.status = "ok" /\ Accounts!SaveAccount(c, c.token, tab[t].busy)
      \/ c.status = "ok" /\ Accounts!SaveAccount(c, c.token, FALSE)
      \/ Accounts!GiveBack(c) /\ Accounts!Settle(c)
  BY Zenon DEF Accounts!RequestAnswer
<1> QED BY <1>2, <1>3, <1>4, <1>5, <1>6, Zenon

LEMMA LoginAnswerOK ==
    ASSUME PagesAssumption, BoundsAssumption, AccountsShape, NEW c \in calls,
           Accounts!LoginAnswer(c)
    PROVE  AccountsShape'
<1> DEFINE t == c.tab
<1>1. /\ c.kind # "boot" /\ UNCHANGED <<server, events>> /\ CallOK(c) /\ t \in Tabs
      /\ TabOK(tab[t]) /\ ended' \in [Tabs -> SUBSET Users] /\ calls' = calls \ {c}
  BY DEF Accounts!LoginAnswer, Accounts!Settle, AccountsShape, CallOK
<1>2. PICK new : new = {}
  OBVIOUS
<1>3. (\A d \in new : CallOK(d) /\ d.kind # "boot") /\ calls' = (calls \ {c}) \cup new
  BY <1>1, <1>2
<1>4. CASE c.status = "ok" /\ c.kind # "forgot"
  <2>1. Accounts!SaveAccount(c, c.token, FALSE)
    BY <1>4 DEF Accounts!LoginAnswer
  <2>2. /\ DOMAIN tab' = Tabs /\ StoreOK'
        /\ \A s \in Tabs : TabOK(tab'[s]) /\ tab'[s].phase = tab[s].phase
    BY <1>4, <2>1, PersistOK
  <2> QED BY <1>1, <1>3, <2>1, <2>2, CallIsOver
<1>5. CASE ~(c.status = "ok" /\ c.kind # "forgot")
  <2>1. PICK mode \in {tab[t].mode, "reset-confirm"} :
          tab' = [tab EXCEPT ![t].busy = FALSE, ![t].mode = mode]
    BY <1>5 DEF Accounts!LoginAnswer
  <2> DEFINE r == [tab[t] EXCEPT !.busy = FALSE, !.mode = mode]
  <2>2. tab' = [tab EXCEPT ![t] = r]
    BY <2>1
  <2>3. TabOK(r) /\ r.phase = tab[t].phase
    BY <1>1 DEF TabOK, Accounts!Modes
  <2> HIDE DEF r
  <2>4. /\ DOMAIN tab' = Tabs
        /\ \A s \in Tabs : TabOK(tab'[s]) /\ tab'[s].phase = tab[s].phase
    BY <1>1, <2>2, <2>3 DEF AccountsShape
  <2>5. StoreOK' /\ ended' \in [Tabs -> SUBSET Users]
    BY <1>1, <1>5 DEF Accounts!LoginAnswer, AccountsShape, StoreOK, NoTwice
  <2> QED BY <1>1, <1>3, <2>4, <2>5, CallIsOver
<1> QED BY <1>4, <1>5

\* An account is left, by the menu or by the answer to logoutAll.
LEMMA LeftOK ==
    ASSUME PagesAssumption, BoundsAssumption, AccountsShape, NEW t \in Tabs,
           tab[t].phase # "boot", NEW l, ListOK(l), NEW u \in Users,
           Accounts!LeaveAccount(t, l, u), UNCHANGED <<server, events>>,
           NEW gone, \A c \in gone : c.kind # "boot", calls' = calls \ gone
    PROVE  AccountsShape'
<1> DEFINE left == Accounts!Without(l, u)
           next == Accounts!First(left).user
           r == [tab[t] EXCEPT !.phase = "leaving", !.accounts = left, !.active = next]
<1>1. TabOK(tab[t])
  BY DEF AccountsShape
<1>2. ListOK(left)
  BY WithoutOK
<1>3. /\ tab' = [tab EXCEPT ![t] = r] /\ storage' = [accounts |-> left, active |-> next]
      /\ ended' \in [Tabs -> SUBSET Users]
  BY DEF Accounts!LeaveAccount, AccountsShape
<1>4. next \in Accounts!UsersOf(left) \cup {"none"} /\ Accounts!UsersOf(left) \subseteq Users
  <2> HIDE DEF left
  <2> QED BY <1>2, FoundOK
<1> HIDE DEF left, next
<1>5. TabOK(r) /\ r.phase = "leaving"
  BY <1>1, <1>2, <1>4 DEF TabOK, ListOK, Accounts!Phases
<1> HIDE DEF r
<1>6. DOMAIN tab' = Tabs /\ \A s \in Tabs : TabOK(tab'[s])
  BY <1>3, <1>5, TabIs
<1>7. BootsOK'
  <2>1. \A s \in Tabs : tab'[s].phase = "boot" <=> tab[s].phase = "boot"
    BY <1>3, <1>5 DEF AccountsShape
  <2>2. \A d : d.kind = "boot" => (d \in calls' <=> d \in calls)
    OBVIOUS
  <2> QED BY <2>1, <2>2, BootsKept DEF AccountsShape
<1>8. StoreOK' /\ \A d \in calls' : CallOK(d)
  BY <1>2, <1>3, <1>4 DEF AccountsShape, StoreOK, ListOK, NoTwice
<1> QED BY <1>3, <1>6, <1>7, <1>8, PageShapes

LEMMA LogoutAnswerOK ==
    ASSUME PagesAssumption, BoundsAssumption, AccountInv, AccountsShape, NEW c \in calls,
           Accounts!LogoutAnswer(c)
    PROVE  AccountsShape'
<1>1. /\ c.kind = "logout" /\ UNCHANGED <<server, events>> /\ calls' = calls \ {c}
      /\ Accounts!Settle(c)
      /\ Accounts!LeaveAccount(c.tab, c.accounts, c.acc.user) \/ Accounts!GiveBack(c)
  BY DEF Accounts!LogoutAnswer, Accounts!Settle
<1>2. c.tab \in Tabs /\ ListOK(c.accounts) /\ c.acc \in Accounts!Account
  BY DEF AccountsShape, CallOK, ListOK
<1>3. c.acc.user \in Users /\ tab[c.tab].phase # "boot"
  BY <1>1, <1>2 DEF Accounts!Account, AccountInv, CallFine
<1>4. PICK gone : gone = {c}
  OBVIOUS
<1>5. calls' = calls \ gone /\ \A d \in gone : d.kind # "boot"
  BY <1>1, <1>4
<1>6. c.kind # "boot"
  BY <1>1
<1> QED BY <1>1, <1>2, <1>3, <1>5, <1>6, LeftOK, GivenBackOK

\* The login screen changes its mode, and an account is left for another.
LEMMA LeavingOK ==
    ASSUME PagesAssumption, BoundsAssumption, AccountsShape, NEW t \in Tabs,
           \/ \E mode \in Accounts!Modes : Accounts!ChooseMode(t, mode)
           \/ \E u \in Users : Accounts!SwitchAccount(t, u)
           \/ Accounts!Logout(t)
    PROVE  AccountsShape'
<1>1. /\ TabOK(tab[t]) /\ ListOK(tab[t].accounts) /\ ended \in [Tabs -> SUBSET Users]
      /\ UNCHANGED <<server, calls, events>> /\ tab[t].phase = "ready"
  BY DEF AccountsShape, TabOK, ListOK, Accounts!ChooseMode, Accounts!SwitchAccount, Accounts!Logout
<1>2. ASSUME NEW r, TabOK(r), r.phase \in {"ready", "leaving"}, tab' = [tab EXCEPT ![t] = r],
             StoreOK', ended' \in [Tabs -> SUBSET Users]
      PROVE  AccountsShape'
  <2>1. DOMAIN tab' = Tabs /\ \A s \in Tabs : TabOK(tab'[s])
    BY <1>2, TabIs
  <2>2. \A s \in Tabs : tab'[s].phase = "boot" <=> tab[s].phase = "boot"
    BY <1>1, <1>2 DEF AccountsShape
  <2>3. BootsOK'
    BY <1>1, <2>2, BootsKept DEF AccountsShape
  <2>4. \A d \in calls' : CallOK(d)
    BY <1>1 DEF AccountsShape
  <2> QED BY <1>1, <1>2, <2>1, <2>3, <2>4, PageShapes
<1>3. ASSUME NEW mode \in Accounts!Modes, Accounts!ChooseMode(t, mode) PROVE AccountsShape'
  <2> DEFINE r == [tab[t] EXCEPT !.mode = mode]
  <2>1. tab' = [tab EXCEPT ![t] = r] /\ UNCHANGED <<storage, ended>>
    BY <1>3 DEF Accounts!ChooseMode
  <2>2. TabOK(r) /\ r.phase = "ready"
    BY <1>1 DEF TabOK
  <2> HIDE DEF r
  <2>3. StoreOK' /\ ended' \in [Tabs -> SUBSET Users]
    BY <1>1, <2>1 DEF AccountsShape, StoreOK, NoTwice
  <2> QED BY <1>2, <2>1, <2>2, <2>3
<1>4. ASSUME NEW u \in Users, Accounts!SwitchAccount(t, u) PROVE AccountsShape'
  <2> DEFINE r == [tab[t] EXCEPT !.phase = "leaving"]
  <2>1. /\ tab' = [tab EXCEPT ![t] = r] /\ UNCHANGED ended
        /\ storage' = [storage EXCEPT !.active = u]
    BY <1>4 DEF Accounts!SwitchAccount
  <2>2. TabOK(r) /\ r.phase = "leaving"
    BY <1>1 DEF TabOK, Accounts!Phases
  <2> HIDE DEF r
  <2>3. StoreOK' /\ ended' \in [Tabs -> SUBSET Users]
    BY <1>1, <2>1 DEF AccountsShape, StoreOK, NoTwice
  <2> QED BY <1>2, <2>1, <2>2, <2>3
<1>5. CASE Accounts!Logout(t)
  <2>1. Accounts!Find(tab[t].accounts, tab[t].active) # Accounts!Nobody
    BY <1>5 DEF Accounts!Logout, Accounts!Screen, Accounts!Live, Accounts!Shown
  <2>2. tab[t].active \in Users
    BY <1>1, <2>1, FoundOK
  <2>3. PICK gone : gone = {}
    OBVIOUS
  <2>4. calls' = calls \ gone /\ (\A c \in gone : c.kind # "boot") /\ tab[t].phase # "boot"
    BY <1>1, <2>3
  <2>5. Accounts!LeaveAccount(t, tab[t].accounts, tab[t].active)
    BY <1>5 DEF Accounts!Logout
  <2> QED BY <1>1, <2>2, <2>4, <2>5, LeftOK
<1> QED BY <1>3, <1>4, <1>5

\* The backend answers, an answer is lost, and tokens end.
LEMMA VersionsOK ==
    ASSUME BoundsAssumption, AccountsShape, NEW u \in Users
    PROVE  /\ Accounts!Issue(u) \in Accounts!Account
           /\ Accounts!NewVersion(u) =>
                 /\ Accounts!Reissued(u) \in Accounts!Account
                 /\ UNCHANGED events => ServerOK'
                 /\ events' = events + 1 /\ events' \in 0..Bound.accounts.events => ServerOK'
           /\ server' = [server EXCEPT ![u].era = @ + 1] /\ events' = events + 1
                 /\ events' \in 0..Bound.accounts.events => ServerOK'
<1> DEFINE s == server[u]
<1>1. /\ s \in [ver : 0..Bound.accounts.events, era : 0..Bound.accounts.events]
      /\ s.era <= events /\ events \in 0..Bound.accounts.events /\ Bound.accounts.events \in Nat
  BY DEF AccountsShape, ServerOK, BoundsAssumption, BoundsOK
<1>2. Accounts!Issue(u) \in Accounts!Account
  BY <1>1 DEF Accounts!Issue, Accounts!Account
<1>3. ASSUME Accounts!NewVersion(u)
      PROVE  /\ Accounts!Reissued(u) \in Accounts!Account
             /\ UNCHANGED events => ServerOK'
             /\ events' = events + 1 /\ events' \in 0..Bound.accounts.events => ServerOK'
  <2> DEFINE new == [ver |-> s.ver + 1, era |-> s.era]
  <2>1. s.ver + 1 \in 0..Bound.accounts.events /\ server' = [server EXCEPT ![u] = new]
    <3>1. s.ver < Bound.accounts.events /\ server' = [server EXCEPT ![u] = [s EXCEPT !.ver = s.ver + 1]]
      BY <1>3 DEF Accounts!NewVersion
    <3>2. [s EXCEPT !.ver = s.ver + 1] = new
      BY <1>1
    <3>3. s.ver + 1 \in 0..Bound.accounts.events
      BY <1>1, <3>1
    <3> HIDE DEF new
    <3> QED BY <3>1, <3>2, <3>3
  <2>2. /\ new \in [ver : 0..Bound.accounts.events, era : 0..Bound.accounts.events]
        /\ new.era = s.era
    BY <1>1, <2>1
  <2>3. Accounts!Reissued(u) \in Accounts!Account
    BY <1>1, <2>1 DEF Accounts!Reissued, Accounts!Issue, Accounts!Account
  <2> HIDE DEF new
  <2>4. /\ server' \in [Users -> [ver : 0..Bound.accounts.events, era : 0..Bound.accounts.events]]
        /\ \A v \in Users : server'[v].era = server[v].era
    BY <2>1, <2>2 DEF AccountsShape, ServerOK
  <2>5. \A v \in Users : server[v].era \in Nat /\ server[v].era <= events
    BY DEF AccountsShape, ServerOK
  <2>6. events' \in {events, events + 1} => \A v \in Users : server'[v].era <= events'
    BY <1>1, <2>4, <2>5
  <2> QED BY <1>1, <2>3, <2>4, <2>6 DEF ServerOK
<1>4. ASSUME server' = [server EXCEPT ![u].era = @ + 1], events' = events + 1,
             events' \in 0..Bound.accounts.events
      PROVE  ServerOK'
  <2> DEFINE new == [ver |-> s.ver, era |-> s.era + 1]
  <2>1. server' = [server EXCEPT ![u] = new]
    <3>1. server' = [server EXCEPT ![u] = [s EXCEPT !.era = s.era + 1]]
      BY <1>4
    <3>2. [s EXCEPT !.era = s.era + 1] = new
      BY <1>1
    <3> QED BY <3>1, <3>2
  <2>2. /\ new \in [ver : 0..Bound.accounts.events, era : 0..Bound.accounts.events]
        /\ new.era <= events'
    BY <1>1, <1>4
  <2> HIDE DEF new
  <2>3. \A v \in Users : server[v].era \in Nat /\ server[v].era <= events
    BY DEF AccountsShape, ServerOK
  <2>4. \A v \in Users : server'[v].era <= events'
    BY <1>1, <1>4, <2>1, <2>2, <2>3 DEF AccountsShape, ServerOK
  <2> QED BY <1>4, <2>1, <2>2, <2>4 DEF AccountsShape, ServerOK
<1> QED BY <1>2, <1>3, <1>4

LEMMA AnsweredOK ==
    ASSUME AccountsShape, NEW c \in calls, NEW status \in {"ok", "denied", "refused", "lost", "odd"},
           NEW token \in Accounts!Account \cup {Accounts!Nobody},
           status = "ok" => token \in Accounts!Account,
           Accounts!Answered(c, status, token), UNCHANGED <<storage, tab, ended>>, ServerOK'
    PROVE  AccountsShape'
<1> DEFINE e == [c EXCEPT !.status = status, !.token = token]
<1>1. CallOK(e) /\ e.tab = c.tab /\ e.kind = c.kind
  BY DEF AccountsShape, CallOK
<1>2. calls' = (calls \ {c}) \cup {e}
  BY DEF Accounts!Answered, Accounts!Replace
<1> HIDE DEF e
<1>3. BootsOK'
  BY <1>1, <1>2, BootsReplaced DEF AccountsShape
<1>4. \A d \in calls' : CallOK(d)
  BY <1>1, <1>2 DEF AccountsShape
<1>5. StoreOK' /\ DOMAIN tab' = Tabs /\ (\A t \in Tabs : TabOK(tab'[t])) /\ ended' \in [Tabs -> SUBSET Users]
  BY DEF AccountsShape, StoreOK, NoTwice
<1> QED BY <1>3, <1>4, <1>5 DEF AccountsShape

LEMMA BackendOK ==
    ASSUME PagesAssumption, BoundsAssumption, AccountsShape,
           \/ \E c \in calls : Accounts!Serve(c) \/ Accounts!Lose(c) \/ Accounts!Odd(c)
           \/ \E u \in Users : Accounts!Expire(u) \/ Accounts!ChangedElsewhere(u)
    PROVE  AccountsShape'
<1>1. Accounts!Counted => events' = events + 1 /\ events' \in 0..Bound.accounts.events
  BY DEF AccountsShape, ServerOK, Accounts!Counted, BoundsAssumption, BoundsOK
<1>2. UNCHANGED server /\ (UNCHANGED events \/ Accounts!Counted) => ServerOK'
  BY DEF AccountsShape, ServerOK, Accounts!Counted, BoundsAssumption, BoundsOK
<1>3. ASSUME NEW c \in calls, Accounts!Serve(c) PROVE AccountsShape'
  <2> DEFINE u == c.acc.user
  <2>1. /\ u \in Users /\ c.acc \in Accounts!Account
        /\ UNCHANGED <<storage, tab, ended, events>>
    BY <1>3 DEF Accounts!Serve, AccountsShape, CallOK, Accounts!Account
  <2>2. /\ Accounts!Issue(u) \in Accounts!Account
        /\ Accounts!NewVersion(u) => Accounts!Reissued(u) \in Accounts!Account /\ ServerOK'
    BY <2>1, VersionsOK
  <2>3. \/ UNCHANGED server /\ \E w \in {"denied", "refused"} :
                                  Accounts!Answered(c, w, Accounts!Nobody)
        \/ UNCHANGED server /\ \E a \in {c.acc, Accounts!Issue(u)} : Accounts!Answered(c, "ok", a)
        \/ Accounts!NewVersion(u) /\ Accounts!Answered(c, "ok", Accounts!Reissued(u))
    BY <1>3 DEF Accounts!Serve
  <2> HIDE DEF u
  <2>4. CASE UNCHANGED server /\ \E w \in {"denied", "refused"} :
                                    Accounts!Answered(c, w, Accounts!Nobody)
    BY <1>2, <2>1, <2>4, AnsweredOK
  <2>5. CASE UNCHANGED server /\ \E a \in {c.acc, Accounts!Issue(u)} : Accounts!Answered(c, "ok", a)
    BY <1>2, <2>1, <2>2, <2>5, AnsweredOK
  <2>6. CASE Accounts!NewVersion(u) /\ Accounts!Answered(c, "ok", Accounts!Reissued(u))
    BY <2>1, <2>2, <2>6, AnsweredOK
  <2> QED BY <2>3, <2>4, <2>5, <2>6
<1>4. ASSUME NEW c \in calls, Accounts!Lose(c) \/ Accounts!Odd(c) PROVE AccountsShape'
  <2>1. /\ UNCHANGED <<server, storage, tab, ended>> /\ Accounts!Counted
        /\ \E w \in {"lost", "odd"} : Accounts!Answered(c, w, Accounts!Nobody)
    BY <1>4 DEF Accounts!Lose, Accounts!Odd
  <2> QED BY <1>2, <2>1, AnsweredOK
<1>5. ASSUME NEW u \in Users, Accounts!Expire(u) \/ Accounts!ChangedElsewhere(u)
      PROVE  AccountsShape'
  <2>1. /\ UNCHANGED <<storage, tab, calls, ended>> /\ Accounts!Counted
        /\ server' = [server EXCEPT ![u].era = @ + 1] \/ Accounts!NewVersion(u)
    BY <1>5 DEF Accounts!Expire, Accounts!ChangedElsewhere
  <2>2. ServerOK'
    BY <1>1, <2>1, VersionsOK
  <2>3. BootsOK' /\ StoreOK'
    BY <2>1, BootsKept DEF AccountsShape, StoreOK, NoTwice
  <2> QED BY <2>1, <2>2, <2>3 DEF AccountsShape
<1> QED BY <1>3, <1>4, <1>5

LEMMA AccountsShapeKept ==
    PagesAssumption /\ BoundsAssumption /\ AccountInv /\ AccountsShape
      /\ (Accounts!Next \/ UNCHANGED <<accounts, events>>) => AccountsShape'
<1> SUFFICES ASSUME PagesAssumption, BoundsAssumption, AccountInv, AccountsShape,
                    Accounts!Next \/ UNCHANGED <<accounts, events>>
             PROVE  AccountsShape'
  OBVIOUS
<1>1. CASE UNCHANGED <<accounts, events>>
  <2>1. UNCHANGED <<server, storage, tab, calls, ended, events>>
    BY <1>1 DEF accounts
  <2>2. ServerOK' /\ StoreOK' /\ BootsOK'
    BY <2>1, BootsKept DEF AccountsShape, ServerOK, StoreOK, NoTwice
  <2> QED BY <2>1, <2>2 DEF AccountsShape
<1> QED BY <1>1, LoadOK, BootAnswerOK, PageAsksOK, SubmitOK, RequestAnswerOK, LoginAnswerOK,
           LogoutAnswerOK, LeavingOK, BackendOK DEF Accounts!Next

-----------------------------------------------------------------------------
(* The types of the page of the coding agent. *)

Kinds == {"runs", "models", "workspaces", "import", "delete", "submit", "detail"}
Asks == [kind : Kinds, subject : Coding!Workspaces \cup {"all"}, run : Coding!RunIds \cup {0},
         chain : {"none", "effect", "button", "click", "submit", "delete", "lost"},
         status : {"sent", "running", "ok", "failed"},
         names : SUBSET (Coding!Workspaces \cup Models),
         found : SUBSET (Coding!RunIds \X Coding!Statuses)]

\* A call is about a workspace when it is to work on one, and its answer lists what it
\* asks for: a list of workspaces has at least the root.
AskFine(c) ==
    /\ c.kind \in {"import", "delete"} => c.subject \in Imports
    /\ c.kind = "submit" => c.subject \in Coding!Workspaces
    /\ c.kind = "models" => c.names \subseteq Models
    /\ c.kind = "workspaces" => c.names \subseteq Coding!Workspaces
                                /\ (c.status = "ok" => "root" \in c.names)

RunTypes == [Coding!RunIds -> [status : Coding!Statuses \cup {"none"},
                               workspace : Coding!Workspaces \cup {"none"}]]

PageShape(p) ==
    /\ DOMAIN p = {"listed", "chosen", "models", "model", "runs", "detail", "task", "loading",
                   "submitting", "importing", "deleting"}
    /\ p.listed \subseteq Coding!Workspaces /\ p.chosen \in p.listed \cup {"none"}
    /\ p.models \subseteq Models /\ p.model \in Models \cup {"none"}
    /\ DOMAIN p.runs \subseteq Coding!RunIds /\ p.runs \in [DOMAIN p.runs -> Coding!Statuses]
    /\ p.detail \in Coding!RunIds \cup {0}
    /\ p.task \in BOOLEAN /\ p.loading \in BOOLEAN /\ p.submitting \in BOOLEAN
    /\ p.importing \in BOOLEAN /\ p.deleting \in BOOLEAN

CodingShape ==
    /\ copies \subseteq Mounted \cup Imports /\ lost \subseteq Coding!RunIds
    /\ runs \in RunTypes /\ PageShape(page)
    /\ asks \subseteq Asks /\ \A c \in asks : AskFine(c)

\* The runs on the page are counted under one status each.
LEMMA CountedOnce ==
    ASSUME NEW D, IsFiniteSet(D), NEW f \in [D -> {"running", "success", "failed"}]
    PROVE  Cardinality({r \in D : f[r] = "running"}) + Cardinality({r \in D : f[r] = "success"})
           + Cardinality({r \in D : f[r] = "failed"}) = Cardinality(D)
<1> DEFINE a == {r \in D : f[r] = "running"}
           b == {r \in D : f[r] = "success"}
           c == {r \in D : f[r] = "failed"}
<1>1. a \subseteq D /\ b \subseteq D /\ c \subseteq D /\ a \cap b = {} /\ (a \cup b) \cap c = {}
      /\ D = (a \cup b) \cup c
  OBVIOUS
<1> HIDE DEF a, b, c
<1>2. IsFiniteSet(a) /\ IsFiniteSet(b) /\ IsFiniteSet(c) /\ IsFiniteSet(a \cup b)
  BY <1>1, FS_Subset, FS_Union
<1>3. Cardinality(a) \in Nat /\ Cardinality(b) \in Nat /\ Cardinality(c) \in Nat
  BY <1>2, FS_CardinalityType
<1>4. Cardinality(a \cup b) = Cardinality(a) + Cardinality(b)
  <2>1. Cardinality(a \cup b) = Cardinality(a) + Cardinality(b) - Cardinality(a \cap b)
    BY <1>2, FS_Union
  <2>2. Cardinality(a \cap b) = 0
    BY <1>1, FS_EmptySet
  <2> QED BY <1>3, <2>1, <2>2
<1>5. Cardinality(D) = Cardinality(a \cup b) + Cardinality(c)
  <2>1. Cardinality(D) = Cardinality(a \cup b) + Cardinality(c) - Cardinality((a \cup b) \cap c)
    BY <1>1, <1>2, FS_Union
  <2>2. Cardinality((a \cup b) \cap c) = 0
    BY <1>1, FS_EmptySet
  <2> QED BY <1>3, <1>4, <2>1, <2>2
<1> QED BY <1>3, <1>4, <1>5 DEF a, b, c

LEMMA CodingShapeIsType == BoundsAssumption /\ CodingShape => Coding!TypeOK
<1> SUFFICES ASSUME BoundsAssumption, CodingShape PROVE Coding!TypeOK
  OBVIOUS
<1> DEFINE D == DOMAIN page.runs
           n == Coding!Counts(page.runs)
<1>1. D \subseteq 1..Bound.coding.runs /\ page.runs \in [D -> {"running", "success", "failed"}]
  BY DEF CodingShape, PageShape, Coding!RunIds, Coding!Statuses
<1>2. IsFiniteSet(D)
  <2>1. Bound.coding.runs \in Nat
    BY DEF BoundsAssumption, BoundsOK
  <2>2. IsFiniteSet(1..Bound.coding.runs)
    BY <2>1, FS_Interval
  <2> QED BY <1>1, <2>2, FS_Subset
<1>3. \A s \in {"running", "success", "failed"} :
         n[s] = Cardinality({r \in D : page.runs[r] = s})
  BY DEF Coding!Counts, Coding!Statuses, Coding!Cardinality, Cardinality
<1>4. n["running"] + n["success"] + n["failed"] = Cardinality(D)
  BY <1>1, <1>2, <1>3, CountedOnce
<1>5. {r \in D : Coding!Tone(page.runs[r]) = "running"} = {r \in D : page.runs[r] = "running"}
  BY <1>1 DEF Coding!Tone
<1>6. \A S : Coding!Cardinality(S) = Cardinality(S)
  BY DEF Coding!Cardinality, Cardinality
<1> HIDE DEF n, D
<1>7. /\ n["running"] + n["success"] + n["failed"] = Coding!Cardinality(D)
      /\ n["running"] = Coding!Cardinality({r \in D : Coding!Tone(page.runs[r]) = "running"})
  BY <1>3, <1>4, <1>5, <1>6
<1> QED BY <1>7 DEF CodingShape, PageShape, RunTypes, Coding!TypeOK, n, D

LEMMA CodingShapeInitially == PagesAssumption /\ Coding!Init => CodingShape
<1> SUFFICES ASSUME PagesAssumption, Coding!Init PROVE CodingShape
  OBVIOUS
<1>1. runs \in RunTypes
  BY DEF Coding!Init, Coding!NoRun, RunTypes
<1>2. PageShape(page)
  BY DEF Coding!Init, PageShape
<1>3. asks \subseteq Asks /\ \A c \in asks : AskFine(c)
  BY DEF Coding!Init, Coding!EffectLoads, Coding!Load, Coding!Call, Asks, AskFine, Kinds
<1> QED BY <1>1, <1>2, <1>3 DEF Coding!Init, CodingShape

\* The page makes calls, and changes.
LEMMA CodingShapeGoesOn ==
    ASSUME CodingShape, NEW gone, NEW new, asks' = (asks \ gone) \cup new,
           \A c \in new : c \in Asks /\ AskFine(c),
           PageShape(page'), copies' \subseteq Mounted \cup Imports,
           lost' \subseteq Coding!RunIds, runs' \in RunTypes
    PROVE  CodingShape'
BY DEF CodingShape, AskFine, PageShape, RunTypes, Asks, Kinds

\* Calls of the page, by their kind.
LEMMA LoadTyped ==
    ASSUME NEW kind \in {"runs", "models", "workspaces"},
           NEW chain \in {"none", "effect", "button", "click", "submit", "delete"}
    PROVE  Coding!Load(kind, chain) \in Asks /\ AskFine(Coding!Load(kind, chain))
BY DEF Coding!Load, Coding!Call, Asks, AskFine, Kinds

LEMMA TaskTyped ==
    ASSUME NEW kind \in {"import", "delete", "submit"}, NEW w \in Coding!Workspaces,
           kind # "submit" => w \in Imports
    PROVE  Coding!Call(kind, w, 0, "none") \in Asks /\ AskFine(Coding!Call(kind, w, 0, "none"))
BY DEF Coding!Call, Asks, AskFine, Kinds

LEMMA DetailTyped ==
    ASSUME NEW r \in Coding!RunIds \cup {0}, NEW chain \in {"click", "submit"}
    PROVE  Coding!Call("detail", "all", r, chain) \in Asks
           /\ AskFine(Coding!Call("detail", "all", r, chain))
BY DEF Coding!Call, Asks, AskFine, Kinds

LEMMA OneCalls ==
    ASSUME CodingShape, NEW c, c \in Asks, AskFine(c), asks' = asks \cup {c},
           PageShape(page'), UNCHANGED <<copies, runs, lost>>
    PROVE  CodingShape'
BY DEF CodingShape, AskFine, PageShape, RunTypes, Asks, Kinds

LEMMA PageCalls ==
    ASSUME CodingShape,
           Coding!TokenRefreshed \/ Coding!Refresh \/ Coding!DeleteImportedWorkspace
           \/ Coding!SubmitRun
           \/ (\E w \in Imports, folder \in Folders : Coding!ImportLocalFolder(folder, w))
           \/ (\E r \in Coding!RunIds : Coding!OpenRun(r))
    PROVE  CodingShape'
<1>0. PageShape(page)
  BY DEF CodingShape
<1>1. CASE Coding!TokenRefreshed
  <2>1. \A c \in Coding!EffectLoads : c \in Asks /\ AskFine(c)
    BY LoadTyped DEF Coding!EffectLoads
  <2>2. PageShape(page')
    BY <1>0, <1>1 DEF PageShape, Coding!TokenRefreshed
  <2>3. PICK none : none = {}
    OBVIOUS
  <2>4. asks' = (asks \ none) \cup Coding!EffectLoads /\ UNCHANGED <<copies, runs, lost>>
    BY <1>1, <2>3 DEF Coding!TokenRefreshed
  <2> QED BY <2>1, <2>2, <2>4, CodingShapeGoesOn DEF CodingShape
<1>2. CASE Coding!Refresh
  <2> DEFINE c == Coding!Load("runs", "button")
  <2>1. c \in Asks /\ AskFine(c)
    BY LoadTyped
  <2>2. PageShape(page')
    BY <1>0, <1>2 DEF PageShape, Coding!Refresh
  <2>3. asks' = asks \cup {c} /\ UNCHANGED <<copies, runs, lost>>
    BY <1>2 DEF Coding!Refresh
  <2> HIDE DEF c
  <2> QED BY <2>1, <2>2, <2>3, OneCalls
<1>3. ASSUME NEW kind \in {"import", "delete", "submit"}, NEW w \in Coding!Workspaces,
             kind # "submit" => w \in Imports, asks' = asks \cup {Coding!Call(kind, w, 0, "none")},
             PageShape(page'), UNCHANGED <<copies, runs, lost>>
      PROVE  CodingShape'
  <2> DEFINE c == Coding!Call(kind, w, 0, "none")
  <2>1. c \in Asks /\ AskFine(c)
    BY <1>3, TaskTyped
  <2>2. asks' = asks \cup {c}
    BY <1>3
  <2> HIDE DEF c
  <2> QED BY <1>3, <2>1, <2>2, OneCalls
<1>4. CASE Coding!DeleteImportedWorkspace
  <2>1. page.chosen \in Imports /\ page.chosen \in Coding!Workspaces
    BY <1>4 DEF Coding!DeleteImportedWorkspace, Coding!CanDelete, Coding!Workspaces
  <2>2. PageShape(page')
    BY <1>0, <1>4 DEF PageShape, Coding!DeleteImportedWorkspace
  <2>3. /\ asks' = asks \cup {Coding!Call("delete", page.chosen, 0, "none")}
        /\ UNCHANGED <<copies, runs, lost>>
    BY <1>4 DEF Coding!DeleteImportedWorkspace
  <2> QED BY <1>3, <2>1, <2>2, <2>3
<1>5. CASE Coding!SubmitRun
  <2>1. page.chosen \in Coding!Workspaces
    BY <1>0, <1>5 DEF Coding!SubmitRun, Coding!CanSubmit, PageShape
  <2>2. PageShape(page')
    BY <1>0, <1>5 DEF PageShape, Coding!SubmitRun
  <2>3. /\ asks' = asks \cup {Coding!Call("submit", page.chosen, 0, "none")}
        /\ UNCHANGED <<copies, runs, lost>>
    BY <1>5 DEF Coding!SubmitRun
  <2> QED BY <1>3, <2>1, <2>2, <2>3
<1>6. ASSUME NEW w \in Imports, NEW folder \in Folders, Coding!ImportLocalFolder(folder, w)
      PROVE  CodingShape'
  <2>1. w \in Coding!Workspaces
    BY DEF Coding!Workspaces
  <2>2. PageShape(page')
    BY <1>0, <1>6 DEF PageShape, Coding!ImportLocalFolder
  <2>3. /\ asks' = asks \cup {Coding!Call("import", w, 0, "none")}
        /\ UNCHANGED <<copies, runs, lost>>
    BY <1>6 DEF Coding!ImportLocalFolder
  <2> QED BY <1>3, <2>1, <2>2, <2>3
<1>7. ASSUME NEW r \in Coding!RunIds, Coding!OpenRun(r) PROVE CodingShape'
  <2> DEFINE c == Coding!Call("detail", "all", r, "click")
  <2>1. c \in Asks /\ AskFine(c)
    BY DetailTyped
  <2>2. asks' = asks \cup {c} /\ page' = page /\ UNCHANGED <<copies, runs, lost>>
    BY <1>7 DEF Coding!OpenRun
  <2> HIDE DEF c
  <2> QED BY <1>0, <2>1, <2>2, OneCalls
<1> QED BY <1>1, <1>2, <1>4, <1>5, <1>6, <1>7

\* What the user chooses or writes, without a call.
LEMMA PageChanges ==
    ASSUME CodingShape,
           Coding!WriteTask \/ Coding!CloseRun \/ UNCHANGED coding
           \/ (\E w \in Coding!Workspaces : Coding!Choose(w))
           \/ (\E m \in Models : Coding!ChooseModel(m))
    PROVE  CodingShape'
<1>1. PageShape(page)
  BY DEF CodingShape
<1>2. PageShape(page')
  <2>1. CASE Coding!WriteTask
    BY <1>1, <2>1 DEF PageShape, Coding!WriteTask
  <2>2. CASE Coding!CloseRun
    BY <1>1, <2>2 DEF PageShape, Coding!CloseRun
  <2>3. CASE \E w \in Coding!Workspaces : Coding!Choose(w)
    BY <1>1, <2>3 DEF PageShape, Coding!Choose
  <2>4. CASE \E m \in Models : Coding!ChooseModel(m)
    BY <1>1, <2>4 DEF PageShape, Coding!ChooseModel
  <2> QED BY <1>1, <2>1, <2>2, <2>3, <2>4 DEF coding
<1>3. UNCHANGED <<copies, runs, asks, lost>>
  BY DEF Coding!WriteTask, Coding!CloseRun, Coding!Choose, Coding!ChooseModel, coding
<1>4. PICK none : none = {}
  OBVIOUS
<1>5. asks' = (asks \ none) \cup none
  BY <1>3, <1>4
<1> QED BY <1>2, <1>3, <1>4, <1>5, CodingShapeGoesOn DEF CodingShape

\* The backend serves a call, or a call fails.
LEMMA CallsServed ==
    ASSUME CodingShape, NEW c \in asks,
           Coding!ServeLoad(c) \/ Coding!ServeImport(c) \/ Coding!ServeDelete(c)
           \/ Coding!CallFails(c) \/ \E r \in Coding!RunIds : Coding!BeginRun(c, r)
    PROVE  CodingShape'
<1>0. /\ copies \subseteq Mounted \cup Imports /\ lost \subseteq Coding!RunIds
      /\ runs \in RunTypes /\ PageShape(page) /\ c \in Asks /\ AskFine(c)
  BY DEF CodingShape
<1>1. PICK new :
         /\ asks' = (asks \ {c}) \cup new /\ (\A e \in new : e \in Asks /\ AskFine(e)) /\ page' = page
         /\ copies' \subseteq Mounted \cup Imports /\ lost' \subseteq Coding!RunIds
         /\ runs' \in RunTypes
  <2>1. CASE Coding!ServeLoad(c)
    <3> DEFINE seen == {<<r, runs[r].status>> : r \in Coding!Known}
    <3>1. seen \subseteq Coding!RunIds \X Coding!Statuses
      BY <1>0 DEF Coding!Known, RunTypes
    <3>2. {"root"} \cup copies \subseteq Coding!Workspaces
      BY <1>0 DEF Coding!Workspaces
    <3> HIDE DEF seen
    <3>3. PICK d : /\ asks' = (asks \ {c}) \cup {d}
                   /\ \/ c.kind = "runs" /\ d = [c EXCEPT !.status = "ok", !.found = seen]
                      \/ c.kind = "models" /\ d = [c EXCEPT !.status = "ok", !.names = Models]
                      \/ c.kind = "workspaces"
                         /\ d = [c EXCEPT !.status = "ok", !.names = {"root"} \cup copies]
                      \/ c.kind = "detail" /\ d = [c EXCEPT !.status = "ok"]
      BY <2>1 DEF Coding!ServeLoad, Coding!Swap, Coding!Answered, seen
    <3>4. d \in Asks
      BY <1>0, <3>1, <3>2, <3>3 DEF Asks
    <3>5. AskFine(d)
      BY <1>0, <3>2, <3>3 DEF Asks, AskFine
    <3>6. PICK new : new = {d}
      OBVIOUS
    <3> QED BY <1>0, <2>1, <3>3, <3>4, <3>5, <3>6 DEF Coding!ServeLoad
  <2>2. CASE Coding!ServeImport(c)
    <3> DEFINE d == [c EXCEPT !.status = "ok"]
    <3>1. d \in Asks /\ AskFine(d)
      BY <1>0, <2>2 DEF Asks, AskFine, Coding!ServeImport
    <3>2. asks' = (asks \ {c}) \cup (IF c.chain = "lost" THEN {} ELSE {d})
      BY <2>2 DEF Coding!ServeImport, Coding!Reply, Coding!Swap, Coding!Answered
    <3>3. /\ page' = page /\ UNCHANGED <<runs, lost>> /\ copies' \subseteq Mounted \cup Imports
      BY <1>0, <2>2 DEF Coding!ServeImport, AskFine
    <3> HIDE DEF d
    <3>4. PICK new : new = IF c.chain = "lost" THEN {} ELSE {d}
      OBVIOUS
    <3> QED BY <1>0, <3>1, <3>2, <3>3, <3>4
  <2>3. CASE Coding!ServeDelete(c)
    <3>1. PICK s \in {"ok", "failed"} :
            asks' = (asks \ {c}) \cup (IF c.chain = "lost" THEN {} ELSE {[c EXCEPT !.status = s]})
      BY <2>3 DEF Coding!ServeDelete, Coding!Reply, Coding!Swap, Coding!Answered
    <3> DEFINE d == [c EXCEPT !.status = s]
    <3>2. d \in Asks /\ AskFine(d)
      BY <1>0, <2>3 DEF Asks, AskFine, Coding!ServeDelete
    <3>3. /\ page' = page /\ UNCHANGED <<runs, lost>> /\ copies' \subseteq Mounted \cup Imports
      BY <1>0, <2>3 DEF Coding!ServeDelete
    <3>4. asks' = (asks \ {c}) \cup (IF c.chain = "lost" THEN {} ELSE {d})
      BY <3>1
    <3> HIDE DEF d
    <3>5. PICK new : new = IF c.chain = "lost" THEN {} ELSE {d}
      OBVIOUS
    <3> QED BY <1>0, <3>2, <3>3, <3>4, <3>5
  <2>4. CASE Coding!CallFails(c)
    <3> DEFINE d == [c EXCEPT !.status = "failed"]
               gone == [c EXCEPT !.chain = "lost"]
    <3>1. d \in Asks /\ AskFine(d) /\ gone \in Asks /\ AskFine(gone)
      BY <1>0 DEF Asks, AskFine
    <3>2. lost' \subseteq Coding!RunIds
      BY <1>0, <2>4 DEF Coding!CallFails, Asks
    <3>3. asks' = (asks \ {c}) \cup {d} \/ asks' = (asks \ {c}) \cup {d, gone}
      BY <2>4 DEF Coding!CallFails, Coding!Swap
    <3>4. page' = page /\ UNCHANGED <<runs, copies>>
      BY <2>4 DEF Coding!CallFails
    <3> HIDE DEF d, gone
    <3>5. PICK new : new \in {{d}, {d, gone}} /\ asks' = (asks \ {c}) \cup new
      BY <3>3
    <3> QED BY <1>0, <3>1, <3>2, <3>4, <3>5
  <2>5. ASSUME NEW r \in Coding!RunIds, Coding!BeginRun(c, r)
        PROVE  \E new : /\ asks' = (asks \ {c}) \cup new /\ (\A e \in new : e \in Asks /\ AskFine(e))
                        /\ page' = page
                        /\ copies' \subseteq Mounted \cup Imports /\ lost' \subseteq Coding!RunIds
                        /\ runs' \in RunTypes
    <3> DEFINE d == [c EXCEPT !.status = "running", !.run = r]
    <3>1. d \in Asks /\ AskFine(d)
      BY <1>0, <2>5 DEF Asks, AskFine, Coding!BeginRun
    <3>2. runs' \in RunTypes
      <4>1. c.subject \in Coding!Workspaces
        BY <1>0, <2>5 DEF Coding!BeginRun, AskFine
      <4>2. runs' = [runs EXCEPT ![r] = [status |-> "running", workspace |-> c.subject]]
        BY <2>5 DEF Coding!BeginRun
      <4> QED BY <1>0, <4>1, <4>2 DEF RunTypes, Coding!Statuses
    <3>3. asks' = (asks \ {c}) \cup (IF c.chain = "lost" THEN {} ELSE {d})
      BY <2>5 DEF Coding!BeginRun, Coding!Reply, Coding!Swap
    <3>4. page' = page /\ copies' = copies /\ lost' \subseteq Coding!RunIds
      BY <1>0, <2>5 DEF Coding!BeginRun
    <3> HIDE DEF d
    <3>5. PICK new : new = IF c.chain = "lost" THEN {} ELSE {d}
      OBVIOUS
    <3> QED BY <1>0, <3>1, <3>2, <3>3, <3>4, <3>5
  <2> QED BY <2>1, <2>2, <2>3, <2>4, <2>5
<1>2. PICK gone : gone = {c}
  OBVIOUS
<1>3. asks' = (asks \ gone) \cup new
  BY <1>1, <1>2
<1> QED BY <1>0, <1>1, <1>3, CodingShapeGoesOn

LEMMA RunsEnd ==
    ASSUME CodingShape, NEW r \in Coding!RunIds, NEW s \in {"success", "failed"},
           Coding!EndRun(r, s)
    PROVE  CodingShape'
<1> DEFINE t == IF s = "success" THEN "ok" ELSE "failed"
<1>1. \A c \in asks : /\ c \in Asks /\ AskFine(c)
                      /\ c.kind = "submit" => [c EXCEPT !.status = t] \in Asks
                                              /\ AskFine([c EXCEPT !.status = t])
  BY DEF CodingShape, Asks, AskFine
<1>2. /\ asks' = {IF c.kind = "submit" /\ c.run = r THEN [c EXCEPT !.status = t] ELSE c : c \in asks}
      /\ UNCHANGED <<copies, page, lost>> /\ runs' = [runs EXCEPT ![r].status = s]
  BY DEF Coding!EndRun
<1> HIDE DEF t
<1>3. \A d \in asks' : d \in Asks /\ AskFine(d)
  BY <1>1, <1>2
<1>4. runs' \in RunTypes
  BY <1>2 DEF CodingShape, RunTypes, Coding!Statuses
<1>5. asks' = (asks \ asks) \cup asks'
  OBVIOUS
<1> QED BY <1>2, <1>3, <1>4, <1>5, CodingShapeGoesOn DEF CodingShape

\* The page takes an answer.
LEMMA AnswersTaken ==
    ASSUME PagesAssumption, CodingShape, NEW c \in asks,
           Coding!RunsAnswer(c) \/ Coding!ModelsAnswer(c) \/ Coding!WorkspacesAnswer(c)
           \/ Coding!ImportAnswer(c) \/ Coding!DeleteAnswer(c) \/ Coding!SubmitAnswer(c)
           \/ Coding!DetailAnswer(c)
    PROVE  CodingShape'
<1>0. c \in Asks /\ AskFine(c) /\ PageShape(page) /\ UNCHANGED <<copies, runs, lost>>
  BY DEF CodingShape, Coding!RunsAnswer, Coding!ModelsAnswer, Coding!WorkspacesAnswer,
         Coding!ImportAnswer, Coding!DeleteAnswer, Coding!SubmitAnswer, Coding!DetailAnswer
<1> SUFFICES /\ PageShape(page')
             /\ \E new : asks' = (asks \ {c}) \cup new /\ \A d \in new : d \in Asks /\ AskFine(d)
  <2>1. PICK gone, new : /\ gone = {c} /\ asks' = (asks \ gone) \cup new
                         /\ \A d \in new : d \in Asks /\ AskFine(d)
    OBVIOUS
  <2> QED BY <1>0, <2>1, CodingShapeGoesOn DEF CodingShape
<1>1. ASSUME asks' = asks \ {c}
      PROVE  \E new : asks' = (asks \ {c}) \cup new /\ \A d \in new : d \in Asks /\ AskFine(d)
  <2>1. PICK none : none = {}
    OBVIOUS
  <2> QED BY <1>1, <2>1
<1>2. ASSUME NEW d, d \in Asks, AskFine(d), asks' = (asks \ {c}) \cup {d}
      PROVE  \E new : asks' = (asks \ {c}) \cup new /\ \A e \in new : e \in Asks /\ AskFine(e)
  <2>1. PICK new : new = {d}
    OBVIOUS
  <2> QED BY <1>2, <2>1
<1>3. CASE Coding!RunsAnswer(c)
  <2> DEFINE entries == [r \in {a[1] : a \in c.found} |-> CHOOSE s \in Coding!Statuses : <<r, s>> \in c.found]
             d == Coding!Call("detail", "all", c.run, "submit")
  <2>1. DOMAIN entries \subseteq Coding!RunIds /\ entries \in [DOMAIN entries -> Coding!Statuses]
    <3>1. c.found \subseteq Coding!RunIds \X Coding!Statuses
      BY <1>0 DEF Asks
    <3>2. \A r \in {a[1] : a \in c.found} : r \in Coding!RunIds
                                            /\ \E s \in Coding!Statuses : <<r, s>> \in c.found
      BY <3>1
    <3> QED BY <3>2
  <2>2. page' = [page EXCEPT !.loading = FALSE, !.runs = IF c.status = "ok" THEN entries ELSE page.runs]
    BY <1>3 DEF Coding!RunsAnswer
  <2>3. d \in Asks /\ AskFine(d)
    BY <1>0, DetailTyped DEF Asks
  <2>4. asks' = asks \ {c} \/ asks' = (asks \ {c}) \cup {d}
    BY <1>3 DEF Coding!RunsAnswer, Coding!Swap
  <2> HIDE DEF entries, d
  <2>5. PageShape(page')
    BY <1>0, <2>1, <2>2 DEF PageShape
  <2> QED BY <1>1, <1>2, <2>3, <2>4, <2>5
<1>4. CASE Coding!ModelsAnswer(c)
  <2>1. c.names \subseteq Models /\ Current \in Models
    BY <1>0, <1>4 DEF AskFine, Coding!ModelsAnswer, PagesAssumption, ConstantsOK
  <2>2. PageShape(page')
    BY <1>0, <1>4, <2>1 DEF PageShape, Coding!ModelsAnswer
  <2>3. asks' = asks \ {c}
    BY <1>4 DEF Coding!ModelsAnswer, Coding!Swap
  <2> QED BY <1>1, <2>2, <2>3
<1>5. CASE Coding!WorkspacesAnswer(c)
  <2>1. c.names \subseteq Coding!Workspaces /\ (c.status = "ok" => "root" \in c.names)
    BY <1>0, <1>5 DEF AskFine, Coding!WorkspacesAnswer
  <2>2. PICK w \in Coding!ChosenAfter(c.names) :
          LET done == [page EXCEPT !.deleting = page.deleting /\ c.chain # "delete"]
          IN page' = IF c.status = "ok" THEN [done EXCEPT !.listed = c.names, !.chosen = w] ELSE done
    BY <1>5 DEF Coding!WorkspacesAnswer
  <2>3. c.status = "ok" => w \in c.names
    BY <2>1, <2>2 DEF Coding!ChosenAfter, Coding!Preferred
  <2>4. \A b \in BOOLEAN : PageShape([page EXCEPT !.deleting = b])
    BY <1>0 DEF PageShape
  <2>5. \A q : PageShape(q) /\ c.status = "ok" => PageShape([q EXCEPT !.listed = c.names, !.chosen = w])
    BY <2>1, <2>3 DEF PageShape
  <2>6. (page.deleting /\ c.chain # "delete") \in BOOLEAN
    OBVIOUS
  <2>7. PageShape(page')
    BY <2>2, <2>4, <2>5, <2>6
  <2>8. asks' = asks \ {c}
    BY <1>5 DEF Coding!WorkspacesAnswer, Coding!Swap
  <2> QED BY <1>1, <2>7, <2>8
<1>6. CASE Coding!ImportAnswer(c)
  <2>1. c.subject \in Coding!Workspaces
    BY <1>0, <1>6 DEF AskFine, Coding!ImportAnswer, Coding!Workspaces
  <2>2. PageShape(page')
    BY <1>0, <1>6, <2>1 DEF PageShape, Coding!ImportAnswer
  <2>3. asks' = asks \ {c}
    BY <1>6 DEF Coding!ImportAnswer, Coding!Swap
  <2> QED BY <1>1, <2>2, <2>3
<1>7. CASE Coding!DeleteAnswer(c)
  <2> DEFINE d == Coding!Load("workspaces", "delete")
  <2>1. d \in Asks /\ AskFine(d)
    BY LoadTyped
  <2>2. PageShape(page')
    BY <1>0, <1>7 DEF PageShape, Coding!DeleteAnswer
  <2>3. asks' = asks \ {c} \/ asks' = (asks \ {c}) \cup {d}
    BY <1>7 DEF Coding!DeleteAnswer, Coding!Swap
  <2> HIDE DEF d
  <2> QED BY <1>1, <1>2, <2>1, <2>2, <2>3
<1>8. CASE Coding!SubmitAnswer(c)
  <2> DEFINE d == [Coding!Load("runs", "submit") EXCEPT !.run = c.run]
  <2>1. d \in Asks /\ AskFine(d)
    BY <1>0 DEF Asks, AskFine, Coding!Load, Coding!Call, Kinds
  <2>2. PageShape(page')
    BY <1>0, <1>8 DEF PageShape, Coding!SubmitAnswer
  <2>3. asks' = asks \ {c} \/ asks' = (asks \ {c}) \cup {d}
    BY <1>8 DEF Coding!SubmitAnswer, Coding!Swap
  <2> HIDE DEF d
  <2> QED BY <1>1, <1>2, <2>1, <2>2, <2>3
<1>9. CASE Coding!DetailAnswer(c)
  <2>1. c.run \in Coding!RunIds \cup {0}
    BY <1>0 DEF Asks
  <2>2. PageShape(page')
    BY <1>0, <1>9, <2>1 DEF PageShape, Coding!DetailAnswer
  <2>3. asks' = asks \ {c}
    BY <1>9 DEF Coding!DetailAnswer, Coding!Swap
  <2> QED BY <1>1, <2>2, <2>3
<1> QED BY <1>3, <1>4, <1>5, <1>6, <1>7, <1>8, <1>9

LEMMA CodingShapeKept ==
    PagesAssumption /\ CodingShape /\ (Coding!Next \/ UNCHANGED coding) => CodingShape'
BY PageCalls, PageChanges, CallsServed, RunsEnd, AnswersTaken DEF Coding!Next

-----------------------------------------------------------------------------
(* The types of the pages beside the chat. *)

Chosen == {Uploads[i] : i \in DOMAIN Uploads}
Filters == {"all", "model", "tool"}
Entry == Beside!Row \cup {Beside!Gone}
MemberList == [Members -> Entry]
Stages == {"sent", "policy", "list", "answer"}

\* What the handlers of each page have captured: a member who is saved, the form that was
\* sent for it, the files still to be stored, what is read, and the answers.
MemberWork == [job : {"load"}, who : {"none"}, form : Entry, stage : Stages, found : MemberList]
              \cup [job : {"save"}, who : Members, form : Beside!Row, stage : Stages, found : MemberList]
              \cup [job : {"delete"}, who : Members, form : Entry, stage : Stages, found : MemberList]
FileWork == [job : {"upload"}, left : Seq(Chosen) \ {<<>>}]
            \cup [job : {"load"}, of : {"none"}, stage : Stages, found : SUBSET Chosen]
            \cup [job : {"remove"}, of : Chosen, stage : Stages, found : SUBSET Chosen]
TraceWork == [job : {"load"}, of : Filters, stage : Stages, found : SUBSET Chosen]
             \cup [job : {"open"}, of : Spans, stage : Stages, found : SUBSET Chosen]
PageWork == CASE open = "admin" -> MemberWork [] open = "files" -> FileWork
              [] open = "traces" -> TraceWork

BesideShape ==
    /\ members \in MemberList /\ held \subseteq Chosen /\ open \in {"admin", "files", "traces"}
    /\ admin \in [list : MemberList, saving : Members \cup {"none"},
                  deleting : (Members \ {Self}) \cup {"none"},
                  feedback : [Members -> {"none", "success", "error"}]]
    /\ files \in [list : SUBSET Chosen, uploading : BOOLEAN]
    /\ traces \in [filter : Filters, shown : Filters \cup {"none"}, loading : BOOLEAN,
                   selected : Spans \cup {"none"}]
    /\ work \subseteq PageWork /\ thrown \in BOOLEAN
    /\ open # "admin" => \A m \in Members : admin.list[m] = Beside!Gone

LEMMA BesideShapeIsType == BesideShape => Beside!TypeOK
BY DEF BesideShape, Beside!TypeOK, MemberList, Entry, Chosen, Filters

LEMMA FirstLoadTyped ==
    ASSUME PagesAssumption, open \in {"admin", "files", "traces"}, traces.filter \in Filters
    PROVE  Beside!FirstLoad \in PageWork
BY DEF Beside!FirstLoad, PageWork, MemberWork, FileWork, TraceWork, Beside!Handler, Beside!Fetch,
       Beside!Nobody, MemberList, Entry, Stages, Filters

LEMMA BesideShapeInitially == PagesAssumption /\ Beside!Init => BesideShape
<1> SUFFICES ASSUME PagesAssumption, Beside!Init PROVE BesideShape
  OBVIOUS
<1>1. Head(Uploads) \in Chosen
  BY DEF PagesAssumption, ConstantsOK, Chosen
<1>2. Beside!FirstLoad \in PageWork
  BY FirstLoadTyped DEF Beside!Init, Filters
<1>3. Beside!Nobody \in MemberList /\ [m \in Members |-> <<"old", "old">>] \in MemberList
  BY DEF Beside!Nobody, MemberList, Entry, Beside!Row, Beside!Settings
<1>4. traces \in [filter : Filters, shown : Filters \cup {"none"}, loading : BOOLEAN,
                  selected : Spans \cup {"none"}]
  BY DEF Beside!Init, Filters
<1> QED BY <1>1, <1>2, <1>3, <1>4 DEF Beside!Init, Beside!Nobody, BesideShape

LEMMA PairChanged ==
    ASSUME NEW S, NEW T, NEW r \in S \X T, NEW x
    PROVE  [r EXCEPT ![1] = x] = <<x, r[2]>> /\ [r EXCEPT ![2] = x] = <<r[1], x>>
OBVIOUS

LEMMA HandlerTyped ==
    ASSUME NEW m \in Members
    PROVE  /\ Beside!Handler("delete", m) \in MemberWork
           /\ \A fields \in Beside!Row :
                 [Beside!Handler("save", m) EXCEPT !.form = fields] \in MemberWork
BY DEF Beside!Handler, Beside!Nobody, MemberWork, MemberList, Entry, Stages

LEMMA MembersAreApart ==
    ASSUME BesideShape, NEW m \in Members, admin.list[m] # Beside!Gone
    PROVE  open = "admin"
BY DEF BesideShape

\* Handlers begin.
LEMMA BesideShapeBegins ==
    ASSUME PagesAssumption, BesideShape,
           Beside!TokenRefreshed \/ Beside!ChooseFiles \/ Beside!CloseTrace \/ UNCHANGED beside
           \/ (\E f \in held \cup files.list : Beside!RemoveFile(f))
           \/ (\E filter \in {"all", "model", "tool"} : Beside!LoadTraces(filter))
           \/ (\E x \in Spans : Beside!OpenTrace(x))
           \/ (\E m \in Members : Beside!Remove(m)
                                  \/ \E fields \in Beside!Row : Beside!Save(m, fields))
    PROVE  BesideShape'
<1> USE DEF BesideShape, PageWork
<1>1. CASE Beside!TokenRefreshed
  <2>1. Beside!FirstLoad \in PageWork
    BY FirstLoadTyped
  <2> QED BY <1>1, <2>1 DEF Beside!TokenRefreshed, Beside!Begins, Beside!Backend
<1>2. CASE Beside!ChooseFiles
  <2>1. Beside!Upload(Uploads) \in FileWork
    BY DEF PagesAssumption, ConstantsOK, Chosen, Beside!Upload, FileWork
  <2> QED BY <1>2, <2>1 DEF Beside!ChooseFiles, Beside!Begins, Beside!Backend
<1>3. CASE Beside!CloseTrace \/ UNCHANGED beside
  BY <1>3 DEF Beside!CloseTrace, Beside!Backend, beside
<1>4. ASSUME NEW f \in held \cup files.list, Beside!RemoveFile(f) PROVE BesideShape'
  <2>1. Beside!Fetch("remove", f) \in FileWork
    BY DEF Beside!Fetch, FileWork, Stages
  <2> QED BY <1>4, <2>1 DEF Beside!RemoveFile, Beside!Begins, Beside!Backend
<1>5. ASSUME NEW filter \in Filters, Beside!LoadTraces(filter) PROVE BesideShape'
  <2>1. Beside!Fetch("load", filter) \in TraceWork
    BY DEF Beside!Fetch, TraceWork, Stages
  <2> QED BY <1>5, <2>1 DEF Beside!LoadTraces, Beside!Begins, Beside!Backend
<1>6. ASSUME NEW x \in Spans, Beside!OpenTrace(x) PROVE BesideShape'
  <2>1. Beside!Fetch("open", x) \in TraceWork
    BY DEF Beside!Fetch, TraceWork, Stages
  <2> QED BY <1>6, <2>1 DEF Beside!OpenTrace, Beside!Begins, Beside!Backend
<1>7. ASSUME NEW m \in Members, Beside!Remove(m) PROVE BesideShape'
  <2>1. open = "admin"
    BY <1>7, MembersAreApart DEF Beside!Remove, Beside!CanRemove
  <2>2. Beside!Handler("delete", m) \in MemberWork
    BY HandlerTyped
  <2> QED BY <1>7, <2>1, <2>2 DEF Beside!Remove, Beside!CanRemove, Beside!Begins, Beside!Backend
<1>8. ASSUME NEW m \in Members, NEW fields \in Beside!Row, Beside!Save(m, fields) PROVE BesideShape'
  <2> DEFINE w == [Beside!Handler("save", m) EXCEPT !.form = fields]
  <2>1. open = "admin"
    BY <1>8, MembersAreApart DEF Beside!Save, Beside!CanSave
  <2>2. w \in MemberWork
    BY HandlerTyped
  <2>3. /\ work' = work \cup {w} /\ UNCHANGED <<members, held, open, files, traces, thrown>>
        /\ admin' = [admin EXCEPT !.saving = m, !.feedback[m] = "none"]
    BY <1>8 DEF Beside!Save, Beside!Begins, Beside!Backend
  <2> HIDE DEF w
  <2> QED BY <2>1, <2>2, <2>3
<1> QED BY <1>1, <1>2, <1>3, <1>4, <1>5, <1>6, <1>7, <1>8 DEF Filters

\* The handlers of the page of members go on and end.
LEMMA MemberHandlers ==
    ASSUME BesideShape, NEW w \in work,
           Beside!PatchAccount(w) \/ Beside!PatchPolicy(w) \/ Beside!Saved(w)
           \/ Beside!SaveFails(w) \/ Beside!DeleteMember(w) \/ Beside!ReadMembers(w)
           \/ Beside!Listed(w) \/ Beside!ListFails(w)
    PROVE  BesideShape'
<1> USE DEF BesideShape
<1>0. open' = open /\ UNCHANGED <<held, files, traces, thrown>> /\ PageWork' = PageWork
  BY DEF PageWork, Beside!PatchAccount, Beside!PatchPolicy, Beside!Saved, Beside!SaveFails,
         Beside!DeleteMember, Beside!ReadMembers, Beside!Listed, Beside!ListFails, Beside!Backend
<1>1. /\ open = "admin" /\ PageWork = MemberWork /\ w \in MemberWork
  BY DEF PageWork, MemberWork, FileWork, TraceWork, Beside!PatchAccount, Beside!PatchPolicy,
         Beside!Saved, Beside!SaveFails, Beside!DeleteMember, Beside!ReadMembers, Beside!Listed,
         Beside!ListFails
<1>2. /\ w.found \in MemberList /\ w.form \in Entry
      /\ w.job \in {"save", "delete"} => w.who \in Members
      /\ w.job = "save" => w.form \in Beside!Row
  BY <1>1 DEF MemberWork, Entry
<1>3. CASE Beside!PatchAccount(w)
  <2> DEFINE x == [w EXCEPT !.stage = "policy"]
  <2>1. x \in MemberWork
    BY <1>1 DEF MemberWork, Stages
  <2>2. members' = [members EXCEPT ![w.who] = <<w.form[1], members[w.who][2]>>]
    <3>1. members[w.who] \in Beside!Row
      BY <1>2, <1>3 DEF Beside!PatchAccount, MemberList, Entry
    <3>2. members' = [members EXCEPT ![w.who] = [members[w.who] EXCEPT ![1] = w.form[1]]]
      BY <1>3 DEF Beside!PatchAccount
    <3>3. [members[w.who] EXCEPT ![1] = w.form[1]] = <<w.form[1], members[w.who][2]>>
      BY <3>1, PairChanged DEF Beside!Row
    <3> QED BY <3>2, <3>3
  <2>3. members' \in MemberList
    BY <1>2, <1>3, <2>2 DEF Beside!PatchAccount, MemberList, Entry, Beside!Row
  <2>4. work' = (work \ {w}) \cup {x} /\ admin' = admin
    BY <1>3 DEF Beside!PatchAccount, Beside!GoesOn
  <2> HIDE DEF x
  <2> QED BY <1>0, <1>1, <2>1, <2>3, <2>4
<1>4. CASE Beside!PatchPolicy(w)
  <2> DEFINE x == [w EXCEPT !.stage = "answer", !.found[w.who] = members'[w.who]]
  <2>2. members' = [members EXCEPT ![w.who] = <<members[w.who][1], w.form[2]>>]
    <3>1. members[w.who] \in Beside!Row
      BY <1>2, <1>4 DEF Beside!PatchPolicy, MemberList, Entry
    <3>2. members' = [members EXCEPT ![w.who] = [members[w.who] EXCEPT ![2] = w.form[2]]]
      BY <1>4 DEF Beside!PatchPolicy
    <3>3. [members[w.who] EXCEPT ![2] = w.form[2]] = <<members[w.who][1], w.form[2]>>
      BY <3>1, PairChanged DEF Beside!Row
    <3> QED BY <3>2, <3>3
  <2>3. members' \in MemberList /\ members'[w.who] \in Entry
    BY <1>2, <1>4, <2>2 DEF Beside!PatchPolicy, MemberList, Entry, Beside!Row
  <2>1. x \in MemberWork
    <3>1. [w.found EXCEPT ![w.who] = members'[w.who]] \in MemberList
      BY <1>2, <2>3 DEF MemberList
    <3> QED BY <1>1, <1>4, <3>1 DEF MemberWork, Stages
  <2>4. work' = (work \ {w}) \cup {x} /\ admin' = admin
    BY <1>4 DEF Beside!PatchPolicy, Beside!GoesOn
  <2> HIDE DEF x
  <2> QED BY <1>0, <1>1, <2>1, <2>3, <2>4
<1>5. CASE Beside!Saved(w)
  <2>1. /\ members' = members /\ work' = work \ {w} /\ w.who \in Members
        /\ admin' = [admin EXCEPT !.saving = "none", !.feedback[w.who] = "success",
              !.list[w.who] = IF admin.list[w.who] = Beside!Gone THEN Beside!Gone ELSE w.found[w.who]]
    BY <1>2, <1>5 DEF Beside!Saved, Beside!Ends, Beside!Backend
  <2> QED BY <1>0, <1>1, <1>2, <2>1 DEF MemberList, Entry
<1>6. CASE Beside!SaveFails(w)
  BY <1>0, <1>1, <1>2, <1>6 DEF Beside!SaveFails, Beside!Ends, Beside!Backend
<1>7. CASE Beside!DeleteMember(w)
  <2> DEFINE x == [w EXCEPT !.stage = "list"]
  <2>1. x \in MemberWork
    BY <1>1 DEF MemberWork, Stages
  <2>2. members' \in MemberList
    BY <1>2, <1>7 DEF Beside!DeleteMember, MemberList, Entry
  <2>3. work' = (work \ {w}) \cup {x} /\ admin' = admin
    BY <1>7 DEF Beside!DeleteMember, Beside!GoesOn
  <2> HIDE DEF x
  <2> QED BY <1>0, <1>1, <2>1, <2>2, <2>3
<1>8. CASE Beside!ReadMembers(w)
  <2> DEFINE x == [w EXCEPT !.stage = "answer", !.found = members]
  <2>1. x \in MemberWork
    BY <1>1 DEF MemberWork, Stages
  <2>2. work' = (work \ {w}) \cup {x} /\ admin' = admin /\ members' = members
    BY <1>8 DEF Beside!ReadMembers, Beside!GoesOn, Beside!Backend
  <2> HIDE DEF x
  <2> QED BY <1>0, <1>1, <2>1, <2>2
<1>9. CASE Beside!Listed(w) \/ Beside!ListFails(w)
  <2>1. /\ members' = members /\ work' = work \ {w} /\ DOMAIN admin' = DOMAIN admin
        /\ UNCHANGED <<admin.saving, admin.feedback>>
        /\ admin'.list \in {admin.list, w.found} /\ admin'.deleting \in {admin.deleting, "none"}
        /\ admin' = [list |-> admin'.list, saving |-> admin.saving, deleting |-> admin'.deleting,
                     feedback |-> admin.feedback]
    BY <1>9 DEF Beside!Listed, Beside!ListFails, Beside!Ends, Beside!Backend
  <2> QED BY <1>0, <1>1, <1>2, <2>1
<1> QED BY <1>3, <1>4, <1>5, <1>6, <1>7, <1>8, <1>9

\* The handlers of the pages of files and of traces go on and end.
LEMMA ReadingHandlers ==
    ASSUME PagesAssumption, BesideShape, NEW w \in work,
           Beside!FileAnswered(w) \/ Beside!FileRemoved(w) \/ Beside!ReadFiles(w)
           \/ Beside!FilesListed(w) \/ Beside!TracesListed(w) \/ Beside!TraceOpened(w)
           \/ Beside!Throws(w)
    PROVE  BesideShape'
<1> USE DEF BesideShape
<1>0. UNCHANGED <<members, open, admin>> /\ PageWork' = PageWork
  BY DEF PageWork, Beside!FileAnswered, Beside!FileRemoved, Beside!ReadFiles, Beside!FilesListed,
         Beside!TracesListed, Beside!TraceOpened, Beside!Throws, Beside!Backend
<1>1. Beside!FirstLoad \in PageWork
  BY FirstLoadTyped
<1>2. CASE Beside!FileAnswered(w)
  <2>1. w \in FileWork /\ PageWork = FileWork
    BY <1>2 DEF Beside!FileAnswered, PageWork, MemberWork, FileWork, TraceWork
  <2>2. w.left \in Seq(Chosen) \ {<<>>}
    BY <1>2, <2>1 DEF Beside!FileAnswered, FileWork
  <2>3. Head(w.left) \in Chosen
    BY <2>2
  <2>4. Len(w.left) > 1 => Beside!Upload(Tail(w.left)) \in FileWork
    <3> SUFFICES ASSUME Len(w.left) > 1 PROVE Tail(w.left) \in Seq(Chosen) \ {<<>>}
      BY DEF FileWork, Beside!Upload
    <3>1. Tail(w.left) \in Seq(Chosen) /\ Len(Tail(w.left)) = Len(w.left) - 1
      BY <2>2
    <3>2. Len(w.left) \in Nat
      BY <2>2
    <3>3. Len(Tail(w.left)) # 0
      <4> DEFINE n == Len(w.left)
                 k == Len(Tail(w.left))
      <4>1. n \in Nat /\ n > 1 /\ k = n - 1
        BY <3>1, <3>2
      <4> HIDE DEF n, k
      <4>2. k # 0
        BY <4>1
      <4> QED BY <4>2 DEF k
    <3>4. Len(<<>>) = 0
      OBVIOUS
    <3> QED BY <3>1, <3>3, <3>4
  <2>5. held' \subseteq Chosen
    BY <1>2, <2>3 DEF Beside!FileAnswered
  <2>6. work' \subseteq PageWork
    BY <1>1, <1>2, <2>1, <2>4 DEF Beside!FileAnswered, Beside!GoesOn
  <2> QED BY <1>0, <1>2, <2>5, <2>6 DEF Beside!FileAnswered
<1>3. CASE Beside!FileRemoved(w)
  BY <1>0, <1>1, <1>3 DEF Beside!FileRemoved, Beside!GoesOn
<1>4. CASE Beside!ReadFiles(w)
  <2> DEFINE x == [w EXCEPT !.stage = "answer", !.found = held]
  <2>1. x \in PageWork
    <3> DEFINE L == [job : {"load"}, of : {"none"}, stage : Stages, found : SUBSET Chosen]
    <3>1. w \in L /\ PageWork = FileWork
      BY <1>4 DEF Beside!ReadFiles, PageWork, FileWork
    <3>2. x \in L
      BY <3>1 DEF Stages
    <3> QED BY <3>1, <3>2 DEF FileWork
  <2>2. work' = (work \ {w}) \cup {x} /\ UNCHANGED <<held, files, traces, thrown>>
    BY <1>4 DEF Beside!ReadFiles, Beside!GoesOn, Beside!Backend
  <2> HIDE DEF x
  <2> QED BY <1>0, <2>1, <2>2
<1>5. CASE Beside!FilesListed(w)
  <2>1. w.found \subseteq Chosen
    BY <1>5 DEF Beside!FilesListed, PageWork, FileWork
  <2> QED BY <1>0, <1>5, <2>1 DEF Beside!FilesListed, Beside!Ends, Beside!Backend
<1>6. CASE Beside!TracesListed(w)
  <2>1. w.of \in Filters
    BY <1>6 DEF Beside!TracesListed, PageWork, TraceWork
  <2> QED BY <1>0, <1>6, <2>1 DEF Beside!TracesListed, Beside!Ends, Beside!Backend
<1>7. CASE Beside!TraceOpened(w)
  <2>1. w.of \in Spans
    BY <1>7 DEF Beside!TraceOpened, PageWork, MemberWork, FileWork, TraceWork
  <2> QED BY <1>0, <1>7, <2>1 DEF Beside!TraceOpened, Beside!Ends, Beside!Backend
<1>8. CASE Beside!Throws(w)
  BY <1>0, <1>8 DEF Beside!Throws, Beside!Ends, Beside!Backend
<1> QED BY <1>2, <1>3, <1>4, <1>5, <1>6, <1>7, <1>8

LEMMA BesideShapeKept ==
    PagesAssumption /\ BesideShape /\ (Beside!Next \/ UNCHANGED beside) => BesideShape'
BY BesideShapeBegins, MemberHandlers, ReadingHandlers DEF Beside!Next

-----------------------------------------------------------------------------
(* All parts. *)

Marks ==
    /\ part = "inbox" => InboxMarks
    /\ part = "threads" => ListMarks
    /\ part = "coding" => CodingMarks
    /\ part = "beside" => BesideMarks

LEMMA MarksInitially == Init => Marks
BY InboxInitially, ListInitially, CodingInitially, BesideInitially DEF Init, Marks

LEMMA MarksKept == PagesAssumption /\ Kept /\ Marks /\ [Next]_vars => Marks'
<1> SUFFICES ASSUME PagesAssumption, Kept, Marks, [Next]_vars PROVE Marks'
  OBVIOUS
<1>1. part' = part
  BY DEF Next, vars, InboxStep, AccountsStep, ListStep, CodingStep, BoxStep, ChatStep, BesideStep
<1>2. part = "inbox" => Inbox!Next \/ UNCHANGED inbox
  BY DEF Next, vars, InboxStep, AccountsStep, ListStep, CodingStep, BoxStep, ChatStep, BesideStep
<1>3. part = "threads" => List!Next \/ UNCHANGED threads
  BY DEF Next, vars, InboxStep, AccountsStep, ListStep, CodingStep, BoxStep, ChatStep, BesideStep
<1>4. part = "coding" => Coding!Next \/ UNCHANGED coding
  BY DEF Next, vars, InboxStep, AccountsStep, ListStep, CodingStep, BoxStep, ChatStep, BesideStep
<1>5. part = "beside" => Beside!Next \/ UNCHANGED beside
  BY DEF Next, vars, InboxStep, AccountsStep, ListStep, CodingStep, BoxStep, ChatStep, BesideStep
<1> QED
  BY <1>1, <1>2, <1>3, <1>4, <1>5, InboxKept, ListKept, CodingKept, BesideKept DEF Marks, Kept

LEMMA KeptAlong == PagesAssumption /\ Kept /\ [Next]_vars => Kept'
BY KeptOn

\* Whatever fails, is lost or is overtaken, nothing is shown as busy, and disabled for it,
\* without work whose end will release it.
THEOREM NothingRemainsBusy == Spec => []NothingStaysBusy
<1>1. Marks => NothingStaysBusy
  BY MarksExplain DEF Marks, ListMarks, CodingMarks, BesideMarks, NothingStaysBusy,
         Chains, Coding!BusyIsWork, Coding!InFlight, Submission, Removal, Import
<1> QED
  BY <1>1, PagesAssumption, MarksInitially, MarksKept, KeptInitially, KeptAlong, PTL DEF Spec

\* However loads, deletions and reloads overlap, and although the agent server may keep
\* the threads, a conversation deleted before a reload is not on display after it.
THEOREM BuriedRemainHidden == Spec => []BuriedStayHidden
<1>1. Marks => BuriedStayHidden
  BY DEF Marks, ListMarks, Tombs, BuriedStayHidden
<1> QED
  BY <1>1, PagesAssumption, MarksInitially, MarksKept, KeptInitially, KeptAlong, PTL DEF Spec

\* The page deletes no copy that a run it has begun still reads, unless it has been told
\* that the run, or the deletion, had failed: submission and deletion are never under way together.
THEOREM RunningCopyIsKept == Spec => CopyKeptWhileRunning
<1>1. Marks /\ [Next]_vars => [part = "coding" => Coding!KeepsCopies]_vars
  <2> SUFFICES ASSUME Marks, Next, part = "coding" PROVE Coding!KeepsCopies
    BY DEF vars
  <2> QED BY CopiesKept DEF Marks, Next, InboxStep, AccountsStep, ListStep, CodingStep,
             BoxStep, ChatStep, BesideStep
<1> QED
  BY <1>1, PagesAssumption, MarksInitially, MarksKept, KeptInitially, KeptAlong, PTL
     DEF Spec, CopyKeptWhileRunning

-----------------------------------------------------------------------------
(* The types of all parts. *)

\* The types are kept together with what they depend on: the requests that are left, the
\* one call of a start, the members and files a handler has captured.
Shapes ==
    /\ part = "inbox" => InboxShape
    /\ part = "accounts" => AccountsShape
    /\ part = "coding" => CodingShape
    /\ part = "beside" => BesideShape

LEMMA ShapesInitially == PagesAssumption /\ BoundsAssumption /\ Init => Shapes
<1> SUFFICES ASSUME PagesAssumption, BoundsAssumption, Init PROVE Shapes
  OBVIOUS
<1>1. part = "inbox" => Inbox!Init
  BY DEF Init
<1>2. part = "accounts" => Accounts!Init
  BY DEF Init
<1>3. part = "coding" => Coding!Init
  BY DEF Init
<1>4. part = "beside" => Beside!Init
  BY DEF Init
<1> QED
  BY <1>1, <1>2, <1>3, <1>4, InboxShapeInitially, AccountsShapeInitially,
     CodingShapeInitially, BesideShapeInitially DEF Shapes

LEMMA ShapesKept ==
    PagesAssumption /\ BoundsAssumption /\ Kept /\ Shapes /\ [Next]_vars => Shapes'
<1> SUFFICES ASSUME PagesAssumption, BoundsAssumption, Kept, Shapes, [Next]_vars PROVE Shapes'
  OBVIOUS
<1>1. part' = part
  BY DEF Next, vars, InboxStep, AccountsStep, ListStep, CodingStep, BoxStep, ChatStep, BesideStep
<1>2. part = "inbox" => Inbox!Next \/ UNCHANGED <<inbox, events>>
  BY DEF Next, vars, InboxStep, AccountsStep, ListStep, CodingStep, BoxStep, ChatStep, BesideStep
<1>3. part = "accounts" => Accounts!Next \/ UNCHANGED <<accounts, events>>
  BY DEF Next, vars, InboxStep, AccountsStep, ListStep, CodingStep, BoxStep, ChatStep, BesideStep
<1>4. part = "coding" => Coding!Next \/ UNCHANGED coding
  BY DEF Next, vars, InboxStep, AccountsStep, ListStep, CodingStep, BoxStep, ChatStep, BesideStep
<1>5. part = "beside" => Beside!Next \/ UNCHANGED beside
  BY DEF Next, vars, InboxStep, AccountsStep, ListStep, CodingStep, BoxStep, ChatStep, BesideStep
<1> QED
  BY <1>1, <1>2, <1>3, <1>4, <1>5, InboxShapeKept, AccountsShapeKept, CodingShapeKept,
     BesideShapeKept DEF Shapes, Kept

LEMMA ChatIsTyped == ChatInv => Chat!TypeOK
<1> SUFFICES ASSUME ChatInv PROVE Chat!TypeOK
  OBVIOUS
<1>1. \A i \in DOMAIN msgs : msgs[i] \in Message /\ msgs[i].turn < i
  BY DEF ChatInv, WellFormed
<1>2. \A i \in DOMAIN msgs : /\ msgs[i].type \in {"human", "ai", "tool"}
                            /\ msgs[i].tools \subseteq Tools /\ msgs[i].turn < i
  BY <1>1 DEF Message
<1> QED BY <1>2 DEF ChatInv, ChatTypes, Views, Chat!TypeOK

\* Every part keeps its types and its valid choices: the action on display is one of the
\* pause, the active account is one of the tab's, the model is one of the list, a page
\* edits a row it shows, whatever order its calls are answered in.
THEOREM TypesAreKept == Spec => []TypeOK
<1>1. BoundsAssumption /\ Shapes /\ Marks /\ Kept => TypeOK
  <2> SUFFICES ASSUME BoundsAssumption, Shapes, Marks, Kept PROVE TypeOK
    OBVIOUS
  <2>1. part = "inbox" => Inbox!TypeOK
    BY InboxShapeIsType DEF Shapes, Kept
  <2>2. part = "accounts" => Accounts!TypeOK
    BY AccountsShapeIsType DEF Shapes
  <2>3. part = "threads" => List!TypeOK
    BY DEF Marks, ListMarks, Tombs
  <2>4. part = "coding" => Coding!TypeOK
    BY CodingShapeIsType DEF Shapes
  <2>5. part = "composer" => Box!TypeOK
    BY DEF Kept, BoxInv, BoxTypes
  <2>6. part = "transcript" => Chat!TypeOK
    BY ChatIsTyped DEF Kept
  <2>7. part = "beside" => Beside!TypeOK
    BY BesideShapeIsType DEF Shapes
  <2> QED BY <2>1, <2>2, <2>3, <2>4, <2>5, <2>6, <2>7 DEF TypeOK
<1> QED
  BY <1>1, PagesAssumption, BoundsAssumption, ShapesInitially, ShapesKept, MarksInitially,
     MarksKept, KeptInitially, KeptAlong, PTL DEF Spec
===============================================================================
