--------------------------------- MODULE Pages ---------------------------------
(***************************************************************************)
(* The parts of the browser that keep a state of their own while the       *)
(* backend and the agent server work: the approval of tool calls, the      *)
(* accounts, the list of conversations, the page of the coding agent, the  *)
(* message box, the messages and the pages beside the chat.  They are      *)
(* mounted in different pages and panes and share no state but what their  *)
(* external actions stand for, so a behaviour of this module follows one   *)
(* of them, `part`, and the variables of the others are empty.  What is to *)
(* hold of every part is stated here once for all of them.                 *)
(***************************************************************************)
EXTENDS Naturals, Sequences, FiniteSets

CONSTANTS
    Requests, AutoTools,            \* ApprovalInbox
    Tabs, Users, Stores, Opened,    \* BrowserAccounts
    Threads,                        \* ThreadList and Composer
    Mounted, Imports, Current, Folders,     \* CodingPage
    Models, Vision, Lists, Picks,   \* Composer; Models also CodingPage
    Tools, Gated, Errors,           \* Transcript
    Members, Self, Uploads, Spans,  \* AccountPages
    Bound                           \* the bounds of the parts, by part and name

\* What the sources guarantee of the constants; "none" and "root" are no names.
ConstantsOK ==
    /\ \A q \in Requests :
          /\ DOMAIN q.tools = 1..Len(q.tools) /\ Len(q.tools) \in Nat \ {0}
          /\ DOMAIN q.configs = DOMAIN q.tools
          \* the config of a call is that of its tool (interrupt_on of the agent)
          /\ \A i, k \in DOMAIN q.configs : q.configs[i].name = q.configs[k].name
                                            => q.configs[i].allowed = q.configs[k].allowed
    /\ \A s \in Stores :
          /\ Len(s) \in Nat /\ DOMAIN s = 1..Len(s)
          /\ \A i, j \in DOMAIN s : s[i] \in Users /\ (s[i] = s[j] => i = j)
    /\ Mounted \cap Imports = {}
    /\ {"none", "root"} \cap (Users \cup Threads \cup Mounted \cup Imports \cup Models) = {}
    /\ Vision \subseteq Models /\ Current \in Models
    /\ Gated \subseteq Tools /\ IsFiniteSet(Tools)
    /\ \A l \in Lists : l.models \subseteq Models /\ l.current \in l.models
    /\ Self \in Members /\ "none" \notin Members \cup Spans
    /\ Uploads \in Seq({Uploads[i] : i \in DOMAIN Uploads}) \ {<<>>}

ASSUME PagesAssumption == ConstantsOK

\* The bounds are numbers; with several tabs less may happen than with one.
BoundsOK ==
    /\ Bound.inbox.pauses \in Nat \ {0}
    /\ {Bound.inbox.retries, Bound.inbox.events, Bound.accounts.events,
        Bound.coding.runs} \subseteq Nat
    /\ Bound.accounts.shared \in 0..Bound.accounts.events

ASSUME BoundsAssumption == BoundsOK

VARIABLES
    part,       \* the part this behaviour is about
    events,     \* how much of the part's bound on events is used
    pause, taken, view, flight, prefs,                              \* inbox
    server, storage, tab, calls, ended,                             \* accounts
    graph, rows, stored, list, form, url, loads, jobs, buried,      \* threads
    copies, runs, page, asks, lost,                                 \* coding
    models, chat, box, ran, reads, asked, picked, knowledge, sent,  \* composer
    msgs, stop, run, error, told, shown, editing, turns,            \* transcript
    members, held, open, admin, files, traces, work, thrown         \* beside

Inbox == INSTANCE ApprovalInbox WITH
    MaxPauses <- Bound.inbox.pauses, MaxRetries <- Bound.inbox.retries,
    MaxEvents <- Bound.inbox.events
Accounts == INSTANCE BrowserAccounts WITH
    MaxCalls <- Bound.accounts.calls, MaxEvents <- Bound.accounts.events,
    MaxShared <- Bound.accounts.shared
List == INSTANCE ThreadList WITH
    MaxLoads <- Bound.threads.loads, MaxJobs <- Bound.threads.jobs,
    MaxEvents <- Bound.threads.events
Coding == INSTANCE CodingPage WITH
    calls <- asks, MaxRuns <- Bound.coding.runs, MaxCalls <- Bound.coding.calls,
    MaxEvents <- Bound.coding.events
Box == INSTANCE Composer WITH
    page <- chat, MaxReads <- Bound.composer.reads, MaxSends <- Bound.composer.sends,
    MaxEvents <- Bound.composer.events
Chat == INSTANCE Transcript WITH
    pause <- stop, view <- shown, sent <- turns,
    MaxMessages <- Bound.transcript.messages, MaxEvents <- Bound.transcript.events
Beside == INSTANCE AccountPages WITH
    rows <- members, MaxWork <- Bound.beside.work, MaxEvents <- Bound.beside.events

inbox == <<pause, taken, view, flight, prefs>>
accounts == <<server, storage, tab, calls, ended>>
threads == <<graph, rows, stored, list, form, url, loads, jobs, buried>>
coding == <<copies, runs, page, asks, lost>>
composer == <<models, chat, box, ran, reads, asked, picked, knowledge, sent>>
transcript == <<msgs, stop, run, error, told, shown, editing, turns>>
beside == <<members, held, open, admin, files, traces, work, thrown>>
vars == <<part, events, inbox, accounts, threads, coding, composer, transcript, beside>>

-----------------------------------------------------------------------------
NoInbox == pause = 0 /\ taken = 0 /\ view = 0 /\ flight = 0 /\ prefs = 0
NoAccounts == server = 0 /\ storage = 0 /\ tab = 0 /\ calls = 0 /\ ended = 0
NoThreads == /\ graph = 0 /\ rows = 0 /\ stored = 0 /\ list = 0 /\ form = 0 /\ url = 0
             /\ loads = 0 /\ jobs = 0 /\ buried = 0
NoCoding == copies = 0 /\ runs = 0 /\ page = 0 /\ asks = 0 /\ lost = 0
NoComposer == /\ models = 0 /\ chat = 0 /\ box = 0 /\ ran = 0 /\ reads = 0 /\ asked = 0
              /\ picked = 0 /\ knowledge = 0 /\ sent = 0
NoTranscript == /\ msgs = 0 /\ stop = 0 /\ run = 0 /\ error = 0 /\ told = 0 /\ shown = 0
                /\ editing = 0 /\ turns = 0
NoBeside == /\ members = 0 /\ held = 0 /\ open = 0 /\ admin = 0 /\ files = 0 /\ traces = 0
            /\ work = 0 /\ thrown = 0

Init ==
    \/ /\ part = "inbox" /\ Inbox!Init
       /\ NoAccounts /\ NoThreads /\ NoCoding /\ NoComposer /\ NoTranscript /\ NoBeside
    \/ /\ part = "accounts" /\ Accounts!Init
       /\ NoInbox /\ NoThreads /\ NoCoding /\ NoComposer /\ NoTranscript /\ NoBeside
    \/ /\ part = "threads" /\ List!Init
       /\ NoInbox /\ NoAccounts /\ NoCoding /\ NoComposer /\ NoTranscript /\ NoBeside
    \/ /\ part = "coding" /\ Coding!Init
       /\ NoInbox /\ NoAccounts /\ NoThreads /\ NoComposer /\ NoTranscript /\ NoBeside
    \/ /\ part = "composer" /\ Box!Init
       /\ NoInbox /\ NoAccounts /\ NoThreads /\ NoCoding /\ NoTranscript /\ NoBeside
    \/ /\ part = "transcript" /\ Chat!Init
       /\ NoInbox /\ NoAccounts /\ NoThreads /\ NoCoding /\ NoComposer /\ NoBeside
    \/ /\ part = "beside" /\ Beside!Init
       /\ NoInbox /\ NoAccounts /\ NoThreads /\ NoCoding /\ NoComposer /\ NoTranscript

InboxStep == /\ part = "inbox" /\ Inbox!Next
             /\ UNCHANGED <<part, accounts, threads, coding, composer, transcript, beside>>
AccountsStep == /\ part = "accounts" /\ Accounts!Next
                /\ UNCHANGED <<part, inbox, threads, coding, composer, transcript, beside>>
ListStep == /\ part = "threads" /\ List!Next
            /\ UNCHANGED <<part, inbox, accounts, coding, composer, transcript, beside>>
CodingStep == /\ part = "coding" /\ Coding!Next
              /\ UNCHANGED <<part, inbox, accounts, threads, composer, transcript, beside>>
BoxStep == /\ part = "composer" /\ Box!Next
           /\ UNCHANGED <<part, inbox, accounts, threads, coding, transcript, beside>>
ChatStep == /\ part = "transcript" /\ Chat!Next
            /\ UNCHANGED <<part, inbox, accounts, threads, coding, composer, beside>>
BesideStep == /\ part = "beside" /\ Beside!Next
              /\ UNCHANGED <<part, inbox, accounts, threads, coding, composer, transcript>>

Next == InboxStep \/ AccountsStep \/ ListStep \/ CodingStep \/ BoxStep \/ ChatStep
        \/ BesideStep

Spec == Init /\ [][Next]_vars

-----------------------------------------------------------------------------
(* What is to hold. *)

\* The types of every part, with the choices that must stay valid in them.
TypeOK ==
    /\ part = "inbox" => Inbox!TypeOK
    /\ part = "accounts" => Accounts!TypeOK
    /\ part = "threads" => List!TypeOK
    /\ part = "coding" => Coding!TypeOK
    /\ part = "composer" => Box!TypeOK
    /\ part = "transcript" => Chat!TypeOK
    /\ part = "beside" => Beside!TypeOK

\* Nothing is shown as busy, and disabled for it, without work that will end it: not in
\* the inbox, the list of conversations, the page of the coding agent or the pages beside the
\* chat, whichever call fails, is lost or is overtaken by another.
NothingStaysBusy ==
    /\ part = "inbox" => Inbox!BusyIsExplained
    /\ part = "threads" => List!MarksEnd
    /\ part = "coding" => Coding!BusyIsWork
    /\ part = "beside" => Beside!BusyIsWork

\* The decisions a run goes on with are of the types its pause allows, and a call is run
\* with the arguments that were on display when it was decided (buildDecisionFromState).
DecidedAsSeen == part = "inbox" => Inbox!AllowedOnly /\ Inbox!SeenIsRun

\* A pause is answered with decisions that were made at this pause, not at one before it
\* (use-interrupted-actions.tsx, the retries of thread-actions-view.tsx).
DecidedHere == part = "inbox" => Inbox!DecidedHere

\* Whatever other tabs do, a tab never makes the browser forget an account it knows of, nor
\* brings back one that has left it, but while its page is being left (Auth.tsx).
KnownAccountsKept == [][part = "accounts" => Accounts!KeepsKnownAccounts]_vars

\* A conversation deleted before the page was loaded is not seen again (Thread.tsx).
BuriedStayHidden == part = "threads" => List!BuriedStayHidden

\* A copy is not deleted under a run of the page that reads it (coding-agent/page.tsx).
CopyKeptWhileRunning == [][part = "coding" => Coding!KeepsCopies]_vars

\* Once the effects have run, the box of a model without images holds none, whatever is still
\* being read (use-file-upload.tsx).
BoxFitsModel == part = "composer" => Box!BoxFitsModel

\* A message holds only files that were added for it (use-file-upload.tsx).
SentWhereAdded == part = "composer" => Box!SentWhereAdded

\* A pause that waits is shown at exactly one place (ai.tsx, message-list.tsx).
PauseIsShownOnce == part = "transcript" => Chat!PauseIsShownOnce

\* No message is sent after calls that have no result at all (ensure-tool-responses.ts).
TurnsAnswered == part = "transcript" => Chat!TurnsAnswered

\* A run that is awaited is seen to be, and what it came to is seen in the end
\* (use-thread-message-state.ts, message-list.tsx, ai.tsx).
RunIsSeen == part = "transcript" => Chat!AwaitedIsShown /\ Chat!OutcomeIsSeen
=============================================================================
