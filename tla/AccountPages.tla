----------------------------- MODULE AccountPages -----------------------------
(***************************************************************************)
(* The pages beside the chat: the administration of members, the stored    *)
(* files and the traces (src/frontend/src/app/admin, files and traces).    *)
(* Each shows a list it has read from the backend and begins handlers,     *)
(* which wait for answers while others begin; one of the pages is open.    *)
(***************************************************************************)
EXTENDS Naturals, Sequences, FiniteSets

CONSTANTS
    Members, Self,      \* the accounts of the backend, and the one signed in
    Uploads,            \* the files of one choice, in their order
    Spans,              \* the traces on record
    MaxWork,            \* bound: handlers in flight
    MaxEvents           \* bound: what the user, the network and a token refresh do

VARIABLES
    rows, held,     \* backend: the members with their settings, the stored files
    open,           \* the page that is open
    admin, files, traces,   \* the state of the pages
    work,           \* the handlers in flight; two at the same point with the same
                    \* answer stand for one
    thrown,         \* history: a handler without a catch was ended by an exception
    events

vars == <<rows, held, open, admin, files, traces, work, thrown, events>>
Backend == <<rows, held>>

Counted == events < MaxEvents /\ events' = events + 1

Settings == {"old", "new"}
Gone == <<"gone", "gone">>              \* a member that is not there
Row == Settings \X Settings             \* account (role, is_active), policy (the rest)
Nobody == [m \in Members |-> Gone]

Handler(job, who) == [job |-> job, who |-> who, form |-> Gone, stage |-> "sent", found |-> Nobody]
Upload(left) == [job |-> "upload", left |-> left]
Fetch(job, of) == [job |-> job, of |-> of, stage |-> "sent", found |-> {}]

Begins(w) == Cardinality(work) < MaxWork /\ w \notin work /\ work' = work \cup {w}
GoesOn(w, x) == work' = (work \ {w}) \cup {x}
Ends(w) == work' = work \ {w}

\* What `load` of the open page begins with.
FirstLoad == CASE open = "admin" -> Handler("load", "none")
               [] open = "files" -> Fetch("load", "none")
               [] open = "traces" -> Fetch("load", traces.filter)

Init ==
    /\ rows = [m \in Members |-> <<"old", "old">>] /\ held = {Head(Uploads)}
    /\ open \in {"admin", "files", "traces"}
    /\ admin = [list |-> Nobody, saving |-> "none", deleting |-> "none",
                feedback |-> [m \in Members |-> "none"]]
    /\ files = [list |-> {}, uploading |-> FALSE]
    /\ traces = [filter |-> "all", shown |-> "none", loading |-> (open = "traces"),
                 selected |-> "none"]
    /\ work = {FirstLoad} /\ thrown = FALSE /\ events = 0

\* A token refresh makes a new authFetch, hence a new `load`, which the effect calls.
TokenRefreshed ==
    /\ Counted /\ Begins(FirstLoad)
    /\ traces' = [traces EXCEPT !.loading = (open = "traces")]
    /\ UNCHANGED <<Backend, open, admin, files, thrown>>

-----------------------------------------------------------------------------
(* The members. *)

\* The buttons of a member; none to remove the own account.
CanSave(m) == admin.list[m] # Gone /\ admin.saving # m
CanRemove(m) == admin.list[m] # Gone /\ m \notin {Self, admin.saving, admin.deleting}

\* The form of a member is sent, first its account and then its policy.
Save(m, form) ==
    /\ Counted /\ CanSave(m)
    /\ Begins([Handler("save", m) EXCEPT !.form = form])
    /\ admin' = [admin EXCEPT !.saving = m, !.feedback[m] = "none"]
    /\ UNCHANGED <<Backend, open, files, traces, thrown>>

PatchAccount(w) ==
    /\ w.job = "save" /\ w.stage = "sent" /\ rows[w.who] # Gone
    /\ rows' = [rows EXCEPT ![w.who][1] = w.form[1]]
    /\ GoesOn(w, [w EXCEPT !.stage = "policy"])
    /\ UNCHANGED <<held, open, admin, files, traces, thrown, events>>

PatchPolicy(w) ==
    /\ w.job = "save" /\ w.stage = "policy" /\ rows[w.who] # Gone
    /\ rows' = [rows EXCEPT ![w.who][2] = w.form[2]]
    /\ GoesOn(w, [w EXCEPT !.stage = "answer", !.found[w.who] = rows'[w.who]])
    /\ UNCHANGED <<held, open, admin, files, traces, thrown, events>>

\* Both are stored: the row shows the answer, if it is still listed.
Saved(w) ==
    /\ w.job = "save" /\ w.stage = "answer" /\ Ends(w)
    /\ admin' = [admin EXCEPT !.saving = "none", !.feedback[w.who] = "success",
                   !.list[w.who] = IF @ = Gone THEN Gone ELSE w.found[w.who]]
    /\ UNCHANGED <<Backend, open, files, traces, thrown, events>>

\* A request is refused, or its answer lost: what was stored before it stays.
SaveFails(w) ==
    /\ w.job = "save"
    /\ Counted \/ (w.stage # "answer" /\ rows[w.who] = Gone /\ UNCHANGED events)
    /\ Ends(w)
    /\ admin' = [admin EXCEPT !.saving = "none", !.feedback[w.who] = "error"]
    /\ UNCHANGED <<Backend, open, files, traces, thrown>>

\* A deletion that is confirmed.
Remove(m) ==
    /\ Counted /\ CanRemove(m)
    /\ Begins(Handler("delete", m))
    /\ admin' = [admin EXCEPT !.deleting = m, !.feedback[m] = "none"]
    /\ UNCHANGED <<Backend, open, files, traces, thrown>>

DeleteMember(w) ==
    /\ w.job = "delete" /\ w.stage = "sent" /\ rows[w.who] # Gone
    /\ rows' = [rows EXCEPT ![w.who] = Gone]
    /\ GoesOn(w, [w EXCEPT !.stage = "list"])
    /\ UNCHANGED <<held, open, admin, files, traces, thrown, events>>

\* load, called by the effect or awaited by remove.
ReadMembers(w) ==
    /\ open = "admin" /\ <<w.job, w.stage>> \in {<<"load", "sent">>, <<"delete", "list">>}
    /\ GoesOn(w, [w EXCEPT !.stage = "answer", !.found = rows])
    /\ UNCHANGED <<Backend, open, admin, files, traces, thrown, events>>

Listed(w) ==
    /\ w.job \in {"load", "delete"} /\ w.stage = "answer" /\ open = "admin" /\ Ends(w)
    /\ admin' = [admin EXCEPT !.list = w.found,
                              !.deleting = IF w.job = "delete" THEN "none" ELSE @]
    /\ UNCHANGED <<Backend, open, files, traces, thrown, events>>

\* The deletion or a load fails: the old list stays, even when the member is gone.
ListFails(w) ==
    /\ w.job \in {"load", "delete"} /\ open = "admin" /\ Ends(w)
    /\ \/ Counted
       \/ w.job = "delete" /\ w.stage = "sent" /\ rows[w.who] = Gone /\ UNCHANGED events
    /\ admin' = [admin EXCEPT !.deleting = IF w.job = "delete" THEN "none" ELSE @]
    /\ UNCHANGED <<Backend, open, files, traces, thrown>>

-----------------------------------------------------------------------------
(* The stored files. *)

\* upload: the chosen files, one request after the other.
ChooseFiles ==
    /\ open = "files" /\ Counted /\ ~files.uploading /\ Begins(Upload(Uploads))
    /\ files' = [files EXCEPT !.uploading = TRUE]
    /\ UNCHANGED <<Backend, open, admin, traces, thrown>>

\* An answer, whether the file was stored or refused; after the last, the list is read.
FileAnswered(w) ==
    /\ w.job = "upload"
    /\ \/ held' = held \cup {Head(w.left)} /\ UNCHANGED events
       \/ held' = held /\ Counted
    /\ IF Len(w.left) > 1
       THEN GoesOn(w, Upload(Tail(w.left))) /\ files' = files
       ELSE GoesOn(w, FirstLoad) /\ files' = [files EXCEPT !.uploading = FALSE]
    /\ UNCHANGED <<rows, open, admin, traces, thrown>>

\* remove: a file whose deletion is confirmed.
RemoveFile(f) ==
    /\ open = "files" /\ Counted /\ f \in files.list /\ Begins(Fetch("remove", f))
    /\ UNCHANGED <<Backend, open, admin, files, traces, thrown>>

FileRemoved(w) ==
    /\ w.job = "remove" /\ GoesOn(w, FirstLoad)
    /\ \/ held' = held \ {w.of} /\ UNCHANGED events
       \/ held' = held /\ Counted
    /\ UNCHANGED <<rows, open, admin, files, traces, thrown>>

ReadFiles(w) ==
    /\ w.job = "load" /\ w.stage = "sent" /\ open = "files"
    /\ GoesOn(w, [w EXCEPT !.stage = "answer", !.found = held])
    /\ UNCHANGED <<Backend, open, admin, files, traces, thrown, events>>

FilesListed(w) ==
    /\ w.job = "load" /\ open = "files" /\ Ends(w)
    /\ \/ /\ w.stage = "answer" /\ files' = [files EXCEPT !.list = w.found]
          /\ UNCHANGED events
       \/ Counted /\ files' = files
    /\ UNCHANGED <<Backend, open, admin, traces, thrown>>

-----------------------------------------------------------------------------
(* The traces. *)

\* The buttons of the filter and of a refresh.
LoadTraces(filter) ==
    /\ open = "traces" /\ Counted
    /\ filter # traces.filter \/ ~traces.loading
    /\ Begins(Fetch("load", filter))
    /\ traces' = [traces EXCEPT !.filter = filter, !.loading = TRUE]
    /\ UNCHANGED <<Backend, open, admin, files, thrown>>

\* The answer of a filter is shown, whatever the filter is by now.
TracesListed(w) ==
    /\ w.job = "load" /\ open = "traces" /\ Ends(w)
    /\ \/ traces' = [traces EXCEPT !.shown = w.of, !.loading = FALSE] /\ UNCHANGED events
       \/ traces' = [traces EXCEPT !.loading = FALSE] /\ Counted
    /\ UNCHANGED <<Backend, open, admin, files, thrown>>

OpenTrace(x) ==
    /\ open = "traces" /\ Counted /\ traces.shown # "none" /\ ~traces.loading
    /\ traces.selected = "none" /\ Begins(Fetch("open", x))
    /\ UNCHANGED <<Backend, open, admin, files, traces, thrown>>

\* The detail, or the entry of the list when it is refused.
TraceOpened(w) ==
    /\ w.job = "open" /\ Ends(w)
    /\ traces' = [traces EXCEPT !.selected = w.of]
    /\ UNCHANGED <<Backend, open, admin, files, thrown, events>>

CloseTrace ==
    /\ traces.selected # "none" /\ Counted
    /\ traces' = [traces EXCEPT !.selected = "none"]
    /\ UNCHANGED <<Backend, open, admin, files, work, thrown>>

\* The network fails under a handler of these two pages: none has a catch, and what it
\* would have done after the answer is not done.
Throws(w) ==
    /\ open # "admin" /\ Counted /\ Ends(w) /\ thrown' = TRUE
    /\ UNCHANGED <<Backend, open, admin, files, traces>>

-----------------------------------------------------------------------------
Next ==
    \/ TokenRefreshed \/ ChooseFiles \/ CloseTrace
    \/ \E m \in Members : Remove(m) \/ \E form \in Row : Save(m, form)
    \/ \E f \in held \cup files.list : RemoveFile(f)
    \/ \E filter \in {"all", "model", "tool"} : LoadTraces(filter)
    \/ \E x \in Spans : OpenTrace(x)
    \/ \E w \in work :
         \/ PatchAccount(w) \/ PatchPolicy(w) \/ Saved(w) \/ SaveFails(w)
         \/ DeleteMember(w) \/ ReadMembers(w) \/ Listed(w) \/ ListFails(w)
         \/ FileAnswered(w) \/ FileRemoved(w) \/ ReadFiles(w) \/ FilesListed(w)
         \/ TracesListed(w) \/ TraceOpened(w) \/ Throws(w)

-----------------------------------------------------------------------------
TypeOK ==
    /\ \A t \in {rows, admin.list} : t \in [Members -> Row \cup {Gone}]
    /\ admin.saving \in Members \cup {"none"} /\ admin.deleting \in (Members \ {Self}) \cup {"none"}
    /\ admin.feedback \in [Members -> {"none", "success", "error"}]
    /\ files.uploading \in BOOLEAN /\ traces.loading \in BOOLEAN /\ thrown \in BOOLEAN
    /\ files.list \subseteq {Uploads[i] : i \in DOMAIN Uploads}
    /\ traces.shown \in {"none", "all", "model", "tool"} /\ traces.selected \in Spans \cup {"none"}

\* A row or a page that is marked as busy has a handler that will end it, and the page of
\* files and that of traces may lose it to an exception.
BusyIsWork ==
    /\ admin.saving # "none" => \E w \in work : w.job = "save" /\ w.who = admin.saving
    /\ admin.deleting # "none" => \E w \in work : w.job = "delete" /\ w.who = admin.deleting
    /\ (files.uploading /\ ~thrown) => \E w \in work : w.job = "upload"
    /\ (traces.loading /\ ~thrown) => \E w \in work : w.job = "load"
=============================================================================
