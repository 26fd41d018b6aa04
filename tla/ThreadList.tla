------------------------------ MODULE ThreadList ------------------------------
(***************************************************************************)
(* The list of conversations (src/frontend/src/providers/Thread.tsx and    *)
(* features/threads).  A conversation is a thread of the agent server and  *)
(* a row of the backend, each with a title.  The list is read from the     *)
(* first and titled from the second; deleting removes the row, hides the   *)
(* thread by a tombstone in localStorage, and then tries to remove the     *)
(* thread too.                                                             *)
(*                                                                         *)
(* Loads and jobs overlap: a load carries the tombstones of the render     *)
(* that began it, reads the two servers at two moments and replaces the    *)
(* list when it is answered; a job carries the thread that was open when   *)
(* it began.                                                               *)
(***************************************************************************)
EXTENDS Naturals, FiniteSets

CONSTANTS
    Threads,
    MaxLoads, MaxJobs,  \* bounds: loads and jobs in flight
    MaxEvents           \* bound: renames, deletions, failures, refreshes and reloads together

VARIABLES
    graph,      \* agent server: the title of every thread, or "gone"
    rows,       \* backend: the title of every conversation, or "none"
    stored,     \* localStorage: the tombstones of the user
    list,       \* ThreadProvider: the tombstones and the list on display
    form,       \* ThreadList: which thread is edited, saved, deleted
    url,        \* the threadId of the address
    loads, jobs,
    buried,     \* history: threads deleted before the page was last loaded
    events

vars == <<graph, rows, stored, list, form, url, loads, jobs, buried, events>>

Titles == {"old", "new"}
Maybe == Threads \cup {"none"}
Nothing == [t \in Threads |-> "hidden"]

Counted == events < MaxEvents /\ events' = events + 1
Servers == <<graph, rows>>

-----------------------------------------------------------------------------
(* Loading the list. *)

\* getThreads as it is called now: a new function whenever the tombstones or the
\* token change.
NewLoad == [tombs |-> list.tombs, stage |-> "sent", found |-> Nothing]

\* The effect of ThreadHistory.
Reload ==
    /\ list.due /\ Cardinality(loads) < MaxLoads
    /\ NewLoad \notin loads
    /\ loads' = loads \cup {NewLoad}
    /\ list' = [list EXCEPT !.due = FALSE, !.loading = TRUE]
    /\ UNCHANGED <<graph, rows, stored, form, url, jobs, buried, events>>

\* A token refresh makes a new getThreads, and a run in a new thread reads the list too.
TokenRefreshed ==
    /\ ~list.due /\ Counted
    /\ list' = [list EXCEPT !.due = TRUE]
    /\ UNCHANGED <<graph, rows, stored, form, url, loads, jobs, buried>>

\* visibleGraphThreads.
Visible(tombs) ==
    [t \in Threads |-> IF graph[t] = "gone" \/ t \in tombs THEN "hidden" ELSE graph[t]]

\* The title of the row goes before that of the thread.
Titled(found) ==
    [t \in Threads |-> IF found[t] # "hidden" /\ rows[t] # "none" THEN rows[t] ELSE found[t]]

ReadThreads(l) ==
    /\ l.stage = "sent"
    /\ loads' = (loads \ {l}) \cup {[l EXCEPT !.stage = "read", !.found = Visible(l.tombs)]}
    /\ UNCHANGED <<graph, rows, stored, list, form, url, jobs, buried, events>>

\* The rows are read, or cannot be: the list does without them.
ReadTitles(l) ==
    /\ l.stage = "read"
    /\ \/ /\ loads' = (loads \ {l}) \cup {[l EXCEPT !.stage = "named", !.found = Titled(l.found)]}
          /\ UNCHANGED events
       \/ /\ Counted
          /\ loads' = (loads \ {l}) \cup {[l EXCEPT !.stage = "named"]}
    /\ UNCHANGED <<graph, rows, stored, list, form, url, jobs, buried>>

\* setThreads and setThreadsLoading.
LoadDone(l) ==
    /\ l.stage = "named"
    /\ loads' = loads \ {l}
    /\ list' = [list EXCEPT !.shown = l.found, !.loading = FALSE]
    /\ UNCHANGED <<graph, rows, stored, form, url, jobs, buried, events>>

LoadFails(l) ==
    /\ l.stage = "sent" /\ Counted
    /\ loads' = loads \ {l}
    /\ list' = [list EXCEPT !.loading = FALSE]
    /\ UNCHANGED <<graph, rows, stored, form, url, jobs, buried>>

-----------------------------------------------------------------------------
(* The items of the list. *)

\* What the item of a thread offers.
Editing(t) == list.shown[t] # "hidden" /\ form.editing = t
CanEdit(t) == list.shown[t] # "hidden" /\ ~Editing(t) /\ form.deleting # t
CanDelete(t) == CanEdit(t)
CanSave(t) == Editing(t) /\ form.saving # t

Open(t) ==
    /\ list.shown[t] # "hidden" /\ ~Editing(t) /\ url # t
    /\ url' = t
    /\ UNCHANGED <<graph, rows, stored, list, form, loads, jobs, buried, events>>

NewChat ==
    /\ url # "none" /\ url' = "none"
    /\ UNCHANGED <<graph, rows, stored, list, form, loads, jobs, buried, events>>

StartEditing(t) ==
    /\ CanEdit(t)
    /\ form' = [form EXCEPT !.editing = t]
    /\ UNCHANGED <<graph, rows, stored, list, url, loads, jobs, buried, events>>

CancelEditing(t) ==
    /\ CanSave(t)
    /\ form' = [form EXCEPT !.editing = "none"]
    /\ UNCHANGED <<graph, rows, stored, list, url, loads, jobs, buried, events>>

Job(kind, t) == [kind |-> kind, thread |-> t, stage |-> "first", open |-> url]
Begin(j) == Cardinality(jobs) < MaxJobs /\ j \notin jobs /\ jobs' = jobs \cup {j}

SaveTitle(t) ==
    /\ CanSave(t) /\ Counted
    /\ Begin(Job("rename", t))
    /\ form' = [form EXCEPT !.saving = t]
    /\ UNCHANGED <<graph, rows, stored, list, url, loads, buried>>

RemoveThread(t) ==
    /\ CanDelete(t) /\ Counted
    /\ Begin(Job("delete", t))
    /\ form' = [form EXCEPT !.deleting = t]
    /\ UNCHANGED <<graph, rows, stored, list, url, loads, buried>>

-----------------------------------------------------------------------------
(* Renaming. *)

\* The thread has its new title, the row not yet.
RenameGraph(j) ==
    /\ j.kind = "rename" /\ j.stage = "first" /\ graph[j.thread] # "gone"
    /\ graph' = [graph EXCEPT ![j.thread] = "new"]
    /\ jobs' = (jobs \ {j}) \cup {[j EXCEPT !.stage = "second"]}
    /\ UNCHANGED <<rows, stored, list, form, url, loads, buried, events>>

\* The row, if there is one, has it too; the list is changed in place and the editor,
\* whosever it is by now, is closed.
RenameRow(j) ==
    /\ j.kind = "rename" /\ j.stage = "second"
    /\ rows' = [rows EXCEPT ![j.thread] = IF @ = "none" THEN @ ELSE "new"]
    /\ list' = [list EXCEPT !.shown[j.thread] = IF @ = "hidden" THEN @ ELSE "new"]
    /\ form' = [form EXCEPT !.editing = "none", !.saving = "none"]
    /\ jobs' = jobs \ {j}
    /\ UNCHANGED <<graph, stored, url, loads, buried, events>>

\* A failed deletion keeps its mark.
MutReleased(j) == IF j.kind = "rename" THEN [form EXCEPT !.saving = "none"] ELSE form

\* finally: the mark is taken off, whosever it is by now.
Released(j) ==
    IF j.kind = "rename" THEN [form EXCEPT !.saving = "none"]
    ELSE [form EXCEPT !.deleting = "none"]

\* A call of a job fails, before or after it took effect at its server.
JobFails(j) ==
    /\ j.kind \in {"rename", "delete"} /\ Counted
    /\ jobs' = jobs \ {j}
    /\ form' = Released(j)
    /\ \/ UNCHANGED Servers
       \/ /\ j.kind = "rename" /\ j.stage = "first" /\ graph[j.thread] # "gone"
          /\ graph' = [graph EXCEPT ![j.thread] = "new"] /\ UNCHANGED rows
       \/ /\ j.kind = "rename" /\ j.stage = "second" /\ rows[j.thread] # "none"
          /\ rows' = [rows EXCEPT ![j.thread] = "new"] /\ UNCHANGED graph
       \/ /\ j.kind = "delete"
          /\ rows' = [rows EXCEPT ![j.thread] = "none"] /\ UNCHANGED graph
    /\ UNCHANGED <<stored, list, url, loads, buried>>

\* The thread is gone on the agent server (404): renaming fails.
RenameGone(j) ==
    /\ j.kind = "rename" /\ j.stage = "first" /\ graph[j.thread] = "gone"
    /\ jobs' = jobs \ {j}
    /\ form' = Released(j)
    /\ UNCHANGED <<graph, rows, stored, list, url, loads, buried, events>>

-----------------------------------------------------------------------------
(* Deleting. *)

\* The tombstone is kept in memory only.
MutPersist(tombs) == stored
Persist(tombs) == tombs

\* The row is deleted or was not there: the thread gets its tombstone and leaves the
\* list, its page is closed if it was open when the deletion began, and the agent
\* server is asked to delete it.
RowDeleted(j) ==
    LET tombs == list.tombs \cup {j.thread}
    IN /\ j.kind = "delete"
       /\ rows' = [rows EXCEPT ![j.thread] = "none"]
       /\ stored' = Persist(tombs)
       /\ list' = [list EXCEPT !.tombs = tombs, !.due = TRUE, !.shown[j.thread] = "hidden"]
       /\ url' = IF j.thread = j.open THEN "none" ELSE url
       /\ form' = Released(j)
       /\ jobs' = (jobs \ {j}) \cup {[Job("purge", j.thread) EXCEPT !.open = "none"]}
       /\ UNCHANGED <<graph, loads, buried, events>>

\* The thread is deleted on the agent server, or stays there for good.
Purge(j) ==
    /\ j.kind = "purge"
    /\ jobs' = jobs \ {j}
    /\ \/ graph' = [graph EXCEPT ![j.thread] = "gone"] /\ UNCHANGED events
       \/ Counted /\ UNCHANGED graph
    /\ UNCHANGED <<rows, stored, list, form, url, loads, buried>>

-----------------------------------------------------------------------------
NoForm == [editing |-> "none", saving |-> "none", deleting |-> "none"]
FreshList(tombs) == [tombs |-> tombs, shown |-> Nothing, loading |-> FALSE, due |-> TRUE]

\* The page is loaded again: what was in flight is dropped.
LoadPage ==
    /\ Counted
    /\ buried' = buried \cup list.tombs
    /\ list' = FreshList(stored)
    /\ form' = NoForm /\ loads' = {} /\ jobs' = {}
    /\ UNCHANGED <<graph, rows, stored, url>>

Init ==
    /\ graph = [t \in Threads |-> "old"]
    /\ rows \in [Threads -> {"none", "old"}]
    /\ stored = {} /\ list = FreshList({}) /\ form = NoForm
    /\ url \in Maybe
    /\ loads = {} /\ jobs = {} /\ buried = {} /\ events = 0

Next ==
    \/ Reload \/ TokenRefreshed \/ NewChat \/ LoadPage
    \/ \E l \in loads : ReadThreads(l) \/ ReadTitles(l) \/ LoadDone(l) \/ LoadFails(l)
    \/ \E t \in Threads : \/ Open(t) \/ StartEditing(t) \/ CancelEditing(t)
                          \/ SaveTitle(t) \/ RemoveThread(t)
    \/ \E j \in jobs : \/ RenameGraph(j) \/ RenameRow(j) \/ RenameGone(j) \/ JobFails(j)
                       \/ RowDeleted(j) \/ Purge(j)

Spec == Init /\ [][Next]_vars

-----------------------------------------------------------------------------
(* What is to hold. *)

\* Types.
TypeOK ==
    /\ graph \in [Threads -> Titles \cup {"gone"}]
    /\ rows \in [Threads -> Titles \cup {"none"}]
    /\ stored \subseteq Threads /\ buried \subseteq Threads
    /\ list \in [tombs : SUBSET Threads, shown : [Threads -> Titles \cup {"hidden"}],
                 loading : BOOLEAN, due : BOOLEAN]
    /\ form \in [editing : Maybe, saving : Maybe, deleting : Maybe]
    /\ url \in Maybe
    /\ loads \subseteq [tombs : SUBSET Threads, stage : {"sent", "read", "named"},
                        found : [Threads -> Titles \cup {"hidden"}]]
    /\ jobs \subseteq [kind : {"rename", "delete", "purge"}, thread : Threads,
                       stage : {"first", "second"}, open : Maybe]

\* A conversation that was deleted is not seen again once the page has been loaded anew,
\* although the agent server may have kept its thread (persistDeletedThreadIds, getThreads).
BuriedStayHidden == \A t \in buried : list.shown[t] = "hidden"

\* No mark of work in progress outlives the work: whatever fails, and however jobs
\* overlap, nothing is shown as loading, saving or deleting for ever.
MarksEnd ==
    /\ list.loading => loads # {}
    /\ form.saving # "none" => \E j \in jobs : j.kind = "rename" /\ j.thread = form.saving
    /\ form.deleting # "none" => \E j \in jobs : j.kind = "delete" /\ j.thread = form.deleting
=============================================================================
