------------------------------ MODULE CodingPage ------------------------------
(***************************************************************************)
(* The page of the coding agent                                            *)
(* (src/frontend/src/app/coding-agent/page.tsx): a workspace is chosen or  *)
(* imported, a task is run on it, and the runs are listed and opened.  The *)
(* lists are loaded when the page is shown and again whenever the access   *)
(* token is refreshed, so loads overlap with everything.                   *)
(*                                                                         *)
(* A call is handled by the backend at one moment (Serve) and its answer   *)
(* taken by the page at a later one; a run occupies its call until it is   *)
(* over.  What the page has given up the backend may still handle.         *)
(***************************************************************************)
EXTENDS Naturals, FiniteSets

CONSTANTS
    Mounted, Imports,   \* workspaces of the server, and names imported copies may get
    Models, Current,    \* models of the user, and the one the server names
    Folders,            \* folders a user may pick: their files and whether they are many
    MaxRuns,            \* bound: runs
    MaxCalls,           \* bound: calls in flight
    MaxEvents           \* bound: token refreshes, picks, failures, lost answers together

VARIABLES
    copies,     \* backend: the mounted projects and imported copies there are
    runs,       \* backend: the runs, each with its workspace and status
    page,       \* state of CodingAgentContent
    calls,      \* calls that are not settled
    lost,       \* history: runs the page has given up
    events

vars == <<copies, runs, page, calls, lost, events>>

Workspaces == {"root"} \cup Mounted \cup Imports
RunIds == 1..MaxRuns
Statuses == {"running", "success", "failed"}
Known == {r \in RunIds : runs[r].status # "none"}
Counted == events < MaxEvents /\ events' = events + 1

-----------------------------------------------------------------------------
(* What the page shows and offers. *)

\* preferredWorkspacePath: a mounted project, then an imported one, then everything.
Preferred(listed) ==
    IF listed \cap Mounted # {} THEN listed \cap Mounted
    ELSE IF listed \cap Imports # {} THEN listed \cap Imports ELSE {"root"}

\* isImportableSourceFile.
Importable(f) == ~f.ignored /\ f.kind \in {"special", "source"}

\* The files of a folder that are uploaded, unless there are none or too many.
Uploaded(folder) == {f \in folder.files : Importable(f)}
Acceptable(folder) == Uploaded(folder) # {} /\ ~folder.many

\* getRunStats, and the badge of a run or a call.
Counts(list) == [s \in Statuses |-> Cardinality({r \in DOMAIN list : list[r] = s})]
Tone(status) == CASE status = "success" -> "success" [] status = "failed" -> "error"
                  [] OTHER -> "running"

Busy == page.submitting \/ page.importing \/ page.deleting
CanSubmit == page.task /\ page.chosen # "none" /\ ~Busy

\* The buttons do not look at a run in progress.
MutCanDelete == page.chosen \in Imports \cap page.listed /\ ~page.importing /\ ~page.deleting
CanDelete == page.chosen \in Imports \cap page.listed /\ ~Busy
CanImport == ~Busy
CanRefresh == ~page.loading /\ ~page.submitting
CanChoose == ~page.submitting /\ ~page.importing /\ page.listed # {}
Listed == DOMAIN page.runs
CanChooseModel == ~page.submitting /\ page.models # {}

-----------------------------------------------------------------------------
(* Calls. *)

\* The workspace or the run a call is about, what it is part of, and its answer: the
\* names or the runs that are listed.
Call(kind, subject, run, chain) ==
    [kind |-> kind, subject |-> subject, run |-> run, chain |-> chain, status |-> "sent",
     names |-> {}, found |-> {}]
Load(kind, chain) == Call(kind, "all", 0, chain)
EffectLoads == {Load(kind, "effect") : kind \in {"runs", "models", "workspaces"}}
Room(n) == Cardinality(calls) + n <= MaxCalls
Swap(c, new) == calls' = (calls \ {c}) \cup new

\* The backend has handled a call; one the page has given up is answered to nobody.
Reply(c, answer) == Swap(c, IF c.chain = "lost" THEN {} ELSE {answer})

\* The effect of the page, run when it is shown and when authFetch is a new function.
TokenRefreshed ==
    /\ Counted /\ Room(3)
    /\ calls' = calls \cup EffectLoads
    /\ page' = [page EXCEPT !.loading = TRUE]
    /\ UNCHANGED <<copies, runs, lost>>

Refresh ==
    /\ CanRefresh /\ Room(1) /\ Counted
    /\ calls' = calls \cup {Load("runs", "button")}
    /\ page' = [page EXCEPT !.loading = TRUE]
    /\ UNCHANGED <<copies, runs, lost>>

Choose(w) ==
    /\ CanChoose /\ w \in page.listed \ {page.chosen} /\ Counted
    /\ page' = [page EXCEPT !.chosen = w]
    /\ UNCHANGED <<copies, runs, calls, lost>>

ChooseModel(m) ==
    /\ CanChooseModel /\ m \in page.models \ {page.model} /\ Counted
    /\ page' = [page EXCEPT !.model = m]
    /\ UNCHANGED <<copies, runs, calls, lost>>

WriteTask ==
    /\ ~page.task /\ ~page.submitting
    /\ page' = [page EXCEPT !.task = TRUE]
    /\ UNCHANGED <<copies, runs, calls, lost, events>>

\* importLocalFolder: an unacceptable folder is refused before anything is sent.
ImportLocalFolder(folder, w) ==
    /\ CanImport /\ Acceptable(folder)
    /\ w \in Imports \ (copies \cup {c.subject : c \in {d \in calls : d.kind = "import"}})
    /\ Room(1) /\ Counted
    /\ page' = [page EXCEPT !.importing = TRUE]
    /\ calls' = calls \cup {Call("import", w, 0, "none")}
    /\ UNCHANGED <<copies, runs, lost>>

\* deleteImportedWorkspace, once confirmed.
DeleteImportedWorkspace ==
    /\ CanDelete /\ Room(1) /\ Counted
    /\ page' = [page EXCEPT !.deleting = TRUE]
    /\ calls' = calls \cup {Call("delete", page.chosen, 0, "none")}
    /\ UNCHANGED <<copies, runs, lost>>

\* submitRun.
SubmitRun ==
    /\ CanSubmit /\ Room(1)
    /\ page' = [page EXCEPT !.submitting = TRUE]
    /\ calls' = calls \cup {Call("submit", page.chosen, 0, "none")}
    /\ UNCHANGED <<copies, runs, lost, events>>

OpenRun(r) ==
    /\ r \in Listed /\ Room(1) /\ Counted
    /\ Call("detail", "all", r, "click") \notin calls
    /\ calls' = calls \cup {Call("detail", "all", r, "click")}
    /\ UNCHANGED <<copies, runs, page, lost>>

\* RunDetailDrawer's onClose.
CloseRun ==
    /\ page.detail # 0
    /\ page' = [page EXCEPT !.detail = 0]
    /\ UNCHANGED <<copies, runs, calls, lost, events>>

-----------------------------------------------------------------------------
(* The backend (app/api/routers/coding_agent.py). *)

Answered(c) == [c EXCEPT !.status = "ok"]

ServeLoad(c) ==
    /\ c.status = "sent" /\ c.kind \in {"runs", "models", "workspaces", "detail"}
    /\ Swap(c, {CASE c.kind = "runs" -> [Answered(c) EXCEPT
                                            !.found = {<<r, runs[r].status>> : r \in Known}]
                  [] c.kind = "models" -> [Answered(c) EXCEPT !.names = Models]
                  [] c.kind = "workspaces" -> [Answered(c) EXCEPT
                                                 !.names = {"root"} \cup copies]
                  [] OTHER -> Answered(c)})
    /\ UNCHANGED <<copies, runs, page, lost, events>>

ServeImport(c) ==
    /\ c.status = "sent" /\ c.kind = "import" /\ c.subject \notin copies
    /\ copies' = copies \cup {c.subject}
    /\ Reply(c, Answered(c))
    /\ UNCHANGED <<runs, page, lost, events>>

ServeDelete(c) ==
    /\ c.status = "sent" /\ c.kind = "delete"
    /\ copies' = copies \ {c.subject}
    /\ IF c.subject \in copies THEN Reply(c, Answered(c))
       ELSE Reply(c, [c EXCEPT !.status = "failed"])
    /\ UNCHANGED <<runs, page, lost, events>>

\* A run is recorded when it begins and when it ends; `run` ties it to its call.
BeginRun(c, r) ==
    /\ c.status = "sent" /\ c.kind = "submit"
    /\ r = Cardinality(Known) + 1 /\ r \in RunIds
    /\ runs' = [runs EXCEPT ![r] = [status |-> "running", workspace |-> c.subject]]
    /\ Reply(c, [c EXCEPT !.status = "running", !.run = r])
    /\ lost' = IF c.chain = "lost" THEN lost \cup {r} ELSE lost
    /\ UNCHANGED <<copies, page, events>>

EndRun(r, status) ==
    /\ runs[r].status = "running"
    /\ runs' = [runs EXCEPT ![r].status = status]
    /\ calls' = {IF c.kind = "submit" /\ c.run = r
                 THEN [c EXCEPT !.status = IF status = "success" THEN "ok" ELSE "failed"]
                 ELSE c : c \in calls}
    /\ UNCHANGED <<copies, page, lost, events>>

\* A call fails, or the page never gets its answer although it took effect - or takes
\* effect later: a fetch that rejects does not recall the request.
CallFails(c) ==
    /\ c.chain # "lost" /\ c.status \in {"sent", "running", "ok"} /\ Counted
    /\ \/ Swap(c, {[c EXCEPT !.status = "failed"]})
       \/ /\ c.status = "sent" /\ c.kind \in {"import", "delete", "submit"}
          /\ Swap(c, {[c EXCEPT !.status = "failed"], [c EXCEPT !.chain = "lost"]})
    /\ lost' = IF c.kind = "submit" THEN lost \cup ({c.run} \ {0}) ELSE lost
    /\ UNCHANGED <<copies, runs, page>>

-----------------------------------------------------------------------------
(* Answers. *)

Settled(c) == c.status \in {"ok", "failed"}

RunsAnswer(c) ==
    /\ c.kind = "runs" /\ Settled(c)
    /\ page' = [page EXCEPT
                  !.loading = FALSE,
                  !.runs = IF c.status = "ok"
                           THEN [r \in {a[1] : a \in c.found} |->
                                   CHOOSE s \in Statuses : <<r, s>> \in c.found]
                           ELSE @]
    \* submitRun goes on with the run's details
    /\ Swap(c, IF c.chain = "submit" THEN {Call("detail", "all", c.run, "submit")} ELSE {})
    /\ UNCHANGED <<copies, runs, lost, events>>

\* loadModels selects the server's current model, whatever was selected.
ModelsAnswer(c) ==
    /\ c.kind = "models" /\ Settled(c) /\ Swap(c, {})
    /\ \/ c.status = "failed" /\ page' \in {page, [page EXCEPT !.models = {}]}
       \/ /\ c.status = "ok"
          /\ page' = [page EXCEPT !.models = c.names, !.model = Current]
    /\ UNCHANGED <<copies, runs, lost, events>>

\* The selection stays although its workspace is gone.
MutChosenAfter(listed) == {page.chosen}
ChosenAfter(listed) == IF page.chosen \in listed THEN {page.chosen} ELSE Preferred(listed)

\* loadWorkspaces, alone or as the end of a deletion.
WorkspacesAnswer(c) ==
    /\ c.kind = "workspaces" /\ Settled(c) /\ Swap(c, {})
    /\ \E w \in ChosenAfter(c.names) :
          LET done == [page EXCEPT !.deleting = @ /\ c.chain # "delete"]
          IN page' = IF c.status = "ok"
                     THEN [done EXCEPT !.listed = c.names, !.chosen = w] ELSE done
    /\ UNCHANGED <<copies, runs, lost, events>>

ImportAnswer(c) ==
    /\ c.kind = "import" /\ Settled(c) /\ Swap(c, {})
    /\ LET done == [page EXCEPT !.importing = FALSE]
       IN page' = IF c.status = "ok"
                  THEN [done EXCEPT !.listed = @ \cup {c.subject}, !.chosen = c.subject]
                  ELSE done
    /\ UNCHANGED <<copies, runs, lost, events>>

DeleteAnswer(c) ==
    /\ c.kind = "delete" /\ Settled(c)
    /\ \/ /\ c.status = "ok"
          /\ page' = [page EXCEPT !.chosen = "none"]
          /\ Swap(c, {Load("workspaces", "delete")})
       \/ /\ c.status = "failed"
          /\ page' = [page EXCEPT !.deleting = FALSE]
          /\ Swap(c, {})
    /\ UNCHANGED <<copies, runs, lost, events>>

SubmitAnswer(c) ==
    /\ c.kind = "submit" /\ Settled(c)
    /\ \/ /\ c.status = "ok"
          /\ page' = [page EXCEPT !.task = FALSE, !.loading = TRUE]
          /\ Swap(c, {[Load("runs", "submit") EXCEPT !.run = c.run]})
       \/ /\ c.status = "failed"
          /\ page' = [page EXCEPT !.submitting = FALSE]
          /\ Swap(c, {})
    /\ UNCHANGED <<copies, runs, lost, events>>

DetailAnswer(c) ==
    /\ c.kind = "detail" /\ Settled(c) /\ Swap(c, {})
    /\ page' = [page EXCEPT !.detail = IF c.status = "ok" THEN c.run ELSE @,
                            !.submitting = @ /\ c.chain # "submit"]
    /\ UNCHANGED <<copies, runs, lost, events>>

-----------------------------------------------------------------------------
NoRun == [status |-> "none", workspace |-> "none"]

\* An administrator opens the page; anyone else is shown AccessDenied and nothing more.
Init ==
    /\ copies \in {{}, Imports, Mounted}
    /\ runs = [r \in RunIds |-> NoRun]
    /\ page = [listed |-> {}, chosen |-> "none", models |-> {}, model |-> "none",
               runs |-> [r \in {} |-> "none"], detail |-> 0, task |-> FALSE,
               loading |-> TRUE, submitting |-> FALSE, importing |-> FALSE, deleting |-> FALSE]
    /\ calls = EffectLoads /\ lost = {} /\ events = 0

Next ==
    \/ TokenRefreshed \/ Refresh \/ WriteTask \/ DeleteImportedWorkspace \/ SubmitRun \/ CloseRun
    \/ \E w \in Workspaces : Choose(w)
    \/ \E m \in Models : ChooseModel(m)
    \/ \E w \in Imports, folder \in Folders : ImportLocalFolder(folder, w)
    \/ \E r \in RunIds : OpenRun(r) \/ \E s \in {"success", "failed"} : EndRun(r, s)
    \/ \E c \in calls : \/ ServeLoad(c) \/ ServeImport(c) \/ ServeDelete(c) \/ CallFails(c)
                        \/ \E r \in RunIds : BeginRun(c, r)
                        \/ RunsAnswer(c) \/ ModelsAnswer(c) \/ WorkspacesAnswer(c)
                        \/ ImportAnswer(c) \/ DeleteAnswer(c) \/ SubmitAnswer(c)
                        \/ DetailAnswer(c)

Spec == Init /\ [][Next]_vars

-----------------------------------------------------------------------------
(* What is to hold. *)

InFlight(kinds, chains) == \E c \in calls : c.kind \in kinds /\ c.chain \in chains

\* Types.  The workspace a run would be made on is one of the list, however loads, imports
\* and deletions are answered; every run on the page is counted under exactly one status.
TypeOK ==
    /\ copies \subseteq Mounted \cup Imports /\ lost \subseteq RunIds
    /\ runs \in [RunIds -> [status : Statuses \cup {"none"}, workspace : Workspaces \cup {"none"}]]
    /\ page.listed \subseteq Workspaces /\ page.chosen \in page.listed \cup {"none"}
    /\ page.models \subseteq Models /\ page.model \in Models \cup {"none"}
    /\ DOMAIN page.runs \subseteq RunIds /\ page.detail \in RunIds \cup {0}
    /\ LET n == Counts(page.runs)
       IN /\ n["running"] + n["success"] + n["failed"] = Cardinality(DOMAIN page.runs)
          /\ n["running"] = Cardinality({r \in DOMAIN page.runs : Tone(page.runs[r]) = "running"})
    /\ {page.task, page.loading, page.submitting, page.importing, page.deleting} \subseteq BOOLEAN

\* The page is never left busy by a call that is over: a form that is disabled is being
\* worked on, whichever call of a chain failed or was lost.
BusyIsWork ==
    /\ page.loading => \E c \in calls : c.kind = "runs"
    /\ page.importing => InFlight({"import"}, {"none"})
    /\ page.deleting => InFlight({"delete"}, {"none"}) \/ InFlight({"workspaces"}, {"delete"})
    /\ page.submitting => InFlight({"submit"}, {"none"}) \/ InFlight({"runs", "detail"}, {"submit"})

\* A copy is not deleted under a run of this page that reads it - unless the page has
\* given up that run, or the very deletion that takes the copy, as failed.
KeepsCopies ==
    \A r \in RunIds :
        runs[r].status = "running" /\ runs[r].workspace \in copies \ copies' =>
            \/ r \in lost
            \/ \E c \in calls \ calls' : /\ c.kind = "delete" /\ c.chain = "lost"
                                         /\ c.subject = runs[r].workspace
=============================================================================
