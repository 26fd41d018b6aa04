# HY-chat: a TLA+ verification project

HY-chat is a chat application around a LangGraph agent: a FastAPI service
(`src/app`), a LangGraph Agent Server that runs the graph of
`src/app/agents/chat.py`, PostgreSQL with pgvector, Redis, local or S3 file storage, and
a React front end (`src/frontend`). This directory holds TLA+ modules of the parts of it
whose correctness depends on the order in which several requests, processes, timers and
callbacks act, TLC configurations that check them on small instances, and TLAPS
proofs for every value of the constants. Paths below are relative to `src/`
unless they name a file here.

Contents: 1 inventory, 2 plan, 3 modules and their correspondence to the code,
4 runs and bounds, 5 fairness, 6 proofs, 7 findings, 8 what is not modelled,
9 how to run.

## 1. Inventory

### 1.1 Durable tool invocations and human approvals

* Code: `app/services/tool_invocation_service.py`; the two middlewares of
  `app/agents/chat.py` (`PersistentHumanInTheLoopMiddleware.after_model`,
  `PolicyTraceMiddleware.wrap_tool_call`); tables `tool_invocations`, `approvals`
  and `trace_spans` (`app/db/models.py`).
* State: per tool call a row with status, attempt count, requested and effective
  payload; per gated call an approval with one human decision; the LangGraph
  checkpoint with the AI message; a trace span per attempt.
* Operations: ensure the pending approvals before the interrupt, record a batch of
  decisions on resume, claim a call, run the tool, complete the invocation.
* Interaction: an interrupted run is resumed by the front end. Runs and resumes
  execute in several server processes which meet only in PostgreSQL.
* Hard: two resumes of one interrupt; replay of a node from its checkpoint after a
  crash; a crash between claim and outcome; several rows in one transaction; reads
  by two statements.
* Correct when: a call is executed at most once, as decided; a decision is final; a
  batch is decided as a whole; every reply tells the outcome that is on record; no
  attempt hangs.

### 1.2 Model calls: policy, quota and response cache

* Code: `PolicyTraceMiddleware.awrap_model_call`, `app/policies/service.py`,
  `app/services/chat_response_cache.py`, `app/cache/service.py`.
* State: `user_policies` (tokens used, reset date), Redis (responses, locks, the
  counter of the minute), the span of the call.
* Operations: check policy and quota, look the response up, take the lock of its
  key, wait for another call's response, count the request, generate, charge the
  tokens, finish the trace, store, release.
* Hard: check before and charge after a call that takes seconds; locks with a TTL
  shorter than a slow generation; Redis commands that are executed but not answered;
  cancellation at an `await`; the renewal of a quota at the first of a month.
* Correct when: equal requests share one generation unless there is an excuse; quota
  and rate are exceeded by a known amount at most; nobody frees another call's lock;
  every call ends and every lock goes.

### 1.3 Accounts, sessions, password resets, administration

* Code: `app/auth/service.py`, `app/auth/dependencies.py`,
  `app/api/routers/auth.py`, `app/api/routers/admin.py`.
* State: `users` (role, active, `token_version`), `password_reset_tokens`, and the
  signed tokens in the hands of clients.
* Operations: register, log in, change the password, log out everywhere, request
  and confirm a reset, patch and delete users.
* Hard: every handler reads, decides and commits without a lock; the ORM increments
  `token_version` in the process and writes only the fields that differ.
* Correct when: a revoked token stays revoked; a reset link is spent or replaced for
  good; an administrator remains; registering makes the right first administrator.

### 1.4 Documents and files

* Code: `app/rag/service.py`, `app/services/file_service.py`, `app/storage/service.py`,
  `app/api/routers/rag.py`, `app/api/routers/files.py`, `app/cache/service.py`.
* State: `stored_files`, `knowledge_documents` with their chunks, stored objects, the
  upload directory of the server, search results in Redis.
* Operations: upload a file, upload a document (store, look for the same content,
  insert, embed, announce), delete a file, delete a document, search.
* Hard: four stores without a common transaction, compensated by hand; two uploads of
  one file; a deletion during an upload; a search that stores what is being deleted;
  a session that a failed flush has made unusable.
* Correct when: rows and objects go together; a failed upload leaves nothing; no
  document stays in processing; a search finds what is ready and nothing else.

### 1.5 The run of a browser tab

* Code: `frontend/src/providers/Stream.tsx`, `lib/agent-run-timeout.ts`,
  `lib/agent-run-cancellation.ts`, `components/thread/index.tsx`.
* State: the thread in the address, the controller and the active run, the watchdog with
  its reconciler and tracker, `isSettling`, the clean-ups in flight; on the server the runs
  of each thread.
* Operations: submit, answer a pause, `onThreadId`/`onCreated`/`onCompleted`, stop, time
  out, reconcile, leave a thread, remount, list and cancel the runs of a thread.
* Hard: callbacks of an attempt that was replaced; stop before the run id is known; a
  watchdog of one attempt and the effect of the next; the runs of a thread are listed by
  status while they change it; terminal events that never come.
* Correct when: a run is cancelled only if it was stopped, left or timed out; a stopped run
  ends on the server; the composer is given back, whatever the server does.

### 1.6 Approvals in the browser

* Code: `frontend/src/components/thread/agent-inbox/`, `lib/agent-inbox-interrupt.ts`.
* State: the pause on display, the form, the saved decisions, `isSubmitting`, the
  preferences in localStorage, requests and retries in flight.
* Operations: edit, reject, reset, submit, decide one by one and submit together, approve
  all, approve automatically with retries.
* Hard: a retry or a saved decision that meets the next pause; an edit that is made and
  taken back; another client answers first; an effect that reads a preference late.
* Correct when: a run goes on with allowed decisions, made for this pause, with the
  arguments that were on display; no failure takes the buttons away.

### 1.7 Accounts in the browser

* Code: `frontend/src/providers/Auth.tsx`, `components/auth/`.
* State: in each tab a list of accounts and the active one; one localStorage; calls in
  flight, each with the list of the render that began it.
* Operations: boot with refresh, log in, register, reset, refresh, authenticated calls,
  switch, log out here and everywhere.
* Hard: answers write back a list that has changed meanwhile, in the same or another tab;
  leaving the page in the middle; a backend that cannot be reached.
* Correct when: no account a tab knows of is forgotten unless its user has left it or it was
  refused, and none that has left comes back.

### 1.8 The other pages of the browser

* The list of conversations (`providers/Thread.tsx`, `features/threads`): two
  servers with two copies of a title, tombstones, jobs and loads that overlap.
* The page of the coding agent (`app/coding-agent/page.tsx`): four loads, repeated when a
  token is refreshed; imports, deletions and runs whose answers come late or never.
* The message box (`components/thread/index.tsx`, `hooks/use-file-upload.tsx`,
  `lib/multimodal-utils.ts`): files that are being read while the thread, the model or the
  list of models changes.
* The messages (`components/thread/message-list.tsx`, `components/thread/messages`,
  `components/thread/hooks`, `lib/ensure-tool-responses.ts`, `lib/stream-errors.ts`): what of a stream is shown, where a pause can be decided, and
  which tool results are added before the next message.
* The pages of files, traces and administration (`app/files`, `app/traces`, `app/admin`):
  handlers that mark a row or a button as busy until their answer comes.

### 1.9 Components without a module

| Component | State | Hard behaviour | What would make it correct |
|---|---|---|---|
| Streaming chat endpoint (`app/api/routers/chat.py`) | the response cache, the SSE stream | the cache is read before the policy is checked; whatever was streamed is stored, a refusal too; the key has neither thread nor memory | a cached answer is one the model gave to this conversation, for a user who may still ask |
| Long-term memory (`app/services/memory_service.py`) | `user_memories` | upserts found by a read before the write; deletes undone by the backfill from traces | the newest statement of a user wins, a forgotten fact stays forgotten |
| Conversations (`app/api/routers/conversations.py`, `chat.py` `_ensure_conversation`) | `conversations`, `messages` | check, then insert, by two runs of one thread | one conversation per thread, of one owner |
| Imported projects and coding runs (`app/api/routers/coding_agent.py`) | directories, `coding_agent_runs` | limits checked before the import; a crash leaves a run "running" | at most 20 projects and 200 MB; every run ends |
| PDF context budget (`app/agents/chat.py` 465-704) | none, an algorithm | boundaries of the budget | the text sent to the model fits it |

Left aside for good, with the reason in `PROJECT.json`: tools that wrap remote APIs,
document loaders and embeddings, e-mail, migrations, observability, deployment, and the
components of the user interface that only render.

## 2. Plan

| Order | Module | Composes or refines | State |
|---|---|---|---|
| 1 | `ToolInvocation` | implements `ToolGate` | checked; invariants and the refinement proved |
| 2 | `ModelCall` | policy, rate, cache lock and response cache in one module, for they meet in every call | checked, safety proved |
| 3 | `Accounts` | administration and sessions share the rows of `users` | checked, proved |
| 4 | `Documents` | rows, objects, local files and the query cache, for they share their handlers | checked, proved |
| 5 | `RunLifecycle` | a browser tab and the runs of the Agent Server | checked with liveness, safety proved |
| 6 | `ApprovalInbox`, `BrowserAccounts`, `ThreadList`, `CodingPage`, `Composer`, `Transcript`, `AccountPages` | instantiated side by side by `Pages` | checked, safety and types proved |

What could come next: the check-then-act endpoints of 1.9, once the code or its
documentation promises something about overlapping requests; passwords in `Accounts`, for a
login whose password is replaced before its token is signed; the list the tabs of
`BrowserAccounts` overwrite for each other.

## 3. Modules

### 3.1 `ToolInvocation` and `ToolGate`

One module for the rows and both middlewares. An *attempt* is one execution of the
graph from the checkpoint with the AI message: the first run (`Run`), a resume
(`Resume`), or a second resume of the same interrupt. A message without gated calls goes
from `Run` straight to the tools; with gated calls it passes `ensure` first. The attempt
that paused may itself be the one that resumes (`a = b` in `Resume`).

| Actions | Code |
|---|---|
| `EnsurePendingApprovals`, `EnsureConflict` | `ensure_pending_approvals`, `_ensure_invocation` |
| `LoadInvocation`, `LoadApproval`, `UpdateDecision`, `UpdateLost`, `CommitDecisions`, `Recheck` | `record_approval_decisions`, `_load_decision_rows`: one action per statement |
| `DenyTool`, `ClaimNew`, `ReadClaim`, `Claim` | `_prepare_tool_call`, `claim_tool_invocation` |
| `CallHandler`, `FinishToolCall`, `FailToolCall`, `ReplyExisting` | `wrap_tool_call`, `complete_tool_invocation`, `_fail_trace`, `_existing_invocation_message` |
| `DatabaseFails`, `Crash` | exceptions of the database, death of the process |

PostgreSQL is used at its default isolation, READ COMMITTED: a statement sees what is
committed when it begins, an `UPDATE` waits for the transaction that holds the row
and then tests its condition again, and a dead transaction releases its rows. The
variable `held` holds the rows an open transaction has written; an
`INSERT ... ON CONFLICT DO NOTHING` waits for a competing insert, so that a
transaction that only inserts is one step.

Details a reader of the code may look for:

* Status `pending` is never committed for a gated call, nor left behind for an
  ungated one; the upgrade of such a row (`tool_invocation_service.py:228-235`)
  would be needed only if a tool became gated between two attempts.
* Rejected calls are not dispatched to the tool node: `after_model` replaces them.
* A payload is the tool's name and arguments, one value. The recorded
  `decision_payload` is determined by the approval's status, the effective payload and,
  for a rejection, the words the human added: `reason` holds those, so that
  `DecisionMatches` compares all of `_decision_matches` (306-330), and two rejections
  with different words conflict.
* The keys of the rows are those of one user, thread and message; the ownership
  checks of the service have no other outcome inside one scope.
* Runs without a user, which skip persistence, are outside the module.

`ToolGate` is what this promises without attempts, rows or failures: a waiting call,
one answer for all of them, one act with the granted payload. `ImplementsGate` maps
`status` to its phases, `effective` to the grant and `executed` to the effects.

### 3.2 `ModelCall`

A worker runs `awrap_model_call` repeatedly; `<<worker, number>>` is the uuid token
of the lock it may take. One action per Redis command or database transaction:

| Actions | Code |
|---|---|
| `PolicyIsDue`, `ResetQuota`, `PolicyDenies`, `PolicyAllows` | `get_policy`, `authorize_model_access`: reading the row and writing its renewal are two steps |
| `Count`, `CountFails` | `enforce_model`: `INCR` of the minute's key, or Redis unreachable |
| `Lookup`, `Acquire`, `AcquireUnanswered`, `DoubleCheck`, `WaitHit`, `WaitGivesUp`, `Release` | `get_cached_response`, `acquire_lock`, `wait_for_json`, `release_lock` |
| `StartHandler` in `Count` and `CountFails`, `HandlerReturns`, `HandlerFails` | the model itself |
| `Charge`, `FinishTrace`, `Store` | `record_token_usage`, `_finish_model_call`, `store_response` |
| `Cancel`, `Crash`, `DatabaseFails` | cancellation at an `await` (only `finally` runs), death, a failing commit |
| `LockExpires`, `ResponseExpires`, `NextMinute`, `MonthEnds`, `Deactivate`, `RedisDown`, `RedisBack` | TTLs, clocks, an administrator, Redis |

The user has spent some of the quota before the behaviour begins: `Init` lets `used` be
anything up to the quota and sets `spent`, the history of what was charged, to the same.
`disturbed` counts, per key, the events after which asking the model again is in
order; `SingleFlight` is stated against it. The ORM writes only fields that differ,
so a renewal of a row whose `tokens_used` was already zero does not write that
column (`hadUsage`). The minute's key lives 120 s, longer than its minute, so its
expiry is never observed. Omitted: calls without a user, the list of allowed models,
memory injection, message normalisation and the mock graph.

### 3.3 `Accounts`

One action per `SELECT` and per commit. A request record `req[r]` is what the handler
has in its session: the version and fields it has *read* (`seen`, `read`), against
which nothing is compared when it commits. Mapping: `CheckEmail`, `DecideRole`,
`Insert`, `InsertFails` are `create_user`; `Login` and `Answer` are
`authenticate_user` and the signing of a token from the row as it is then;
`Authenticate` is `get_current_user`/`require_admin`; `CommitVersion` is the commit of
a password change or of `logout_all`; `AskReset`, `DeleteLinks`, `CommitIssue` are
`create_password_reset_issue`; `ReadLink`, `ReadOwner`, `CommitConfirm` are
`reset_password_with_token`; `ReadTarget`, `CountAdmins`, `CommitPatch`,
`CommitRemove` are `update_user` and `delete_user`. `Fail` is a rollback at any point.

`refresh` is no action: it hands out a token of the version it was given. An
administrator's own row is in the session since the authentication, so patching
oneself works on what was read then (`db.get` returns the loaded object). A
transaction that has deleted reset links holds their rows until it commits
(`doomed`, `Locked`). History variables: `revocations` counts committed revocations,
`overtaken` says that one was computed from a row changed meanwhile, `crossed` that the
set of administrators changed after the request had read a row on which its check rests,
`uses` how many passwords a link has set, and `rivals` how many confirmations had read it
as usable when it set the first: as many may use it, and none that begins later.

### 3.4 `Documents`

One user; every file is uploaded once, and its number names the upload (`up`), its row,
its object, its local copy and the document made of it. Contents stand for SHA-256
digests; `plain` is an upload to the file list.

| Actions | Code |
|---|---|
| `Begin`, `PutObject`, `PutFails`, `CommitRow`, `RowFails`, `Unput` | `upload_document`, `upload_file`, `create_from_path` |
| `FindNone`, `FindFailed`, `FindSame`, `Replace`, `Insert`, `InsertConflict`, `CommitReady`, `LoadFails`, `MarkFailed`, `UpdateStale`, `UploadClears` | `ingest_file` |
| `Answer`, `DeleteDuplicate`, `CommitDuplicate`, `CleanObject`, `CleanRow` | `upload_document` after `ingest_file`, and its handler of exceptions |
| `RemoveRead`, `RemoveObject`, `RemoveRow` | `delete_file` |
| `DeleteRead`, `DeleteCommit`, `DeleteClears` | `delete_document` |
| `Miss`, `HitAfterMiss`, `Query`, `StoreResult`, `ResultExpires` | `search` in `get_or_set_json` |
| `DatabaseFails`, `RemoveFails`, `DeleteFails`, `Crash` | exceptions of the stores, death of the process |

A commit expires the objects of its session, so the next use of one reads its row
again and raises if the row is gone (`Answer`, `CommitDuplicate`, `CleanObject`). A
failed flush leaves the session unusable until it is rolled back, so the clean-up of the
handler raises before it has deleted the stored file (`Break`, `broken`). `fresh` says
of a search, and of what it stored, that it read after the cache was last cleared; `lost`
has the documents whose change never cleared it. The lock around a search is left out:
it only saves work, and whoever does not get it searches all the same. A failed commit
has no effect; one that succeeds without an answer is not modelled.

### 3.5 `RunLifecycle`

One tab. `tab` has the refs and the state of `StreamSession`; `call[r]` what the
controller of the r-th submission knows, with `live` for a controller that has not been
replaced; `jobs` the calls of `cancelActiveThreadRuns` in flight; `run`, `log` and `threads`
the server.

| Actions | Code |
|---|---|
| `Submit`, `Respond` (by `Send`) | `handleSubmit`, `handleRegenerate`, `submitWithTimeout`; `respondWithTimeout`, `respondAllWithTimeout` |
| `OnThreadId`, `OnThreadIdLate`, `OnCreated`, `OnCompleted`, `SeesRunning`, `ReplaysPause`, `SubmitRejected` | the options given to the SDK, `ResumedRunLifecycleTracker`, the rejected promise |
| `LoadingEffect`, `Timeout`, `Reconcile` | the effect on `isLoading`, the watchdog, the reconciler |
| `StopButton`, `OpenThread`, `Remount` | `stopCurrentRun` from the button, from the layout effect on the thread, from the unmount (the session's key holds the access token) |
| `CancelKnown`, `ListRuns`, `CancelMany`, `Settled` | `cancelActiveThreadRuns` and its `finally` |
| `StreamLost`, `Attach`, `CreateRun`, `BeginRun`, `EndRun` | external: the connection, the SDK, the Agent server |

Timeouts are steps without a clock: a watchdog that is armed may fire at any time, so
whatever holds does so for every duration of a run. A reconciler that reads the newest run
of the thread accepts one that began up to two seconds before the attempt; in the
model that is the run before it (`Polled`).

The refs of an unmounted session outlive it, and so does what the SDK still tells them
(`gone`): a late `onCreated` is adopted by the dead session and cancelled by nobody, a late
`onThreadId` moves the URL under the session that is mounted now (`OnThreadIdLate`, which
the layout effect takes for a navigation), and `Remount` clears the watchdog before it asks
whether it is active (603, 614), so that an answer to a pause that is not loading yet is left
to run. A promise that rejects clears the watchdog whichever attempt it is of
(`SubmitRejected`, 500-503); `bared` remembers when that took the watchdog of another one.

Histories state the properties: `wanted` has the runs somebody asked to end; `exposed` the
runs that a clean-up may take along although nobody wanted that (submitted under a clean-up
this session does not wait for, passed over by a reconciler, or left before their
thread was known, also to an address that a late `onThreadId` has moved); `missed` the runs
that a clean-up may not reach (the request that was to list or cancel this very run failed, it
began between the two lists of a clean-up, it was created for a session unmounted meanwhile,
or its controller recorded another thread than it was sent to). `troubles` only counts.

### 3.6 The parts of `Pages`

Each part is a module of its own with `Init`, `Next` and its properties. A call of the
page is a record with what its closure captured; the backend handles it in one step
(external, `Serve...`) and its answer is taken in a later one; a lost or failing call has
its own step. An effect of React is a step (`AutoEffect`, `Effects`, `Reload`) that
runs some time after what it depends on has changed.

| Module | Actions | Code |
|---|---|---|
| `ApprovalInbox` | `EditArgs`, `WriteReason`, `ChooseReject`, `Reset`, `TogglePreference`; `Submit`, `Resolve`; `GoTo`, `SaveDecision`, `SubmitAll`, `ApproveAll` | `InboxItemInput`; `useInterruptedActions`; `ThreadActionsView` |
| | `AutoEffect`, `AutoRetry`, `AutoFails`; `Take`, `Consumed`, `Dropped`, `Fails`; `Show`, `Switch`, `Hide`, `StreamUpdate`; external `PauseAgain`, `AnsweredElsewhere` | the auto-approval effect and `approveCurrentTool`; what becomes of an answer; mounting, and rendering with the next pause |
| `BrowserAccounts` | `Load`, `BootAnswer`; `Request`, `TimerFires`, `RequestAnswer`; `ChooseMode`, `Submit`, `LoginAnswer`; `SwitchAccount`, `Logout`, `LogoutAnswer` | `bootstrap`; `authFetch`, `refresh`; `LoginScreen`, `submitAuth`; `AccountMenu`, `logout`, `logoutAll` |
| `ThreadList` | `Reload`, `ReadThreads`, `ReadTitles`, `LoadDone`, `LoadFails`; `SaveTitle`, `RenameGraph`, `RenameRow`, `RenameGone`; `RemoveThread`, `RowDeleted`, `Purge`, `JobFails`; `LoadPage` | `getThreads`, `renameThread`, `deleteThread`, `ThreadHistory`, `ThreadList` |
| `CodingPage` | `Choose`, `ChooseModel`, `WriteTask`, `ImportLocalFolder`, `DeleteImportedWorkspace`, `SubmitRun`, `OpenRun`, `CloseRun`, `Refresh` and the `...Answer` of each call | the functions of `CodingAgentContent` |
| `Composer` | `HandleFileUpload`, `PasteOrDrop`, `ReadDone`, `ReadFails`, `RemoveBlock`, `Effects`; `ModelsAnswer`, `ChangeModel`; `Write`, `Submit`, `SwitchThread`, `UploadKnowledgeDocument` | `useFileUpload`, `multimodal-utils.ts`; the handlers of `Thread` |
| `Transcript` | `Submit`, `Regenerate`, `SubmitEdit`, `Respond`, `Stop`, `LoadThread`, `ToggleToolCalls`; external `Forked`, `AiMessage`, `AiCalls`, `ToolResult`, `PauseTold`, `RunPauses`, `RunEnds`; `RunFails` | the message components, `useThreadMessageState`, `ensureToolCallsHaveResponses` |
| `AccountPages` | `Save`, `PatchAccount`, `PatchPolicy`, `Saved`, `SaveFails`; `Remove`, `DeleteMember`; `ChooseFiles`, `RemoveFile`; `LoadTraces`, `OpenTrace`, and the answers; `Throws` | the handlers of `app/admin`, `app/files`, `app/traces`, statement by statement |

`Pages` instantiates all seven. They are mounted in different pages or panes and share no
state except through servers, which each of them sees as external steps that may happen
at any time (a token that is refreshed, a pause another client answers, a thread that
is created). A behaviour of `Pages` therefore follows one of them, `part`; an
interleaving of two would only multiply states. Where parts do meet, the meeting is
inside one module: the pause and its answers in `ApprovalInbox`, the thread and the message
box in `Composer`, the run and its stop in `RunLifecycle`.

What React does is assumed as follows: the components are rendered with what the stream has
learned at once; the passive effects of that render may run later, and a retry or an answer
may come in between; an event of the user is handled when they have run. So the view of a
pause that is over, its form, its saved decisions and a retry of its approval coexist with
the next pause, on the server (`PauseAgain`) and on display (`Switch`), until `AutoEffect`
runs the effects in their order: the form and what was saved and approved for the pause
before are forgotten (`Renewed`), the closure of the approval before is no longer mounted
(`Killed`), and a new approval may begin. `Hide` is a thread that is left: its components are
unmounted at once. A request that fails may have been taken by the server (`Unheard`).

In `CodingPage` a call that fails at the client may still be served later (`CallFails`, chain
`lost`): a `fetch` that rejects does not recall the request. In `Transcript` the messages and
the pause come on channels of their own: the page may know of a pause before its message is
there (`PauseTold` with `due`), which `PauseIsShownOnce` waits for (`CaughtUp`); every message
of the user has an editor of its own. In `BrowserAccounts` any page may call `logoutAll`,
which the provider offers although no screen of this commit uses it.

Data are reduced to what the properties tell apart: arguments are `orig` or `changed`, a
title is one of two, a file has a name, a type and whether it is large, a folder has
files that may be imported or not.

### 3.7 MC modules and `Mut...` definitions

`MCToolInvocation`, `MCAccounts`, `MCApprovalInbox` and `MCPages` define
messages, batches, requests, files, bounds and symmetries; `MCModelCall`,
`MCDocuments` and `MCRunLifecycle` add nothing. No run has a state constraint: every
bound is a guard of the module. Attempts and requests are interchangeable, so their
permutations are symmetries of the runs that check safety only.

Every definition named `Mut...` is a plausible bug in one operator. It is used by no
specification here; replacing the operator by its `Mut...` form makes the property that
`PROJECT.json` names for it fail.

## 4. Runs

| Run | Instance | Distinct states | Question |
|---|---|---|---|
| `tool_batch` | 2 attempts, 2 gated calls | 1.03 million | Are decisions atomic, and followed, when two resumes record them at once, and do the rows implement `ToolGate`? |
| `tool_mixed` | 2 attempts, 1 gated and 1 ungated call | 1.31 million | At most once, as decided, one outcome, final decisions, with crashes and failures |
| `tool_live` | 2 attempts, 1 gated call, 2 messages | 33,421 | Does every live attempt settle, every running call end? |
| `tool_resume_conflict` | 3 attempts, 1 gated call | violated | Is an identical resume always accepted? |
| `model_calls` | 2 workers, 2 calls, 1 key | 103,372 | Single flight, quota, rate, lock ownership; do calls end and locks go? |
| `model_month` | 2 workers, 4 calls | violated | Is a charge ever lost? |
| `accounts` | 2 requests at a time, 5 in all, 2 addresses, 2 ids each, 2 links | 403,170 | Revocation, links, administrators |
| `accounts_revoked` | the same with 1 registration | violated | Does a revoked token stay revoked, whatever the requests? |
| `documents` | 2 uploads, 1 searcher, 1 failure | 1.87 million | Do rows, objects, documents and cached results stay together? |
| `run_lifecycle` | 2 threads, 3 runs, 1 clean-up at a time, 1 trouble | 460,338 | Which runs are cancelled, does the composer come back, does a stop reach the server? |
| `pages` | the seven parts, bounds below | 1.30 million | The properties of 3.6 |
| `approval_later` | one part of it | violated | Does the box approve later calls only? |

The bounds, and why they suffice for the question:

* Two of every actor that competes (attempts, workers, requests, uploads,
  threads, tabs, calls of a page in flight): the hazards are of one actor between two steps of
  another. `tool_resume_conflict` needs a third attempt for its pause to be
  answered twice. That nothing depends on the number is what the proofs say.
* `Calls`: two, the fewest for which a batch can be half decided and a gated and an
  ungated call can meet; one in `tool_live`, where two gated ones are too many states for
  liveness: what is checked is that an `UPDATE` outlives a holder that dies or fails. Two
  resumes cannot wait for each other in a circle, for each takes the rows in the order of the
  batch, which no run shows. `Inputs`: the model's payload and an edited one in `tool_mixed` and
  `tool_live`; `tool_batch` has one, for what it asks does not depend on the payload.
  `Reasons`: two wherever two resumes may both reject, so that they may agree or not. A
  message without gated calls is covered by the proofs and by no run.
* `MaxCalls`: two calls on two workers. `Quota` and `RpmLimit` of one make every boundary
  reachable within it. `MaxMinute`: two minutes.
  `MaxEvents`: one failure, expiry of a response, restart of Redis, end of a month or turn
  of the clock. `LockExpires` is not bounded by it. `model_month` has four calls, for
  a charge has to fall between two renewals.
* `MaxRequests`: five, which is what three confirmations of one link need (a
  registration, an issue and three confirmations) and enough for a registration, two
  logins and two overlapping revocations. `MaxRegistrations`: two, so that a deleted
  address can be registered again. `MaxLinks`: two, so that a link can be replaced.
* `MaxFiles`: two, so that one upload meets another of the same content at any stage.
  `MaxFaults`: one, at any step, of any store.
* `MaxRuns`: three, for a run that was there, one that is stopped and one that follows;
  `MaxTroubles`: one failed request, lost event, navigation or refresh of a token.
  `Jobs`: one clean-up at a time, so that no clean-up supersedes another in the run; the
  theorems `SessionInvariant` and `NothingElseIsCancelled` have any number.
* `MCPages!MCBound`: two pauses, so that a form, saved decisions, a request or a retry of the
  first can meet the second, with one retry and two events (the second pause is one of them, a
  failure, an update of the stream or an edit the other). Two tabs, two calls in flight and two
  events of the accounts; while both tabs are open one of them (`shared`): a login, a request,
  a lost answer or an expiry in either tab, besides what counts as no event (starts, refreshes
  by the timer, changes of account and logouts), which is enough for one tab to write a list
  the other has changed meanwhile. Two loads, two jobs and two events of the list. One run of
  the coding page, four calls, one more than the loads of a refresh, and two events: a lost
  deletion or run and what follows it. Two reads and two messages of the box, from two picks of
  two files each, and two changes. Six messages, three events of the conversation: a turn with
  calls, their results and a second turn. Two handlers of the pages beside the chat, four
  events.

`CHECK_DEADLOCK FALSE` in `accounts`, `documents`, `run_lifecycle`, `pages`, `approval_later`
and `accounts_revoked`:
what is bounded there are the deeds of users, and once they are used up nothing may be left
to do. The others are checked for deadlock; their `Quiescent` steps say when they may stop.

What the constants are assumed to be is named: `BatchAssumption`, `InputAssumption`,
`PolicyAssumption`, `AccountsAssumption`, `DocumentsAssumption`, `BoundsAssumption`,
`PagesAssumption`. The last one says of the records and lists that are constants of `Pages`
what the code that makes them guarantees: a pause has one config per call, and two configs of
one tool allow the same decisions, for the agent looks them up by the name of the tool
(`interrupt_on.get(tool_call["name"])`, `app/agents/chat.py:225-239`); a stored list of
accounts names none twice, for `saveAccount` removes one before it adds it; a tool that is
gated, a model that can see and the model in use are among those there are; the files that
can be uploaded are a sequence. `BoundsAssumption` of `Pages` says that its bounds are numbers,
that at least one pause may come, and that with several tabs no more happens than with one.

## 5. Fairness

Weak fairness is assumed of what the code schedules itself, and of nothing else.

* `ToolInvocation!FairSpec`: each live attempt's next statement and each tool call's next
  step. PostgreSQL ends a statement or a connection, a transaction that waits for a row goes
  on when its holder ends, and every tool call has its own timeout.
* `ModelCall!FairSpec`: each live worker's next step (Redis is called with socket
  timeouts, whose outcomes are `CountFails` and `WaitGivesUp`; the wait for another call's
  response has a deadline, the model client a timeout) and `LockExpires`, for Redis removes
  a key whose TTL is over.
* `RunLifecycle!LiveSpec`: effects that are due (`LoadingEffect`), timers that are armed
  (`Timeout`), that some submission is answered while one waits (`OnCreated`), and that
  every clean-up makes progress, for each of its requests is answered or aborted after 10 s.
  `StopReachesServer` speaks of the runs that survive their stop (`Surviving`), `BusyEnds`
  excepts what has lost its watchdog to another attempt's rejection (`bared`). Nothing is assumed of the server: a
  run may hang for ever, and `Reconcile`, `OnCompleted` and `SeesRunning` need not happen.

No attempt has to begin, Redis need not come back, no crash or failure is fair. `Accounts`,
`Documents` and `Pages` have no liveness property: their handlers do not wait for each other
except for row locks, and what the pages wait for is the network.

## 6. Proofs

Proved by TLAPS for any number of attempts, calls, workers, keys, requests, accounts,
links, uploads, searches, runs, threads, clean-ups and calls in flight, from the named
assumptions on the constants only.

* `ToolInvocation_proofs`: `Invariance` (`Spec => []IInv`) and from it `TypeOK`,
  `AtMostOnce`, `ExecutedAsDecided`, `DecidedTogether`, `RowsAgree`, `ToolsFollowRecord`
  and `RepliesAgree`. At-most-once execution is not inductive: it needs that
  whoever is about to claim has read `approved` and carries the effective payload, that a
  running call has one executor (`Executors`), that open transactions hold a prefix of
  the batch and no row twice (`Transactions`), and that what an attempt has matched
  is on record (`Recorded`). `IInv` is their conjunction.
* `ToolGate_proofs`: `DecisionIsFinal`, `RepliesMatchPayload` and the refinement. Only
  `CommitDecisions` writes decisions, and it finds the whole batch pending
  (`CommitWholeBatch`), which is one `Answer` of `ToolGate`; a payload is
  never replaced once it is effective (`PayloadsStay`); every other step that touches
  `status` or `executed` is one step of `ToolGate` or a stutter (`GateStep`).
  `RepliesMatchPayload` needs that whoever has an answer to give compared the payload
  before (`Answered`).
* `ModelCall_proofs`: `CallInvariant` (`Spec => []IInv`) and from it `RpmHolds`,
  `QuotaOvershoot`, `SingleFlight`; `LockIsNotStolen` as an action property. `Progress`
  ties what a call has to where it is. `Charges` bounds the usage by the quota plus one
  response for each worker that is *not* between check and charge, so that a charge
  moves a worker from one side to the other. `Flights` counts generations, made and
  announced, against the events that excuse them (`Excess`), and says that a call which
  holds its lock and is to ask the model has none to spare.
* `Accounts_proofs`: `AccountInvariant` and from it `RevocationHolds`;
  `ReplacedLinkIsDead`, `NobodyElseIsFirst`, `LinkIsSpent`, `AdminRemains`. While no
  revocation of an account was overtaken its version equals the number of revocations, and
  every token carries that number as of its signing (`Versions`). Once a link has been
  used, its uses and the confirmations that still have it read are together no more than
  its `rivals`, and nobody reads it again (`Spent`). Whoever takes an administrator's role has counted another one, and unless
  `crossed` that one is still there (`Careful`).
* `Documents_proofs`: `DocumentInvariant` and from it all properties of the module, with
  `NoStrayCopy`, which no run checks. `HandlersKnow` ties what an upload has done,
  and what nobody else can have done yet, to where it is (a file has no row before the
  commit, so nobody removes it; a document that is being replaced has failed and stays so).
  `SearchesAreCurrent` says of a result that is about to be stored what `CacheIsCurrent`
  says of a stored one.
* `RunLifecycle_proofs`: `IInv` (which the run checks too: the active run is followed by
  a live controller, what is loading is watched, what is settling has its clean-up) and
  `CancelIsWanted`. The latter needs `CancelInv`: everything submitted to a thread that is
  being cleaned up, and everything whose controller was replaced before it learned its
  run, is `wanted` or `exposed` (`SweptIsWanted`, `LateIsWanted`), because a session that is
  settling accepts no submission (`SettledIsFree`).
* `PagesData_proofs`: what the parts of `Pages` show, send, decide and remember. Each has an
  invariant of its own part, for any number of calls, files, messages, tabs and answers:
  * `AskInv` gives `DecidedAsSeen` and `DecidedHere`. A view is of the last pause or of one
    before it; once the effects have run for what it shows, its form and its saved decisions
    are about that (`ViewFine`), changed arguments are remembered as an edit (`FormFine`), and
    every saved decision is `Good`: made at this pause, allowed by every config of its tool, and
    about the arguments on display. A request about the last pause has good decisions, unless
    it is a retry that met a pause whose effects had not run (`RequestFine`); an approval
    that may be tried again is about the pause on display, once the effects have run for it,
    because they have ended every other (`SlotFine`). The configs of a batch may come in
    another order than its calls, which is why `Good` speaks of the configs a tool's name finds.
  * `BoxInv` gives `SentWhereAdded`, `Plain` gives `BoxFitsModel`. Every block and every read
    of the current generation is for the next message and, once the effects have run, for the
    thread of the page (`Fits`); the effects lag behind only after a run has created its
    thread (`EffectsLag`). Once the effects have run for a model without vision, the box
    has no picture and no read of the current generation has one, for the generation
    changed when the model did.
  * `ChatInv` gives `PauseIsShownOnce`, `TurnsAnswered` and `RunIsSeen`. A result that
    follows calls is preceded by hidden ones only until there is one for these calls, and an
    answer without calls comes when every call before it has its result (`WellFormed`); a
    pause asks about calls of the last message, or of one still to come (`PauseAtEnd`); the page believes that
    the first token is there only when an answer or a result is (`FirstAwaited`).
  * `AccountInv` gives `KnownAccountsKept`, for any number of tabs that sign in and out. The
    list a call captured has the users its tab has, up to those who have left while the page is
    being left; a call of the start or of the login screen is the only one of its tab
    (`CallFine`); who has left is not in the tab's list before its page is left (`TabFine`).
* `Pages_proofs`: `NothingStaysBusy` from one invariant per part (`InboxMarks`,
  `ListMarks`, `CodingMarks`, `BesideMarks`), `BuriedStayHidden` and
  `CopyKeptWhileRunning`. `InboxMarks` is what the user has begun (`UserMarks`) and what is
  approved without asking (`AutoMarks`: its mark, its key and the box of a pause that waits
  each belong to an approval that goes on, unless it was `cut`). A mark and the call that ends it are set by one step; what has to
  be shown is that no other call, answer or remount takes one without the other.
  `TypesAreKept` is the invariant `TypeOK` of all seven parts, which says more than which
  values there are: the action on display is one of the pause, the active account one of the
  tab's, the counters of the coding page add up, a page that is being restored has exactly one
  call that restores it. In four parts it is not inductive and follows from a stronger one:
  * `InboxShape` (in `PagesData_proofs`): a request that waits for another attempt has one left.
  * `AccountsShape`: neither the store, nor a tab, nor a call lists a user twice (`NoTwice`);
    an answer that grants something brings a token (`CallOK`); no user's tokens were ended more
    often than events are counted (`ServerOK`); a tab that is being restored has its one boot
    call out and no other tab has one (`BootsOK`).
  * `CodingShape`: a call works on a workspace the page may name, and a list of workspaces
    it was answered has at least the root (`AskFine`), so that one can be chosen from it.
  * `BesideShape`: a handler is of the page that is open and has captured a member, files or
    a filter of that page (`PageWork`).
  * The types of the other three are in `Tombs`, `BoxInv` and `ChatInv`.

Only model-checked: liveness (`AttemptsSettle`, `RunningIsFinished`, `CallsEnd`,
`LockIsFreed`, `BusyEnds`, `StopReachesServer`), which with ENABLED is out of
the prover's reach. Every safety invariant and every action property the runs check and
find to hold is a theorem.

## 7. Findings

* `tool_resume_conflict`: `_load_decision_rows` reads the invocation, then the
  approval. If another resume with the same decision commits in between, the identical
  resume is answered with `ApprovalConflict`, although the comment at
  `app/services/tool_invocation_service.py:439` promises that an exact match counts as
  idempotent.
* `model_month`: two calls that find the month over at the same time both renew the
  quota; the second renewal erases what was charged after the first, although charges
  are atomic increments (`tests/test_runtime_security.py:133`).
* `accounts_revoked`: overlapping revocations write the same `token_version`, so a
  token handed out between their commits is still valid after the second, although
  `README.md:120` promises that `logout-all` invalidates all existing tokens.
* `approval_later`: the box says that *later* calls are approved in this browser
  (`inbox-item-input.tsx:430`); the effect reads the preference whenever the stream
  changes (`thread-actions-view.tsx:215`) and then approves the call on display too.

What the passing properties say about behaviour that is easy to misjudge: the quota
may be exceeded by one response per concurrent call (`QuotaOvershoot`), a lock that
expires under a slow generation leads to a second one but never to a stolen lock
(`SingleFlight`, `LockIsNotStolen`), concurrent confirmations may each use a reset link
(`LinkIsSpent`), and two administrators can remove each other (`AdminRemains` holds only
because it excepts requests whose check was made on other administrators).

What a deletion cannot take back (`CacheIsCurrent` speaks of results read since the cache
was last cleared): a search that read a document before its deletion may store it
afterwards, and it is found for 300 s more. A process that dies while it embeds leaves a
document in processing, which answers every later upload of the same content
(`ProcessingIsAttended`, up to failures). Of two uploads of one content that both find
none, the second fails and its stored file stays (`FailedUploadLeavesNothing`, up to
`broken`). A run that begins between the two lists of a clean-up is in neither and
goes on, as does one whose id a dead session learns (`StopReachesServer`, up to `missed`).

## 8. Not modelled, and known gaps

Within the modelled components, what the models show to happen and no document
promises otherwise; the properties are stated up to it:

* `Auth.tsx`: an answer of status 200 that is no JSON leaves the start unfinished (193); a
  refresh that began before logout brings the account back while the page is being left (266),
  which `KnownAccountsKept` excepts; a tab overwrites what another has added since it was
  loaded (216), so that the property speaks of the accounts the writing tab knows.
* `Thread.tsx`: of two loads the older may answer last and is shown. `thread-list.tsx:186`:
  the end of one rename closes the editor of another row.
* `app/coding-agent/page.tsx`: a refreshed token resets the chosen model (500), a list
  answered late replaces a newer one (514), details are shown in the order of their
  answers (624).
* `use-file-upload.tsx:44`: a large PNG that is converted to JPEG is not recognised as a
  duplicate; a message can be sent before a read is done, and the file is then dropped.
* `inbox-item-input.tsx:315`: unticking the box during the delay of a retry does not stop
  it. `Stream.tsx:510`: an answer given while the session settles is dropped, and the view
  reports success.
* `thread-actions-view.tsx:282`: an automatic approval whose closure is replaced by a new
  context of the stream, or whose request was dropped, does not take its mark back, and the
  button stays disabled until the pause goes or the stream changes; so it does when the box is
  ticked and nothing changes, and `streamFinished` of a submission that was taken for done
  (`use-interrupted-actions.tsx:161`) is not reset by the next pause and keeps its approval
  from beginning (`BusyIsExplained`, up to `cut` and `finished`). In a batch the preference
  for the action on display disables "approve all" and "resolve" (449-454), although nothing is
  approved on its own there; the actions can still be decided one by one, which is what the
  property speaks of.
* `thread-actions-view.tsx:255`: a retry whose delay ends after the next pause is rendered and
  before the effects that end it have run approves that pause (`DecidedHere`, up to `gap`).
* `ai.tsx:168` shows an interrupt that is no approval. No code of this repository raises one:
  the only `interrupt()` is the one of the middleware (`app/agents/chat.py:264`), whose value
  always has the action requests and the review configs, so no run can reach that branch.
* `ensure-tool-responses.ts:23`: a batch of a rejected and an approved call that is stopped
  leaves the approved one without a result, and none is added because one call has one.
* `Stream.tsx`: the clean-up of an unmounted session runs on and may cancel what the next
  session submits (599); the reconciler may take the run before for the current one (340); a
  run whose id arrives after its session was unmounted goes on (406); a rejection of a replaced
  attempt's promise clears the watchdog of the current one (500); an answer to a pause that is
  not loading yet is not cancelled by a refresh of the token (603).
* `app/admin/page.tsx`: settings are half stored when the second request fails (138), a
  deletion is reported as failed when only the list could not be read again (217), and all
  rows share one mark for saving and one for deleting (54). `app/files/page.tsx:72` and
  `app/traces/page.tsx:135`: a request that throws leaves the button disabled.

Not modelled within them: passwords and expiring tokens of `Accounts`, downloads and
account deletion beside `Documents`, calls without a user and the list of allowed models
beside `ModelCall`, branches, artifacts and the rendering of messages beside `Transcript`, and the submission of an
edited message by its keyboard shortcut, which does not ask whether the page is busy, beside
`RunLifecycle`.

Components without a module (1.9) have hazards of their own, listed in `PROJECT.json` with
a note: the backfill of memories (`memory_service.py:176`), two runs that insert one
conversation (`chat.py:916`), the limits of imports (`routers/coding_agent.py:118`), coding
runs left running by a crash (266), the streaming endpoint's cache, read before the policy
is checked (`routers/chat.py:97`). Their handlers read, decide and write without a lock,
and no code, document or test promises anything about overlapping requests that a property
could state. Two more are in modelled code without a promise: a span that is
left running by a cancellation (`chat.py:1187`) and a login that overlaps a
change of the password (`auth/service.py:119`).

## 9. Running

`tlc -config ToolMixed.cfg MCToolInvocation` (and the other configurations with the
MC module that `PROJECT.json` names), `tlapm Accounts_proofs.tla` and likewise for the
other proof modules. On two cores the longest run takes about two and a half minutes, and so
do most proof modules; `ModelCall_proofs` and `RunLifecycle_proofs` take some minutes,
`Pages_proofs` and `PagesData_proofs` about a quarter of an hour each.
