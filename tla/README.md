# LambChat: verification models

TLA+ models of the parts of LambChat whose correctness depends on the order in
which concurrent workers, callbacks, timers and answers act: on the server the
admission of runs and the writing of their events, in the browser the streams,
sockets, tokens and uploads of the chat page. The TLC configurations check them on
small instances; the proofs, checked by TLAPS, establish the main results for every
value of the constants. All paths below are relative to the repository; in text
`frontend/...` is `src/frontend/...` and a bare Python or TypeScript file name is one
of the inventory's.

```
tlc -workers 4 -config LimiterCalm.cfg MCUserConcurrency.tla
tlapm UserConcurrencyProofs.tla     # likewise the other *Proofs.tla
```

1. [The system](#1-the-system)
2. [Modules](#2-modules)
3. [UserConcurrency: the per-user limiter](#3-userconcurrency-the-per-user-limiter)
4. [DualWriter: the buffered event writer](#4-dualwriter-the-buffered-event-writer)
5. [AgentStream: one chat view](#5-agentstream-one-chat-view)
6. [MessageFold: from events to an answer](#6-messagefold-from-events-to-an-answer)
7. [SocketClient: the notification socket](#7-socketclient-the-notification-socket)
8. [TokenSession: login, tokens and requests](#8-tokensession-login-tokens-and-requests)
9. [Uploads: attachments and their files](#9-uploads-attachments-and-their-files)
10. [Runs, bounds and what they show](#10-runs-bounds-and-what-they-show)
11. [What is proved](#11-what-is-proved)
12. [Disagreements between code and documentation](#12-disagreements-between-code-and-documentation)
13. [What is not modelled](#13-what-is-not-modelled)
14. [What comes next](#14-what-comes-next)

## 1. The system

LambChat is a multi-worker FastAPI server with a React frontend. Several identical
processes ("workers") serve the HTTP API and execute agent runs as asyncio tasks.
They share Redis (locks, counters, queues, streams, pub/sub) and MongoDB (sessions,
traces, users). A chat request goes through these parts:

```
 useAuth/tokenManager --token--> every request and socket of the page
 useFileUpload --attachments--> ChatInput
                                   | sendMessage
 chat view (useAgent) <--SSE-- chat route --acquire--> limiter --STARTED--> task manager
     |  fold of events            |               |  \--QUEUED/REJECTED--> client  |
     |  stop/cancel --> cancel route --cancel--> cancellation --release-->limiter  executor --> agent
 useWebSocket <--notifications-- websocket routing      |                          |  |        |
                                                        \--pub/sub--> workers   heartbeat  presenter
 startup cleanup / recovery --replay, claim_recovery_slot--> limiter                     dual writer
                                                                                    (Redis + Mongo)
```

### Inventory

| Component | State | Operations | What is hard | What makes it correct | Where |
|---|---|---|---|---|---|
| Per-user limiter `infra/task/concurrency.py` | Redis: sorted set of active runs, list of waiting runs with their context, a mutex with a TTL | `acquire`, `release`, `refresh`, `claim_recovery_slot`, `remove_from_queue`, dispatch of a popped entry | check-then-act over several Redis commands; a mutex that expires; `refresh` outside it; crash between pop and dispatch; fail-open on timeouts | slots bounded; line served in order; a queued run is not lost, not started twice, not forgotten; ended runs give their slot back | `UserConcurrency`, `SlotPool` |
| Chat and session routes `api/routes/chat.py`, `session.py` | session metadata | `chat_stream`, `cancel_session` | metadata written after the answer of the limiter | the caller acts on the limiter's answer | calls in `UserConcurrency` |
| Background task manager `infra/task/manager.py` | `_tasks`, `_run_info`, `_executor` per process | `submit`, `submit_recovery_run`, `_on_task_done`, `shutdown` | callback that needs state written by another coroutine | one release per run | `tasks`, `info`, `warm` in `UserConcurrency` |
| Executor `infra/task/executor.py` | run and session status, trace | `run_task`, status updates, cancellation handler | staleness check and update are two MongoDB calls | status only moves along the run's life cycle; a stale run never overwrites a newer one | begin and end in `UserConcurrency` |
| Cancellation `infra/task/cancellation.py` | local cancel set, interrupt key, pub/sub message | `cancel_run`, remote listener | cancel arrives on a worker that does not run the task | a cancelled run stops and frees its slot once | effect on slots and queue in `UserConcurrency` |
| Heartbeat `infra/task/heartbeat.py` | heartbeat key, slot timestamp | loop, start, stop | beat after the end of the run | no slot is resurrected | `Refresh` in `UserConcurrency` |
| Recovery `infra/task/recovery.py` | recovery lock (SET NX EX), session metadata | `recover`, resubmit | session read before the lock; lock outliving or underliving its work | one recovery per interrupted run | slot side in `UserConcurrency` |
| Startup cleanup `infra/task/startup_cleanup.py` | – | rewrite of queues, replay, sweep of stale sessions | runs on one worker beside the live others | nothing alive is cleaned | `CallRewrite`, `CallReplay`, `Sift`, `Swap` in `UserConcurrency` |
| Dual writer `infra/session/dual_writer.py` | buffer, flush event, current timer | `write_event`, timed and forced flush | overlapping flushes, cancellation in the middle of an await | each event in one place; a forced flush leaves nothing; timed flushes cannot stop for good | `DualWriter` |
| Presenter storage `infra/writer/` | trace completion flag | `complete`, events | completion after flush | complete implies stored | caller of `DualWriter` |
| Session and trace storage `infra/session/` | MongoDB documents | single-document updates | – | – | not modelled |
| Scheduled tasks `infra/scheduler/` | slot claim, execution lock with TTL | claim, run with retries, timeout | lock TTL without margin | one execution per slot | not modelled |
| Human approval `api/routes/human.py` | approval document, waiting agent | respond, cancel, extend, expire | three parties race over one document | one outcome per approval | not modelled |
| Pub/sub hub `infra/pubsub_hub.py` | subscriptions, one listener | subscribe, restart | listener restarts while subscriptions change | no live subscription unserved | not modelled |
| WebSocket routing `infra/websocket.py` | connection tables, Redis route | connect, disconnect, send | route written after the lock is given up | a connected user has a route | not modelled |
| MCP pool and quotas `infra/tool/mcp_pool.py`, `infra/mcp/` | pooled clients, counters | get, replace, evict; quota script | clients closed while a caller is about to use them | a client in use stays open | not modelled |
| Sandbox manager `infra/sandbox/` | per-user locks, sandboxes | get or create, resume | creation by several workers | one sandbox per user | not modelled |
| Chat view `frontend/src/hooks/useAgent*` | refs for the stream, the request number, known events; messages | `sendMessage`, `connectToSSE`, `loadHistory`, `clearMessages`, `stopGeneration`, `reconnectSSE` | every operation awaits answers that arrive when the page shows something else; streams replay from the start; three ids for one message | one stream; an answer is its run's text, once, in its session; nothing stays "running" | `AgentStream` |
| Folding of events `useAgent/messageParts.ts`, `eventProcessor.ts`, `historyLoader.ts` | tree of parts, stack of subagents | live fold, fold of history, final clearing | parallel and nested subagents; two implementations of one fold | nothing lost or misplaced; reload shows the same; nothing spins after the end | `MessageFold` |
| Notification socket `frontend/src/hooks/useWebSocket.ts` | refs, timer, socket | `connect`, handlers, `disconnect`, effects | each early return trusts another callback to go on | never stranded; nothing left after unmount | `SocketClient` |
| Login and tokens `frontend/src/services/api/*`, `hooks/useAuth.tsx` | localStorage, shared refresh promise, shown user | boot, login, OAuth, reload, logout, requests with retry | a login ends while its answers are under way; one refresh for many requests | page, tokens and user agree; each request is answered; no endless loading | `TokenSession` |
| Uploads `frontend/src/hooks/useFileUpload.ts`, `services/api/upload.ts`, `src/src/api/routes/upload.py` | attachments, map of abort functions; file records with reference counts | choose, compress, hash, check, send, cancel, remove; dedupe, reference, delete | cancel between awaits; two instances of one hook; deletion beside deduplication | removed stays removed; what was cancelled is not sent; the limit holds; uploads end | `Uploads` |
| Approval dialogs `frontend/src/hooks/useApprovals.ts` | dialog list | poll, answer | races the server's approval | – | not modelled |
| Rest of the frontend (panels, layout, scrolling, rendering, documents, login page, sharing, PWA) | UI state | forms, markup, measurements | – | – | not modelled |
| Channels, agents, tools, skills, memory, LLM clients, users, roles, auth, settings, usage, sharing, files, other API | documents | request-level CRUD and I/O | external servers | – | not modelled |

Server paths are below `src/src/`. `PROJECT.json` lists the same components with their
status, and the main hazards with their lines and the properties that would notice them, or
why none does.

## 2. Modules

| Module | What it is | Instance | Proofs |
|---|---|---|---|
| `SlotPool` | Abstract: a bounded set of slots and a first-come first-served line. | – | `SlotPoolProofs` (it is implemented) |
| `UserConcurrency` | Detailed: the limiter, Redis command by Redis command, with its callers. | `MCUserConcurrency` | `UserConcurrencyProofs` (types, the bound, waiting runs, slots given back), extended by `SlotPoolProofs` |
| `DualWriter` | The MongoDB half of the event writer of one process. | `MCDualWriter` | `DualWriterProofs` |
| `AgentStream` | One chat view, the server's feed and the requests between them. | `MCAgentStream` | `AgentStreamProofs` (types, streams, session, ids), extended by `StreamTextProofs` (what the answers show) |
| `MessageFold` | The two folds of a run's events into an answer. | `MCMessageFold` | none: it is recursive |
| `SocketClient` | The notification hook. | `MCSocketClient` | `SocketClientProofs` |
| `TokenSession` | Tokens, requests and the user shown. | `MCTokenSession` | `TokenSessionProofs` |
| `Uploads` | Attachments, their uploads and the server's files. | `MCUploads` | `UploadsProofs` |

A definition that a comment calls a "Mutant" or "altered" is the mutated form of the one
that follows it. No action uses it; it is there to show that the checks notice if the
code were changed in that way.

The browser's modules and the server's meet at data, not at steps: `AgentStream` has the
server's run only as a feed of events (what `DualWriter` stored) that ends, and
`MessageFold` starts where `AgentStream` delivers, exactly and in order while a stream is
read. They are checked apart, each with every behaviour of the other side that its code
can meet.

## 3. UserConcurrency: the per-user limiter

### What it stands for

All Redis keys are per user and no operation touches two users, so the module has
one user, one who has a limit. `lock`, `queue` and `active` are the three Redis
keys. A *job* is one asynchronous call into the limiter on some worker; `pc[j]` is
the await it has reached, `op[j]` the operation. Each Redis command is a step of
its own, so that the commands of two workers interleave as they do in reality.

| Code | Model |
|---|---|
| `acquire` | `CallAcquire`, `Lock`, `Count`, then `Admit` or `Measure` and `Push`/`Reject`, `Unlock`, `Reply` |
| `claim_recovery_slot` | `CallRecover`, `Lock`, `Inherit`, then as `acquire` |
| `release`, `_try_dequeue_next_locked` | `CallRelease`, `Lock`, `Zrem`, `Pop` (repeated over expired entries), `Count`, `PutBack` or `Promote`, `Unlock`, `Dispatch`/`DispatchDrops` |
| `refresh` (called by the heartbeat) | `Refresh`: a ZADD without the mutex |
| `remove_from_queue` (called by the cancel route) | `CallCancel`, release, then `Lock`, `Sift` for each entry, `Swap` |
| `_rewrite_queue_without_expired` at start-up | `CallRewrite`, `Sift`, `Swap`, all without the mutex |
| `replay_pending_queued_tasks` at start-up | `CallReplay` |
| `_acquire_user_lock`, `_release_user_lock` | `Lock` (SET NX), `Unlock` (compare and delete), `LockTimeout` (five seconds of polling), `LockExpires` (TTL) |
| `submit`, `_on_task_done`, `_run_info` | `Reply`, `CallRelease`, `CloseUnknown`, `tasks`, `info` |
| `run_task` | `StartRun` (the heartbeat starts), `RecordRun` (`_run_info` is written, after the trace and the user's message), `FinishRun` |
| process death and restart | `Crash` |

`phase[r]` is the state of a run as its callers and its session see it: `asked` ->
`admitted`/`queued`/`rejected` -> `started` (task created) -> `running` (heartbeat
on) -> `done` -> `closed` (callback ran). A queued run may also become `removed`,
`expired`, `dropped` (given up by the code), `orphaned` (lost with a crashed
worker); a run on a crashed worker becomes `crashed` and, once recovered,
`superseded`.

`grace` is a history variable that no guard reads. It records why a live run is not
on the limiter's books: it was let in without a slot (`failOpen`), its slot was
taken away while it went on (`released`: remote cancel, or replay), or its entry
was not refreshed in time (`lapsed`).

### Abstractions

- *Time.* An entry of the sorted set whose timestamp is older than the heartbeat
  timeout is never counted again, so it simply leaves `active` (`SlotLapses`). A
  running task refreshes in time; a task that has not started its heartbeat, or
  whose worker died, does not. Entries older than the queue timeout are in `aged`.
  The mutex's TTL ends at any time after its holder died, and under the fault
  `slow` also while the holder lives.
- *Data.* A queue entry is its run; sessions matter only for `remove_from_queue`.
- *Merged steps.* ZREM and ZADD of `claim_recovery_slot` are one step (the code
  sends them back to back and nothing reads the set without the mutex in between
  but cleanups of other runs). `_cleanup_stale_active` and the ZCOUNT that follows
  are one step, for stale entries are no longer in `active`. `remove_from_queue`
  reads its first page of 100 entries in the step that takes the mutex: a queue is
  shorter than a page.
- *Limits* do not change while a run is in the system; that `get_user_limits` falls back
  to default limits when it fails, as a cancel may meet it, is left out.
- *Left out*: users without a limit (they never touch these keys), the `arq`
  backend, single Redis commands that fail within a section, graceful shutdown,
  session documents. What can go wrong there is listed in section 12.

### Faults

A configuration picks which faults of the environment may occur: `timeout` (waiting
for the mutex takes more than five seconds), `error` (`submit` or a dispatch
raises; a task fails, or is killed by a cancel from another worker, before it has
recorded its user), `age` (entries expire in the
queue), `lapse` (an admitted run's entry lapses before its heartbeat begins), `slow`
(the mutex expires under its holder), `rewrite` (another worker starts and rewrites
the queue). Crashes and cancellations are bounded by `MaxCrashes`, `MaxCancels`.

### Properties

- `AdmissionBound`: never more than `MaxConcurrent` runs on the books.
- `NoLostRun`: a run told to be queued is in the list or carried by a job.
- `DispatchedOnce`: an entry is in one place; nothing started is still in the list.
- `EndedRunsGiveBack`: a finished run whose user is known has no slot, or the
  release that takes it is on its way. This is what a late heartbeat would break.
- `ImplementsSlotPool`: with the popped entry counted at the front of the line, and
  the runs on the books as holders, each behaviour is one of `SlotPool`. It implies
  first-come first-served, which no invariant states: `PutBack` must return an entry
  to the *front*.
- `QueuedLeaves`: a queued run does not wait for ever.
- `RunningWithinLimit`, `AnyWorkerDispatches`, `CleanupDropsOnlyExpired`: what
  comments and descriptions say and the code does not do (section 12).

### Fairness

`QueuedLeaves` assumes weak fairness of: each job's `Section` (a coroutine that
has begun is scheduled, and Redis answers), `StartRun`, `RecordRun` and `FinishRun` of each run
(tasks start, and end: a model call fails or times out), the release of each
finished run (the done-callback is scheduled by asyncio and creates a task), and the
expiry of an orphaned mutex (Redis TTL). Nothing forces a user to send or cancel,
or a worker to crash. Nothing forces `LockTimeout`.

Weak fairness of `Section(j)` suffices although jobs compete for the mutex,
because each run asks, releases and is cancelled a bounded number of times, so that
no job can take the mutex again and again.

## 4. DualWriter: the buffered event writer

`DualEventWriter` of one process writes each event to Redis directly and appends it
to a buffer for MongoDB. The buffer is taken by three kinds of flush: a timer
started by the first append after the flush event was set; an append that fills a
batch; a forced flush by a run task that ends. All code runs on one event loop, so
one step is what lies between two awaits.

| Code | Model |
|---|---|
| `write_event` (buffer part, overflow, timer, full batch) | `WriteEvent`, `Kept` |
| `flush_mongo_buffer`, `_drain_scheduled_flush_task` | `Flush`, `CallFlush`, `Resume`, `TakesOver` |
| `_do_flush` | `Take` (to the bulk write), `Written` (after it), `Finish` |
| `_schedule_flush`, `_on_flush_task_done` | `TimerSleeps`, `TimerWakes`, `TimerWrote`, `TimerKilled`, `Ends` |
| `task.cancel()` on a run task, its handler | `Cancel`, `CallFlush` from `handling` |

State: `buffer`, `ready` (`_flush_event`), `current` (`_flush_task`), `waiting`
(`_flush_task_waiting`), the state of each timer, the batch each timer and task is
writing, and `stored`, the events of MongoDB's traces in the order they were pushed. `lost` holds the events that were
dropped by an overflow, a failed write, or a cancelled write that MongoDB did not
apply; `owed` is a history of what a forced flush found.

Python's rules matter here and are modelled: calling a coroutine does not suspend;
cancelling a task that awaits another task cancels the awaited one
(`doomed`), and the drain code then takes the `CancelledError` for the timer's
(`forces`); a timer cancelled before it first runs never executes a line of its
body. Timers sleep equally long, so they wake in the order they fell asleep.

Abstractions: the bodies under `_mongo_lock` do not await, so it is never contended
and is left out; `_on_flush_task_done` runs in the same step as the end of the
timer; each run task is cancelled at most once; retention in the trace document
(`$slice` to the newest events), the Redis half and the readers are left out. A
cancelled bulk write may or may not have reached MongoDB. `MaxTimers` bounds the
timers ever created: a write that would need another one is not taken, so no state
has a timer missing that the code would have started.

Properties: `OnePlace` (an event is in exactly one of buffer, a batch, MongoDB,
lost), `FlushTakes` (a forced flush leaves nothing it found, unless a timed write
was under way when it came), `ReadyAgain` (a clear flush event is set again, so timed
flushes cannot stop for good), and `FlushStores`, `BufferFlushed`, which comments promise
and the code does not keep (section 12).

Fairness: weak, of each timer, of a task's return from a drain (`Resume`) or a bulk
write (`Finish`), and of the flush in the handler of a cancelled task: all are
things the event loop does on its own. Writing and forcing a flush are choices.

## 5. AgentStream: one chat view

`useAgent` is a hook of some thousand lines whose operations share refs: the controller
of the stream that is read, a flag "connecting", the number of the latest request, the
set of processed events with the newest timestamp, the timer of a reconnect. `ui` is the
record of these refs and flags, `messages` what is shown. JavaScript runs one callback
at a time, so one step is what lies between two awaits, with the microtasks it sets off;
`send`, `load`, `conn`, `checks` and `timers` are the calls that await an answer.

| Code | Model |
|---|---|
| `sendMessage` | `Send`; `Accept` (server); `Submitted`, `SubmitFails` |
| `connectToSSE` (`sseConnection.ts`) | `Connect`, with `Busy`, `Cut`, `Aborted`, `Finally`; then `Open`, `Reject`, `Refreshed`, `Break`, `Close` |
| `handleStreamEvent`, `handleUserMessage` | `Deliver`, `Known`, `Apply`, `InsertUser` |
| `loadHistory` | `Load`, `LoadGet`, `LoadRead`, `LoadShow`, `LoadFails`; `Stale` is the check of `loadHistoryRequestIdRef` |
| `reconstructMessagesFromEvents`, `prepareMessagesForRunningRun` | `Rebuild`, `Loop`, `History`; `Prepared` |
| `clearMessages`, `stopGeneration`, offline and online/visible listeners | `Clear`, `Stop`, `Offline`, `Wake` |
| `reconnectSSE` | `Wake` (until its await), `Checked`, `Fire` |
| the server's run, trace and session status | `Emit`, `Finish` (events, then the trace, then the status), `CurrentRun` |

A run's events are metadata with the user's message, chunks, and `done`. Their names are
what the code compares; an event's timestamp is its place in the server's feed. A
reconnect replays the run from its first event, as the route does. Two messages may have
the same text (`Text`): the code takes the stream's user message for one that is shown when
the texts are equal, whichever run it is of.

Tokens are valid when a stream is opened, so `connectToSSE` opens it in the step it is called
in. With an expired one the code awaits a refresh between setting the controller
(`sseConnection.ts:122`) and reading its signal (`:146`); a second call that sets another
controller meanwhile would have both streams read under one signal. `OneStream` is stated for
valid tokens and for the refresh after a 401, which the model has. When the refresh after a
401 succeeds, the outer call's `finally` clears `isConnectingRef` after the nested call has set
it; the model leaves it set.

History variables. `torn` is set when the user acted, or the tab woke up, while the
answer of an earlier request was awaited, or a send failed that had already made the
view forget which events it shows: the code does not cope with these (`NoDuplicates` in
section 12), and `ShowsPrefix`, `InSession`, `NothingMissing`, `AnswerEnds` are stated
for the rest. `AnswerEnds` also excuses `LoadLeft`: `clearMessages` takes a new request
number and does not reset `isLoading` (`useAgent.ts:842-864`), so the `finally` of a load it
overtook (`:517`) finds itself stale and leaves it set; the empty page shows the skeleton
(`ChatView.tsx:448`), without an input, until another session is loaded. `missed` are the runs of which a page that was offline was told that they had
completed: `reconnectSSE` then stops waiting and fetches nothing (`sseConnection.ts:292`),
so the rest of the answer is shown by the next load only, which empties `missed`.
`Overlap` names runs of one session that ran at the same time; `InTurn` says that the events
of each session's runs are stored in the order of the runs. Where they are not, the loop over
the history breaks an answer in two, or a load that finds an earlier run ended and the latest
still open takes what the latest had stored before that end for old, and never shows it.

Properties: `OneStream`; `UniqueIds` (optimistic, streamed and stored copies of a message
are recognised as one); `ShowsPrefix` (no event skipped, repeated or foreign, across
breaks, replays and history); `InSession`; `NothingMissing` (when nothing is awaited, every
answer is complete, unless a run was stopped, was `missed` or was not `InTurn`);
`AnswerEnds` and `LoadEnds`.

Fairness: weak, of all that goes on by itself taken together (`System`: runs, answers,
events, timers): it does not stop while something is left to do. No more is needed, since
every run and every call has finitely many steps. Users are not forced to act.

## 6. MessageFold: from events to an answer

Each event of a run is folded into a tree of parts twice, by code that differs: live,
event by event (`handleStreamEvent`), and from history, all at once
(`reconstructMessagesFromEvents`). `log` is the run's events, `shown` the tree on the
screen, `past` what opening the session now would show, `stack` the ref
`activeSubagentStack` that both folds share, `view` whether the stream is read.

| Code | Model |
|---|---|
| `messageParts.ts`: adding to a depth, merging, closing a block, results, sandbox, clearing | `AddToDepth`, `AddInside`, `Takes`, `MergeOrAppend`, `AddOnTop`, `CloseBlock`, `ToolAnswered`, `SandboxSet`, `Cleared` |
| `processMessageEvent` | `Processed`, `PartOf` |
| `handleStreamEvent` | `Streamed`, with `Pushed`, `Popped` |
| `reconstructMessagesFromEvents` and its caller | `Replayed`, `History`, `Loaded` |
| `stopGeneration`; `loadHistory` in the middle of a run | `Stop`, `Load` |
| the backend's reports | `Run`: chunks, thoughts, plans, tools, subagents of two depths, sandbox, cancel, error, done |

The events the backend may report are constrained as the presenter sends them: a subagent
speaks only while it works, results answer calls, the sandbox comes first, a cancelled run
may still report an error after its end. That a popped stack entry is looked for by its
message too (`eventHandlers.ts:354`) is left out: there is one message. `cut` is a history variable: Stop ended something
on the screen that the run goes on with.

Properties: `NothingLost`, `InPlace` (what a speaker says is in its own block, in order;
results are at their calls), `ReloadSame` (the two folds tell the same), `Settled` (nothing
spins after the end, except a summary), and `AllSettled`, which fails (section 12).

## 7. SocketClient: the notification socket

The whole of `useWebSocket`: `Mount`, `Toggle`, `Unmount` are the effects with the
`disconnect()` of their cleanups; `Connect`, `Resume`, `OpenSocket`, `GiveUp` are
`connect()` between its awaits; `OnOpen`, `AuthOk`, `OnClose` the handlers; `Refreshed`,
`RefreshFails` the end of the refresh after a 4001; `Fire` the timers; `Drop` the server or
the network. Several calls of `connect()` can be under way, several sockets alive.

Left out: the delays (no property is about a time), messages other than `auth:ok`.

History: `upsets` has "refused" (enabled again before the old socket's `onclose`) and
"second" (a socket opened next to one that is not closed); `spent` counts what the bounds
limit, so `spent.missing` and `spent.refreshFails` tell whether a token was missing or a
refresh failed. These strand the client in the code itself and are `Undisturbed`'s
exceptions.

Also left out: the catch of a throwing `new WebSocket` (`useWebSocket.ts:256-258`), since the
URL is one the hook builds itself.

Properties: `NotStranded` (an enabled hook always has something left that leads to a
connection), `NoSocketAfterUnmount`, `Reconnects`, `ClosedAfterUnmount`, and within
`TypeOK` a bound on the failures counted and that `isConnected` needs a confirmed socket.
`RefreshFailureRetried` fails (section 12).

Fairness: weak, of effects, answers, callbacks and timers.

## 8. TokenSession: login, tokens and requests

`store` is localStorage, `refreshing` the shared `refreshPromise`, `req` the requests under
way, `shown` what `AuthProvider` shows. A login is a number, and tokens, users and
permissions are named by their login, so that a mixture of two logins can be seen.

| Code | Model |
|---|---|
| `initAuth` | `Boot` |
| login form, `OAuthCallback`, `refreshUser`, `logout` | `Login`, `LoginAnswered`, `LoginRefused`, `OAuth`, `Reload`, `Logout` |
| `getValidAccessToken`, `refreshTokens` | `Asked`, `Joined`, `Refreshed`, `RefreshFails` |
| `authFetch`, `authenticatedRequest` | `Plain`, `Success`, `Failure`, `Unauthorized` (one retry), `Expelled` |
| expiry of either token | `Expire` |

`stray` is a history variable: the login ended (or another began) while a refresh, or a
request for the user's data, was under way. Its answer then belongs to nobody and the code
stores it all the same (`tokenManager.ts:104`); `IdentityAgrees` and `UiMatchesStore` are
stated for the executions without it.

Properties: `IdentityAgrees`, `UiMatchesStore`, `RequestEnds`, `LoadingEnds`.
`NetworkErrorKeepsAuth` fails (section 12).

Fairness: weak, of each request's answer and of the refresh's; strong of `Boot`, because
requests of the page may take the request slots again and again, which the browser does
not: an effect of the first render is not kept out by them.

## 9. Uploads: attachments and their files

The attachments are the page's state, but two instances of `useFileUpload` work on them,
each with its own map of abort functions: the page's (dropped files) and that of the
`ChatInput` shown, which is replaced whenever the list of messages becomes empty or stops
being so. `up[f].owner` is the instance, `input` the one shown now.

| Code | Model |
|---|---|
| `uploadFiles` | `Choose`, `Compressed`, `Hashed`, `Unchecked`, `Unknown`, `Found`, `Done` |
| limits from the server's configuration | `ConfigKnown`, `ConfigFails`, `CountOk` |
| `uploadApi.uploadFile` with its handle | `Request`, `Token`, `Stopped`, `Rejected`, `UploadFails`, `Unauthorized`, `Again` |
| `cancelUpload`, remove, submit, unmount | `Cancel`, `Remove`, `Send`, `Remount`, `Abort` |
| `upload.py`: check, upload, delete; references of a started run | `CheckServed`, `Kept`; `DeleteReads`, `DeleteFile`, `DeleteRecord`; `RunStarts` |

A file is known by its content, which is its hash; what the server keeps is under a storage
key, a new one for each upload (`NewKey`) and those of what was stored before (`OldKey`).
`answer` is the key that the server told for a file, `record` and `stored` are the keys with
a file record and with a file: a delete takes first the file, then the record, and a check
between the two finds a stale record and deletes it (`Stale`). The server's look-up, and its
look-up with the storing of a new file, are one step each; two uploads of one content that
are stored at once, of which the second meets the unique index on hashes, are thereby left
out. Progress, sizes, types and names are left out too.

History variables. `crowded`: files were accepted before the limit was known, or while an
earlier image was still being compressed and thus not counted; `LimitKept` is stated without
it. `early`: files that were cancelled while they were hashed or checked.

Properties: `Abortable` (what was taken away is not being sent), `LimitKept`, `GoneForGood`,
`UploadEnds`; `CancelStops` and `ReadyIsStored` fail (section 12). `Abortable` is `CancelStops`
without its two exceptions, which the code has: a dropped file's abort function is in the
page's map, where the input's cancel does not look, and a file in `early` has none yet. It
leaves what is hard, the flag between two requests of one upload: cancelled while it awaits a
token, the first or that after a 401, an upload must stop when it has it. Fairness: weak,
of what each upload does next.

## 10. Runs, bounds and what they show

Deadlock is not checked: in every instance the bounds let the system come to rest.

| Run | States | Shows |
|---|---|---|
| `LimiterCalm` | 0.45 M | Two sessions compete for one slot through two workers, with a cancellation: nothing waiting is lost or repeated, ended runs give back, a queued run leaves the queue, and `SlotPool` is implemented. |
| `LimiterCrash` | 0.54 M | The refinement holds across a worker's crash at any point, with recovery and replay. |
| `LimiterCleanup` | 0.48 M | The start-up rewrite and all other faults but `slow` cannot break the bound. |
| `WriterFlushes` | 1.46 M | Section 4's properties that hold, under a cancellation and failing writes. |
| `StreamShows` | 3.67 M | Section 5's safety properties, with any two upsets. |
| `StreamEnds` | 0.33 M | Section 5's liveness, with any three upsets beside one message and any one beside two of the same text. |
| `FoldAgrees` | 1.36 M | Section 6's properties for all logs of five events, with one Stop or reload anywhere. |
| `SocketReconnects` | 0.03 M | All of section 7's properties that hold. |
| `SessionTokens` | 0.29 M | All of section 8's properties that hold. |
| `UploadsKept` | 0.73 M | All of section 9's properties that hold. |
| `FoldSpins`, `UploadsDeduped` | – | Counterexamples: section 12. |

*Limiter.* Three runs in two sessions (r1 and r2 share one), one slot, a queue of two, two
jobs on two workers. Three runs are the least with one run holding, one at the front of the
line and one behind it, so that overtaking can show; one slot is the tightest bound; two
jobs give every pairing of operations, on two workers so that each can act on the other's
run. A third job would only wait: sections exclude each other, and what runs outside them
belongs to one run each. `LimiterCleanup` has an oversized run and a release that looks at
only one entry so that the other limits are met too. Renaming r1 and r2 is a symmetry
where no constant tells them apart; the run with liveness does without.

*Writer.* Two tasks of two events, a batch of two, a buffer of two (so that a third event
overflows it while a flush drains), three timers and one cancellation. Two tasks suffice
for a flush that overlaps another's, three timers for one started after another was
cancelled while a third writes.

*Stream.* Two messages, so that there are two runs, of one session or of two; three events
per run, one of them text; two streams alive, of which one is dropped and awaits its
refresh; and of loads, clears, stops, wake-ups, broken requests and rejected tokens any two
(`MaxUpsets`). Liveness costs more, so there the number of upsets depends on that of
messages: three beside one message, for what upsets do to one another (a load that a clear, a
second load or a failure overtakes, a check that fails after a break), one beside two, for what
the messages leave under way. Going offline is free: it changes one flag, and only
what follows it counts. `NothingMissing` needs a middle event: there is one.

*Fold.* Two subagents (two in parallel, or one in the other), one tool call, five events,
each log of that length, one cancel, one event that names no agent, one Stop or load.

*Socket.* Three sockets, two calls and two timers are more than any execution within
three toggles and three drops needs at a time; two authentication failures reach the
cooldown. *Tokens.* Two requests at a time (one joins the other's refresh), three logins
(one found, one left, one entered). *Uploads.* Two files of the same content of which one
is an image, a limit of one, three inputs and two failures.

## 11. What is proved

The theorems put no bound on any constant. They assume the modules' named assumptions: sets
are finite where the code's are, limits are naturals, special values differ.

| Module | Theorem | Statement |
|---|---|---|
| `UserConcurrencyProofs` | `TypeCorrect` | `Spec => []TypeOK`, with every fault |
| | `AdmissionBounded` | `Spec => []AdmissionBound`, without `slow` |
| | `QueuedNeverLost` | `Spec => []NoLostRun`, without `slow` and `rewrite` |
| | `QueuedOnce` | `Spec => []DispatchedOnce`, without `slow` and `rewrite` |
| | `EndedRunsRelease` | `Spec => []EndedRunsGiveBack`, without `slow`, `rewrite`, `timeout`, `error` and crashes |
| `SlotPoolProofs` | `LimiterImplementsPool` | `Spec => ImplementsSlotPool`, without `slow` and `rewrite` |
| `DualWriterProofs` | `FlushTakesAll` | `Spec => []FlushTakes` |
| | `WriterTypes`, `EventsInOnePlace` | `Spec => []TypeOK`, `Spec => []OnePlace` |
| `AgentStreamProofs` | `OnlyOneStream`, `StreamTypes` | `Spec => []OneStream`, `Spec => []TypeOK` |
| | `AnswersInSession`, `MessagesUnique` | `Spec => []InSession`, `Spec => []UniqueIds` |
| `StreamTextProofs` | `AnswersArePrefixes`, `AnswersAreWhole` | `Spec => []ShowsPrefix`, `Spec => []NothingMissing` |
| `SocketClientProofs` | `NeverStranded`, `NoneAfterUnmount` | `Spec => []NotStranded`, `Spec => NoSocketAfterUnmount` |
| | `SocketTypes` | `Spec => []TypeOK` |
| `TokenSessionProofs` | `TypeCorrect`, `UserOwnsToken`, `PageKnowsStore` | `Spec => []TypeOK`, `[]IdentityAgrees`, `[]UiMatchesStore` |
| `UploadsProofs` | `TypeCorrect`, `AlwaysAbortable`, `LimitHolds`, `StaysGone` | `Spec => []TypeOK`, `[]Abortable`, `[]LimitKept`, `GoneForGood` |

The hypotheses of the limiter's theorems are needed: with `slow` the bound breaks, with
`rewrite` an entry can be lost (section 12). `EndedRunsRelease` speaks of what the code does
when nothing fails: a worker that dies, a release that waits for the mutex in vain and a task
that ends before its user is recorded all leave the slot to the heartbeat timeout, which is
the code's answer to them.

*The bound on slots* is not inductive: a job counts in one Redis command and adds in a
later one. `IInv` adds

- `TypeOK` and `Locals`: what each job at each point works on;
- `Mutex`: a job between `Lock` and `Unlock` holds the mutex, hence at most one is;
- `Counted`: at `decide` and `settle` the number of runs on the books is not above
  the number the job has counted;
- `Entered`: a run that goes on, with nothing in its history to excuse it, has its
  entry. Heartbeats add to the set outside the mutex, and this is why that does not
  break `Counted`: what `Refresh` adds is never a run on the books.

Each step either leaves the books alone, takes from them, swaps one run for another
(`Inherit`), or adds one run in a section that has counted room (`OnBooksStep`,
`BooksCard`). Only the holder of the mutex adds, so no one adds between a job's count
and its decision (`CountIsKept`, `CountedStep`), and the decision was below the limit
(`BoundStep`).

*No lost run*: `remove_from_queue` reads the list page by page and then renames a new
list over it. `WInv` adds `Scans`: the pages still to be read, the new list and what
was thrown out together cover the queue. A rebuild holds the mutex, so nothing is
pushed beside it. `NoRescan` keeps the unlocked rewrite out.

*Dispatched once*: a run is traced from the request to its dispatch. A job that asks
for a slot is the only one asking for that run, which nobody has answered (`Askers`,
`Owners`); a run with a task is past waiting (`Tasked`); a waiting run is in the list
or with one job, never both (`Once`); a rebuild splits the list into disjoint parts
(`Sifts`); jobs carry nothing when they answer (`Picks`). From these no push, pop,
push-back or rename can repeat an entry (`DistinctStep`).

*Slots given back*: the danger is a heartbeat that adds an entry again after the release
has removed it. `GiveBacks` says where the release of each ended run is; `Single` that a run
has a task on one worker only, `Known` that this worker knows whose it was when the task has
ended, because the task recorded it or the cancel that ended it did, so that the end is
followed by a release.

*The pool*: the refinement maps the list, with the popped entry in front while its job has
not settled where it goes, to the line, and the runs on the books to the holders. `Fresh`
says that a run that has not been answered holds nothing, `Siftings` that what a rebuild
has kept and still has to read is the list thinned out (`ThinnedSame`, `ThinnedTwice` and
the lemmas beside them say what `Thinned` allows), so that the rename is a `Withdraw`.
Each step is then an action of `SlotPool` or leaves its variables unchanged; `Crash` is
`Abandon`.

*Flushes*: `FlushTakes` speaks of a flush that returns, so the invariant says what one that
waits for a timer may rely on (`Settled`): the timer has taken everything that is owed, or
has not woken yet, or was cancelled and the flush will take over. What is appended
meanwhile is never something owed, since events are numbered (`Numbered`).

*One place*: `Spread` says of buffer, batches, MongoDB and the lost together that no two of
them share an event, none repeats one, and they hold all that was written and nothing else;
`Idle` that only who is writing has a batch. `DistinctAppend`, `DistinctConcat` and
`KeptFits` are what appending, storing a batch and cutting the buffer do to that.

*One stream*: `OneStream` does not say which one, so a step that aborts the stream in
`abortControllerRef` could leave another. `Current` says that the ref holds it; a refresh
of a rejected stream that was aborted meanwhile is an orphan and not one of the streams
until it calls `connectToSSE` again.

*Types of the chat view*: what a load shows comes from a loop over the whole feed and from
choices among places, runs and messages, so its type needs that the choices have something
to choose from: the events a stream has yet to send are in the feed (`Fed`), a run has its
session once it is accepted (`Homed`), a load names a session that has runs (`Targeted`).
The loop is a recursive function; `LoopIs` shows that it exists and `NatSetInduction`, the
induction over numbers with a set in place of a predicate, carries `Built` along it.

*Answers in their session*: the view names its session in a ref that a send, a load, a
clear and the first event of a stream all write, each after an answer that may come late.
`SInv` says what else is on its way, unless the refs were torn: a send that awaits its
answer is alone with the view (`Alone`: no stream, no timer, no check, every load stale),
of the loads only the one with the latest number is not stale (`Numbered`), and until it is
answered no run's answer is shown (`Reading`); at most one reconnect is prepared, under the
timer the ref names (`Single`). What the user or the tab does afresh leaves nothing of the
old state under way (`FreshStart`). `MessagesOf(S)` are the messages whose answers are of
the runs `S`: every operation on the list keeps it there, the history of the runs `S` is
there (`HistoryTyped`), and only the answer to a send adds a run, which is of the session
the ref names by `Alone`. Torn or not, the answers are of runs that have a session.

*No message twice*: an answer changes its id when its run is known, so two messages whose
ids differ now may have one id later. `UInv` compares the ids to be (`Key`, `Apart`), and
says that a message with a run's id is of a run that was sent (`Tidy`), which is why the
messages of the next request are new. A load rebuilds the list from the feed: the user
messages differ because each event is in the feed once (`Ordered`), and an answer is in one
piece because the events of another run of its session between two of its own would be an
`Overlap`. `SoFar` says this of the first `i` events, and is carried along the loop like
`Built`; the answer a load adds for a run that goes on (`Prepared`) has the load's own id.
`FeedStep` shows that an overlap, once there, stays, so that the hypothesis of `UniqueIds`
after a step gives that of the state before.

*Beginnings of the text*: what is shown comes from three sides (the stream, which repeats,
the history, and the refs that say what to skip as known), and they must fit together.

- `Linked`, as long as the refs are not torn: streams, checks and timers are for the run
  and the answer that the refs name, there are not two of them, and while a send or a load is
  awaited there is none and nothing counts as seen. `StepEffect` sorts the steps of `Next`
  by what they do to texts and refs: nothing (`Rests`), or one of seven `Moves`: the view is
  emptied (`Blank`), gives up its stream (`Leaves`), shows a message (`Starts`), learns its run
  (`Begins`), shows a history (`ShowsOld`, `ShowsRun`) or takes an event (`Deliver`). What
  follows speaks of these and no longer of thirty actions.
- `DInv` and `ReadTo` say what a load has read: traces of runs that have ended, and of no
  session's run newer than the one it goes on with. `Looped` says what the loop over the
  history has built after `i` events; without overlaps a run's events are found in one
  piece (`Before`), so every run that was read is rebuilt whole (`HistoryWhole`).
- `Faithful`: every answer is a part of its run's text in order (`Part`); the chunks that
  count as known of the run shown are those its answer shows (`Grown`), unless all that there
  are count as known (`Masked`, when the history ended with a later run); what the stream has
  delivered is known (`Replayed`); until its send is answered, nothing of a run is shown
  (`Unnamed`). So the next event is either known, and the answer has it, or it is the very
  next chunk (`AnswerGrows`).

*Whole answers*: `Finished` says that an answer that does not stream is whole, unless its
run is in `missed`. An answer stops streaming when the last event is delivered, and by
`Faithful` all chunks are there then; when its stream closes after the last event; or when
it is given up, which puts its run into `missed`. `Latest` (the newest event seen is not of a
later run than the one shown) excludes `Masked`, since with runs in turn a run that goes on is the
last. Each exception is needed: TLC has counterexamples in `StreamShows` without
`torn`, without `stops` and without `missed`, and with two loads and four upsets without
`InTurn`.

*Never stranded*: `connect()` returns early when a ref says that somebody is at it already,
and `onclose` when a timer is said to be due or the close was asked for. `Backed` says that
each ref has its reason: an awaiting call, a socket, a timer that is armed (`Due`).

*Failures counted*: a bound on a counter that several sockets raise needs that they do not
do so at the same time. Before the second toggle at most one of call, socket, refresh and
timer is under way (`Solo`), and the failure that reaches the limit is followed by the
cooldown, whose end resets the counter (`Low`).

*Identity*: `Agreement` says, as long as nothing strayed, that both stored tokens and the
token shown are of one login, that the user shown is its user or none, that a refresh under
way renews that login, and that a request for the user's data was sent in its name or
without a token.

*Attachments*: `Handles` says that the maps of abort functions hold exactly what is under
way of the instances that are there, and that an aborted upload is over or waits for a
token. `Abortable` is not inductive: an upload that was taken away may be at its token, and
sends next. `Taken` says that whatever was taken away and is under way was aborted, with the
two exceptions; by `Handles` it is then not being sent. `Counted` counts images that are being compressed with the attachments.

Only model-checked: all of `MessageFold`, and liveness. Liveness under fairness is out of
the prover's reach, and so is `MessageFold`: a block holds parts that hold blocks, the code
walks them by recursion, and what a recursive definition computes for every tree is an
induction over data, which none of the provers used here does. TLC checks its properties for
all logs of the run `FoldAgrees`.

## 12. Disagreements between code and documentation

Two runs exhibit them:

| Run | The documentation says | The code does |
|---|---|---|
| `FoldSpins` | `clearAllLoadingStates` clears "all loading states in message parts recursively" (`messageParts.ts:601`) | it has no case for a summary, which keeps streaming after the answer's end |
| `UploadsDeduped` | deletes preserve tracked files "to avoid breaking deduplicated references" (`upload.py:759`) | the count is of started runs; a copy that is attached and not sent yet loses its file |

### Statements that do not hold

Others are stated in the modules and not run. To see a counterexample, put the property
in a copy of the named cfg with the changes given.

| Property | Instance | The documentation says | The code does |
|---|---|---|---|
| `UserConcurrency.RunningWithinLimit` | `LimiterCalm` | at most `max_concurrent_chats` chat tasks (`kernel/schemas/role.py:18`) | cancelling a run on another worker frees its slot before the run has stopped |
| `AnyWorkerDispatches` | `LimiterCalm` with `ColdWorkers = {w2}` | any worker can dispatch a queued entry (`concurrency.py:6`) | a worker that has not created its executor drops the entry it popped |
| `AdmissionBound` | `LimiterCalm` with `Faults = {"slow"}` | the mutex makes slot updates distributed-safe (`concurrency.py:191`) | it expires after five seconds under a holder that is still deciding |
| `CleanupDropsOnlyExpired` | `LimiterCleanup` with `Faults = {"age", "rewrite"}` | stale-queue cleanup drops entries that exceeded the timeout (`startup_cleanup.py:737`) | its unlocked copy and rename also drops an entry pushed meanwhile |
| `DualWriter.FlushStores` | `WriterFlushes` with `BufferMax = 3`, `MaxCancels = 0`, `Faults = {}` | after the flush all events have been written (`presenter_storage.py:430`) | a flush that finds a timed write under way returns without its own events |
| `BufferFlushed` | the same | the buffer is flushed every 1000 ms (`dual_writer.py:34`) | an event appended during a flush's write gets no timer |
| `SocketClient.RefreshFailureRetried` | `SocketReconnects` with `MaxToggles = 1`, `MaxDrops = 4`, `MaxMissing = 0` | "Token refresh failed, will retry later" (`useWebSocket.ts:184-187`) | a failure is counted and nothing is scheduled |
| `AgentStream.NoDuplicates` | `StreamShows` | processed event ids are tracked to prevent duplicates (`useAgent.ts:97`) | the status of a hidden tab's run that arrives after the next send lets the old stream's events in again |
| `TokenSession.NetworkErrorKeepsAuth` | `SessionTokens` | network errors do not clear the auth state (`useAuth.tsx:140-141`) | they do when the refresh is what failed (`useAuth.tsx:102-113`) |
| `Uploads.CancelStops` | `UploadsDeduped` | `cancelUpload` is to "cancel an in-progress upload by attachment id" (`useFileUpload.ts:132`) | it calls an abort function that is kept only when the request is made (`:241`) and only in the map of the instance that uploads: a file cancelled while it is hashed or checked is sent afterwards, a dropped file goes on |

### Further observations

Read in the code and not modelled, or modelled as an exception:

- `concurrency.py`: a failed ZCOUNT counts as zero and admits beyond the limit (178); the
  length check and the push are separate commands, which only the mutex holds together
  (231); an LLEN that fails after RPUSH answers STARTED for a run that is also queued
  (264); a release looks at twenty entries, and with more expired ones at the head the
  slot stays free although somebody waits (412).
- `chat.py:536` writes the QUEUED state after `acquire` returned, when the run may already
  have been dispatched; `executor.py:505` checks staleness and updates in two calls;
  `manager.py:804`: at shutdown a callback may dequeue a run onto the dying worker.
- `recovery.py:398`: the lock may expire under its holder and is not given back on
  success; 413: the session record was read before the lock was taken.
  `startup_cleanup.py:877`: a run whose slot has not lapsed yet is skipped and nothing
  looks again until the next start.
- `dual_writer.py:358`: batches of overlapping flushes may reach MongoDB out of order; 326:
  a run task cancelled while it drains the timer cancels the timer in the middle of its
  write and swallows its own cancellation.
- `scheduler/runner.py:119`: the execution lock lives timeout times attempts, without room
  for what happens around the attempts; `infra/websocket.py:131`: the route is registered
  after the lock is given up, so a connect and a disconnect can register in the wrong
  order; `mcp_pool.py:177`: a pooled connection with another configuration is kept and the
  new client, which its caller is about to use, is closed; `routes/human.py:310`: a
  response races the expiry, the cancellation and the waiting agent on another worker.
- `useWebSocket.ts:62`: a connect before the old socket's `onclose` ran is refused and not
  repeated ("refused" in `upsets`); `useAgent.ts:811`: Stop leaves the stream open, so
  later chunks go on growing the stopped answer; 842: `clearMessages` leaves `isLoading` set
  when it overtakes a load (`LoadLeft`, section 5); `sseConnection.ts:146`: the signal is read
  after the token was awaited, when the controller may be another call's (section 5).

## 13. What is not modelled

- *Documents and requests*: storage, users, roles, settings, email, usage, sharing,
  files and the remaining API update one document per request; there is no protocol
  between steps for a model to check.
- *External systems*: channels, agents and graphs, tools, skills, memory, LLM clients and
  sandboxes are adapters; what can go wrong is in the servers they call.
- *Server protocols of their own*: run and session status, the recovery lock, scheduled
  tasks, approvals, pub/sub and its listener, websocket routes, the MCP pool. Each has
  state worth checking and is independent of the models here, except that status and
  recovery meet the limiter where `UserConcurrency` has their calls.
- *The arq backend* and *users without a limit*: the first replaces the task manager, the
  second touches none of the limiter's keys.
- *Markup and layout*: most of the frontend's lines are components that draw, measure or
  edit forms. A property of them would be about what is on the screen, which is not in the
  code but in the browser.
- In the modelled hooks: selectors of agents and options, goals, feedback, titles, marks as
  read (`useAgent`); recommended questions, token usage, artifacts (`MessageFold`); other
  tabs, which share localStorage, and registration (`TokenSession`); avatars and pasted
  text (`Uploads`).

## 14. What comes next

1. Run status: executor, chat route and cancellation against an abstract life cycle of a
   run, with the two-step status update and the late QUEUED write.
2. Recovery: the lock and the session record; an interrupted run is recovered once.
   Composes with 1 and with `UserConcurrency`'s `CallRecover`.
3. Scheduled tasks, approvals, pub/sub, websocket routes (with `SocketClient` as their
   client), the MCP pool.
4. A second tab beside `TokenSession`.

Proofs: that `MessageFold`'s two folds agree, on trees of bounded depth, where the recursion
can be written out level by level.
