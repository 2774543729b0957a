# Verification of the NexusAI research agent

TLA+ models of the backend in `src/app`, the configurations that model-check
them with TLC, and theorems proved with TLAPS. Paths below are relative to
`src/`.

## The system

| Component | State it keeps | Operations | Interacts with |
|---|---|---|---|
| Task API, `app/api/server.py` | Redis `user_tasks:{uid}`, `task_job:{thread}`, `cancel:{thread}`; PostgreSQL `sessions.status` | `run_task`, `cancel_task`, `get_task_status` | ARQ queue, worker, SSE channel |
| Worker, `app/worker.py` | one coroutine per job, its `cancel_event` | `run_agent_task`, heartbeat, nightly clean-up | Redis keys above, agent, ARQ |
| Agent run, `app/agent/main_agent.py` | a task per run, background tasks, the checkpointer singleton | `run_deep_agent` and its helpers | monitor, storage, memory, PostgreSQL |
| Event pipeline, `app/api/monitor.py`, `app/storage/redis_client.py` | batch buffer, its timer task; Redis list and channel per thread; `agent_events` | `_emit`, `_flush_batch`, `flush_batch`, `cache_event`, `publish_ws_event` | WebSocket endpoint |
| Event delivery, `app/api/server.py` | `active_connections`, subscriptions | `websocket_endpoint`, `sse_stream` | Redis, page |
| Session hook, `frontend/src/hooks/useDeepAgentSession.ts` | socket, timers, events, result, flags | connect, reducer, submit, cancel, history | WebSocket, REST |
| Permissions, `app/auth` and admin routes | `role_permissions`, Redis cache `rbac:perms:*` | `get_user_permissions`, invalidate, role updates | every protected route |
| Knowledge bases, `app/self_rag/engine.py` | two Chroma collections per base, BM25 index per process | create, delete, ingest, query | knowledge base routes, agent tools |
| Retrieval algorithms, `app/self_rag` | none | rank fusion, iterative retrieval, query processing, k-hop graph search | language model, Chroma |
| Long-term memory, `app/storage/memory_service.py` | `long_term_memories`, session summary | store, retrieve, consolidate | agent run, messages |
| File storage, `app/storage/storage.py` | files under `updated/` and `output/` | upload, delete, stage, list | agent run |
| Singletons | database pool, Redis client, checkpointer | get, close | everything |
| Rate limiter, `app/api/server.py` | sorted set `global_qps` | one middleware | every request |

What makes it hard: three kinds of processes (API servers, workers, browsers)
share state only through Redis and PostgreSQL and take many awaits to do one
operation; six writers write `sessions.status` without reading it; ARQ
delivers a job again when a worker dies; timeouts cancel one task and not
another; Redis keys expire by themselves; clean-up code can be cut short.
`PROJECT.json` lists each hazard with its line.

What makes each component correct: the limit on parallel tasks holds and its
slots come back; a job ends and its session says how; a cancelled job stays
cancelled; each event an agent reports reaches the store once and the page in
order; a permission change takes effect; a knowledge base is searched as it
was filled; memories are extracted once; a shared object is not used before it
is ready.

## Modules

| Module | What it is |
|---|---|
| `TaskLifecycle` | the life of a task across API server, ARQ, worker, agent and cancel request |
| `QuotaSemaphore` | abstract specification of the per-user limit: a counting semaphore with overdraft |
| `TaskProperties` | what `TaskLifecycle` is checked for, and the refinement mapping to `QuotaSemaphore` |
| `MCTaskLifecycle` | instances for TLC |
| `TaskLifecycleProofs` | theorems about `TaskProperties` |
| `EventPipeline` | how one worker process batches the events its agents report, and writes them to Redis and PostgreSQL |
| `EventLog` | abstract specification of the history: a reported event waits, and is stored or lost once |
| `EventProperties` | what `EventPipeline` is checked for, and the refinement mapping to `EventLog` |
| `EventPipelineProofs` | theorems about `EventProperties` |
| `EventDelivery` | from the Redis list and channel over the WebSocket endpoint to the page's hook: replay, subscription, reconnection, submission, cancellation, loading |
| `MCEvents`, `EventDeliveryProofs` | its instance for TLC, and theorems about it |
| `SessionFiles` | a session's uploads, their staging into the run's directory, and the SSE stream |
| `Accounts` | users, roles and permissions, the permission check and its cache |
| `KnowledgeBase` | the two Chroma collections of a knowledge base, changed by the server and asked by a worker |
| `Sessions` | the row of a thread's session, its messages and link, and the memories drawn from it |
| `Singletons` | the double-checked creation and the closing of a process's shared objects |
| `RateWindow` | the sliding window of the rate limiter |
| `Retrieval` | how the ranks of several searches become the parents an answer is made from |
| `MCServices` | the seven modules above in one instance |
| `SessionFilesProofs`, `AccountsProofs`, `KnowledgeBaseProofs`, `SessionsProofs` | an inductive invariant of each of the four and the theorems that follow |
| `ServicesProofs` | carries these theorems over to `MCServices`, and has those about `Singletons`, `RateWindow` and `Retrieval` |

**Composition.** `TaskLifecycle` and `EventPipeline` meet in `run_deep_agent`:
the first has the statuses it writes and how it ends, the second what it
reports. They share no state, so each is checked alone. `EventDelivery` starts
where `EventPipeline` ends, at the list and the channel, and has of a task
only what the page can see: whether a run is under way and what ends it. The
seven services touch none of each other's state: a behaviour of `MCServices`
is a behaviour of one of them, its `part`, in which the others stay where they
began. So one run checks them all and the state spaces add up instead of
multiplying, and `ServicesProofs` shows that a behaviour of `MCServices` is one
of each part's specification.

Operators whose comment begins "Mutant" are plausible bugs; no specification
uses them. `PROJECT.json` says which property each of them breaks.

### TaskLifecycle

A step is what happens between two awaits that touch Redis, PostgreSQL or ARQ.

| Variables | Code |
|---|---|
| `req` | how far each `POST /api/task` has come in `run_task` |
| `quota`, `quotaKey` | `user_tasks:{uid}`: its value, and whether the key is absent, has a TTL (`volatile`) or none (`persistent`) |
| `cancelKey`, `taskJob` | `cancel:{thread}`, `task_job:{thread}` |
| `status` | `sessions.status` |
| `wpc`, `tries`, `outcome`, `cancelEvent` | each job: in the queue, in which section of `run_agent_task`, or ended; its deliveries; which except clause it took; its `asyncio.Event` |
| `agent`, `late` | each job's `run_deep_agent` task, and its `_complete_session` tasks that have not run |
| `cpc`, `cjob` | each cancel request and the job it found |
| `uncounted`, `debt` | history: jobs whose slot the counter no longer holds, and slots they gave back all the same |

Each action carries the name of the operation and the section it stands for
(`SubmitIncr`, `WorkerWakeCancelled`, `CancelMark`); the map in `PROJECT.json`
gives its lines. Six choices deserve a word.

* One user is modelled. The counter is per user and users share no other key.
* `agent_task.cancel()` and the wait for the agent are one step: while the
  agent unwinds it touches nothing of this module. So are the two `DEL`s at
  the end of the worker's finally block; `WorkerCleanupFails` separates them
  where the code's error path does.
* What Redis answers and what the coroutine does with the answer are two steps:
  `WorkerSeesNoCancel` has the worker go on to start its agent (`WorkerSpawn`),
  and a cancel request may store its signal in between.
* A worker's graceful shutdown cancels `run_agent_task` as `job_timeout` does,
  so `JobTimeout` stands for both, and may happen at any time. In an except
  clause of the worker it skips the `UPDATE` that was to write the last status,
  because `CancelledError` passes `except Exception`
  (`app/worker.py:173`-`203`): such a job's `outcome` is "cut".
* A call to ARQ that raises may have taken effect. `SubmitEnqueueFails` leaves
  it open, and a job whose request gave the slot back gives it back again.
* ARQ is external: at-least-once delivery up to `max_tries`, a timeout per
  job. Whether it runs a job again whose coroutine raised, as the comment at
  `app/worker.py:203` expects, and whether `Job.abort` takes a job off the
  queue depends on the installed version; both are faults a run switches on.

`Faults` names what may happen around the code: expiry of the counter, requests
that die, failing calls to ARQ, PostgreSQL and Redis, crashes. A run of a
property that needs a fault's absence leaves it out, and its comment says so.
`CancelReachesBody` is FALSE for the code as committed, where `cancel_task`
raises at its first statement: a local import makes `get_pool` unbound
(`app/api/server.py:712`). The runs `cancel` and `liveness` set it to TRUE and
show what the handler's body does once it is reached; the proofs hold for both.

### EventPipeline

A step is what `asyncio` runs between two awaits. LPUSH and LTRIM are one
pipeline, which Redis executes as one transaction. A call that took effect and
then raised needs no step of its own: it looks like a call that succeeded,
followed by a `publish` that raised.

| Variables | Code |
|---|---|
| `run` | each execution of `run_deep_agent`: not begun, before its `try`, in it, in the final flush, ended |
| `tool` | runs with a synchronous tool in an executor thread |
| `buffer`, `flushTask` | `_batch_buffer`, `_batch_flush_task` |
| `pc`, `batch`, `todo` | each flush, of a timer task or of a run: where `_flush_batch` is, its local `batch`, and what of it the loop has yet to push |
| `cached`, `published` | the list `ws:events:{thread}` of each run's thread; what went out on the channels, in one sequence |
| `rows` | `agent_events` |
| `owner`, `lost`, `final` | history: who reported each event, the events that never reach `rows`, those a final flush took |

An event is the number of its report and carries nothing else; the properties
tell events apart by that only. Five choices deserve a word.

* The buffer is a list that is appended to and replaced, so it is a set of
  event numbers here, read in increasing order.
* `_emit` runs on the event loop or in an executor thread. In a thread,
  `get_running_loop` raises and no timer starts. The append itself is atomic:
  CPython 3.12, which the project runs on, does not switch threads between
  loading `_batch_buffer` and calling its `append`.
* An answer's `streaming_content` and `task_result` are reported with no await
  between them and are one event.
* A flush is cancelled only when its awaiting run is; the timers' tasks never
  are. `CancelledError` passes `except Exception`, so the batch is dropped, or
  was committed a moment before.
* Each run has a thread of its own; the list's expiry after seven days and the
  WebSocket manager, which no worker process binds, are left out.

### EventDelivery

A step of the server is what `websocket_endpoint` does between two awaits; a
step of the page is one callback of the browser. React runs an effect after
the render that follows a change of `threadId`, and before the next thing the
user does: `RunEffect` may come after messages and answers, and user actions
wait for `EffectsRun`.

| Variables | Code |
|---|---|
| `log`, `unsent`, `alive` | the events of each thread as cached, those not yet published, the runs under way |
| `srv` | where each connection's `websocket_endpoint` is: asked for, accepted, history replayed, registered, subscribed, over |
| `place` | `manager.active_connections` |
| `wire` | messages on the way to the page; a socket's are in order and none is delivered after it is closed |
| `threadId`, `socketRef`, `sock`, `timer`, `events`, `isRunning`, `isViewingHistory` | the hook's state: `threadId`, `socketRef`, `readyState` of each socket, `reconnectTimerRef`, `events` (live ones) and its two flags |
| `start`, `cancel`, `load` | unanswered `POST /api/task`, `cancel` and `GET`s of sessions, each with what it has read |
| `mine`, `heard`, `missed` | history: the run the page waits for, the final events it has handled, the runs an end of which did not come while it waited |
| `left` | the bound: runs to submit, moves to other threads, events, faults |

* One user and one page. A second page of the same thread would take its place
  in `active_connections`, as the page's own new socket does.
* `Refuse` is a fault: the page's user owns the threads it shows. For anyone
  else who is not an administrator the check queries a connection it has given
  back (`app/api/server.py:1072`), and refuses. A refused page tries again
  every two seconds.
* The history is the Redis list, cut at `CacheCap`, or `agent_events` when
  there is no list, or nothing when reading fails: `Replay` takes any.
* A run may report several events that stop the page: a result and then an
  error or a cancellation (`app/agent/main_agent.py:143`, `:483`-`:505`), or
  another result when ARQ delivers the job again. It stays under way until
  `RunEnds`, and may end with none (`EndsSilently`).
* What a loaded session shows as running is its row's status. `ReadSession`
  takes either value: `run_task` sets a new job's row to queued, which shows
  idle, and the row of a run that is over may still say running.
* Sessions are loaded while other loads and a submission are unanswered; the
  page shows them as they are answered. The rows of a loaded session's history
  are not in `events`, which has the live ones.
* Heartbeats and error texts are left out.

### SessionFiles

| Variables | Code |
|---|---|
| `uploads`, `output`, `linked` | names in `updated/session_{id}` and in `output/session_{id}`, and those that are one inode in both |
| `run`, `listed`, `todo` | the agent: staging the uploads it found, or working |
| `here` | whether the page shows this session |
| `saving`, `adrift` | the page's upload request, and names the server still saves for one that failed at the page |
| `removal` | for each name, its removals: the page waits and the server has yet to delete (`sent`) or has deleted (`dealt`); the request failed at the page and the server goes on (`lost`); it concerns another session (`away`) |
| `known` | `uploadedNameSetRef`, which belongs to the page and outlives a change of session |
| `foreign`, `late` | history: known names that were uploaded to another session; names that a removal deleted when the page no longer waited for it, or after a newer upload |
| `stream`, `subs`, `broken` | the SSE stream, its subscribed generators and those that raised |

A storage method has no await, so that each is one step. `Generate` writes into
the directory the link is in: a later upload of the same name is written in
place and appears in both, which `linked` keeps track of. A generator that
raised is not armed again; when both are gone, `asyncio.wait` of an empty set
raises and the page connects anew. Files that the agent's tools generate are
announced on no channel. A request has two ends: it may fail at the page while
the server goes on with it. Reloading the page, which forgets everything it
knew, is left out.

### Accounts

| Variables | Code |
|---|---|
| `roles`, `grants` | rows of `roles` and `role_permissions` |
| `cache` | `rbac:perms:{role}`, a key that expires |
| `role`, `token` | `users.role`, and the role in each user's token |
| `request` | each user's request: in `get_user_permissions`, or in an administrator's handler, with what it has yet to insert and to clear |
| `causes`, `budget` | history: why an entry may be old; changes and faults left |

Two permissions suffice: the one that lets a request change roles and one that
stands for the others. A role goes into the token at login and stays until the
next one; the docstring at `app/api/server.py:2182` speaks of the next request.
`Restart` is `init_schema`, which inserts the built-in rows again.

### KnowledgeBase

| Variables | Code |
|---|---|
| `colls` | Chroma's collections by name: id, group in the metadata |
| `children`, `parents` | rows of the two collections |
| `index` | `_bm25_backends` of the worker, built at the first question and kept: no process tells another that it changed a collection (`app/self_rag/engine.py:460`) |
| `op` | the handler at work on Chroma, which does not await, so there is one at a time |
| `ask` | the tool's question in a thread of the worker |
| `home`, `cut` | history: where each id belongs, collections left incomplete by a failure |

Names are looked up again at each step in the code, and so they are here:
between two steps the name may have come to stand for another collection. One
name is modelled; a base whose own name ends in `_parents` is not.
`ingest_files` checks the caller, saves the files and looks the collections up
without an await, so nothing of this server comes between (`IngestStarts`). A
question has the collection object it opened, but finds the index, the
hypothetical answer's collection and the parents by name, and in the end asks
its own collection once more (`SearchAgain`), which fails if that is gone.

### Sessions

| Variables | Code |
|---|---|
| `session`, `owner`, `summary` | the thread's row in `sessions`, its user, its summary |
| `messages`, `link` | rows of `messages` and `session_shares`, which go with it |
| `run`, `facts`, `draw` | the run and what `build_context` recalled for it; `long_term_memories`; the consolidation that outlives the run |
| `share`, `view`, `revoke` | handlers that create, show and revoke the link |

A session is numbered, so that a thread deleted and begun anew can be told from
itself. `_ensure_session` names no user and the column has a default; an upsert
keeps the user of the row that is there. A memory's text is left out: it is
whose it is and which session it was drawn from.

### Singletons, RateWindow, Retrieval

`Singletons` has one object of a `kind` chosen at the start. The four differ in
whether making it awaits (`redis` does not), whether a thread makes it
(`model`), whether it is assigned before it is set up and closed without the
lock (`checkpointer`), and whether it is closed at all (`model` is not). A
thread cannot be cancelled: when its task is, the lock is let go and the model
is "loading" for nobody. `object` gives each object's state and `task` what
each coroutine was given.

`RateWindow` is the middleware call by call: `zremrangebyscore`, `zcard`,
`zadd`, with the time read once before them. `entries` is the sorted set,
`inside` the requests in it; `passed` and `lag` are history.

`Retrieval` follows `_query_inner`: `dense` and `bm25` are the merged ranks of
the two searches, where a parent keeps the rank of the first query that found
it; `ranked` is the fusion, as an exact fraction. `texts` is what Chroma
returns for the candidates' ids: an order of its own, without what is not
stored. The code pairs ids and texts by position
(`app/self_rag/engine.py:577`), so that `answer` is the parents whose texts are
used, whatever ids they go by; `score` is what the reranker gave these. The
searches themselves, the embeddings and the model's sub-queries are inputs.

## Runs

| Run | Instance | Shows |
|---|---|---|
| `quota` | 2 submissions on one thread, limit 1, 2 deliveries, all faults that touch the counter | `QuotaLedger`, `AdmissionBound`, `TtlCoversCounter`, and that the counter implements `QuotaSemaphore` |
| `cancel` | 2 submissions on one thread, 1 cancel request, retries and aborts | `SettledStatus`: at rest a final status came last, or a worker was cancelled in its except clause, or a job timed out and its agent then failed; `SignalHeeded`: a worker that looks after a signal was stored starts no agent |
| `liveness` | 1 submission, 1 cancel request, all faults but `arm`, fairness | `JobSettles`, `LostSlotsHeal` |
| `events` | 2 runs, 2 timer tasks, 3 events, a list of 2, every fault, fairness | that the pipeline implements `EventLog`; `OvertakenByFinalFlush`, `ChannelIsCached`, `SettledAfterRun` |
| `delivery` | a page, 2 threads, up to 2 runs, events of 2 kinds, fairness | `NoEventTwice`, `OneSocket`, `EndStopsOnce`, `StuckOnlyIfMissed`, `NoDeadPlace`, `NewerKeepsPlace`, `Reconnects`: what is shown once, what ends a wait, when a wait does not end, and that the page gets its connection back |
| `services` | the seven services, fairness | see below |
| `quota_exceeded` | 2 submissions on two threads, the counter expires | violation of `AtMostMaxInFlight` |
| `orphan_completes` | 1 submission, no faults, fairness | violation of `CancelledStays` |
| `second_load` | 3 tasks, 3 objects | violation of `OneModelLoads` |
| `events_stuck` | 1 run, 1 timer task, 3 events, no faults, fairness | violation of `FlushedByTimer` |
| `replay_dropped` | as `delivery`, no fairness | violation of `ReplayIsShown` |
| `second_staging` | 2 names, 2 runs of a session | violation of `StagingSucceeds` |

What `services` shows, part by part:

| Part | Properties |
|---|---|
| `Accounts` | `StaleEntryIsExplained`: a cached set differs from the rows only while the request that changed them has it to clear, or after a race, failure or restart it names; `LastAdminNotByOneself`; `Heal`: once changes and failures are over the cache agrees with the rows for good |
| `KnowledgeBase` | `AnswerIsOwn`, `AnswerFromOne`: a base deleted and made again for another group under the same name gives no text across, and an answer is made from the base it was asked of alone, however old the worker's index; `PartnerIsOwn`, `ChildHasParent`: the two collections stay a pair |
| `Sessions` | `LinkShowsItsSession`, `LinkIsOwners`, `ContextIsOwn`: what a thread id found before a deletion is not taken for what it finds after, but in the windows each property names |
| `Singletons` | `AtMostOneLive`, `ReadyUnless`: however many coroutines ask at once; the exceptions are the checkpointer's, and models that are loaded for nobody |
| `RateWindow` | `AcceptedBound`: how far above the limit three separate calls let requests through |
| `Retrieval` | `LeftOutForBetter`: no stored parent's text is left out for one that both searches ranked lower, unless both were candidates and the reranker preferred the other or failed |
| `SessionFiles` | `RunHasItsUploads`; `UnstoredIsExplained`: a name shown as uploaded is stored, but for a removal under way, one that came late, or a name kept from another session; `StreamHears`: the stream does not stay open hearing nothing |

**Bounds.** Two submissions are the fewest that share a counter and a thread,
and with a limit of one the second is over it. Two deliveries are the fewest
in which a job gives its slot back twice. One cancel request suffices for the
races of a cancel with both jobs. `tries <= MaxTries` and the finite sets
bound everything else; no state constraint is used. Jobs are symmetric where
no liveness is checked. The run `quota` compares states without what no step of
it reads and no property of the counter mentions: the sessions' rows and the
threads' keys (`QuotaView`). `CHECK_DEADLOCK FALSE`: users stop submitting.

In the event pipeline two runs are the fewest whose final flushes can take
each other's events, beside the timer's; three events are enough for a batch
of two that an event overtakes, and for the list of two to be trimmed. The
second timer task is there to show that the code never has two at a time.
`MaxEvents` bounds the reports; `Room` keeps one for each tool under way.
`CHECK_DEADLOCK FALSE`: runs end.

In the delivery run a list of one (500 in the code) and two shown events (120)
make both limits bite with two events per thread; kinds "note" and "error"
stand for the events that do not stop the page and those that do. Sockets,
moves and faults multiply, so a behaviour has one of six budgets: two runs with
two events and a fault, or with one event and a move; one run with two events
and a move; and one run and event with two moves, two faults, or one of each.
Each names a meeting of two of them; no property speaks of three. Two events are
a run that reports two ends, or two runs with one each.

In `services`: two users, one role that is not built in, two changes and a
fault, which is one change that overtakes another's clearing; two groups, of
which one asks, five ids, which is a base with a block, deleted and made again,
and one more block; two sessions of a thread and two runs, one before and one
after its deletion; three coroutines and three objects, so that one waits while
another's object fails; two requests at once, a limit of two, five in all, and
a clock that runs for the window's length after the first;
three parents, two queries and two results each, the reranker given two and
returning one; two names, and for a session's files six budgets, each a meeting
of two removals, runs, changes of session or faults (`FileBudgets`).
The constant 60 of the fusion is the code's.

**Fairness.** `FairSpec` assumes that event loops run what is ready (`Submit`,
`Work`, `LateComplete`, `CancelProgress`), that ARQ polls its queue and
enforces `job_timeout` (`app/worker.py:246`; `JobTimeout` is part of `Work`),
and that Redis expires keys. It assumes nothing of users, and nothing of
agents: `AgentEnds` and `AgentFails` carry no fairness, because a call to a
language model may hang. `LostSlotsHeal` is checked without the fault `arm`: a
request that dies between `INCR` and `EXPIRE` leaves a counter without a TTL
for good, which `TtlCoversCounter` shows to be the only such case.

In `EventPipeline` only timers and flushes are fair: the event loop runs them,
and Redis and PostgreSQL answer or raise. Agents and tools are not, so
`SettledAfterRun` says nothing of a run that never ends.

In `EventDelivery` the server's coroutines, the page's effects and its
reconnect timer are fair (`Driven`): event loops run them, and the timer fires.
The network, the worker, the user and HTTP calls owe nothing. `MCServices` has
a request's own steps fair, each cache key's expiry, and the opening,
subscribing and ending of the SSE stream. Faults and changes are used up, so
that `Reconnects`, `Heal` and `StreamHears` say what follows the last one.

## Findings

* `quota_exceeded`: the counter expires 600 s after the latest submission even
  while jobs are queued or running, so the limit of the 429 answer is not kept.
* `orphan_completes`: a job that times out leaves its agent behind; the session
  is 'cancelled' and then turns 'completed'.
* `events_stuck`: an event reported while a flush is under way, or from a
  tool's thread, starts no timer; it waits for the next report or the end of
  the run instead of 50 ms.
* `replay_dropped`: the server replays the history to a page that reconnects as
  messages of type `replay`, which the hook drops.
* `second_staging`: the second run of a session that has uploads ends while
  staging them, because `copy2` refuses to copy a file onto its own hard link.
* `second_load`: a task cancelled while its thread loads the embedding model
  lets the lock go, and the next task loads a second one beside it, which the
  docstring at `app/storage/memory_service.py:37` says the lock prevents.

Met while modelling, described in the models as the code has it, without a run
of their own:

* No cancel request is carried out: `cancel_task` raises before its first await
  (`app/api/server.py:712`). A single call of the handler shows it.
* A worker cancelled in its except clause leaves the session 'queued' or
  'running' (`SettledStatus` names the case).
* A queued session that is loaded shows as idle, so that the page may submit to
  it again; a run that is over may be shown as running.
* A name uploaded to one session is known in the next one the page loads: it is
  shown as attached there (`frontend/src/components/ChatComposer.tsx:90`) and
  not uploaded (`frontend/src/hooks/useDeepAgentSession.ts:270`). A removal
  that the page has given up on may still delete what was uploaded since.
* The reranker's candidates are ids paired by position with texts that Chroma
  returns in an order of its own (`app/self_rag/engine.py:577`). Where the
  reranker falls back on "the original order" (`app/self_rag/reranker.py:99`,
  `:103`), that is the order of storage, and which texts are kept is arbitrary.
* A page whose socket was replaced while the end of its run was published goes
  on showing it as running (`StuckOnlyIfMissed` names the cases; a second
  connection, a move between threads or a lost socket is enough).
* A summary is stored with title and content exchanged
  (`app/storage/memory_service.py:252`).
* Of two requests that replace a role's permissions at once, one fails on a
  pair the other has inserted; the role keeps what the two had inserted so far,
  and the one that failed does not clear the cache.
* A restart brings back permissions that were taken from a built-in role.
* A worker's BM25 index outlives the collection it was built from; matches in
  it are dropped when their parents are looked up, so answers get shorter, and
  are not made from two bases (`AnswerFromOne`).
* A checkpointer whose set-up was cancelled stays assigned and is handed out as
  it is; one whose set-up fails leaks its connection.
* A file with a name the page knows is not uploaded again, although the server
  would overwrite it; and an upload and what was staged of it share an inode,
  so that a tool that edits its copy in place edits the upload.
* The trimming of the rate window uses the request's own arrival time, so that
  the window is shorter by the time requests spend in the middleware.

## Proofs

`TaskLifecycleProofs` proves for every finite set of jobs, any threads, cancel
requests, limit, `MaxTries` and set of faults (`ConstantsAssumption`):

| Theorem | Statement |
|---|---|
| `TypeCorrect` | `Spec => []TypeOK` |
| `LedgerHolds` | `Spec => []QuotaLedger` |
| `LimitHolds` | `Spec => []AdmissionBound` |
| `TtlHolds` | `Spec => []TtlCoversCounter` |
| `ImplementsSemaphore` | `Spec => IsSemaphore` |
| `StatusSettles` | `Spec => []SettledStatus`, if `NothingLost` |
| `SignalStopsWorker` | `Spec => SignalHeeded`, if `KeysLast` |

The argument for the counter has two layers. `QuotaSteps` shows that each of
the forty or so disjuncts of `Next` does one of seven things to the counter and
to the sets of submissions it counts: nothing, `Incr`, `Arm`, `Give`,
`GiveTwice`, `Lose`, `Forget`. It needs `TypeOK` and `Phases` (a job that ARQ
knows has an enqueued request; a submission that lost its place was made). The
rest is about those seven effects only. `QuotaLedger` alone is not inductive
for the limit, so `QuotaInv` adds `WinnersBound`, that the submissions let
through are at most limit plus debt, which an `INCR` within the limit keeps
because the winners are among the holders the ledger counts; and
`UnarmedBound`, that a counter without a TTL is at most the number of requests
before their `EXPIRE`. The refinement follows from the same lemma: each effect
is a step of the semaphore or stutters.

`StatusSettles` is about the six writers of `sessions.status`. Its hypothesis
`NothingLost` leaves out the faults that lose a request, an enqueuing, a
statement or a process, as the run `cancel` does: with one of them the last
write may never be made. `SettleInv` says who is still to write: while a status
is "queued" some request, delivery or cancel of the thread is yet to change it
(`QueuedAwaits`); while it is "running" some worker, agent, deferred completion
or cancel is, or a timed-out job's agent has failed (`RunningAwaits`); either
may also be left by a worker cancelled in its except clause; and `Attempts` ties
an agent to the section its worker is in. A thread at rest has none of these
writers. `SignalStopsWorker` needs that no key expires within its
hour (`KeysLast`); `SignalStays` keeps the signal in Redis for as long as no
other job of the thread has deleted its keys, so a worker that looks for it
finds it. A worker whose answer was on its way before the signal came is not
stopped by it; its watcher looks again every half second.

`EventPipelineProofs` proves for any sets of runs and timers, list length,
number of events and faults (`PipelineAssumption`):

| Theorem | Statement |
|---|---|
| `PipelineTypeCorrect` | `Spec => []TypeOK` |
| `OrderHolds` | `Spec => []OvertakenByFinalFlush` |
| `ImplementsLog` | `Spec => IsEventLog` |
| `EventsAccounted` | `Spec => []Log!Partition`: every reported event waits, is stored or is lost, and only one of them |

Here too a first layer reduces the actions to a few effects, on the buffer,
the batches and what was written: `Same`, `Adds`, `Takes`, `Passes`, `Settles`,
`Dies`. It needs `Control`: the types, that at most one timer task is not
done, and that a flush which is done holds nothing and a run that is not
flushing has no flush. The second layer keeps `EventInv`: the buffer and the
batches are pairwise disjoint (`Separate`), what a flush has yet to push is in
its batch and a run's batch is final (`Batches`), everything in a batch or
published is earlier than everything in the buffer (`BufferLatest`), and what
was published is in the order the property allows with what is yet to be
pushed (`TodoInOrder`). `Separate` is what makes each `INSERT` a `Store` of
the log: it takes from `Waiting` its own batch and no more. The others make
`OvertakenByFinalFlush` inductive. `EventsAccounted` then needs `EventLog`
only.

`CachedHolds` is `Spec => []ChannelIsCached`: what was published is in its
thread's list unless the list is full. It keeps `CacheInv`: so is what a flush
is about to publish, and nothing leaves a list that trimming has not made full.

`EventDeliveryProofs` proves for any threads, list length, limits, kinds and
budgets (`DeliveryAssumption`, which asks that one budget has the most runs and
one the most moves and faults together, so that there are enough of both):

| Theorem | Statement |
|---|---|
| `TypesKept` | `Spec => []TypeOK` |
| `NothingTwice` | `Spec => []NoEventTwice` |
| `OneSocketOnly` | `Spec => []OneSocket` |
| `PlacesAlive` | `Spec => []NoDeadPlace` |
| `PlacesKept` | `Spec => NewerKeepsPlace` |
| `StoppedOnce` | `Spec => EndStopsOnce` |
| `StuckForAReason` | `Spec => []StuckOnlyIfMissed` |

`SocketInv` has types, `OneSocket` and `Room`: the sockets used, those a timer,
an effect or an answer is still to open, and the moves and faults left are
together no more than there are numbers for, which is what makes `Connect`
well-defined. `PlaceInv` ties each place to a connection for the same thread
whose endpoint is in its loop. For `NoEventTwice` the log only grows
(`LogTyped`), a live message stands for an event already published, each at
most once among what is on the way and what is shown (`WireFresh`), and what is
shown was published and is shown once (`ShownOnce`): `PublishEvent` takes its
number out of `unsent` for good, and only the socket that `OneSocket` speaks of
delivers anything.

`StoppedOnce` and `StuckForAReason` follow from `WaitInv`, which needs
`DeliveryInv` throughout. Runs are begun by submissions to the thread they
report in (`Begun`). A final event the page has handled was sent and is not on
its way again (`HeardOnce`), so that no end stops it twice. Each final event is
yet to be published, on its way to the current socket, handled, or its run is
in `missed` (`Accounted`): a step that takes a message off the wire delivers
it, or closes the socket and puts its ends in `missed`. And while the page
waits for a run that is not in `missed`, it has handled no end of it, and the
run is under way or has reported one (`Waits`); so when that run is over and
nothing of it is on its way, the page no longer waits.

`AccountsProofs`, `KnowledgeBaseProofs`, `SessionsProofs` and
`SessionFilesProofs` prove an invariant of a part of `MCServices` each, for any
constants and with no assumption on them. `ServicesProofs` has those of the
three smaller parts and the theorems of the run's own properties. It assumes
that no task is the shutdown, that requests in the middleware and parents are
finite in number, and the ranges of the numbers (`ServicesAssumption`):

| Theorem of `ServicesProofs` | Statement | From |
|---|---|---|
| `TypesKept` | `MCSpec => []ServicesTypeOK` | all seven |
| `OneOfEach` | `MCSpec => []AtMostOneLive` | `ObjectsInvariant` |
| `GivenReady` | `MCSpec => []ReadyUnless` | `ObjectsInvariant` |
| `WindowBounded` | `MCSpec => []AcceptedBound` | `WindowInvariant` |
| `BestAnswer` | `MCSpec => []LeftOutForBetter` | `RetrievalInvariant` |
| `StaleExplained` | `MCSpec => []StaleEntryIsExplained` | `AccountsProofs` |
| `LastAdminKept` | `MCSpec => LastAdminNotByOneself` | `AccountsProofs` |
| `AnswersOwn` | `MCSpec => []AnswerIsOwn` | `KnowledgeBaseProofs` |
| `AnswersFromOne` | `MCSpec => []AnswerFromOne` | `KnowledgeBaseProofs` |
| `PartnersOwn` | `MCSpec => []PartnerIsOwn` | `KnowledgeBaseProofs` |
| `ChildrenHaveParents` | `MCSpec => []ChildHasParent` | `KnowledgeBaseProofs` |
| `LinksFaithful` | `MCSpec => []LinkShowsItsSession` | `SessionsProofs` |
| `LinksOwned` | `MCSpec => []LinkIsOwners` | `SessionsProofs` |
| `ContextOwned` | `MCSpec => []ContextIsOwn` | `SessionsProofs` |
| `StagedUploads` | `MCSpec => []RunHasItsUploads` | `SessionFilesProofs` |
| `UnstoredExplained` | `MCSpec => []UnstoredIsExplained` | `SessionFilesProofs` |

* `AccountsInvariant` keeps `Typed`, `Handled` (a request that inserts has its
  role's key to clear, and only one that inserts or clears has any) and the
  property. The point of the argument is the refill: it stores what it read
  before, and is the one step that makes an entry old without changing a row.
* `KnowledgeBaseInvariant` keeps where ids belong (`Homes`), whose the two
  collections are and that deleting and creating are the only times they are
  not a pair (`Collections`, `Rows`), what the handler holds (`Handler`), and
  `Question`. `AnswerIsOwn` is about the question's last step and needs
  `MaySee` from its first: whoever was let in may see what the names stand for
  now, because a name comes to stand for something else only under an id given
  out later. The one exception is a question let in between the two deletions,
  and that one finds no children to search. `AnswersFromOne` adds `OneInv`:
  bases of a name follow each other, so that what the name stands for is of the
  newest (`Newest`) and what an index brings to a question is of the base
  opened or an older one (`Asked`), whose blocks are not among the parents.
* `SessionsInvariant` keeps that rows are of the session there is (`Rows`), and
  for the link, its handlers, its view, the consolidation and the recall what a
  thread id stood for when each began (`Shares`, `Views`, `Draws`, `Recalls`).
* `FilesInvariant` keeps `Disk`, `Staged` (what was listed is in the directory
  or yet to be copied), `Page`, `Stream`, and that a known name that is not
  stored has one of the three reasons (`Explained`): a name the page waits to
  have removed, keeps from another session, or lost to a late removal.
* `ObjectsInvariant` keeps who has the lock (`LockHeld`), what the task that
  makes the object sees of the variable meanwhile (`Made`), that what is not
  closed, failed, leaked or loaded for nobody is in the variable or about to be
  (`LiveKnown`), and what tasks have been given (`GivenOpen`). The
  checkpointer's shutdown closes without the lock: most of it holds only until
  then (`Calm`), and so do the properties.
* `WindowInvariant` bounds, for every moment, the recorded requests of its
  window together with those that have counted and are yet to be recorded
  (`WindowBound`). The count is what makes it hold: nothing recent is ever
  trimmed (`Kept`), so a request that is let through has counted all that is
  recorded of its window, less than the limit, and the others that may be
  between their count and their record are the other workers.
* `RetrievalInvariant` keeps that what is found has a rank (`Ranks`), that the
  candidates are all of it in the order of the sums (`Ranked`), and that what
  is answered is of the texts fetched, these of the candidates, and what else a
  candidate was left out for (`Answered`). `DominatesMore` is the arithmetic:
  two fractions that are each no smaller, and one larger, have the larger sum.
* `TypesKept` of `MCServices` needs a little beyond the invariants: that an
  entry of the cache is one set (`OneEntry`), that a worker has one index
  (`OneIndex`), and that a session has one link and a link its session
  (`OneLink`), each with a theorem in its own module.
* `PartsRun` shows that a behaviour of `MCServices` is one of each of these.

**Only model-checked.** Every invariant and every action property of the
passing runs is proved, and so are the two refinements. The six properties that
remain, `JobSettles`, `LostSlotsHeal`, `SettledAfterRun`, `Reconnects`, `Heal`
and `StreamHears`, are liveness under fairness, which has ENABLED in it and is
out of the prover's reach. So are the runs that end in a violation, which show
one behaviour each.

## Not modelled

`PROJECT.json` gives the status of every component.

* *Left out whole.* The knowledge graph and the iterative retriever, which
  nothing in the application calls; the nightly clean-up, whose coroutine takes
  no `ctx`, so that ARQ's call of it fails (`app/tasks/cleanup.py:9`): a test
  shows that better than a model; the heartbeat, a key only a status page
  reads; the agent's tools and subagents, wrappers around file conversion, web
  search and SQL whose control is a straight line; tracing, metrics and
  logging; the React components, which render what the hook holds.
* *Left out of a modelled part.* What the model is asked and answers, the
  retried stream of a model call, result and error texts; passwords,
  signatures, LDAP and OIDC; parsing, splitting and embedding of documents;
  the validation of paths and sizes; lists, prompt templates, health checks and
  the creation of a memory by hand, which are one statement each; ARQ's
  `max_jobs`; the expiry of the Redis list after seven days; the limits of
  slowapi, which are external; the direct WebSocket route of `_emit`, dead in a
  worker process where no manager is bound; `active_tasks`, which is never
  filled.
