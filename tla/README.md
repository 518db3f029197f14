# TheoKit in TLA+

TheoKit is a TypeScript framework for applications built around agents. A request may start a *run*
of an agent, whose output is streamed to the browser, may pause for a human's approval, and may be
continued by further messages of the same conversation; handlers enqueue background jobs and cache
what is expensive. Model calls and tools run inside `@theokit/sdk`, which is not in this repository.

This directory models the parts of TheoKit that keep state between steps that others can come between:
streams, threads and their clients, approvals and questions, jobs, the cache, the process of a server
with its requests, crons and shutdown, and the files of sessions. Each module is written from the
source it names; `PROJECT.json` maps every definition to its lines.

Everything runs in JavaScript event loops, so a step of a model is what the code runs between two
awaits (or two callbacks); what a model interleaves is what other callbacks, requests, timers, hosts
and processes may do at those points.

## The system's components

Modelled:

| component | state it keeps | operations | who it talks to |
|---|---|---|---|
| durable run streams (`theo/src/server/agent/run-event-cache.ts` and the routes over it) | per run: frames, terminated flag, live listeners, eviction timer | begin, append, end, attach, evict; serve a run, reconnect | fed by the run's chunks; HTTP clients attach and drop |
| threads (`thread-run-registry.ts`, `thread-dispatcher.ts`, `handle-thread-routes.ts`) | per thread: active run, queue of follow-ups, one-shot waiters; idle timers | post a message, pump a run, continue with the next, subscribe, time out | starts runs, appends to the run cache |
| human approval (`approval-registry.ts`, `approve-agent.ts`, `agents/src/bridge/hitl-plugin.ts`, `hitl-pause-spans.ts`) | pending approvals with owners and timers, pause spans | register, settle, time out, approve or deny over HTTP, close spans | pauses a tool call of the SDK; emits events into the run's stream |
| approval/tool-call correlation (`hitl-call-correlation.ts`, `sdk-timeline.ts`, the merge queue of `agent-endpoint.ts`) | queues of unclaimed calls and approvals, pairings, held results | announce a call, name an approval, name a result | two producers (SDK timeline and hooks), one presenter |
| background jobs (`jobs/*`, the outbox of `http/execute.ts`) | outbox per request; jobs with attempts, leases, delays; deduplication windows | enqueue, flush or discard, dequeue, ack, nack, tick | a request's response decides; workers lease |
| Postgres job backend (`job-backend-postgres.ts`) | the table of jobs | the same, as SQL statements on a pool | many processes |
| cache (`cache/*`) | entries in LRU order, tag index, in-flight slots, background refreshes | getOrCompute, invalidate by key, tag or path, routes' reads and writes | loaders of the application |
| agent client (`agents/src/client/agent-client.ts`, `http-transport.ts`, run-id store) | status, messages and committed turns, the current drive, the snapshot shown, one stored run id | send, abort, reconnect, reset, a stream's chunks, end and error, a reload | a transport; subscribers of the snapshot |
| local surface (`in-process-transport.ts`, `ask/pending-ledger.ts`, `ask/ask-bridge.ts`) | pending approvals per turn, cards open and settled, one question per thread and its listener | send, abort, drop a turn, decide, poll, ask, answer, abandon, attach and detach | the agent's hooks and tools on one side, a terminal or desktop surface on the other |
| request pipeline (`http/execute.ts`, `web-handler.ts`, `plugins/plugin-runner.ts`, `observability/middleware.ts`) | a request's stage and response; the bounded map of active spans | hooks, checks, handler, body, error path | plugins and handlers of the application |
| cron scheduler (`server/cron`) | timer, in-flight flag and abort controller per job | fire, settle, start, stop | handlers of the application |
| boot and graceful shutdown (`cli/commands/start`, `storage/storage-manager.ts`) | phase, pools, the disposed flag | boot, accept, use a pool, drain, exit | everything in the process |
| sessions and transcript collection (`agents/src/session`) | transcripts, pointer and leases on disk; a sweep's candidates | open, write, release, plan, apply, delete, fork | surfaces of other processes; a registry of sessions |

Not modelled (`PROJECT.json` names the files and the reason for each):

| component | why not, or when |
|---|---|
| rate limits, login throttle | planned: `Throttle`, a fixed window with eviction and the check-then-record protocol over it |
| hook approvals, trust store | planned: `ConsentStore`, files of consent written back whole by several processes |
| agent run adapter | translation of the SDK's events one by one; its start retry is one loop of one coroutine |
| reflective loop, delegation | what it decides depends on model output and the SDK's compaction |
| presenter; commands of a terminal surface | sequential, directly tested |
| authentication, sessions and CSRF; webhooks | cryptography and header checks on one request |
| cost and usage; observability | sums and output; the spans of approvals and of requests are modelled with them |
| definitions, scanner, router and build; deployment adapters; developer tools, scaffolding | run at build time and render text, or user interface |
| services in development | process control of the operating system |
| browser client | typed calls and the state of one action call |
| controllers package (`@theokit/http`) | resolved at start, then run in order for a request |
| capabilities, tools, guardrails, A2A and ACP | composition of values, text detectors, thin protocol clients |

Most of the repository's lines are in this second table; what TLA+ has to say is about the first.

What is hard, per component, is the `hazards` list of `PROJECT.json`, each at its line with the
properties that watch it.

## The modules

```
RunEventCache            operations of the run cache, and a client's connections
  ResumableStream        + one-shot runs and the reconnect route;  implements RunFeed (abstract)
    MCResumableStream, ResumableStreamProofs
  ThreadDispatch         + threads, queues, waiters and idle timers
    MCThreadDispatch, ThreadDispatchProofs
HumanApproval            one run's gated calls, the registry, the endpoint, the spans
    MCHumanApproval, HumanApprovalProofs
HitlCorrelation          one gated tool's ids on the wire
    MCHitlCorrelation
JobQueue                 outbox, in-memory backend and runner
    MCJobQueue, JobQueueProofs
PostgresJobs             the Postgres backend, statement by statement
    MCPostgresJobs
MemoryAdapter            the cache's storage
  CacheEngine            + in-flight slots, refreshes, invalidation
    MCCacheEngine, CacheEngineProofs
AgentClient              the client's store over HTTP, its drives and its screen
    MCAgentClient, AgentClientProofs
LocalSurface             approvals in process, the ledger and the ask bridge
    MCLocalSurface, LocalSurfaceProofs
RequestPipeline          a request on the Node host or a web host, and its span
CronScheduler            timers, flags and controllers
  ServerProcess          + boot, pools and shutdown, over both
    MCServerProcess, ServerProcessProofs
SessionFiles             transcripts, pointer, leases; a sweep and a deletion
    MCSessionFiles
```

`MC...` modules only name model values and define constants for TLC.

### Streams: RunEventCache, ResumableStream, RunFeed

A run's buffer is `frames`, `ended` and `listeners`; `cached` is the set of keys of the Map. A frame
is its sequence number and the ordinal of its chunk. A client's HTTP connection is an *epoch*: a
listener of an old connection can stay registered, and `wire` holds what was written and not read,
which a drop loses. `ServeRun`, `ServeChunk` and `ServeFinish` are the durable response of the POST;
`Reconnect` attaches with a cursor (the `Last-Event-ID` of an EventSource) or from the start (the
project's own transport sends none); `Drop` is the network. `HostSignals` tells the two kinds of host
apart: on a web host a lost connection cancels the response body and aborts the request, the Node
host builds a `Request` without a signal (`http/node-request.ts:62-77`) and drains the body.

`RunFeed` is what the transport promises, with no cache, connection or wire: a run is a feed that
grows and closes, a client reads a prefix of it one chunk at a time, may start over, and is told
*done* only when the feed is closed and read to its end. `ImplementsFeed` is the refinement.

### Threads: ThreadDispatch

The registry's three Maps are `active`, `queue` and `waiters`; `timers` are the armed idle waits.
`StartAndPump` is the synchronous chain mint, `begin`, `startRun`, waiters; `PumpFinish` is the pump's
`finally`: end the run, `endRun`, start the oldest follow-up *with the request that built the pump*
(`via`). The pump is headless: frames reach clients only through the cache. `accepted` and `log` are
histories that the ordering properties compare.

### Approvals: HumanApproval and HitlCorrelation

`HumanApproval` is one run with calls paused side by side: `Pause` is the hook up to its await,
`Timeout`, `Resume` and `CloseStream` what may happen meanwhile. A request to the approve endpoint is
three steps, because the endpoint awaits the agent's policy and then the body: `Arrive`, `Admit`
(policy, then the owner is compared), `Answer` (by then the approval may be settled). The owner of the
run is any subject, or none.

`HitlCorrelation` is the order in which one tool's calls, approvals and results reach the wire. The
SDK's timeline and the hook feed one merge queue; `sdk-timeline` holds results back until an event
that is not a tool's. Ids are paired by tool name, first in, first out; queues of different tools do
not meet, so one tool is enough. `Gate` is the hook that pauses a call, `Allow` and `Refuse` (denied or
expired) how it returns, `Complete` the end of an allowed one.

The repository reads the SDK, which it does not contain, in two ways, and a run of the model follows
one of them (`early`, chosen at the start and never changed):

- *early*: a call is announced before its hook is awaited, so a refused one has been announced too
  (`hitl-call-correlation.ts:26-30`, and `tests/integration/hitl-call-correlation.test.ts:22-24`);
- *late*: a call is announced when its hook let it through. A refused one never is: only its result
  comes, under the runtime's id (`hitl-call-correlation.ts:112-139`, `hitl-denied-approval.test.ts`).

`GateNamesItsCall` asks the same of both. `ResultSettlesItsCard` asks in the early reading that a result
settles the card of its own approval; in the late one pairing by name cannot give that, and what is
left of it is that an allowed call's result settles a card, a refused call's none, and no card is
settled twice. `NothingStale` asks in the early reading that a result leaves nothing of its call in the
queues; in the late one, that nothing is left once everything is presented.

### Jobs: JobQueue and PostgresJobs

`Push` and `Respond` are a request: its outbox is taken for dispatch by a successful response and
discarded by an error or a lost connection, and `Dispatch` enqueues one entry per await. `Enqueue` is
the in-memory backend with its overflow and its deduplication in that order. A worker is a `tick()`
loop: `Tick` leases a batch, `Begin`, `Refuse` and `Finish` run it one lease after another. Time is
`LeaseOver`, `DelayOver` and `WindowOver`, at any moment.

`PostgresJobs` has one action per SQL statement. `dequeue()` takes one row, the smallest batch at
which its two statements race.

### Cache: MemoryAdapter and CacheEngine

The storage's methods are async in signature only, so each is one step; the Map's order is the
relation `older`. `CacheEngine` runs a call as the code does between its awaits: claim the in-flight
slot in the tick that found it free, read or load, store, settle those who joined, release the slot.
Cached routes share the storage and nothing else. `source` is the data behind the loaders, as a
version that moves on; `promised` and `busted` are histories.

### The client: AgentClient

`status`, `messages`, `user` and `committed` are the store's fields, `shown` is the snapshot given to
subscribers last and `timer` the coalesced emission. A *drive* is one call of `#drive`; it stands at
the await of its request (`opening`) or of its next chunk (`reading`), and a drive that is not the
controller's any more still comes back from its await. A message is the run it answers and how many of
its chunks it has. The server is what `RunFeed` promises: run `t` is a feed that grows and closes and
may be evicted. `Durable` tells a run-id store that survives a reload from one that does not.

### In process: LocalSurface

The same person's terminal: `pending` are the approvals of `InProcessTransport`, with the turn each
belongs to and the sweeps of an abort, a replaced turn and a closed stream; `open`, `settled` and
`pruned` are the ledger, which polls a screen that may be older than its own decision; `byThread`,
`byId` and `listener` are the bridge. A gated call and a question are both a *wait* with an outcome.

### The process: RequestPipeline, CronScheduler, ServerProcess

A request is a coroutine at a `stage`; plugins, checks, handlers and bodies pass, throw or answer.
`Web` are the requests that `executeWebRequest` serves: the hooks come in another order, the response
is a value that `onResponse` sees and the error path replaces, and it is given to the host at the end;
a process may serve both kinds (`http/node-web-adapter.ts:100`). `active` is the observability plugin's
bounded map and `span` what became of each span. The map's key is `requestId`, the caller's trace id or
`x-request-id` (`request-handler.ts:241`, `trace-context.ts:126-133`), so concurrent requests may share
one: `set()` then drops the span of the other request without ending it ("lost"), and `claim()` ends
whichever is there. `MapConfigs` are the assignments of ids, each with the cap of the map, that an
instance may meet.

`CronScheduler` has one timer, flag and controller per job and detached handlers. `ServerProcess` runs
both in `theokit start`: the scheduler is started before the port is bound, handlers open pools while
`dispose()` awaits the storage, and the exit timer is armed last. Each await of the shutdown is a
`phase`, and each may hang (`Hang`). The dispose of an adapter may throw, behind which no pool is ended
(`DisposeThrows`), and each pool's end may be rejected; `unended` are the pools the drain left open.

### Sessions on disk: SessionFiles

`transcripts` is the list, newest first; `old` those past the age limit. A sweep plans, then for each
candidate waits for a registry and unlinks; a deletion waits in the same way between its check and its
unlink. Meanwhile surfaces of other processes open, write, point at and release sessions. `returned`
remembers what came back to life behind the sweep's back.

## What the runs check

All configurations are exhaustive for their bounds. States are distinct states.

| run | what it asks | bounds | result |
|---|---|---|---|
| `streams` | no listener of a lost connection; the feed is implemented (no gap, duplicate or reordering across drops and reconnects, `[DONE]` is honest); followers finish, buffers are evicted | 2 runs, 2 clients, 2 chunks, 3 connections each, web host | holds, 53 069 |
| `threads` | one run at a time, follow-ups in order, waiters bounded; every follow-up runs, every subscription ends | 1 thread, 3 messages, 3 runs, 1 client with 2 connections, web host | holds, 139 192 |
| `approvals` | tools run as decided, owners decide, one answer wins, spans are the waits, every pause ends | 2 calls under different gates, 2 requests, 2 subjects or none | holds, 997 288 |
| `correlation` | an approval names its call, a call has one card, a result settles what its reading of the SDK allows, nothing stale is left at rest | 4 calls, two of them side by side, each allowed or refused, both readings, 2 other events | holds, 271 137 |
| `jobs` | commit before dispatch, jobs go for a reason, two workers overlap for a cause, every job is tried | 3 jobs (one delayed, one unfit, two of one key, one enqueued directly), 2 workers, capacity 2, 2 leases | holds, 382 784 |
| `jobs_postgres` | workers never race for a job | 2 rows of one key, 2 workers, 3 leases | violated (finding) |
| `cache` | size, tag index and eviction order exact; one call leads a load and one refresh may stand beside it, unless the key was invalidated meanwhile; joiners are held by a call that runs; invalidation is honoured | 3 callers of 1 function, 2 routes, 2 entries, 2 tags, 2 versions, symmetry in callers and routes | holds, 305 476 |
| `client` | a committed answer is whole unless something named cut it; it stands under its own question; the screen catches up; a turn settles | 2 turns, 3 drives, 2 chunks, coalesced emissions, a durable run-id store | holds, 476 248 |
| `surface` | no gate of a cut turn waits; a card is decided once; the bridge holds one question; every gate ends | 2 turns, 2 gated calls of one turn or of two, 2 questions, 2 surfaces | holds, 999 003 |
| `server` | an open span is in the map, one to an id, and every other was closed, evicted or overwritten by a request of its id; `forbid` never overlaps; no pool opens behind the drain; a signalled process exits unless an await in front of its timer hangs | a request on each kind of host, of two traces and a map of 1 span, or of one trace and a map of 2; 2 plugins, 2 crons (one forbids overlaps) of 2 runs, 1 pool | holds, 1 003 925 |
| `sessions` | a sweep takes a live session only if it came back to life behind the reading of what is protected, a deletion spares what is protected, a sweep ends | 3 sessions (one unreadable), the newest kept | holds, 419 424 |
| `sweep_takes_live` | a writer's lease keeps its transcript from a sweep | the same instance | violated (finding) |

Why the bounds are enough to be of use. Streams: two chunks make a cursor that is neither the first nor
the last, a third connection lets a client lose a resumed stream again. Threads: three messages on one
thread make a queue whose order matters; threads share nothing but the cache, whose runs are apart.
Approvals: two requests for one call race each other and its timer while a second call is paused.
Correlation: two calls side by side give queues of two and, with one allowed and one refused, the mixed
round in which pairing by name errs; a third and a fourth may meet what they left behind. Jobs: a
capacity of two overflows on the third job, a second lease can overlap the first. Cache: three callers
are one that leads, one that joins and one that leads again after an invalidation; two entries for
three keys evict. Client: three drives are a stale one, its successor and a reconnection. Surface: a
second turn replaces or follows one whose gates wait, a second question replaces the first, two
surfaces hand the listener over. Server: with two ids and one span the older is evicted, with one id
the two requests overwrite and claim each other's; a second run of a cron overlaps the first. Sessions:
with the newest kept, two are left for a sweep to take one after the other.

`Canonical`, the constraint of `threads`, takes messages and run ids in one order. Nothing compares
them, so every behaviour is one of these with its names changed, and unlike symmetry the restriction
is sound for liveness.

Every bound is a constant: `MaxFrames`, `MaxConns`, `MaxOthers`, `MaxLeases`, `MaxVersion`, `MaxTurns`,
`MaxDrives`, `MaxChunks`, `MaxRuns` and the finite sets. `MaxPending`, `BatchSize`, `MaxEntries`,
`maxActiveSpans` (given by `MapConfigs`) and `KeepLast` are parameters of the code. Runs set
`CHECK_DEADLOCK FALSE` because these systems may come to rest: every message posted, every client gone,
every job done, the process over.

### Disagreements found

Two are `violation` runs and entries of `findings`, with the line each contradicts:

1. The Postgres `dequeue()` loses its row locks between the SELECT and the UPDATE; two workers lease
   one row.
2. A sweep reads what is protected before its loop and waits for the registry inside it; a session
   that a surface resumes in that wait, with a writer's lease, is unlinked.

TLC shows more when a property or a constant of a module is turned round. Each of these definitions
is in its module and violated by the code; none is kept as a run:

- `DropLeavesRunAlone` (`ResumableStream`): on a host that cancels the body of a dropped POST, the
  write to that body throws and the `finally` ends the run in the cache
  (`durable-ui-message-stream-response.ts:75`, against line 7).
- `DoneMeansOver` (`ThreadDispatch`): the idle-wait timer of a thread subscription is not cleared when
  the awaited run starts, and cuts the stream of a live run with `[DONE]`
  (`handle-thread-routes.ts:180`; line 35 bounds only the wait).
- `RunOfItsCaller` (`ThreadDispatch`): a follow-up is started by the closure of the request whose run
  just ended, so it joins that caller's trace (`thread-dispatcher.ts:83`, against
  `handle-thread-routes.ts:93`).
- `RetriesAsDeclared` (`JobQueue`): nothing reads `JobDefinition.maxAttempts`, so a job enqueued
  through `ctx.queue` is tried once (`queue-client.ts:66`, against `job-backend.ts:24`).
- `AbortedTurnIsDropped` (`AgentClient`): an aborted turn with anything on screen has the status of a
  finished one, and the next `send()` commits it (`agent-client.ts:482`, against 414).
- `AskNeverHangs` (`LocalSurface`): a question whose surface detaches waits until another event
  (`ask-bridge.ts:214`, against 105).
- `EveryCardSettlesItsOwn` and `NextCallIsFree` (`HitlCorrelation`): in the late reading a refused call's
  card hangs, and of two calls side by side, one allowed and one refused, the allowed one settles the
  other's card (both said at `hitl-call-correlation.ts:126-130`). Beyond what is said there, a later call
  can still be paired with the approval of a refused one, because the refusal that drops it may be held
  back by `sdk-timeline` when the later call is announced (132-134 say the drop prevents that).
- `ShutdownIsBounded` (`ServerProcess`): a drain that hangs leaves the process without its timer, which
  is armed behind it (`graceful-shutdown.ts:74`; `storage-manager.ts:152-154` relies on the 25 s).
- `NoSpanIsLost` (`RequestPipeline`): the second of two concurrent requests of one id drops the first's
  open span from the map without ending it (`middleware.ts:112`, against 34-37).
- `RefusedStartExits` (`ServerProcess`): a start that is refused returns with an exit code, but the
  scheduler started before it keeps the process alive (`start/index.ts:191`, `217`, against 214).
- `ResumableStream`, invariant `RefusedOnlyWhenGone`: a client that reconnects before the first chunk
  is answered 404, since the served run has no buffer before it (`handle-agent-run-reconnect.ts:43`).
- `ResumableStream` with `HostSignals = FALSE`: `DropDetaches` fails, since the Node host raises no
  abort; old listeners stay until the run ends.
- `ThreadDispatch` with `SendsCursor = TRUE`: `TranscriptIsPrefix` fails, since a `Last-Event-ID` of
  one run is applied to the next, whose ids start at 0 again.
- `HitlCorrelation` with `HooksInOrder = FALSE`: `GateNamesItsCall` fails, since an application's own
  asynchronous hooks may reorder two gates of one tool (`sdk-adapter.ts:212`).
- `CacheEngine` with `InFlightCounts = TRUE`: `FreshAfterInvalidate` fails. A load that began before
  an invalidation stores its old value after it, and a caller that begins after `invalidateTag()`
  joins it (`revalidate.ts:33` speaks of "Immediate invalidation").

Reading the code for the models showed some more, which no property states:

- `cron-types.ts:12` says a handler's signal is aborted on shutdown; nothing stops the scheduler there.
- A plugin that throws in `onResponse` sends a request that was answered through the error path
  (`plugin-runner.ts:282`), and one that throws in `register()` leaves its hooks behind (97-106).
- `transcript-gc.ts:343` says that without a timeout a sweep waits for the registry indefinitely;
  `registry-remover.ts:55` gives it 30 s.
- The guard of `forkSession` compares paths that were mapped twice (`session-lifecycle.ts:514-521`).

## Fairness

Liveness is stated under weak fairness of what the runtime does by itself, and of nothing that is up
to a user or the network:

- streams: a run's source ends (`ServeFinish`; the SDK bounds a run), the armed eviction timer fires,
  a connected client reads. Losing, opening and resuming connections is never forced, so
  `FollowerFinishes` also says that no drop of another client holds one back.
- threads: a run ends, armed timers fire, a connected client reads. Posting is not forced.
- approvals: an armed timer fires and a settled promise resumes its awaiter. No human ever answers,
  and still every pause ends.
- jobs: a flush goes on, delays pass, a worker's loop makes a step when it can. Leases and windows
  need not end.

- client: a request is answered, a stream is read, a run finishes, the emission timer fires. No
  connection must break and none must hold.
- surface: renders and polls happen, a person decides the cards shown, the surface that listens
  answers its prompt. A surface that detaches answers nothing, which is why only gates end.
- server: an await of the shutdown comes back unless it hangs, and the exit timer fires once armed.
  Nothing in the code makes the awaits come back, so `Hang` is a step of its own and `ShutdownExits`
  excuses it by name. Requests may hang, a body may never end, crons need not go on. `StartSpec`, under
  which `RefusedStartExits` is refuted, has crons that do.
- sessions: the timeout of the registry fires; it need never answer.

The cache has no liveness property; that joiners are not left waiting is the safety property
`JoinersAreHeld`.

## What is proved

TLAPS checks the `...Proofs` modules; the theorems hold for every value of the constants that
satisfies the named `ASSUME`s of the modules, which TLC evaluates in every run.

- `ResumableStreamProofs`: `TypeCorrect`, `TranscriptSafe`, `NoGapAtAttach`, `DoneIsComplete`,
  `CursorsAreStable`, for both kinds of host. The safety properties are not inductive by themselves:
  that an attaching client misses nothing needs `BufferInv` (a buffer is exactly what was produced; a
  run without one has produced nothing or is over), that a frame reaches the right transcript needs
  `OwnersInv` (a listener is not newer than its client's last connection, and if it is that one, the
  client is on this run), and `ClientInv` bounds what a disconnected client can have read.
  `FeedIsImplemented` is the refinement: the mapping takes the initial state of the detailed
  specification to that of `RunFeed`, and each of its steps, under the same invariant, to a step of the
  feed or a stutter. `LostConnectionsAreDetached` proves `DropDetaches`, assuming `HostSignals`: where
  the host raises no abort the property is false (above).
- `ThreadDispatchProofs`: `OneRunAtATime`, `NeverStranded`, `OrderKept`, `AttachableAtOnce`,
  `WaitersAreBounded`. The
  registry never reads the clients' side, so the invariant is over the registry's variables: a run is
  logged when started and on one thread (`LogInv`), a running run has a live buffer (`LiveInv`), nobody
  waits while a run is active (`NoWaiters`), and the messages of the runs started followed by the
  queue are the messages accepted (`OrderInv`, the pointwise form of `FollowUpsInOrder`). For
  `WaiterIsBounded`, `WaiterInv`: whoever waits has an armed timer, and on a host that signals a lost
  connection it is the current, open connection of a client that watches the thread.
- `HumanApprovalProofs`: all six safety properties of the run and `SettledOnce`. What makes a late
  answer harmless is that an id is registered once: a request that found no entry when it compared
  owners finds none when it answers (`CheckedInv`), and a settled call remembers who settled it
  (`DecisionInv`, `ToldInv`). About `HitlCorrelation`, for any number of calls and any division into
  rounds: `GatesNameTheirCalls`, `ResultsSettleTheirCards`, `NothingIsLeftBehind`, assuming
  `HooksInOrder`, without which they are false (above), and for both readings of the SDK. The presenter
  sees names, not ids, and pairs the right ones only because both sides come in the order of the calls.
  `CorrelationInv` states that order as five fronts (calls started, gated, queued, announced, shown for
  approval): between two fronts lies what the timeline, the queue or an unclaimed list holds, in order
  (`Lists`, `Waits`); a result comes behind everything its call has sent (`Orderly`, `Results`); and
  the wire shows each call as its place between the fronts says (`OnWire`). In the late reading which
  approval a call takes is open, and `LateInv` keeps the account instead: the events of one call keep
  their order in and between the three sequences (`Pipes`), each that is due is in one of them until it
  is presented (`Stage`), and an approval is queued, stands for one call or is the id of one result, so
  that the queue is as long as there are approvals nobody has taken (`Approvals`): none, when all
  results are out.
- `CacheEngineProofs`: `TypeCorrect`, `StorageIsExact`, `OneFlight`, `JoinersHeld`,
  `InvalidationHolds`. The storage's invariant is inductive once the order is known to be total: that a
  finite total order has a first element, which makes the eviction's CHOOSE well defined, is
  `OrderHasFirst`. The engine needs that the holder of a slot leads and is alone unless the slot was
  cleared under a leader (`SlotInv`), and that what is stored, loading or being returned is no older
  than the promise of its key (`Fresh`). `OneFlight` bounds all the loads of a key, those of callers
  and the one refresh, while the key is not invalidated. `InvalidationHolds` assumes `~InFlightCounts`:
  it is about invalidations of keys nobody is loading, and the run above shows that the other case
  fails.

- `JobQueueProofs`: `CommitComesFirst`, `NoJobIsLost`, `OverlapsHaveACause`, for finitely many jobs.
  `OutboxInv` follows an entry from its request to the backend; `GoneForAReason` needs that what is in
  no place was answered for; and for overlaps, that a lease a worker holds is the latest of its job and
  locks it, unless it ran out, the job failed or is gone (`LeaseInv`, `OverlapInv`).
- `AgentClientProofs`: `HistoryIsWhole`, `QuestionsKeepTheirAnswers`, `ScreenIsCurrent`. What is on
  screen agrees with the drive that is heeded, of which there is one unless a turn was sent over another
  (`DriveInv`, `ReadInv`); a turn that is done is whole or has a cause (`DoneInv`); and no question is
  on screen without the turn it belongs to (`QuestionInv`).
- `LocalSurfaceProofs`: `CutTurnsWaitForNothing`, `BridgeIsExact`, `CardsAreDecidedOnce`. A card is sent
  at most once because what is settled stays out of `open` until it is pruned, and is pruned only behind
  the turn that showed it (`LedgerInv`). About `SessionFiles`, for any set of sessions:
  `SweepsSpareTheLive` and `DeletionsSpareTheProtected`. While a sweep waits it still has a candidate,
  and a candidate that is live was returned to (`SweepInv`); that a list of transcripts loses what is
  unlinked and nothing else are `InOrderLists`, `UnlinkLists` and `ProceedLists`.
- `ServerProcessProofs`: `StopReachesEveryRun` (over the scheduler alone), `CronsDoNotOverlap`,
  `OneAnswer`, `DrainIsFinal`, `SpansAreAccountedFor`. A job that forbids overlaps has no run without
  its flag, and a run is the controller's or signalled (`CronInv`); how far a response is, is known at
  each stage of either host (`PipeInv`); until the drain every open pool is in the map, and behind it
  the manager is disposed and what is open is what the drain left open (`PoolInv`, which also needs
  that a refused start opens pools only from crons, whose timers then keep it alive). The bounded map
  holds exactly the open spans, one to an id (`SpanMap`); a request answered behind its handler, or
  served through the web path, cannot end with one open, since a stage that closes what is under its id
  lies between (`SpanAt`); and a span that is not open any more was ended or overwritten by a request
  of its id, or evicted (`EndedFor`). The theorem holds for every assignment of ids and every cap.

Each proof is one lemma per action (`...Keeps`, `Safe...`) under the invariant, a lemma for `Next`,
and temporal theorems by PTL. Some proved theorems state properties no run lists, because a run's
refinement or the others already imply them on its instance: type correctness, `TranscriptSafe`,
`NoGapAtAttach`, `DoneIsComplete`, `CursorsAreStable`, `NeverStranded`, `AttachableAtOnce`,
`RegistryIsExact`, `SettlingIsFinal`, `StopReachesEveryRun` and `OneAnswer`.

Every safety property of a passing run, invariant, action property or refinement, is stated by one of
these theorems. Model-checked only: the liveness properties (`FollowerFinishes`, `CachedIsEvicted`,
`EveryFollowUpRuns`, `SubscriberReleased`, `EveryPauseEnds`, `EveryJobIsTried`, `TurnSettles`,
`EveryGateEnds`, `ShutdownExits`, `SweepEnds`), since the prover has no fairness or ENABLED; and all of
`PostgresJobs`, whose one property is refuted. What a recursive definition computes for every input would
need induction over data, which is out of reach too; no module declares one. For the same reason a list
without some of its members is described, by its members and their order (`InOrderOf`, `Forget`,
`Deleted`), and not computed by a recursion.

## What the models leave out

- Contents of chunks, messages, tool inputs and jobs; wording, encoding, headers and status lines,
  except where a code is what a property is about (approve's replies).
- The SDK: a run yields chunks and ends; the calls of a round are started together. When it announces a
  call is one of the two readings above. An allowed call may end at any time, or never.
- Process crashes: run cache, registries, in-memory jobs and cache are lost with their process by
  design. The Postgres table survives; a worker that dies is one whose lease ends and that never
  settles, which the model has (no fairness in `PostgresJobs`).
- The size limits of request bodies, CSRF checks and path validation: a request refused there changes
  nothing.
- Cached routes' own request life cycle, their refresh without a guard
  (`define-cached-route.ts:241`), external storages, and `clear()`.
- `migrate()` of the Postgres backend and lost database connections.
- What a check of the request pipeline decides: parsing, validation, CSRF and policy are each one
  pass, throw or answer. `executeWebRequest` without hooks, batches, actions and controllers.
- Redis clients and generic clients of the storage manager, which are ended as pools are.
- Sessions: what the code does between two awaits is one step, although processes share the files
  without a lock; a dry run, and a call without a registry, which has no waits; the liveness oracle of
  leases, which reads the process table.
- Approval ids are random: a duplicate id is not modelled.

## Plan

In order; each entry names what it is to show.

1. `HitlRun`: `HumanApproval` and `HitlCorrelation` composed over one merge queue, so that what the
   human approves on the wire is the call that runs.
2. `ConsentStore`: no decision is undone by another process that writes its file back.
3. `PluginLifecycle` and `Throttle`: a failed registration leaves nothing, a counter never loses the
   key it counts.
4. An abstract queue (a bag of jobs, each delivered at least once until settled) that `JobQueue` and a
   transactional `PostgresJobs` both implement.
5. Proofs: what the Postgres backend does promise with its race (a row is leased, never copied; a
   settled row does not come back), the promises of the correlation that need no order of hooks, and the
   queue of 4 implemented by `JobQueue`.
