# Verification of the Eulinx core

Eulinx is a desktop application (Tauri: a Rust host with a React/TypeScript
frontend) that runs AI workers under a scheduler, a workflow engine and an
event bus. This directory holds TLA+ modules that model its core, TLC
configurations that check them on small instances, and TLAPS proofs of what
holds for every instance.

- `Scheduler.tla`: the scheduling kernel (`src-tauri/src/scheduler`).
- `Admission.tla`: what the kernel promises about running work; the kernel
  implements it.
- `MCScheduler.tla` and `sched_*.cfg`: the instances of the kernel TLC checks.
- `SchedulerProofs.tla`: the kernel's theorems.
- `UiBatcher.tla`, `EventBus.tla`: the frontend's event bus with its UI batcher
  (`src/event-bus`).
- `Broker.tla`: what the bus promises its publishers, listeners and the UI; the
  bus implements it.
- `MCEventBus.tla`, `MCBusScenes.tla` and `bus_*.cfg`: the instances of the bus
  TLC checks.
- `UiBatcherProofs.tla`, `EventBusProofs.tla`: the theorems about both.
- `RuntimeLifecycle.tla`, `ArtifactStore.tla`, `SessionManager.tla`,
  `RefinementLoop.tla`: four services of the frontend (`src/runtime`,
  `src/artifact`, `src/session`, `src/orchestrator`), with `RuntimeProofs.tla`,
  `ArtifactProofs.tla`, `SessionProofs.tla` and `RefinementProofs.tla`.
- `TerminalRegistry.tla`, `TerminalProofs.tla`: the PTYs that views of terminal
  nodes share (`src/ui/workspace/terminal/use-terminal.tsx`).
- `MCServices.tla`, `host_services.cfg`, `runtime_unsafe.cfg`: their instances.
- `PROJECT.json`: components, runs, mutants, the source lines of every
  definition, findings, hazards and theorems.

Paths below are relative to the repository's root.

## 1. The system

### Inventory

| component | state | operations | hard behaviour | correct when |
|---|---|---|---|---|
| **Scheduler kernel** (Rust, `src-tauri/src/scheduler`, behind the Mutex of `managers/scheduler_manager.rs`) | twelve queues, limiter, budget pool, token buckets, fairness counts, retry table, dead letters, lifecycle | enqueue, cancel, complete, fail, tick, start/stop/pause/resume, resets | a tick drains and sorts six queues, takes four kinds of resources per start, and is called in any order with commands that release them; starvation; retries | every unit is in one queue; resources taken = resources of running units; limits hold; gates before every start; every unit settles |
| **Event bus** (TS, `src/event-bus/event-bus.ts`) | lifecycle, sequence counter, subscribers with panic counts, in-memory log, log failures | publish, subscribe, unsubscribe, start, drain, forceStop | publish() awaits a log write and each core handler while any other call goes on | write-ahead; each matching subscriber called once; order; every publish returns |
| **UI batcher** (TS, `event-batcher.ts`) | open batch, coalesce index, timer | push, flush, timer, shutdown | index and batch must change together; urgent events overtake the batch | order; index sound; nothing stays unshown |
| **Workflow engine** (Rust, `src-tauri/src/workflow`, behind the Mutex of `workflow_manager.rs`) | runs, graph mirror (node states, remaining dependencies, ready and running sets) | create, tick, handle result, pause, resume, cancel, recover | results that come late, twice or for cancelled nodes; retries; a crash between the saves | a node runs only after its predecessors succeeded; every run ends, in a state its nodes explain |
| **Scheduler mirror** (TS, `src/scheduler/scheduler.ts`) | a second table of units with its own dispatch | the same commands, forwarded without waiting | local state, forwarded commands and the kernel's events interleave | the mirror agrees with the kernel in the end |
| **Workflow engine** (TS, `src/workflow`) | cached runs | forwards to Rust; `tickLocal` is called by tests only | stale cache | - |
| **Runtime** (TS, `src/runtime`) | ten-state machine, service registry, hooks | boot in phases, pause, resume, recover, shutdown with a grace timer | hooks fail, throw, are late or never answer; shutdown races the timer; recovery and shutdown interleave | phases up in order, down in reverse; running means served; a graceful stop ends |
| **Runtime services** (TS, `src/runtime/services`) | locks with expiry, merge history, executions, tasks | acquire/release, apply/rollback, execute/cancel | expiry against a slow owner | one owner per resource |
| **Spawner, worker manager** (TS, `src/spawner`, `src/worker`) | spawn queue, worker state machine, idempotency map, heartbeats | submit, process, terminate, clean up, recover | retries of a request; stall detection | one worker per request; a terminated worker stays so |
| **Session manager** (TS, `src/session`) | session states, workers, event logs, the active session, branches | create, transitions, workers, branch, recover | events are emitted before transitions that may throw; calls of several transitions end in the middle | the log tells the state; a live session is not forgotten |
| **Refinement loop** (TS, `src/orchestrator/refinement-loop.ts`) | pass, budget, best draft | one run of build, verify, critique, judge | any executor fails or rejects in any pass; the budget is looked at between passes | the best draft is returned; no pass begins on a spent budget |
| **Orchestrator** (TS, rest of `src/orchestrator`) | prompts, roles | text around model calls | - | - |
| **Artifact manager** (TS, `src/artifact`) | artifacts, content index, search index, history, a saved copy | create, new version, transitions, verification and merge states, save, load | several managers save over each other; a reload before the timer; updates that are not stored; bytes decoded on the way to disk | originals unique, version chains whole, on disk too; one manager loses nothing it saved |
| **Terminal registry** (TS, `ui/workspace/terminal/use-terminal.tsx`) | node -> PTY, node -> references; what views hold | ensure at each render, release at the end of each effect, destroy with the node, undo, redo | renders that are thrown away, effects, unmounts of several views and removals of nodes in any order | a PTY is destroyed only when no view uses it |
| **Plugins, MCP client** (TS, `src/plugins`) | request ids and pending answers | call, disconnect | an answer after a disconnect | every request is answered once |
| **Persistence** (Rust and TS) | SQLite tables, saved frontend state | commands | I/O | - |
| **Memory, providers, tools, security** (TS) | stores, adapters, policies | queries and updates | little of their own | - |
| **Host** (Rust: pty, fs, git, windows, browser), **user interface** (React) | operating-system handles; view state | commands; rendering | I/O | - |

### How they interact

Frontend code calls the host through Tauri commands (`invoke`), each of which is
answered or fails, and the host emits events back (`scheduler://...`,
`workflow://...`). The kernel and the Rust workflow engine are each behind one
Mutex; a command holds it from beginning to end. The frontend is one JavaScript
thread: code between two awaits is not interrupted, and at an await everything
else may run. The bus is shared by all frontend services: they publish to it and
subscribe as `core` (awaited), `plugin` (not awaited) or `ui` (through the
batcher). The workflow engine asks a scheduler adapter for admission and an
executor adapter for execution; in the application both are stubs
(`workflow_manager.rs`, end), as is its persistence.

Hazards, at their lines, with the properties that look for them, are listed in
`PROJECT.json`.

## 2. The plan

Done: (1) the kernel with the abstract admission gate, its runs and proofs; (2)
the bus with its batcher, the abstract broker, their runs and proofs; (3) the services of a page and
the terminal registry with their run and proofs.

What is left, the most useful first:

1. **PtyBridge**: the host's side of a terminal (spawn, exit thread, kill) with the
   frontend's listeners, which are registered while the shell may already end:
   that a shell's end is shown, that kill ends it (it does not, `pty.rs:95`).
2. Kernel: `retry_clear` and `queue_clear` with the properties that survive them,
   the heap as the implementation of the Runnable set.
3. **WorkerLifecycle**: spawn requests, idempotency, the worker state machine,
   heartbeat, recovery, when the application constructs its managers.
4. **SchedulerMirror** (TS scheduler) composed with the kernel's abstraction, when
   its `tick()` is called and the kernel's events say what happened.
5. **WorkflowRun** (Rust engine), when the code behind it is reachable (section 7).

## 3. The scheduler kernel

### Model and code

`SchedulerManager::with_scheduler` takes the Mutex for every command, so a command
is one action. `tick()` has a loop with a choice per turn and is told in steps:
`TickBegin` (aging, readiness context, sorting of Incoming and the five wait
queues), one `Dispatch` or `BlockOnBudget` per turn of `dispatch_ready`, and
`TickEnd` (the loop breaks; `process_retries`). Between them `pc = "dispatching"`
keeps every other command out, as the Mutex does; clocks go on.

| model | code |
|---|---|
| `queue` | the twelve `MinHeap`s; a set per queue, with the order of equal priorities left open (`Heads`) |
| `slots`, `kindCount` | `ConcurrencyLimiter.running`, `kind_counts` |
| `reservations`, `consumed` | `BudgetPool`; two of its dimensions, `cost` (which the readiness gate looks at) and `workers` (which only `can_reserve` does) |
| `tokens` | the global `TokenBucket`, refilled at any moment |
| `groupCount`, `workspaceCount` | `ConcurrencyTracker`; a unit's group is its kind |
| `attempt`, `due` | `RetryQueue.entries` and whether `next_eligible_at` has passed |
| `dead` | ids in the `DeadQueue` |
| `priority`, `age` | `unit.priority`, and whole aging intervals since `created_at`, up to `max_aging_levels` |
| `TargetQueue` | the gates of `readiness.rs` in order; the first that fails names the queue |
| `AppContext` / `DefaultContext` | the provider the application installs / the scheduler's own context without a provider |
| `failedRuns` | history: failed runs of the units in `Counted`, up to `MaxAttempts` |
| `Unlimited`, `Bounded` | the limit of `UNLIMITED_BUDGET_POOL`; a dimension that has it is not looked at by `can_reserve` |

Left out: `queue_clear` and `retry_clear` (plan, 2), enqueueing an id that is
already known (clients make ids with a UUID), eviction from the dead-letter queue
at 1000 entries, per-workspace buckets,
`RoundRobinDistributor` (updated, never read by dispatch), metrics and events.
Under both providers the approval and lock gates never name a queue of their own:
approvals follow permissions and no locks are held. `complete()` leaves
`unit.state` at `running` (`scheduler.rs:343`), and so does the model; the test
at `scheduler.rs:1323` asserts `Completed`, which no step of the code ever assigns
(section 8). No checked property says that this is right: `TypeOK` allows both.

### Runs

| run | instance | shows |
|---|---|---|
| `sched_commands` | 3 units of 2 kinds and workspaces, one depending on another, two with estimates that fit the budget one at a time (cost 2, workers 1), 2 slots, 2 tokens, tasks before the merge, aging of the unit that waits; resets of fairness, limiter and tokens; failures without a bound | 10 properties: no unit lost or in two queues, budget accounted and kept, fairness counts, retry entries, dead letters, gates before start, met dependencies release units |
| `sched_contention` | 3 units without dependencies: two tasks and a merge behind them, 2 slots, a share of 1 per kind, cost unlimited, 1 worker, 2 tokens; resets of budget and dead letters; failures without a bound | slots = running, capacity and fair share, refinement of `Admission`, everything settles once workers stop failing |
| `sched_retry` | 2 units, the failed runs of one counted | finding: attempts are forgotten at each return from Retry |
| `sched_slots` | 3 units, two of them of one kind, without dependencies, 2 slots | finding: the fair share and the break leave a slot empty that a test says is filled |
| `sched_app` | the application's readiness provider | finding: dependencies never release a unit |
| `sched_aging` | aging | finding: promotions compound past `max_aging_levels` |

Bounds: ids are used once; age stops at `MaxAgingLevels`, and only units in `Old`
grow old. Nothing else is bounded: a unit may fail and be retried for ever, and
the state stays finite, because a retry forgets the attempts; only
`sched_retry` counts failed runs (`Counted`). Three units are the fewest with a
fairness share, a dependency and a budget conflict at the same time. All limits
are reached: 2 slots with 3 units, the budget by the second estimate, the share
(1 of 2) by the second task, tokens by the third start. In `sched_contention` a
task without share stands before a merge that could run, and the loop breaks
there. `sched_commands` has the resets that leave budget and dead letters alone,
`sched_contention` those that leave the limiter alone, as the properties of each
speak of what the others would reset.

Fairness (`FairSpec`):

- `WF(Tick)`: a client goes on calling `tick`. The kernel has no clock of its own;
  the frontend's `tick()` forwards to it. This is an assumption about the client.
- `SF(Report(u))`: every worker that runs reports in the end, a success or a
  failure; strong, because other commands take the Mutex in between again and
  again. Nothing says that a worker ever succeeds.
- `WF(Refill)`, `WF(RetryDue(u))`: time passes.

The liveness properties are stated for a scheduler that stays Running from some
moment on (`StaysRunning`); nothing can be served while it is paused.
`EventuallySettles` assumes besides that failures end at some moment
(`FailuresEnd`), after any number of them. Without that it does not hold, and TLC
shows why: attempts are forgotten (`sched_retry`), so a unit that goes on failing
is retried for ever and never settles.

### Proofs

`SchedulerProofs.tla`, for all finite sets of units, kinds, workspaces and all
configurations that satisfy `UnitsAssumption` and `ConfigAssumption`:

    IInv == TypeOK /\ OnePlace /\ SlotInv

`TypeOK` alone is not inductive: `ReleaseSlot` subtracts one from a kind's count,
which stays a natural number only because the count equals the number of slots of
that kind (`SlotInv`); and a release is right only if the unit it meets is in no
other queue (`OnePlace`). `IInvStep` has a lemma per group of actions.
From it follow:

| theorem | states |
|---|---|
| `TypeCorrect`, `UnitsInOnePlace` | `[]TypeOK`, `[]OnePlace` |
| `NoUnitLost`, `GatesEvaluated` | the action properties `NothingLost`, `GatesBeforeRunnable` |
| `RetryEntries`, `DeadLetters` | each inductive relative to `IInv` |
| `BudgetHolds` | `consumed <= Limit` in every dimension that has a limit: the only step that adds is `Dispatch`, after `CanReserve` |
| `SlotsCorrect`, `CapacityHolds` | under the assumption that the limiter is never reset (`"concurrency" \notin Admin`), which the code's reset command would break |
| `FairnessCountsHold` | the tracker counts no more than what runs, resets included |
| `AdmissionImplemented` | `Spec => Admission!Spec` with open <- Running, active <- the Running queue, under the same assumption; it needs `pc = "dispatching" => lifecycle = "Running"` besides |
| `StatesAgree` | the state a unit carries is one its queue allows, at every point of a tick; completed units keep saying `running`, against the test (section 8) |
| `UnpermittedNeverStarted` | a unit that needs a permission comes to neither Runnable nor Running: it follows from `GatesBeforeRunnable` and from both providers refusing every permission |
| `AttemptsBounded` | `attempt <= MaxAttempts`, although `fail()` and `schedule_retry()` both count it up; the limit that does not hold is the one on runs (`sched_retry`) |
| `BudgetAccounted` | `[]BudgetMatchesRunning`, under the assumption that the budget is not reset (`"budget" \notin Admin`), which the code's reset command would break |
| `ConsumptionNotNegative` | `consumed >= 0` with any resets: the code subtracts from an `i64` without looking |
| `RunningFitsBudget` | without budget resets, the estimates of the running units together are within the hard budget, where there is one |
| `TickLoopEnds` | the dispatch loop ends: one of its steps is possible as long as it runs (`LoopGoesOn`: without a resource the loop breaks, with one a head is started or blocked), and each leaves the loop or takes a unit from Runnable, whose size is the variant |

`BudgetMatchesRunning` speaks of a sum over the running units (`Total`), a recursive
function on sets. What such a function computes is usually shown by induction over
data, with a theorem that takes an operator and that the provers cannot
instantiate. Instead, the lemmas state the equation of the function for a fixed
size of sets (`SumTable`, `SumEquation`) and take a smallest set for which it fails:
sizes are well-founded (`LeastNatural`, `SmallestSubset`), so there is none.
`TotalAdd` and `TotalRemove` are what the steps need: a start adds the estimate of one
unit and a release takes away the same. `BudgetInv` has the reservations besides,
and is inductive relative to `IInv`: a release finds the unit's reservation exactly if
it runs and carries an estimate.

Only model-checked: the two liveness properties.

## 4. The event bus

### Model and code

An action is the code between two awaits. A `publish()` call is told by `pc`:

    idle --Refuse--------------------------------> returned (refused)
    idle --Publish--> logging --LogFailed--------> returned (failed)
                      logging --LogWritten--> (distribute)
    idle --Publish-------------------------> (distribute)      not replay-grade
    (distribute): a middleware drops it -> returned (ok), throws -> returned (rejected)
                  no core subscriber, or after handling <-> settled, once per core
                  subscriber: plugins, then the batcher -> returned (ok, or rejected
                  if the consumer of the batches throws)

`handling -> settled` is the handler's promise settling (`Settle`: the counters of
`deliverToCore`), `settled -> ...` the continuation of `publish()` (`Resume`); other
code may run in between. The last step (`FinishDelivery`) calls plugin handlers,
which may throw, and pushes to the batcher, without an await. Nothing catches what a
middleware or the consumer of a batch throws: the promise of `publish()` is rejected
(`StopInMiddleware`, `HandToUi`, `PushThrows`), with the event in the log and perhaps
with subscribers; an urgent event behind an open batch is then lost to the UI. `drain()` is
`DrainBegin`, a `DrainWrite` per event of `flushLog()`, `DrainEnd`; `start()`,
`forceStop()`, `subscribe()` and `unsubscribe()` have no await.

| model | code |
|---|---|
| `state`, `sequence`, `failures` | `state`, `sequence`, `consecutiveLogFailures` |
| `subscribers`, `older` | the ids in the `subscribers` map, and for each the ids given out before it: the map's order; each id is used once |
| `panics`, `quarantined` | `consecutivePanics` and `state` of a subscription |
| `seq`, `todo`, `matched`, `result` | locals of a publish() call: the stamped number, what is left of `coreSubs` (a set, served in the order of `older`), `matchingSubs`, the result |
| `eventLog`, `flushing`, `stored` | `eventLog`, what `flushLog` has spliced out of it, what the backend has written |
| `openBatch`, `slotOf`, `timerSet` | `openBatch` as entries of coalesced events, the two coalesce maps, `flushTimer` |
| `handled`, `shown`, `earlier` | history: calls of each handler, entries the UI got, the calls that had returned at each publication |

The log is the desktop build's: the Tauri command `event_log_write`, which may
succeed or fail. (The repository's `Docs/99-ai-context/ImplementationGapAudit.md:217`
notes that it is not registered; then every write fails, one of the modelled
outcomes.) Middlewares come and go, so an event in
`Intercepted` may be dropped or thrown on; `ConsumerThrows` lets the consumer throw.

Left out: the browser's localStorage log and its periodic flush, `clearLog`, the
HelixDB adapter (`setHelixdbAdapter` is never called), counters that nothing
reads, the validation of a subscription request, `flushLog` called alone,
`recordDrop` (no caller), and the helper modules the bus does not use (queues,
priorities, replay, dead-letter queue).

### Runs

| run | instance | shows |
|---|---|---|
| `bus_scenes`, scene "delivery" | 2 replay-grade events, 2 core subscribers (one wants one event only) and a plugin that come and go, a middleware that drops or throws on one event, 2 panics to quarantine, 2 failed writes to `failed`, 2 starts, forced stops | write-ahead; each handler called once, with handlers that reject and subscribers that leave on the way; every publish() ends; refinement of `Broker` |
| `bus_scenes`, scene "screen" | an urgent replay-grade event, an ordinary one, 2 coalesced progress reports, a UI subscriber, a consumer that may throw; batch of 3, one drain with its writes, forced stops | order of the UI's stream, the coalesce index, nothing stays in the batch; refinement of `Broker` with the UI's half |
| `bus_reopen` | 1 start, 1 drain, failing writes | finding: a failed write reopens a bus that drains or is stopped |
| `bus_order` | one source, a replay-grade event and another | finding: the second overtakes the first |
| `bus_quarantine` | a core subscriber and a plugin, 3 panics to quarantine | finding: a plugin that is quarantined while an event is with a core handler is called with it all the same |

`MCBusScenes` chooses a scene at the start of a behaviour and restricts `Next` to its
cast, so that one run checks the sum of the two state spaces, with the same
constants and properties.

Bounds: each event is published once and each subscription id given out once;
`MaxStarts` and `MaxDrains` bound the calls of `start()` and `drain()`;
`LogFailureLimit` is 2 where the code has 3 and `MaxConsecutivePanics` 2, so that
two events reach both. `drain()` does not wait for a drain that is under way; the
model has one at a time. Two calls suffice for every race between publish()
calls, since a call shares only counters, the batch and the subscribers with
others. A batch of 3 with 4 events is filled, flushed by its timer, by an urgent
event and by drain. The systems may stop (no event left to publish, bus stopped),
so deadlock is not checked there.

Fairness: `WF(PublishStep(e))` - Tauri answers every command and handlers settle,
in one way or the other, and the event loop runs continuations; `WF(DrainWrite)`,
`WF(DrainEnd)`; `WF(TimerFires)` - timers that are set fire. That handlers settle
is an assumption about subscribers; nothing in the bus enforces it.

### Proofs

For all finite sets of events and subscriptions, all kinds, keys and limits that
satisfy `BusAssumption` and the batcher's. `EventBusProofs.BusInv` is the
inductive invariant:

- `TypeOK`, and of the batcher `BatcherInv` (no batch and no entry is empty) and
  `CoalesceIndexSound` (`UiBatcherProofs`: each of `Push`, `Flush` and `Emit` keeps
  them and adds to the UI's stream what it took);
- `MapInv`: of two ids one was given out before the other, so at most one handler
  of a set is its first, the one a call waits for;
- `CallInv(e)`: who has seen `e` at each point of its publish() call. Before
  distribution nobody has; while handlers are called, exactly those whose turn is
  over or has come; after the return all that matched (none, when a middleware
  dropped it or threw), or nobody when it was refused or failed. `WriteAhead` and `DeliveredOnce`
  speak of handlers and of the log; what connects them is the point the call is at;
- `OrderInv`: what had returned when an event was published is over for good, and
  no handler has an event twice; `ServedInOrder` is inductive with both.

Theorems: `BusTypes`, `LoggedFirst`, `ServedOnce`, `SeenInOrder`, `IndexIsSound`.

`SequenceNumbers` says of a bus that was started once that the stamped numbers are
distinct and follow the order of publication. A second `start()` counts from 0
again under calls of the first run (`event-bus.ts:138`), so `NumbersInv` is stated
for `starts <= 1` and needs, for the first start, that nothing was published yet.

`BrokerImplemented` is `Spec => Broker!Spec` under

| broker | bus |
|---|---|
| `stage` | `StageOf`: idle, under way between publish() and its answer, or the answer |
| `disk` | `stored` |
| `inbox` | `handled` |
| `pending`, `onScreen` | the events in `openBatch`, and in `shown` |
| `Replaced` | `TakesPlaceOf`: other progress of the same key |

The broker does not say when the publisher is answered: the documents have publish()
answer before its subscribers are served (`EventBus-Part03.md:62`), the code answers
after (section 8), and both implement it. A core subscriber's turn and the last step of a call are
`Deliver`, with or without the answer (`Answer`); a step may write the event and
deliver it at once, as `LogWritten` does; a flush is `Show`, a drain's write `Store`;
everything else the bus does (subscriptions, panics, quarantine, starting, draining,
stopping) changes nothing the broker knows. What it demands is that nobody gets an
event twice, before it is on disk, or after its publisher was told that it failed,
and that what the UI is given is shown or gives way to newer progress of its key,
consumers that throw included.
The proof takes from `BusInv` who has seen the event at each point of a call, from
`LogInv` that `drain()` writes only what was published, and from `UiBatcherProofs`
that nothing is lost in the batcher: a flush shows all that waited (`FlushShows`),
a push adds its event and takes away at most what it replaces (`PushTakes`).

`PublishReturns` and `UiEventuallyShown` need fairness and are only model-checked.
Of the first, `PublishCountsDown` proves what needs none: a call that is under way
always has a next step (`CallGoesOn`), nobody sets it back, and each step of its own
makes the natural number `WorkLeft` smaller. It rests on the order of the handlers
having no cycle (`AgeInv`: what is older than an older id is older): the id with the
fewest older ones is the first (`FirstExists`).

## 5. The services of a page

Five components that share no state. `MCServices` chooses one of them at the
start of a behaviour, so that one run checks the sum of their state spaces; the
modules know nothing of each other, and a theorem about one is about it alone.

### The runtime (`RuntimeLifecycle`)

`start()`, `stop()` and `recover()` are async; what they do between two awaits is
an action, and while one waits for the hook of a service the others, `pause()`
and `resume()` may run. A hook's answer is an action with three outcomes: a
result, an error result, a rejected promise (`Throwing`); nothing says that it
ever answers.

| model | code |
|---|---|
| `machine`, `After` | `RuntimeStateMachine`; a transition the table refuses changes nothing, and most callers do not look |
| `service` | `ServiceRegistry` entries; "unregistered" until the first configuration was loaded |
| `boot` | the `start()` call: its phase, the hooks it waits for, those that failed |
| `shutdown`, `loops` | `shutdownPromise`; every `stopServices()` loop, also one that lost its race against the timer and goes on |
| `recovery`, `attempts` | the `recover()` call with the services it has still to reload; `recoveryAttempts` |
| `checking` | the health check timer |
| `boot.alone`, `loops[i].alone` | history: nothing else was under way when the call began |

`BootInOrder`, `ReadyMeansServed`, `DownInReverse` and `StoppedIsDown` are stated
for calls that nothing overlapped at their beginning; a second start may run into
the loop of an earlier stop, and then services are stopped under it. A service
without a hook is up or down at once. `HookStopped` with an error marks its
service stopped all the same, as `stopService()` does.

### The artifact managers (`ArtifactStore`)

`api/managers.ts:39`, the runtime's bootstrap and
`ui/workspace/templates-store.tsx` each construct a manager; all save under one
key. Every operation is synchronous: one action. `Save` is the 300 ms timer, and
`Reload` ends the page at any moment. `Save` writes the content of an artifact as
text: bytes that are no UTF-8 (`Binary`) are decoded with what cannot be decoded
replaced (`Decoded`, `artifact-storage.ts:59`), and are read back changed, under the
hash of what they were.

| model | code |
|---|---|
| `store`, `holder` | `ArtifactStorage.store`, `contentIndex` (rebuilt from the map when constructed) |
| `content`, `decoded` of an artifact | its `contentHash`, taken when it is made; whether what is kept of it has been decoded since |
| `saving`, `disk` | `persistTimer`, the value in localStorage |
| `made` | ids in the order artifacts are made (UUIDs in the code) |

The content hash is taken to tell contents apart (it has 32 bits). The search index
and the history are left out: none of these operations reads them, and where they
part from the store each does so in a call or two (section 8). So are tags,
relationships, provenance and `importArtifact`, which stores nothing;
`storage.delete` has no caller. An empty array of bytes, which has the hash of the
empty string but is stored again, is not among the contents.

### The session manager (`SessionManager`)

Every operation is synchronous in effect: one action. `transitionSession` emits
its event, then tries the transition, which may throw; `initializeSession`,
`resumeSession` and `completeSession` are sequences that end at the first throw
(`AdvanceAll`). `TransitionSession` with `Requests` is a direct call. Left out:
tasks, artifacts and metrics of a session, branching, `recoverSession`, which
always throws and has no caller, and event handlers, of which there are none.

### The refinement loop (`RefinementLoop`)

One `run()`: each executor's answer, with any cost, verdict and score, its
failure (`ExecutorFails`), or the rejection of its promise (`ExecutorRejects`) is an
action. The runner awaits its model calls without a `try` (`runner.ts:257`, `:297`,
`:318`), and `run()` catches nothing: it is rejected in its turn and returns no
draft. A draft is named by its pass. Scores are natural numbers
up to `MaxScore`; the loop only compares them. The tokens, the texts handed from
phase to phase and the events are left out.

### The terminal registry (`TerminalRegistry`)

A view asks `ensurePty()` for its PTY in every render, which counts a reference;
the cleanup of its effect gives one back. Renders may be thrown away, and effects
run some time after their render; between them other views, a removal of the node
or an undo may come. Each of these is synchronous: one action (`Render`, `Commit`,
`Discard`, `Unmount`, `RemoveNode`, `UndoTo`, `ChangeGraph`).

| model | code |
|---|---|
| `registry`, `refs` | `registry`, `refCounts` (0: no entry); a PTY is the number of PTYs made for its node when it was made |
| `rendered`, `shown` | the `pty` of a render whose effects have not run, and of the effect that runs |
| `graph` | the terminal nodes of the open graph |
| `created`, `disturbed` | bound and history: PTYs made; nodes whose PTY was destroyed under a view |

The build is the production one (React's StrictMode runs effects twice in the
development build). Which snapshot an undo goes to is left open. Left out:
`destroyAllPtys`, whose caller is inside the `ProjectScope` that is remounted by
the switch of projects it waits for, `setPty`, which has no caller, and the PTY
itself (plan, 1).

### Run

`host_services` checks all five, 16 properties:

| part | instance | properties |
|---|---|---|
| runtime | 3 services in 2 phases, two of them required, one optional; all with hooks, one that may throw; 2 starts, 2 stops, 2 recovery attempts | `BootInOrder`, `ReadyMeansServed`, `DownInReverse`, `StoppedIsDown`, `GracefulStopEnds` |
| artifacts | 2 managers, 3 artifacts, 3 contents, one of them empty and one binary, 1 update, any saves and reloads | `OriginalsUnique`, `ChainsWhole`, `AloneNothingLost` |
| sessions | 2 sessions, 1 active allowed, 2 workers, 1 per session, 5 calls | `LogTells`, `LiveIsActive` |
| refinement | 4 passes, budget 6, phases of cost up to 2, scores up to 2; executors that fail or reject | `BestKept`, `NoPassBeyondBudget` |
| terminals | 2 nodes, one of them with 2 views, 2 PTYs and 4 references per node | `KeptInUse` |

and the type invariants of the first three. Bounds: two stops are the fewest with
a loop that outlives its shutdown, two starts with a loop that runs into a start;
three artifacts give a version of a version next to another original, and two
managers overwrite each other; five calls bring a session to running, to failure
and back, or let a second one in; four passes let a score rise, stay and fall, and
a budget of 6 runs out in the middle of one; four references are one more than two
views need for their effects and a render, two PTYs one more than a node needs
that is never removed. The parts may stop, so deadlock is
not checked. `runtime_unsafe` is the finding (section 8).

Fairness: `GracefulStopEnds` assumes `WF(GraceExpires)`, that a timer that was set
fires, and nothing of the hooks: a graceful stop ends even if none of them
answers. A forced stop and a start have no timer and promise nothing of the kind.

### Proofs

Each for every value of the constants that satisfies the module's assumption.

- `RuntimeProofs`: `RuntimeInv` adds to the types what the calls exclude of each
  other: while an undisturbed start is under way, no loop runs and no recovery is
  under way, the services of earlier phases that are required run
  (`BootUndisturbed` and what belongs to it); while an undisturbed shutdown is,
  its loop is the last one, nothing is started, and the later phases are down
  (`StopUndisturbed`, `StopProgress`); loops that have not begun are empty
  (`LoopsIdle`). `BootInOrder` and `DownInReverse` are parts of it;
  `ReadyMeansServed` and `StoppedIsDown` follow for the step that ends a call.
  They need that the transition table leaves no other way out of `starting` and
  `stopping` (`TransitionsOf`). `StopEndsStopped` is what `GracefulStopEnds` has
  without fairness: an undisturbed stop goes from `stopping` to `stopped` and
  nowhere else, whichever of loop and timer wins.
- `ArtifactProofs`: `ArtifactInv` states for every map, in memory and on disk,
  that originals are unique and chains whole (`MapOK`), that the content index
  finds every original of its map, that with one open manager its store is at least
  as far as the disk, and that what is on disk is in the form saving gives it
  (`DiskDecoded`), so that a later save of the same manager does not change it.
  `UpdateMapOK` and `AddMapOK` say which changes of a map keep it, `DecodedMapOK` that saving does; loading copies
  the map.
- `SessionProofs`: `LiveIsActive` is inductive with the types: a state is left
  for a live one only through a live one or through `recovering`
  (`TransitionsType`), a log only grows (`ToSetAppended`), and a session is
  created when none is live. `LimitKept` is the same for any limit: the live
  sessions that never were in `recovering` are at most `maxActiveSessions`. Those
  that were may come on top, as bringing a session back looks at no limit.
  `LogTellsState` (`LogTells`) speaks of a fold over the log. `Replay` is shown
  to be the last of the states one gets by reading event after event
  (`ReplayTrace`): two such traces agree as far as both go, or there would be a first
  place where they do not (`TracesAgree`); so an event at the end of the log reads
  on from where the log stood (`ReplayPath`). That a refused transition, whose event
  stays in the log, is passed over makes the theorem true: the reader has to
  know the table of transitions, the last event alone does not tell the state.
  For workers it is the last event that names them (`LastAboutNew`).
- `RefinementProofs`: `LoopInv` says what the best draft is in terms of the scores
  so far, and that what is left is what the phases of all passes have left of the
  budget, zero at least (`LeftIsLeft`): the head of the loop looks at the clamped
  rest, `NoPassIsBeyondBudget` speaks of the sum of the costs. `RunIsBounded`
  counts the phases that are left (`StepsLeft`): a run is over after at most
  `5 * MaxPasses + 1` answers, rejections and heads of the loop.

- `TerminalProofs`: `TerminalInv` says of every node that is not disturbed that its
  views hold nothing but the PTY of the registry (`Held`) and that the references
  are at least the effects plus the renders that hold one (`Counted`), a statement
  about sizes of sets. `KeptInUse` alone is not inductive: it does not say that the
  count at an unmount leaves one for the others. `ReleaseKeeps` is the heart of it.

Only model-checked: `GracefulStopEnds` (liveness).

## 6. What the properties leave open

`ServedInOrder` speaks of a publisher that waits for each publish() and leaves
coalesced progress out, which keeps the place of the report it replaces.
`FailedIsRecorded` holds while dead letters are neither removed nor evicted.
`NoFairnessLeak` is one-sided: a count is never too high. It may be too low: a
reset, or a `cancel()` or `fail()` of a unit that waits, lowers the count of its
group, and the cap then admits one unit too many. `CapacityBound` sees a share that
is exceeded and not the half that is never used (`TickFillsSlots`). `RetryHasEntry`
says that a waiting retry comes back, and nothing of the attempt it forgets
(`RetryAttemptsBounded`). `EventuallySettles` is about units without dependencies
and permissions, whose estimate fits the budget alone, and workers that stop
failing; the code promises nothing for others.

`DeliveredOnce` asks for the call of a matched handler only while its subscription
is there and not quarantined; that a quarantined plugin is called all the same is a
finding (`bus_quarantine`). `PublishReturns` says that a call ends once its handlers
have settled, be it with a result or a rejection. A batch counts as shown to the
UI once its consumer was called with it, throwing or not.

`LiveIsActive` excepts sessions that were brought back from `failed`: they are
live again without becoming the active one, next to another that may have been
created meanwhile, so there may be more live sessions than are allowed, where
`Session-Part01.md:47` allows one active session.
`AloneNothingLost` is about pages with one manager: with two, the last save takes
the other's artifacts from the disk, which `OriginalsUnique` and `ChainsWhole`
survive. `ChainsWhole` is about later versions: `create()` takes a parent that nobody
looks up, for a first version too, and such a first version may name one that does
not exist. `BestKept` speaks of runs that answer, and of drafts that
scored above zero; `NoPassBeyondBudget` of passes that begin, not of what one costs
(section 8 for both). `GracefulStopEnds` says nothing of `start()`, a forced stop and
`recover()`, which wait for their hooks without a limit. `KeptInUse` excepts nodes that were removed under a view, until their last view is
gone: restored in time, they get a new PTY, which the cleanup of the old effect
releases by the node's id and destroys. It says nothing of the other direction:
every render counts a reference and only effects give them back, so a view that
rendered twice leaves a shell behind when it unmounts.
`NeverRunsUnsafe` would need `recover()` to look at services that are not
`failed`.

## 7. Not modelled

- **Workflow engine** (Rust). `create_run` builds a mirror whose nodes are all
  Pending, and only a predecessor's success makes a node Ready (`engine.rs:280`,
  `:628`), so the first tick finds no node and finalises the run; a retry asks
  Running to become Ready, which `is_legal_transition` refuses
  (`engine.rs:691`); the adapters of the application are stubs that hand back node
  ids where keys are expected. What the program can be in is a run that ends at
  its first tick: there is no behaviour to check behind it. Its tests state more
  than the code does.
- **Workflow engine** (TS): a cache in front of the Rust engine; `tickLocal` is
  called by tests only.
- **Scheduler mirror** (TS): the application constructs one and never calls its
  `tick()`, and the kernel's events carry no payload it could follow, so its two
  tables are never set against each other.
- **Spawner, worker manager, plugins and the MCP client**: constructed by tests and
  by their own packages only.
- **PTYs** (`pty.ts`, `pty_manager.rs`, `commands/pty.rs`): planned. What is visible
  without a model: the exit thread takes the child out of the handle right after
  the spawn, so `pty_kill` finds nothing to kill.
- **Runtime services**: locks are taken and released in one synchronous call by
  their only user; a plugin's breaker is reset by `deactivate()`
  (`plugins/plugin-lifecycle.ts`).
- **Event bus helpers, session branching and recovery, persistence in memory**:
  code that nothing in the application calls.
- **Host commands, user interface, providers, tools, memory**: operating-system and
  network I/O, rendering, and tables without concurrency of their own.

## 8. Findings

Eight disagreements between the code and its documents, comments or tests are runs
of their own (`expect: violation`), quoted in `PROJECT.json`: retry attempts are
forgotten (`scheduler.rs:861`), a tick leaves slots empty (`scheduler.rs:729`),
dependencies never release a unit in the application
(`scheduler_manager.rs:56`), aging compounds (`scheduler.rs:915`), a failed write
reopens the bus (`event-bus.ts:259`), events of one source overtake each other
(`event-bus.ts:250`), a quarantined plugin is called (`event-bus.ts:299`), and
recovery runs the runtime over a safety-critical service that is down
(`runtime-recovery.ts:55`).

Others were met on the way. Each shows in a call or two, or in a line of the code,
and needs no model. No property that is checked confirms the code against them; the
theorem `StatesAgree` states the first as the fact it is.

| code | says otherwise |
|---|---|
| `complete()` leaves `unit.state` at `running` (`scheduler.rs:343`); nothing ever assigns `Completed` | the test at `scheduler.rs:1323-1331`, which fails on this code |
| `publish()` awaits every core handler (`event-bus.ts:291`) | `EventBus-Part03.md:62`: "It does NOT wait for subscribers." |
| verified drafts that all scored 0 are not returned, and an executor that rejects loses the best draft (`refinement-loop.ts`, `runner.ts:257`) | `RefinementLoop-Part06.md:32`: "the highest Judge quality score, or the last verified artifact if scoring is unavailable" |
| a pass goes on, and a pass that cannot be afforded begins, whatever is left (`refinement-loop.ts:163`) | `RefinementLoop-Part07.md:46`: "Do not continue past budget"; `RefinementLoop-Part04.md:39` |
| a revision starts as `draft` and is recorded as created (`artifact-manager.ts`, `createVersion`) | `ArtifactLifecycle-Part03.md:51`: a "new version starts at `created`" |
| `create()` takes a parent for a version 1, which nobody looks up (`artifact-manager.ts:134`) | `ArtifactVersioning-Part01.md:33`: the first "has `version = 1` and no `parentArtifactId`" |
| an artifact of empty content is not stored again, but indexed and recorded (`artifact-manager.ts:388`) | the same code's three updates, which return success |
| search index and history are empty after a reload, the store is not (`artifact-manager.ts:78`) | - |
| binary content is decoded to text when it is saved (`artifact-storage.ts:59-68`) | `contentHash`, which is that of the bytes |
