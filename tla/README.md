# A TLA+ development of the Alloy runtime

This project models two parts of Grafana Alloy. The first is the component controller
(`src/upstream/internal/runtime`, with `internal/dag`): how a configuration becomes
a graph of components, how the components of a graph are started and stopped, and
how a change of one component's exports reaches the components that reference it.
The second is the code whose state survives the process: the write-ahead logs of
`loki.write` and `prometheus.remote_write`, and the remote configuration service with
its cached configuration.

The controller is a handful of goroutines around locks, one-token channels, a bounded
worker pool and a shutdown deadline; the logs and the service add crashes, restarts,
lost requests and files that are half written. Unit tests exercise this code one
interleaving at a time; the modules below check all of them on small instances, and
some of the results are proved for every size.

All paths in this file are relative to `src/upstream/`. "Run" is a TLC run listed
in `PROJECT.json`.

## 1. The system

### Parts, their state and their operations

| part | source | state | operations |
|---|---|---|---|
| worker pool | `internal/runtime/internal/worker/worker_pool.go` | waiting keys in order, the function per key, running keys, channel of tasks | `SubmitWithKey`, worker loop, `taskDone`, `Stop` |
| dependency graph | `internal/dag/*.go` | nodes, outgoing and incoming edges | `Add`, `AddEdge`, `Validate`, `WalkTopological`, `WeaklyConnectedComponents`, ... |
| scheduler | `internal/runtime/internal/controller/scheduler.go` | map of tasks by node identifier, a WaitGroup, each task's context, `exited` channel and `doneOnce` | `Synchronize`, `Stop`, the goroutine of a task |
| update queue | `internal/runtime/internal/controller/queue.go` | ordered set of updated nodes, one-token channel | `Enqueue`, `Chan`, `DequeueAll` |
| loader | `internal/runtime/internal/controller/loader.go` | current graph, value cache, `mut` | `Apply`, `EvaluateDependants`, `concurrentEvalFn` |
| value cache | `internal/runtime/internal/controller/value_cache.go` | cached exports per node, module arguments and exports | `CacheExports`, `GetContext`, `UpdateScopeVariables`, `SyncIDs` |
| component node | `internal/runtime/internal/controller/node_builtin_component.go` | managed component, arguments, exports, health | `Evaluate`, `Run`, `setExports` |
| runtime | `internal/runtime/alloy.go` | `loadFinished` token, `loadedOnce`, `loadComplete` | `LoadSource`, `Run`, `Ready` |
| other nodes | `node_config_*.go`, `node_foreach.go`, `node_custom_component.go` ... | arguments, nested controllers | evaluate, run |
| modules | `internal/runtime/module.go` and the registry | nested controllers by identifier | create, register, unregister |
| Loki log | `internal/component/common/loki/wal`, `client`, `client/internal/marker` | numbered segments and the marker file on disk; per endpoint a watcher's position, cached series, batches and queue, in-flight counts per segment | write an entry, clean segments, read a segment, append to a batch, send with retries, count and mark, `Stop`, `StopAndDrain`, restart |
| Prometheus log | `internal/static/metrics/wal/wal.go`, `series.go` | segments and checkpoint on disk; series by reference and by label hash, deleted series in memory | `Append`, `Commit`, `Rollback`, `Truncate`, `NewStorage` (replay, repair) |
| remote configuration | `internal/service/remotecfg/remotecfg.go`, `config_manager.go` | cached file per argument hash; loaded, received and remote hash, status, effective configuration, what of them was sent, ticker | `Run`, `Update`, `fetchLoadConfig`, `notifyStatusUpdate` |
| other services and the rest | `internal/service`, `internal/runner`, `internal/component`, `internal/converter`, `internal/alloycli` | see `PROJECT.json` | see `PROJECT.json` |

### How they interact

```
 LoadSource ──Apply──► Loader ──graph──┐            components
     │                  ▲  │           │                │ setExports
     └─loadFinished──►  │  │cache      ▼                ▼
        (1 token)    Run loop ──► Scheduler ──runs──► node ──► update queue
                        ▲   EvaluateDependants                 (1 token) │
                        └────────────────────────────────────────────────┘
                            └─► worker pool ──► concurrentEvalFn ──► node.Evaluate
```

Concurrent actors: the callers of `LoadSource`; the Run loop; one goroutine per task
and, while `Synchronize` or `Stop` runs, one per group of connected nodes; the
workers of the pool; and every component, which may set its exports at any time.

```
 entries ─► Writer ─► segments ─► Watcher ─► adapter ─► queue ─► shard ─► endpoint
                         ▲           ▲         │ received           │ sent
                    cleanSegments    └─ marker ◄── SegmentTracker ◄──┘

 Append, Commit ─► series in memory, segments ◄─ replay ─ NewStorage
 Truncate ─► gc of series, checkpoint, removal of segments

 Run (ticker) ──┐ getConfig                    loader ─► ServiceNode.Evaluate ─► Update
                ├──────────► server                                                │
 Update ────────┘  parseAndLoad ─► the service's own controller; cache file on disk
```

The Loki log has one writer goroutine, and per endpoint a watcher, a shard and a tracker,
and while it is stopped one goroutine per endpoint. The Prometheus log has any number of
appenders and one goroutine that truncates. The remote configuration service has the
goroutine of `Run`, the caller of `Update`, and a server at the other end.

### What is hard

* a request that arrives while its key is being executed must be executed again, but
  not at the same time; the queue's lock is held during a channel send;
* a task announces its end in two steps (`exited`, then `onDone`), and with a
  shutdown deadline somebody else may announce it first;
* groups stop and start concurrently, each in the order of its own graph;
* loads and updates are signalled through channels that hold one token, so that
  several events share one signal;
* exports are read under one lock and cached under another, by several goroutines;
* the Run loop retries against a full pool whose workers need a lock that a reload
  may be waiting for;
* Go ranges over maps in random order, which is where graph algorithms go wrong in
  one run of a thousand;
* a watcher reads a segment that is still written to, may be deleted, and is counted by
  a tracker that learns of entries after they may already have been sent;
* stopping a pipeline of goroutines with a drain timeout, a soft and a hard deadline;
* two appenders may create one series twice; series are collected from memory while the
  log still has their samples, and a crash may come anywhere between;
* a request that is lost after the server has seen it; a configuration that fails to load
  after it has replaced part of the running one; a cache file cut short by a crash.

The list `hazards` of `PROJECT.json` has each of these at its line.

### What makes each part correct

* pool: one execution per key, no lost request, no blocked send, no forgotten key;
* graph: exactly the cyclic graphs are refused, every node is evaluated after its
  dependencies, groups and ranks follow the edges;
* scheduler: a node never runs twice, what must stop has stopped before anything
  starts, both orders are kept, the books (map, WaitGroup) are exact, stopping ends;
* runtime: no load is lost, only loaded nodes run, a cancelled Run returns;
* controller: when nothing is on its way, every component has the arguments its block
  evaluates to; it gets there; nobody waits for ever;
* Loki log: nothing that is written and not too old is skipped, the marker never passes
  something that is not done with, entries are sent in the end, stopping ends;
* Prometheus log: a sample never ends up in another series, the log has the series of
  every sample it has, a replay restores what the log says;
* remote configuration: the last loadable configuration of the server runs in the end,
  the status is right and the server learns it.

## 2. Modules

| module | models | notes |
|---|---|---|
| `WorkerPool` | `worker_pool.go` | complete |
| `KeyedExecutor` | what `worker.Pool` promises | abstract specification, one machine per key |
| `WorkerPoolRefinement` | refinement mapping | `ImplementsKeyedExecutor` |
| `WorkerPoolProofs`, `SchedulerProofs`, `RuntimeProofs`, `ControllerProofs`, `DagProofs`, `RemoteCfgProofs`, `LokiWalProofs`, `PrometheusWalProofs` | proofs | see section 5 |
| `GroupsAndRanks` | weakly connected components and topological ranks, by definition | shared by `Dag` and `Scheduler` |
| `Dag` | `internal/dag`, `desiredTasksFromGraph` | algorithms, one action per iteration |
| `Scheduler` | `scheduler.go` | uses `GroupsAndRanks` where the code calls the algorithms |
| `Runtime` | `alloy.go`: loads and the loop of Run | composes with `Scheduler` (EXTENDS) |
| `Controller` | `queue.go`, the other case of Run, `loader.go`, `value_cache.go`, `node_builtin_component.go` | composes with `WorkerPool` (EXTENDS) |
| `LokiWal` | `common/loki/wal`, `client`, `marker` | one module, since every part acts on the position of another |
| `PrometheusWal` | `static/metrics/wal` | |
| `RemoteCfg` | `service/remotecfg` | with a server at the other end |
| `MCDag`, `MCScheduler`, `MCRuntime`, `MCController`, `MCPrometheusWal` | | instances for TLC |

Operators whose comment begins with "Mutant:" are variants of the definition that
follows them, with one plausible mistake in it. No specification uses them; they show
that each property notices a mistake.

### WorkerPool

Each critical section of `workQueue.lock` is one action; so is each receive of a
worker, which takes no lock. `tryEnqueue` is the disjunction of its three outcomes
(`coalesce`, `reject`, `accept`). The send of `emitNextTask` is not guarded by the
capacity of the channel: the code relies on there always being room, and
`ChannelNeverBlocks` checks that. `Stop` may end with the workers (`StopDone`) or
with its timer (`StopTimeout`). Callers may submit after `Stop`. The variable `owed`
is history: it remembers accepted requests for which no execution has begun.

### Scheduler

A task object is a *slot* with a phase. A slot is reused (`Collect`) when the
task's goroutine has returned and no stopping goroutine refers to it, which is
garbage collection. `RunReturns` is enabled at any time (components may return by
themselves). `GoroutineEnds` is a separate step because `onDone` runs after `exited`
is closed. `StopDeadline` may be taken although `exited` is closed: a select with two
ready cases takes either, and a timer may fire at any time. Each stopping or starting
goroutine works through one group; the set `toStop` (`toStart`) with ranks stands for
the sorted slices. The periodic warning of `task.Stop` is left out. Synchronize and
Stop are called by the goroutine of `Run` only, so they do not overlap.

### Runtime

`LoadSource` is three steps (clear `loadComplete`, `Loader.Apply`, signal) because
other goroutines look in between; `loadMut` makes calls of it exclusive. A node whose
identifier was in the previous graph keeps its object, and a node that is built anew
gets an object that nothing in the process holds (`FreshObj`). The other case of Run's
select (updates) is abstracted to nothing here: `NobodyWaitsForEver` of `Controller`
shows that it ends.

### Controller

A key of the pool is a node. What a worker does between `Receive` and `Finish` is
`concurrentEvalFn`, in the steps in which it takes and releases locks: read lock and
context, evaluate and set exports, notify, read exports, cache them, unlock. The
lock `l.mut` prefers writers as Go's does. `EvaluateDependants` is the same on the
Run loop's side, with the release of the lock around each backoff.

* A component's exports are the pair of its own state and its arguments. This is the
  most discriminating choice: any change of either changes the exports, so that
  whatever can be stale is seen to be stale.
* `Poison` is an own state whose exports no referencing component accepts, so that
  evaluations fail and later succeed.
* `Apply` is one action. It holds `l.mut` for writing; the only concurrent steps are
  components setting their exports, and these can be moved before or after it.
* The graph is fixed: a reload evaluates the same graph again from an empty cache.
* Retries are not counted. `CanExhaust` says whether they may run out; then a
  submission may be given up after any refusal, which includes after the twentieth.
* Every node starts evaluated: the state after the first successful load.

### Dag

All iteration over maps is a choice. Recursion is a stack of frames, so one TLC run
covers every order in which Tarjan's algorithm may visit a graph. Lists of nodes
still to be looked at are sets, which allows more orders than the code has.
Evaluation and scheduling of an accepted graph are looked at one by one.

### LokiWal

Disk state is the entries of each segment (`log`, `first`, `last`) and `marker`; the rest
is lost in a crash (`Down(TRUE)`). An entry is a number. The record of a watcher holds
its state machine (`running`, `draining`, `stopping`), its place in the code, its
position, and the one series its adapter may know: `StoreSeries` and `CleanSegments`
make entries of an unknown series disappear exactly where the code does
(`SeriesNotFound`). A queue is the open batch, the channel and what the shard has taken;
a batch remembers the segment of each entry through the entry. `HardShutdown`, `Flushing`
and `FlushAndShutdown` are the three ways in which `shards.stop` gets rid of the rest.
`TrackUpdate` is one iteration of `runUpdatePendingData`, with the ticker's case and the
deletion of segments that are too old (`CanAge`) as choices. The variables `done`,
`limited` and `aged` are history.

The retries of a batch are one action with two outcomes that do the same here; one
tenant and one shard per endpoint; a read of a segment's records stops after any entry,
which is what a reader sees of a file that grows.

### PrometheusWal

A record is a series, a sample or metadata; a sample carries, as history, the label set
it was appended for and whether its series was in the log. `AppendFound` covers a caller
with a cached reference, `AppendNotFound` and `Set` the two halves of `getOrCreate`,
between which another appender may create the same series. `Commit` logs its records
one by one (`LogFirst`, `LogRecord`), and any may fail. `Truncate` has five places where
another goroutine or a crash can get in between: collection, choice of segments,
checkpoint, its failure, removal. `wlog.Checkpoint` and the rotation of segments are in
the Prometheus library and are modelled from how `wal.go` uses them. `replayWAL` is a
fold over checkpoint and segments; `validRef`, `keepUntil` and `maxRef` are its three
decisions. `OpenRepair` stands for the repair after a record that replay cannot read.

### RemoteCfg

A configuration is its own hash. `Good` ones load, `Bad` ones do not and may leave part
of themselves in the controller (`running`), the empty one is never loaded and counts as
loaded, as in `parseAndLoad`. A manager is a record; `updateHandleEmptyUrl` makes a new
one, and a fetch goes on with the one it began with while `getConfig` always speaks of the
current one, which is how the code is written. `run.watch` is the manager whose channels
the select of `Run` waits for. The server answers with what it serves or with "not
modified", or the request or the answer is lost. A restart keeps the cached files; one
that is being written may be left empty.

A status is a code with a message, and both are compared with what was sent last, as the
code does; the message names a failed request or the configuration that failed.

Nothing in the code keeps the fetch of a poll and that of an `Update` apart, and nothing in
the model does. A fetch takes the steps request, answer with its checks, record, load,
restore, set loaded, write the cache, report; between any two of them the other fetch may
take its own. Inside a step several getters and setters of the manager, each with a lock of
its own, are taken together. Overlapping fetches can leave a manager in a state that no
later poll repairs (section 4), so that the properties cannot speak of every state. They
say instead what holds in spite of it, with history fields that influence nothing:

* `alone` of a fetch, no other fetch of its manager was under way since it began;
  `statusAlone` and `loadAlone` of a manager, the fetch that last set the status or loaded
  the controller was alone. The excuse lasts only until a fetch that is alone sets the
  status or loads again. `loadAlone` is also given up when a failed load should have been
  undone and the cached file did not have the loaded configuration.
* `late` of a request, another one was answered while it was in flight; `known.late`, what
  the server knows from such a request.

## 3. Runs

| run | asks | instance | distinct states |
|---|---|---|---|
| `dag` | do validation, evaluation order, groups and ranks come out right on every graph and in every order of iteration? | all graphs of up to 4 nodes, self references included | 1.5 million |
| `pool` | does the pool keep its promises, does it implement `KeyedExecutor`? | 4 keys, 2 functions, 2 workers, capacity 3 | 26 thousand |
| `scheduler` | one run per node, stop before start, both orders; are the books exact when tasks are given up and end late; does stopping end with components that never return? | 2 nodes, 3 graphs, 3 tasks, with and without a deadline | 59 thousand |
| `runtime` | are loads lost; does something run that is not loaded; does Run return? | one node that comes and goes, 3 node objects, 2 tasks | 74 thousand |
| `controller` | is the controller consistent whenever nothing is on its way, does it get there, can anybody wait for ever? | 3 nodes in a triangle, 2 changes, one of them not accepted, 2 workers, capacity 1, 2 reloads that may be rejected, retries that may run out | 179 thousand |
| `loki_wal` | is anything skipped, are counts and marker right, is everything sent, does Stop return? | 1 endpoint, 2 entries, 3 segments, batches of 2, channel of 1, stream limit and ageing | 190 thousand |
| `prometheus_wal` | do samples keep their series through collection, checkpoints, failures and crashes; is a replay exact? | 2 label sets, 2 appenders, 2 references, 2 transactions, segments 1 to 4, 1 detour (metadata, rollback or failure) | 1.4 million |
| `remotecfg` | with fetches that overlap and arguments that change: which status is right, is it reported, and does the server's configuration run in the end? | 2 good, 1 bad and the empty configuration, 2 arguments; 3 events among 2 changes at the server, 2 of the block, 1 failure, 1 restart | 860 thousand |
| `controller_stale_cache`, `controller_rejected_reload`, `loki_marked`, `remotecfg_readded` | the four findings of section 4 | | |

### Why the bounds are enough to be interesting

* `pool`: four keys and capacity 3 make the pool full with a key left outside it; two
  workers and three jobs leave a job in the channel while both execute; two functions
  let a coalesced request differ from the one it is merged into. With `Stop` in every
  state.
* `scheduler`: two nodes, one of which references the other, have both orders; graphs
  without one or both of them make tasks stop; one task more than there are nodes lets a
  node be scheduled again while its old task is on its way out, or was given up.
* `runtime`: the questions are about tokens and snapshots; one node that is added,
  removed and added again has every case. Three objects: the loaded one, one being
  scheduled, and one still running.
* `controller`: in the triangle (a references b and c, b references c) a change of c
  reaches a twice, once directly and once through b, in either order. Two changes
  allow the second to arrive at each step of handling the first; the first one is not
  accepted by the dependants. With capacity 1 and two workers a submission is sometimes
  refused and sometimes not, so that retries, backoff and giving up all happen.
* `dag`: with four nodes there are two disjoint cycles, a cycle reached from a
  finished component, a diamond, and two weakly connected pairs.
* `loki_wal`: two entries may share a segment or not, share a batch or not, and the second
  may be written while the first is in flight. A third segment lets the watcher move on,
  the oldest be deleted, and a restart begin yet another.
* `prometheus_wal`: two references for one label set (a duplicate) or for two (reuse after
  a restart); with two transactions one can be in progress while the other's series is
  collected. Truncation takes two thirds of the segments, so that four are needed for a
  checkpoint that leaves something in place.
* `remotecfg`: two good configurations and one bad make the server go from good to bad and
  back, or to another good one; with two arguments the block changes to one that has no
  cached file, changes back, or is removed. Any three such events come in every order and
  at every step of either fetch, so that a poll overlaps with an Update whose fetch meets a
  change at the server, a loss or a crash.

### Fairness

* Goroutines that can go on do (weak fairness per worker, per task, per stopping and
  starting goroutine, of the Run loop, of a reload in progress): the Go scheduler is
  fair, and Go's mutexes hand over to starving waiters.
* An evaluation returns (`Finish`, `EvalStep`): it is a bounded computation.
* A select with two ready cases picks one at random. That a worker notices `quit`
  while tasks keep coming, and Run its cancelled context while loads keep coming, is
  strong fairness of `Exit` and of `RunExit`.
* With a shutdown deadline nothing is assumed of components (`StubbornSpec`): they
  may ignore their context. Without one, `Runtime` assumes that a component whose
  context is cancelled returns, which is the contract of `component.Component.Run`.
* `LokiWal`: watcher, shard and the goroutine that stops a pair go on, and a stop that was
  begun ends the process. A batch is sent or given up in the end, which holds while
  `max_backoff_retries` is not 0. The hard shutdown and `block_on_overflow` are
  not relied on. Nor is the tracker, as long as the channel to it, which holds 100
  updates (`tracker.go:55`), has room; the model has no such bound.
* `RemoteCfg`: the goroutines of Run and Update go on, the ticker ticks, and requests are
  answered or fail; failures are bounded by `MaxFailures`.
* Nothing obliges callers to load, submit, cancel or stop, components to change, or a
  process to crash or to start again.

`BecomesConsistent` allows for the damage that a submission that was given up or a rejected
reload leaves (`damaged`), and changes stop after `MaxOwn`. `Scheduler` has a state in which all has ended (`Terminated`), `Controller`
one in which it waits for updates (`Waiting`), `Dag` final ones (`Finished`), `LokiWal`
one in which the process stays down (`Halted`). Deadlock is checked in these runs. It
is not in `prometheus_wal` and `remotecfg`, which stop at their bounds.

## 4. Where the code and what is said of it disagree

Each of these four is a run that TLC ends with a counterexample.

1. **`SettledIsConsistent`** with two components that update by themselves
   (`loader.go:925`). `postEvaluate` reads the exports of its node before the cache's
   lock is taken. Newer exports that the Run loop caches in between are overwritten
   by the older ones, dependants are evaluated with these, and no update is left that
   would repair it. With only one autonomous component without references (the
   instance of the run `controller`) this cannot happen, and the property holds: the
   race needs a node that is both evaluated by a worker and updates by itself.
2. **`RejectedReloadKeepsWorking`** (`loader.go:175`). Apply empties the cache before
   the configuration can be rejected. A component with two references then fails to
   evaluate when one of them changes, as the exports of the other are not in the
   cache, until that one changes as well or a reload succeeds.
3. **`MarkedIsConsumed`** (`tracker.go:127`). "When a segment reaches zero, it means that
   is has been consumed" (`tracker.go:107`). The count of a segment is also zero when the
   watcher has read its first entries and these have been sent. The segment is marked,
   and after a crash, or a Stop without drain, the watcher begins behind it: the rest is
   never sent. What holds is `PredecessorsAreConsumed`, about the segments before it.
4. **`EnabledConfigRuns`** (`remotecfg.go:229`). Removing the block replaces the manager by
   one without controller and stops the ticker that the select of `Run` waits for. When the
   block is added again, nothing is polled any more, and what is fetched cannot be loaded,
   until Alloy is restarted. `ServedConfigRuns` shows that everything else recovers.

Smaller observations, made while modelling and not kept as runs:

* `worker_pool.go:17` says that one job per key can be waiting; one may be in the
  channel and another in `waitingOrder`, so that two wait. `KeyedExecutor` has both.
* `scheduler.go:138-139` says that Stop returns after all goroutines have exited; with
  a shutdown deadline it returns while tasks that were given up still run.
* `scheduler.go:61-62`: "Existing components will be restarted if they stopped since the
  previous call to Synchronize." A task that has closed `exited` stays in the map until
  `onDone` has run (`scheduler.go:202`); a Synchronize in between keeps it, and the
  component stays down until the next one.
* `scheduler.go:71`: tasks are matched by identifier. Two quick loads, the first without a
  component and the second with it, share one token; the loader has built a new node, and
  Synchronize keeps the task of the removed one. `scheduler.go:53-54` says otherwise.
* `alloy.go:295` sets `loadComplete` after Synchronize even if a newer load, whose
  graph has not been scheduled, has cleared it in the meantime.
* `loader.go:756-757` speaks of retrying until success or cancellation; the retries are
  bounded (`loader.go:107-111`).
* `queue.go:33-34` says that enqueueing a node twice is a no-op; the queue compares
  pointers that the caller allocates for each update (`alloy.go:216-219`), so a node may
  be in it several times. The model has it so; the consequence is repeated work only.

Of the Loki log:

* All endpoints of a component share one marker file (`consumer_wal.go:51`), although the
  comment at line 131 speaks of "a separate WAL for each endpoint config". With two endpoints
  TLC finds `PredecessorsAreConsumed` violated: the faster one marks for the slower.
* Without a marker file a restarted watcher begins at the newest segment; older ones are
  passed over. Entries given up at the stream limit are never reported as sent
  (`shards.go:106-117`), so their segment is marked only when it is too old.
* At a hard shutdown a batch that is not delivered is still reported as sent. With
  infinite retries and `block_on_overflow`, `Watcher.Stop` may wait for ever.

Of the Prometheus log:

* Metadata records are written (`wal.go:1101-1107`), but `loadWAL` has no case for them
  (`wal.go:436`): a replay that meets one takes it for corruption, and the repair deletes
  it and everything after it. The properties are stated so that they hold with this.
* A sample that is logged by an appender that has held its series across a collection is
  left without a series record in the end; the comment at `wal.go:703-705` rules it out.
  `SegmentsHaveSeries` is about samples whose series was there when they were logged.
* Of two references created at the same time, one stays in memory for ever, since
  collection looks for series by their labels. A failed `wal.Log` leaves a series in memory
  that is never logged.

Of the remote configuration service:

* What overlapping fetches can do. TLC finds each of these when the excuse is taken out of
  the property. Without `statusAlone`, `AppliedIsLoaded` fails: a second fetch records as
  received what it has not loaded yet, and the first one then reports APPLIED, which the
  comment at `config_manager.go:256-258` means to prevent. Without `statusAlone` and
  `loadAlone`, `ServedConfigRuns` fails: two loads end in one order and `lastLoadedConfigHash`
  is set in the other, or the fallback of Update loads the cached file after a poll has loaded
  something newer. What the comment at `config_manager.go:64` calls "loaded and running" then
  does not run, and nothing the server answers is loaded until it changes. Without
  `known.late`, `StatusIsReported` fails: an older report is answered last.
* Also of a single fetch: when the arguments change, the new hash has no cached file. A bad
  configuration is loaded in part, nothing can be restored, and when the server goes back
  to the configuration that was loaded before, it counts as loaded (`config_manager.go:304-310`)
  and the status is APPLIED, with part of the bad one running. This is the second half of
  `loadAlone`.
* A request that fails after a change of the arguments falls back on what their cached file
  has, maybe an older configuration. The server, asked with the hash of the one received
  last, answers "not modified"; the older one stays, and the status stays FAILED. That is
  why `ServedConfigRuns` allows that status. It takes four events, one more than the run has.
* By reading only: `getConfig` holds the read lock while `getContext` takes it again
  (`remotecfg.go:296`, `373`), so that a writer that waits in between blocks both; a failed
  write of the cache leaves an old file to fall back on; an empty configuration counts as
  loaded while the old one runs; `Run` reads `s.cm` without the lock.

## 5. Proofs

Each proof module extends the module it is about. Constants are arbitrary, except for the
named ASSUME of the module (finite sets where the code has finite ones, a pool with a
worker, a graph without cycles once it has been validated), which TLC evaluates in the
runs. The parts of every inductive invariant were model-checked before they were proved.
A theorem that needs a further hypothesis says so in its statement.

### WorkerPoolProofs: any keys, functions, workers and capacity

| theorem | statement |
|---|---|
| `Invariant` | `Spec => []IInv`, the inductive invariant |
| `TypeCorrect` | types, and a worker has a job exactly while it executes |
| `MutualExclusion` | two workers never execute jobs of one key |
| `SendNeverBlocks` | the send made under the lock never finds the channel full |
| `EmitOftenEnough` | a key waits only behind a running job of its own, and the running set is exact |
| `RequestsAreKept` | an accepted request stays in the pool until an execution of its key starts |
| `StopIsFinal` | after Stop has returned nil nothing executes or starts |
| `Refinement` | `Spec => Abstract!Spec`: the pool implements `KeyedExecutor` (safety) |

`OneRunningPerKey` is not inductive: the step that receives a task must know that no worker
executes that key. The reason is in three places, so the invariant has six parts.

1. `TypeOK`.
2. `OrderListsWaiting`: `waitingOrder` lists the keys of the map `waiting`, each once.
3. `EachKeyOnce`: channel and workers hold each key at most once between them.
4. `RunningIsExact`: the set `running` is the keys they hold. With 3 this makes the
   check "not in running" of `emitNextTask` the right one.
5. `WaitingOnlyBehindRunning`: a waiting key is in `running`. It makes both callers of
   `emitNextTask` simple: after an accepted request the only candidate is the new key,
   after a completion it is the completed one. The lemmas `AcceptCases` and
   `DoneCases` say so and everything after them avoids `First` and `CHOOSE`.
6. `Counts`: the lengths of both sequences are cardinalities of key sets, and waiting
   plus running keys are at most `MaxSize`. `ChannelNeverBlocks` follows.

`NextIInv` has one step per action. `NoLostStep` adds the history variable,
`NilMeansExited` is the strengthening behind `StopIsFinal`. For the refinement,
`MapsExplained` removes `CHOOSE` from the mapping; `RefinementStep` then takes an
accepted request to `Request`, a receive to `Begin`, a completion to `End`, `Stop` to
`Close`, and everything else to a stutter.

### SchedulerProofs: any nodes, graphs and tasks, with or without a deadline

| theorem | statement |
|---|---|
| `TypeCorrect` | types |
| `BooksStayExact` | map of tasks and WaitGroup are exact, whoever announces the end of a task |
| `OneRunPerNodeHolds` | a node runs twice only when one of the tasks was given up at the deadline |
| `ShutdownComesFirst` | whatever had to stop has stopped before anything is started |
| `StopsRootsFirstHolds`, `StartsLeavesFirstHolds` | both orders |

`BooksAreExact` needs `Positions` (which tasks there are in which part of Synchronize and
Stop) and `DoneOnceFires` (a goroutine that has returned has run `doneOnce`): otherwise a
slot could be used again while the map still has it. `ShutdownBeforeStart` is followed back
to the moment the tasks were collected by `UndesiredAreStopped`. The orders are about the
ranks of two tasks, which compare only if they come from one graph: `DesiredFromOneGraph`,
`TasksFollowDesired` and `StopsFromOneGraph` keep that. They have the hypothesis
`StableEdges`, that two graphs agree on the edges between nodes both have. The properties
read references off the constant `Graphs`, and could otherwise mean the reference of a
graph that is not scheduled; the instance of the run satisfies it.

### RuntimeProofs: loads and the loop of Run

| theorem | statement |
|---|---|
| `RuntimeImplementsScheduler` | `RuntimeSpec => Spec` of `Scheduler` |
| `RuntimeKeepsBooks` | so books and exclusion hold in the composition |
| `NoLoadIsLost` | whenever nothing is pending the scheduler was last given the loaded graph |
| `OnlyLoadedNodesRunHolds` | and what runs and was not given up belongs to it |
| `NothingRunsEarly` | nothing runs before a load without errors |

`RInv` is the invariant of the scheduler and `PendingOrGiven`: a load that has been applied
is signalling, a token, taken by Run, or given to the scheduler. A token that is already
there stands for the newer load too, because Run looks at the graph after taking it.

### ControllerProofs: any acyclic graph, any workers and capacity, reloads and lost retries

| theorem | statement |
|---|---|
| `ControllerUsesPool` | `ControllerSpec => Spec` of `WorkerPool` |
| `OneEvaluationPerNode` | so no node is evaluated twice at once and no accepted evaluation is lost |
| `NoWakeupIsLost` | a queued update has its token, or the loop is about to dequeue |
| `OnlyValidArguments` | no component runs with arguments it does not accept |
| `SettlesConsistently` | with nothing on its way and nothing given up, every component has the arguments its block evaluates to |

The first four rest on `Books`. For the last one, `Fresh` says of the three places where a
value may be stale (the cache, a worker's copy of the context, the arguments) that the
refresh is on its way: the node is still to be announced, is queued, or is in the batch
(`Pending`), or its dependant is still to be submitted or received (`Coming`). A successful
reload makes everything fresh at once, which is the lemma `EvaluatedArgsSolve`: evaluating
an acyclic graph from the leaves gives every node the arguments its references export.

`SettlesConsistently` has the hypothesis `AutonomousAreSources`: components that update by
themselves have no references. Without it the statement is false, which is the first
finding of section 4.

### DagProofs: every finite graph, every order of iteration

| theorem | statement |
|---|---|
| `ValidateExact` | Tarjan's algorithm finds exactly the strongly connected components; exactly the cyclic graphs are rejected |
| `TypeCorrect` | types |
| `EvaluatesInOrderHolds` | the topological walk visits every node once, after everything it references |
| `GroupsAndRanksExact` | groups are the weakly connected components, ranks follow the edges |

`TarjanInv` has ten parts. `GraphOK` says that the two edge maps mirror each other;
`StackOK`, `FramesOK` and `Explored` that stack and calls are in the order of the visits and
that what was looked at is visited. The core is a pair: `LowEnough`, `lowLink` is at most
what the links of a node and of the finished nodes below it allow, and `LowReached`, a lower
`lowLink` is the number of a node on the stack that is reached. `CallsReach` adds that the
node of a call reaches everything above it on the stack. When a call ends with `lowLink` equal
to `index`, the lemma `StackSplits` shows that the nodes from there up reach each other, and
that nothing leads from them to the rest of the stack; `RootComponent` that they are the
whole component. `Reaches` is a path of the graph; arguments about minimal paths and about
leaves of acyclic graphs (`AcyclicLeaf`) use well-founded order on finite sets.

`WalkInv` is about the walks of an accepted graph. That the walk does not end early is
`WalkEnds`: a node that is never released has a reference that is not released either, so
that there would be a cycle. `SearchInv` says that the search for components is always
inside one component, and `SeparateConnected` that what it ends with is all of it.

### RemoteCfgProofs: any configurations, failures, restarts, changes of the block and overlap

`AppliedIsLoadedHolds`: `Spec => []AppliedIsLoaded`, without a hypothesis. A status APPLIED that a
fetch set while no other one overlapped it says the truth, and it stays true: also when an
overlapping fetch changes the hashes of the manager later, since it sets a status of its own
with them (the code does one just before the other; for the moment in between the theorem
says nothing). Three steps report APPLIED, each from what its fetch found at an earlier step.
`FetchAgrees` says that it still holds for a fetch that is alone: what "not modified" was
compared with, what was found to be loaded already, and what was recorded as received. For
a fetch that is not alone it says nothing, except that one that restores or falls back on
the cached file has reported the failure, and that nobody who was alone has reported APPLIED
since. `AloneIsAlone` says that of two fetches of one manager neither is alone; it is what
carries the first half through the steps of the other process. `ManagersSuffice` bounds the
managers, so that there is one for every change that may still come.

### LokiWalProofs: any endpoints, entries, segments, sizes of batch and channel

| theorem | statement |
|---|---|
| `InvariantHolds` | `Spec => []IInv`, the inductive invariant |
| `NothingIsLeftBehind` | what a watcher has passed is in flight or done with |
| `TrackerCountsAreExact` | the count of a segment comes to its entries in flight, plus those dropped at the stream limit |
| `MarkedPredecessorsAreConsumed` | with one endpoint, the entries of the segments before the marked one are done with, unless their segment was too old |

`IInv` is `TypeOK`, `LogOK` (every entry has one place in the log) and, for each endpoint,
eight parts. `Phases` and `PositionOK` say where watcher, shard and `Stop` are together.
`HandledIsRead` says that what is queued lies before the watcher, so that the entry being
appended is new, and `Apart` that every entry is in one place of one batch: without them an
entry could be queued twice and `CountsExactly` would not be kept. A watcher that begins
again may only have entries in flight of segments that are deleted, which is why an error
while opening a segment does not make it read them again.

The counts alone do not show that predecessors are consumed: the tracker looks only at the
segments it knows. `TouchedIsReached` says that all entries before a segment the tracker
knows, or will be told of, are in flight or done with. `InOrder` says that once a later
segment is known, updates of an earlier one only take away. So when the tracker forgets a
segment whose count is zero, nothing of it can be in flight any more (`FoundIsConsumed`).

The theorem about the marker has the hypothesis that all endpoints are equal: they share
one marker file, and the faster one marks what the slower one has not sent. The sums over
the channel of updates are a recursive function; `SetInduction` (from the well-founded order
on finite sets) shows what it computes (`TotalAppend`, `TotalTail`, `TotalOrder`).

### PrometheusWalProofs: any label sets, appenders, references and segments

| theorem | statement |
|---|---|
| `InductiveInvariant` | `Spec => []IInv`, the inductive invariant |
| `SamplesKeepTheirSeriesTheorem` | no replay gives a sample to a series with other labels |
| `SegmentsHaveSeriesTheorem` | the series of a sample in a segment stays in the log before it |
| `ReplayIsExactTheorem` | a replay restores exactly the series of the log, with the newest timestamp of each |

None of the properties is inductive: they speak of the log, and what may be logged or
dropped next depends on the memory and on the transactions. `LogOK` relates the three.

* `Owns`: some function from references to label sets agrees with the log, the memory and
  every transaction. `Set` extends it by a fresh reference; that it is fresh for the log
  too is `CountedLog`, which is why a replay has to count the references it finds.
* `Ordered` is `SamplesKeepTheirSeries`, `Served` is `SegmentsHaveSeries`.
* `Remembered`: the series of a sample behind the checkpoint is in memory, or `deleted`
  keeps it until the segment of the sample. So the function `keep` of a checkpoint holds
  for it (`CompactedServes`), garbage collection gives it the current segment, behind which
  there is no sample (`GCKeeps`), and what `DropSegments` forgets is before the checkpoint.
  A replay has to restore it for duplicate references, which is what `keepUntil` does.

`DiskOK` (segments behind the last are empty, and what Truncate replaces is before it),
`ClosedOK` and `AppendersOK` (what a transaction has still to log) complete `IInv`.

The steps change the log in a few ways, and each has its lemma about the log read from
checkpoint and segments: a record is added (`LogAppend`), an empty segment is begun
(`LogNewSegment`), segments that the checkpoint replaces are dropped (`LogSame`), the log is
cut off (`LogCut`), its beginning is filtered (`LogCheckpoint`, `KeptIs`). `GrownKeeps`,
`PrefixKeeps`, `CompactedKeeps` and `CompactedServes` then say what stays true of a log that
changes that way, and every action has a lemma that combines the two.

What a replay computes is the lemma `ReplayIs`: after every entry the memory is `Loaded`, a
predicate that says in terms of the entries read so far which labels are stored, which
references are duplicates of which, until when they are kept, and the newest timestamps.
Log, filter and replay are recursive functions; `ChainExists` shows that they are defined,
and `SetInduction` and `IntInduction` that a set of positions closed under the step has all.

### Only model-checked

* All liveness, which the prover does not reach: `WorkersExit`, the fairness part of
  `ImplementsKeyedExecutor`, `StoppingEnds`, `LoadsAreScheduled`, `RunReturnsAfterCancel`,
  `BecomesConsistent`, `NobodyWaitsForEver`, `EntriesAreSent`, `StopReturns`,
  `ServedConfigRuns`, `StatusIsReported`.

Every invariant and every action property of a passing run is a theorem, where section 5
names one under its hypothesis.

## 6. Not modelled

* Building the graph from blocks (`loadNewGraph` and the `populate...` functions), and
  with it `loader.go:605`, where running nodes are given their new block before the
  configuration is validated.
* Nested controllers: modules, `import`, `declare`, `foreach`, custom components, module
  arguments and exports (the second half of `concurrentEvalFn`, `loader.go:885-896`).
* `dag.Remove`, `RemoveEdge`, the depth-first `Walk` and
  `StronglyConnectedComponentsOrdered`: the runtime does not call the first two;
  `Remove` leaves stale edges behind (`dag.go:91`).
* Health, metrics, tracing, logging, data-flow edges, live debugging.
* In the logs: several tenants and shards, the consumer of `loki.write` that keeps no log,
  exemplars, conflicts of label hashes, encodings.
* In the log of `loki.write`: errors of reading a segment, of decoding a record, of listing
  the segments or of getting the size of one (`watcher.go:216-220`, `229-232`, `250-252`,
  `271-283`). A watcher that tails returns with the error, waits and begins again behind the
  marker, so that entries it has handed on before are read and sent a second time; one that
  replays a closed segment logs that it "may have dropped data" and goes to the next. So
  `NothingLeftBehind`, `EntriesAreSent` and `CountsAreExact` are about segments that can be
  read. Segments that cannot be opened, because they were deleted, are modelled. The
  channel of the tracker has no bound in the model: at 100 updates the code makes the watcher
  and the shard wait until the tracker has taken one.
* In the remote configuration service: the nested read lock, failed writes of the cache,
  failures to create a client or to compute a hash, a poll frequency that changes, and what
  may happen between two getters or setters that one step of the model takes together.
* The other services, the generic task runner, clustering (gossip and the hash ring are
  in the external `ckit` library), the other telemetry components (most of the
  repository's lines: adapters around third-party collectors, each mostly I/O and
  translation), generated code, the converters and the command line; see `components`.

## 7. Plan

In this order, the most important first.

1. `Controller` with a changing graph: node identity across reloads, blocks, `SyncIDs`
   and the reload of `Runtime` joined with the evaluation of `Controller`
   (`loader.go:605`, where running nodes get their new block before it is validated).
2. Modules: `ModuleRegistry` (`module.go:93`, a module that is created again before it was
   unregistered), arguments and exports of nested controllers, the exchange of the read
   for the write lock (`loader.go:885`).
3. `Runner` (`internal/runner`): an abstract "one worker per task" specification and the
   diffing implementation; notification of components by the clustering service.
