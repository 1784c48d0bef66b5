# Verification of the PLGM load generator

TLA+ models of `percona-load-generator-mongodb` (`src/`), checked with TLC and
proved about with TLAPS. PLGM drives MongoDB with generated, recorded or raw
traffic, from the command line or from a web server, and keeps dashboards,
recordings and trends of the runs.

## 1. The system

| Part | State | Operations | Hard behaviour |
| --- | --- | --- | --- |
| **Workload recorder** `workloadrec/writer.go` | bounded channel, atomic state, reason, the writer's counters, file | `Record`, `Fail`, `SetIteration`, `Close`, the writer goroutine | many senders, one writer, one closer; a stop races with sends that are under way; limits, write errors, crashes |
| **Recording reader** `workloadrec/reader.go`, `format.go` | none | `Scan`, `Stream` | files without trailer, cut lines |
| **Outcome writer** `workloadrec/outcome.go` | second channel and file | `Write`, `Close` | blocking sends, failure while senders wait |
| **Run control** `webui/server.go`, `multi_target.go` | one mutex: `IsRunning`, `RunID`, phase, error, `CurrentStats`, `ActiveCancel`, `dashboardID`, insights | start, stop, stats, insights; the run goroutine and its deferred calls | critical sections of a start, a run that ends, a stop and an insights request interleave |
| **Run history** `webui/runhistory.go` | one file per run, pending insights | `Save`, `AttachInsights`, pin, prune | insights before, during or after the save |
| **Chart sampler** `webui/chart_sampler.go` | finalized collectors | a sample per tick | lock given up between capture and finalize |
| **Sweep** `webui/sweep.go` | `s.sweep` | levels, pause, cancel | separate checks, waits for all runs |
| **Multi-target plan** `multitarget/` | targets, connections | prepare, run, compare | panics, sequential and concurrent targets |
| **Workload runner** `mongo/runner.go`, **load profiles** `loadprofile/` | contexts, active count, insert cache | workers, gate, monitor | load gate, first panic wins, timeouts |
| **Replay** `mongo/workload_replay.go` | per-worker queues, wait group | reader, workers | iteration barrier, cancellation, end status |
| **Deterministic traffic** `mongo/workload_deterministic.go` | operation numbers, fingerprint | passes, iterations | numbers across passes |
| **Record pool** `mongo/recordpool.go` | bounded pool per namespace | add, random, remove | eviction and removal |
| **Explain jobs** `webui/explain.go`, `explain_metrics.go` | results, connections | dispatch, retry, counters | one result per job, cancellation, layouts that leave counters out |
| **Trend store** `stats/trend_store.go`, `trends.go`, `trend_values.go` | file, lock file, cached copy | refresh, mutate, prune, compare | two processes, stale locks, stale cache, limits |
| **Statistics and insights** `stats/` | histograms, active time, samples, event ring, totals | record, capture, report, rate, advise | reads that reset beside writers, bounded admission, missing counters |
| **Replay comparison** `replaycompare/` | none | pair, compare, verdict | lost and repeated operations, one side without outcomes |
| **Definitions store** `definitions/store.go` | list and file | create, update, copy, delete | failed saves, clients with old copies |
| **Setup and seeding** `mongo/setup.go` | collections, indexes, batches | create, index, seed, shard | one failed writer among several |
| **Raw injector** `benchmark/` | sequence number of each worker | scan, insert, upsert, update, delete | ids of an earlier run |
| **Generated files** `webui/outcome_paths.go` | reserved names, settings | reserve, keep, remove | names shown after a start that failed |
| **Data generation, configuration, import, reports, command line, logging** | settings, files | see `PROJECT.json` | sequential conversions |

Interactions. A start request of the web server becomes a run goroutine, which
calls the runner with a collector; the runner's workers call the recorder or
the outcome writer, the record pool and the collector. The chart sampler and
the stats, insights and history requests read the same server fields under one
mutex. A sweep is a sequence of start requests that waits for all run
goroutines; a run on several servers replaces connecting and running by a
multi-target plan. When a run ends, its deferred calls disconnect, free the
slot, recover a panic and store a dashboard, in this order; insights are built
by a later request without the lock and attached to the dashboard.

What makes a part correct:

- recorder: the file holds a gapless prefix of every worker's stream and is
  called complete only when it holds everything;
- reader: accepts whatever the recorder can leave behind;
- run control: one run at a time, which owns the slot, the collector, the
  connection and the dashboard; the slot is always given back;
- history: every run is stored once, with its own results and insights;
- sweep: levels run one after the other, and a stop ends the sweep;
- plan: each target is connected, run and closed once; a failure is its own;
- replay: every operation of the recording is sent once, in its worker's order
  and its iteration, and the status tells whether;
- runner: the active workers follow the schedule, and all goroutines end;
- deterministic traffic: equal seeds send equal operations, ids are distinct;
- explain jobs: one result for each job;
- trend store: no committed run of another process is lost;
- definitions store: what was acknowledged is in the file, and a copy runs only
  in a sort order that somebody confirmed;
- statistics: each operation is counted once, in one window, over active time;
- advice, ratings, comparison: nothing is claimed that was not measured;
- setup: success means every document is there;
- raw injector: a run that keeps the collection inserts new documents;
- generated files: a file has one run, which keeps or removes it.

`PROJECT.json` lists every component with its files, and under `hazards` the
places in the code where these could fail in a way a test hardly reaches.

## 2. The modules

| Module | Models |
| --- | --- |
| `RecordingFile` | what a reader finds acceptable in a recording (`Scan`, `Stream`) |
| `RecordingContract` | the abstract specification of a recording: `FailurePolicy` and `BlockPolicy` |
| `Recorder` | the recorder with its workers, its writer and its controller |
| `RecorderProofs` | theorems about `Recorder`: what its file holds, and what trailer, result and disk say of it |
| `RunControl` | the web server's run lifecycle with the dashboards and insights it stores |
| `ServerProofs` | theorems about what the web server makes of its runs: `RunControl`, `TrendHistory` |
| `ReplayContract` | the abstract specification of a replay: order, iterations, "complete" |
| `Replay` | the reader of a recording, the queues and the workers that send it |
| `ReplayProofs` | theorems about `Replay` |
| `Sweep` | concurrency sweeps with the runs they start, as a sweep sees them |
| `RunHistory` | the stored dashboards, pins and retention |
| `GeneratedFiles` | the names the dashboard chooses for output files |
| `MultiTarget` | a run on several servers and its samples |
| `Definitions` | the library of definitions with the clients that edit it |
| `Seeding` | collections, indexes, the seed and sharding before a run |
| `LoadGate` | the load profiles, and the pool of workers that follows one |
| `RecordPool` | the insert cache and the documents operations choose from |
| `Deterministic` | deterministic traffic, its passes and its fingerprint |
| `OutcomeWriter` | the outcome file of a deterministic run or a replay |
| `RawInjector` | the raw injector and the ids it continues with |
| `Collector` | latency histograms, their windows, active time |
| `InsightEvents` | per-shape totals, samples, the ring of events, the cached report |
| `ExplainJobs` | the concurrent explain commands after a run |
| `TrendContract` | the abstract specification of the trend file: one list, changed at once |
| `TrendStore` | the trend file shared by processes |
| `MeasureProofs` | theorems about what a run measures: `OutcomeWriter`, `Collector`, `InsightEvents` |
| `StoreProofs` | theorems about what is kept between runs: `TrendStore`, `GeneratedFiles`, `RunHistory`, `Definitions` |
| `DocumentProofs` | theorems about the documents of a run: `Seeding`, `RawInjector`, `RecordPool`, `Deterministic` |
| `WorkProofs` | theorems about who works when: `LoadGate`, `ExplainJobs`, `MultiTarget`, `Sweep` |
| `ExplainPlan`, `ExplainEvidence` | which operations are explained, what a plan shows |
| `Efficiency`, `IndexAdvice` | the counters of an answer and the ratings of a shape, index candidates and existing indexes |
| `TrendData`, `TrendHistory` | what a call makes of the trend data, and the data of a store from call to call |
| `TrendCompare`, `TrendValues` | baselines and verdicts, the literal values of a shape |
| `ReplayCompare` | the comparison of two outcome files or recordings |
| `ReportProofs` | theorems about the reports: `ExplainEvidence`, `IndexAdvice`, `Efficiency`, `TrendCompare` |
| `MCReplay` | `Replay` for TLC; `Recorder` and `RunControl` are checked as they are |
| `MCServices` | the modules from `Sweep` to `TrendStore` for TLC, fifteen components |
| `MCAlgorithms` | the modules from `ExplainPlan` to `ReplayCompare` for TLC |

Three conventions hold in all of them. A critical section is one action, and so
is every step between two of them that another goroutine can see. A call of the
driver is two steps, its effect at the server and what the program does with
the reply, wherever something may come in between. A text, a document or a key
is a model value; a text is told apart where the code branches on it.

### Recorder

One action per step between which another goroutine can act. A call of
`Record` is `Execute` (the worker reads `Active()` and runs its operation),
`RecordEntry` (the state check, the encoding, the iteration stamp), `TrySend`
(the non-blocking send), `BlockedSend` (the blocking one) and, for a failure,
`WorkerStop` and `WorkerReason` (the compare-and-swap and the store of the
reason). The writer goroutine is `WriterReceive`, `WriterCheck` (the state is
looked at again for every entry), `WriterWrite`, `WriterTruncate`,
`WriterFails`, `WriterStop`, `WriterReason` and `WriterExit`. The controller is
`NextIteration` (`SetIteration` of the next `RunWorkload`, when the workers of
the last one are gone), `CloseChannel`, `WriteTrailer` and `FlushAndClose` or
`FlushFails`. `Crash` ends the process in any step.

The channel is a history `log` with the number of entries `taken` from it. A
command is its number in its worker's stream; a line is `n`, the number the
writer gives it, its worker and iteration, and a size from `OpBytes`; the
sha256 of a stream is the sequence it hashes. `disk` is what is left of the
file: everything after a clean close, otherwise any number of whole lines, and
the trailer only after all of them. A line cut in half is one line less, as
`lineReader.next` treats it. Left out: the header's content (written before
anything else), the wait statistics, `Snapshot`, `SetStart` and
`checkOverwrite`.

Workers make at most `MaxOps` operations (the one bound). Iterations, sizes,
limits, queue size and the faults are constants.

### RunControl

Every critical section of `WebServer.mu` is one action, and so is every call
between two of them that has an effect another goroutine can see. A run is the
`RunID` of its start request; its collector, dashboard id, connection and
context go by the same number, which is how the model tells whose they are.

- start request: `Admit`, `StartFails` (every early return between them ends in
  `Abort`, that is `abortRun`), `NameDashboard`, `Connect`, `Launch`;
- run goroutine: `Prepare`, `NextIteration`, `BeginWork`, `WorkEnds` and the
  deferred `Disconnect`, `Clear`, `Recover`, `Capture` and `Save`. The branch
  for the raw injector has the same steps;
- several servers: `RunTargets`, `NextTarget` (`OnChange`), `TargetsEnd`,
  `ReportTargets`;
- other requests: `Stop`, `Promote` (each sample and stats request),
  `ReadForInsights`, `KeepInsights`, `AttachInsights`.

`BeginWork` reads the server's collector, not the run's: line 1701 evaluates
`s.CurrentStats` without the lock. The loop of a run is abstracted to its
iterations; `CountOperation` lets a collector count its first operation, which
is all the properties tell apart. `Prepare` stands for creating collections
and indexes, seeding and sharding: one step that may succeed, fail or panic.
A run on several servers is one connect-run-close, of which a panic while a
target is prepared may leave a connection open (`Leaked`). Its insights are
taken as its own (`multiTargetRefInsights` is set by the run or built from
its reference target). A dashboard on disk is its id, the run it describes, its
status and its insights; pruning and pinning are in `RunHistory`, sweeps in
`Sweep`, the targets in `MultiTarget`. Left out: charts, requests that only
read, and the `os.Exit` of the shutdown request.

Bounds: `MaxRuns` admitted starts and `MaxStops` stops that find a run.

### Replay

The goroutine of `runWorkloadReplay` is `ctl` with the actions `Refuse`,
`Start`, the iterations of `Stream` (`StreamCancelled`, `ReadFails`, `ReadEnd`,
`ReadOther`, `ReadOp`), `PassBarrier` (`pending.Wait`), the two branches of the
select (`Send`, `SendCancelled`) and `Join`, which decides status and hash. A
worker runs `Take`, `Check`, `TimerEnds` (timed mode), `ExecReturns` or
`ExecFails` and `Cancel`, `Finish` (the deferred `pending.Done`), `Exit`; a
panic is `Panic` (the deferred call comes first), `Recover` (`reportPanic`) and
`Drain`. `MonitorPanics` and `Stop` come from outside. The counter of the wait
group is `pending`; the hash of a worker's commands is the sequence of their
lines, so hashes are equal when the sequences are. `RecordingFile` says which
files can be replayed (`Scan` refuses the others) and what a worker's stream is,
so the same definitions bind what `Recorder` writes and what `Replay` sends.

`Setups` holds what a replay finds: the lines, whether definitions, namespaces
and data match, and the options. An operation that reaches the server and one
that fails there, or in a cancelled context, both return without an error
(`ExecReturns`): the replay counts both as replayed. An offset is only early or
late (`Check`). The checks of `Scan`, of the fingerprint and of the outcome file
are one failure each; after the last of them the collector keeps the status
"running". Left out: decoding of a command, lag, progress, outcome lines, the
final summary.

### The services

`MCServices` checks fifteen components in one run. In the models they share no
state, so a behaviour belongs to one `part` while the others stay in an initial
state: the run is the sum of their state spaces. It extends the components: their
constants are in the cfg, TLC evaluates their assumptions, and a run and a theorem
name the same property. What one promises another is repeated where it is used (a
sweep sees of a run its slot, its launch, its end and its dashboard; `RunControl`
has the rest).

- `Sweep`: a request is `Check`, `Register` and the `TakeSlot` of level 1; the
  goroutine is `Await` (`runWG.Wait`), `LookBack`, `Pause`, `NextLevel`, `EndSweep`.
  A run is `LaunchRun`, `FinishRun` (its deferred calls up to the dashboard) and
  `LeaveRun` (`runWG.Done`); `tagged` has the dashboards with the tag of their
  level. Ordinary starts and `Stop` act beside it. A start whose form does not
  parse (`Unreadable`) is passed on before a sweep is looked for and takes the
  slot before it fails (`TakeUnread`). A level that fails to start is answered
  with an error status, or with 200 (`server.go:1334`), in which case the sweep
  waits for the run and looks at the phase (`Abort`). Two sweeps that pass the
  check together (`sweep.go:277`) replace each other's `s.sweep`: no property is
  claimed for them (`alone`).
- `RunHistory`: every call under `RunHistory.mu` is an action; dashboards go by
  start time, so that one saved late may be the oldest.
- `GeneratedFiles`: the settings page shows a path, the start request reserves
  a name by creating the file, the run writes it and its end removes what stayed
  empty; a start may fail between any two of these.
- `MultiTarget`: `Prepare`, `BeginTarget`, `OpenOutcomes`, `RunEnds` or `Panic` for
  each target, in either order of execution, then `Compare`; the chart sampler
  takes the last sample of a target after its end. A panic while a target is
  prepared (`PanicPreparing`) ends the plan with clients open: nothing is
  deferred there.
- `Definitions`: requests with what a client loaded earlier, a save that fails
  after memory was changed, a reload, and the clock of the version check.
- `Seeding`: one producer, several writers over an unbuffered channel, the
  first cause in `workCtx`.
- `LoadGate`: `Publish` stores the target, a worker looks, parks, unparks, sends
  and gets its reply; a panic, `StopRun` and the deadline end the run before
  `CloseWindow` and `ReturnFromRun`. A worker that panics is first counted as done
  (`WorkerPanics`, the deferred `wg.Done`) and reports it afterwards
  (`ReportWorker`), so the run may have returned by then. Nobody waits for
  the insert producer, the monitor and the controller, which may panic at any time
  (`HelperPanics`).
- `RecordPool`: inserts (cached, fast, in a transaction) and deletes, each sent
  and registered in two steps. What the pool makes of a filter depends on its
  kind (`Matches`): `_id`, values, operators alone, a range for a value, nothing.
  An update never reaches the pool and a fast insert registers the id alone, so
  the record of such a document (`blurred`) may not match the values it has.
  After an error a delete leaves the pool as it is.
- `Deterministic`: an operation is written as its coordinates (iteration, worker,
  number), which is what the seeded sources make of it; `SendOp` hashes the first
  pass only.
- `OutcomeWriter`: workers block on the channel; the writer keeps its first
  error and goes on receiving; `Close` seals the file.
- `RawInjector`: a document is the worker's number and a sequence number; a run
  scans for the next one, which may fail.
- `Collector`: `Record` writes one histogram at a time; a poller reads the time,
  swaps it and captures, in three steps; waits stop the clock of active time.
- `InsightEvents`: an operation is one step under `insightsMu`. `Admit` is the
  bounded reservoir with the slowest sample beside it, including what is freed
  when a sample is refused half way.
- `ExplainJobs`: `ReadState` and `RegisterCancel` are the two sections between
  which a run may start; a worker takes a job, tries, waits, or leaves. The
  configured limit (`BaseTimes`) may be above the 60 seconds up to which a repetition
  doubles it (`Longer`): nothing clamps it.
- `TrendStore`: a change is `Lock` (or `RemoveStale`), `ReadLocked`,
  `ReplaceFile`, `Unlock`; `ReadLocked` also brings the process's memory up to the
  file, whatever becomes of the change; a reader is `Refresh` and `Stat`; a
  damaged file is moved aside by whoever reads it; a process may die anywhere. A
  lock file counts as stale by its age alone (`Age`), also when its maker is alive
  and slow, and whoever found it stale removes whatever has its name by then
  (`RemoveStale`). A stamp stands for time and size: a rewrite within the
  resolution of the clock with the same size, which the code cannot see either, is
  left out.

### The algorithms

`MCAlgorithms` asks each algorithm every question of a bounded set, one question
per state, and compares the answer with what it is to mean. What is asked of the
explain evidence and the index advice are constants (`Findings`, `ExplainedPlans`,
`Queries`, `Indexes`), small in the run and any in the proofs. The trend data goes
through sequences of calls instead, in `TrendHistory`: `Record`, `Pin`, `Unpin`,
`DeleteRun`, `Import`, `Refresh` and `Reset`, each of which reads the file, changes
the data, applies the limits and saves, as `mutate` does; a file may also be one
that was edited or exported elsewhere.
`Efficiency` knows the four layouts of an answer (plan, router plan, pipeline,
pipeline per shard), each with any of its counters left out; it takes
its logarithm at powers of ten only. A history of a trend shape is the set of
its runs, as it is sorted by age with one snapshot for each; the size of the data
counts entries instead of bytes. `TrendValues` keeps
of a command its number, its length and whether its text is kept.

## 3. The runs

| Run | Instance | Shows |
| --- | --- | --- |
| `recorder_fail` | 2 workers, queue of 1, 2 iterations, 2 operations each, 8 bytes with a reserve of 2, every fault | the safety properties of a recording below, and that `Recorder` implements `RecordingContract` |
| `recorder_block` | 3 workers, queue of 1, backpressure `block`, limit of 4 bytes, crash, fairness | `SendsAndCloseReturn` |
| `recorder_cap` | room for the header only | **violated**: `BytesCapped` |
| `run_control` | 2 starts, 1 stop, both kinds, every fault, fairness | slot, overlap, collectors, insights, end state, `EveryRunEnds` |
| `run_control_stop` | 2 starts, 1 stop | **violated**: `OneConnection` |
| `run_control_promote` | 2 starts | **violated**: `PromotedByOwnOperations` |
| `run_control_dashboard` | 2 starts | **violated**: `EveryRunStored` |
| `replay` | 2 workers, queues of 1, 9 setups with 4 or 5 operations, every fault, a stop, fairness | the properties of a replay below, that it ends, and that `Replay` implements `ReplayContract` |
| `services` | fifteen small instances (`MCServices`), every fault, fairness | the properties of the services below, and `ServicesEnd` |
| `algorithms` | the runs and files of trend data, and the input sets of `MCAlgorithms` | the properties of the algorithms below |
| `explain_after_start` | two explain workers, one start | **violated**: `StartStopsExplains` |
| `generated_reused` | three starts | **violated**: `NameNeverReused` |
Why the bounds are enough. In `recorder_fail` two workers fill a queue of one,
so one of them is refused while the other sends; two operations let a worker
send again after the refusal, which is what would leave a gap; two iterations
let entries of both be queued; sizes of one and two put the limit on the first,
second, third or fourth line. The third worker of `recorder_block` lets two be
blocked at once, so that one can be overtaken. In `run_control` the second run
meets the first one in each step of its end; a third adds only a repetition of
the pairs, and the theorems of section 4 cover any number. One stop can hit
each phase of each run. In `replay` a worker can panic with an operation in its
queue while the reader waits for the next iteration, and while the reader waits
for room in that queue; the iterations begin with different workers.

In `services` each instance is the smallest in which its actors meet: a sweep of
two levels beside one ordinary start; two processes on the trend file, each of
which may die with the lock or lose it by its age, and one damage of the file;
three dashboards of which one is kept and one may be pinned; two definitions, a
client that loads and submits in another second; two targets; two explain workers
and two databases with one retry, and configured limits of 1, 2 and 4 around a cap
of 3 (doubled, capped, kept); two starts with two free names; two definitions to
prepare and two writers with one document each; pools of one and two workers that
follow five profiles over three ticks; three generated documents, one delete and a
pool of two, so that one is evicted; two passes of two workers over two
iterations; an outcome queue of one with a second worker blocked; two groups, of
which a third key is refused, samples of up to three bytes under a limit of four;
two pollers on one collector; two raw runs of two workers with one failure. In
`algorithms` the limits are two pinned runs, one kept run (two after a read), two
shapes and eight entries, so that three runs and what a file brings exceed each of
them; two samples, plans or shards are what an algorithm combines; three latencies
of two shapes let one shape improve while the total regresses.

Recorder properties: `PrefixOfEveryWorker` (no gap and no reordering in the
file of any worker), `CompleteMeansEverything`, `ResultDescribesFile` (`Close`
does not report what a reader would not find, its part `ResultIsOnDisk`; `Scan`
accepts whatever a close, a failure or a crash leaves; counts and hashes of the trailer
are those a replay computes; the status has its reason; the limit holds, with
room for header and reserve), `KeepsContract`, `SendsAndCloseReturn`.

Run control properties: `RunningHasOwner` (`IsRunning` never outlives the run
it stands for, in all behaviours), `OneRunAtATime` and
`CountsIntoOwnCollector` (when nobody stops a run and none panics),
`InsightsMatchCollector`, `Settled` (after the last run nothing is
connected). Their condition `Undisturbed` is needed: after a stop, or a panic
during which the slot is freed twice, runs do overlap; `run_control_stop` shows
the first. `EveryRunEnds` holds for the runs on one server; for several servers
`Settled` says that no connection but a leaked one is left.

Replay properties: `BarrierSound` (the wait group counts what is outstanding:
each operation handed over is counted down once on every way out),
`StatusTrue` (one iteration at a time, no worker with a gap or a repetition, a
complete replay sent everything with an equal hash, a stop is no failure and a
failure is no stop), `KeepsContract`, `ReplayEnds`. An operation
lost to a panic counts as over: its `pending.Done` runs before the replay is
cancelled, so operations of the next iteration may still be sent after it.

Services properties: `SweepInOrder` (of a sweep that began alone, unless a start
with an unreadable form took the slot beside it), `RecordedRunsKept` (what a
process recorded is in the trend file, or in one moved aside, until a change that
had read it takes it out), `KeepsList` (each change of that file is made at one
moment and at most once, and a reader sees a state it had), both unless a lock was
removed while its maker was at work, `DashboardsKept`, `LibrarySound`, `PlanSound`,
`ExplainsAccounted`, `GeneratedFilesKept`, `SeededMeansAll`, `LoadMeasured`,
`DeletedLeavePool`, `TrafficAsSpecified`, `OutcomeFileTrue`, `InsightsAccount`,
`MeasuredOnce`, `FreshIds`, `TypeOK`, `ServicesEnd`. Each is defined, with its
comment, in the module of its component.

Algorithm properties: `TrendDataBounded`, `TrendVerdictsSound` (a verdict turns
round with its runs, a comparable baseline is found, kept values are those that
were sent), `EveryTierGetsASlot`, `HighConfidenceIsEarned`, `NothingIsGuessed`
(a rating with counters missing is no better than the full one, unless it is
marked), `SuitableServes`, `ReportAccounts`.

Fairness. `Recorder`: weak fairness of every worker inside `Record`, of the
writer and of `Close` (the Go scheduler runs what can run), and strong fairness
of a blocked send, because a Go channel serves blocked senders first in, first
out. Nothing forces an operation, an iteration or a close. `RunControl`: weak
fairness of each start request, each run goroutine and the insights request:
validation and connecting end, and a workload returns at its duration or on
its cancelled context. Nobody has to start or stop a run. `Replay`: weak
fairness of the reader and of each worker; operations return (they have a
context and the driver's timeouts) and timers fire. `MCServices`: `Progress` is
weak fairness of the steps that goroutines, the server's replies and timeouts
take by themselves, never of a request, a stop, a death or a fault. Every
component but the gate can take only finitely many of these steps, so that one
condition for all its goroutines is as strong as one for each; `LoadGate`
has a loop and needs `RunProgress` and a `GateProgress` for each worker.

### What the violated properties say

- `BytesCapped` (`writer.go:58` "caps the uncompressed bytes written"):
  `NewRecorder` refuses only a limit below the header, and `Close` writes the
  trailer without a check.
- `OneConnection` (`server.go:1564`): the order of the deferred calls is meant
  to keep a new run from starting while the old connection closes;
  `handleStop` frees the slot long before.
- `PromotedByOwnOperations` (`server.go:1818`): between `Admit` and `Launch` the
  server still shows the collector of the run before, and its operations
  promote the new run.
- `EveryRunStored` (`runhistory.go:79`, `docs/trends-and-history.md:97`): the
  slot is free before the dashboard is captured; a start in between hides the
  outcome.
- `StartStopsExplains` (`server.go:72` "stop in-flight post-run explains when a
  new run starts"): an explain request reads `IsRunning`, and registers its
  cancel function later; a start in between does not find it.
- `NameNeverReused` (`server.go:820` "A name generated for an earlier run is
  never reused"): a start that fails after it generated a name makes the server
  forget that it generated the name of the run before, which the settings page
  then shows and sends as a chosen path.

Four more disagreements of this kind appear as exceptions of the properties that
hold. Stated without one, TLC finds each of these claims violated in the same instance.

- `RecordedRunsKept` (`trend_store.go:462`, changes written by another process in
  between are kept): a lock file counts as stale by its age alone
  (`trend_store.go:590`), so a process that is slow between reading and replacing
  the file loses its lock to another one, whose change it then overwrites.
- `LoadMeasured` (`runner_test.go:811` expects an error from a worker's panic): a
  worker is counted as done (`runner.go:549`) before its panic is reported
  (`runner.go:1508`); at the deadline or after a stop the run can return without it.
- `SweepInOrder` (`sweep.go:378`, a sweep stops at the first failed level): a start
  that passed its check before the sweep registered, or one with an unreadable form,
  takes the slot that a failed level has freed, and clears the error the sweep was
  to find.
- `SuitableServes` (`index_advice.go:37`, a partial index is shown to include the
  query): conditions that are left out when the filter is decoded (`indexes.go:214`)
  are not asked for, so an index that leaves documents out may be suitable.

## 4. The proofs

Eight modules of proofs, each for every value of the constants that its
components' assumptions admit. The assumptions say what kind of value a constant
is (a set of workers is finite, a batch is a natural number, no process is called
nobody) and what the code makes sure of before it gets there: `NewRecordPool`
replaces a pool size of zero, a sweep has its levels checked. Where a theorem
needs more than that, it says so as a hypothesis of its own (`SeedSettings`,
`WithinStride`); each is explained below. Where the code itself makes an exception,
the property states it, and a history variable says when it applies (`robbed`,
`alone`, `raced`).

**Recorder** (`RecorderProofs`). The invariant `Inv` is `TypeInv` (the types, and
what the steps between a receive and a write rely on) with `IInv`, which has five
parts: `LogInv`, the entries of a worker on the channel's history are its
operations 1, 2, 3, ... without a gap; `SenderInv`, what a worker inside `Record`
still owes the log, and that an open recording owes nothing for an idle one;
`FileInv`, the file is a prefix of the log and the writer holds at most one
entry; `CounterInv`, the writer's counters and hashes say what the lines say
unless its error is sticky; `CloseInv`, trailer, result and disk were decided
from the state at the end. `PrefixOfEveryWorker` alone is not inductive: that the
next written line continues its worker's stream depends on what the log holds, on
the state the writer looked at, and on a worker between its refused send and its
stop. From `Inv`: `PrefixTheorem`, `CompleteTheorem`, `ResultTheorem`, and
`Refinement` (each step is a step of the contract or leaves its variables
alone, with `stored <- hashes`).

**The recording as a reader finds it** (`RecorderProofs`). `FileTheorem`
states `ResultDescribesFile`. It needs, beside `Inv`: `CountsInv` (the counters of
the writer), `StampInv` (an iteration begins when no worker is inside `Record`, so
the stamps on the channel never go back), `ReasonInv` (one goroutine wins the
compare-and-swap and stores its reason, and none does twice), `BytesInv` (every
line leaves the reserve free) and `TrailerInv` (nothing changes what the trailer
describes). The step from there to what `Scan` computes is an argument about
numbering: the lines of a worker up to one of them are as many as its operation
number says (`LineRank`), so the stream a replay reads, `StreamOf`, is the one the
hash covers (`StreamHashed`), for a whole file and for any prefix a crash leaves.

**Replay** (`ReplayProofs`). `Inv` has ten parts. The reader hands the operations
to the queues in the order of the file and a worker takes them in that order
(`OrderInv`); so what the reader has passed was sent, was lost, is being handled
or waits in the queue of its worker, as long as nothing was cancelled
(`SeenInv`). A worker that lost an operation cancels the replay before it takes
another (`CauseInv`), and so one that finds the replay going on has sent all its
earlier ones (`TurnInv`). The wait group counts what is handled or waits
(`CountInv`); at zero, all that was passed is over and the next iteration may
begin (`IterInv`). Results: `BarrierTheorem`, `IterationTheorem`, `PrefixTheorem`
and `StatusTheorem` (the parts of `StatusTrue`, and the whole), and `Refinement`:
every step is a step of `ReplayContract` or leaves its variables alone. For
"complete means everything, with an equal hash" the proof shows that a sorted
sequence without repetitions is determined by its elements.

**RunControl** (`ServerProofs`). `Inv` is `TypeOK`, `FreshInv` (a run that was
not admitted has no effect yet), `RunningHasOwner`, `ConnectionInv` (only a run
between its connect and its disconnect is connected, unless it leaked) and,
without stops and panics, `QuietInv`: `HolderInv` (a run that needs the slot has
it), `ShownInv` (a launched run's collector is the server's), `ErrorInv`,
`OutcomeInv` (the phase is the outcome of the last run) and `InsightInv` (a
report that was begun for an older `RunID` is not kept). The proof has one lemma
per part, with one step per action. From it follow `SlotTheorem`,
`OneRunTheorem`, `CollectorTheorem`, `InsightsTheorem`, `SettledTheorem` and
`TypeCorrect`.

**The outcome file** (`MeasureProofs`). The file, the buffer and the channel put
together are one sequence, `Flow`: taking a line or writing the buffer out moves
a boundary and leaves the flow alone, and a line only ever joins at its end. As
long as no write has failed, the flow and the lines that blocked workers still
hold are all outcomes there are (`FlowInv`). Once one has failed, the file is a
part of the flow and perhaps half a line, and nothing is added (`ReadInv`).
`OutcomeTheorem` then settles what a reader makes of either (`BrokenRead`,
`SealedRead` are lemmas about `StreamOutcomes`), for any number of workers,
outcomes and iterations, any room in the channel, and a failure of any write in
any part.

**Between runs** (`StoreProofs`). `TrendTheorem`: whoever is inside a change has
the lock file (`LockInv`), so what a change has read is all that was recorded and
not removed when it writes (`KeptInv`), for any number of processes and deaths, as
long as no lock was removed while its maker was at work. That is the exception of
the property itself (`robbed`), and it is needed: a lock is stale by its age alone
(`trend_store.go:590`), and is removed by its name, which may be that of a newer
one by then; two processes are enough to lose a change (section 3).
`TrendRefinement`: the processes implement `TrendContract`, which says nothing
once a lock was taken from its maker (`void <- robbed`). The list is what a process
about to write has read, and otherwise what a good file holds (`TrendList`);
since the former is what a good file still holds (`CallInv`), replacing the file
is the moment of the change, and everything else leaves the list alone or finds
it unusable. `FilesTheorem`: a start whose path was blank owns
the name it reserved until it ends (`OwnerInv`), and a file that stays empty has
an owner that has not ended (`EmptyInv`). `DashboardsTheorem`: a report that was
accepted waits until its dashboard is saved, and is in it then (`ReportInv`);
pruning leaves no more than the policy (`CountInv`, which counts the dashboards
newer than the last one that stays). `LibraryTheorem`: memory and file both hold
what was acknowledged, and only confirmed orders (`Holds`), so neither a save that
fails nor a start loses it.

**Documents** (`DocumentProofs`). `SeededTheorem`: `SeedInv` is `SeedTypes`,
`OrderInv` (definitions before the one in work are seeded, those after it are
empty), `QuietInv` (outside a seed no writer has a batch) and `WorkInv` (each
position handed out is inserted or with exactly one writer, unless there is a
cause to give up). At the end no writer holds a document and none is left, so
without a cause all are inserted. Its hypothesis `SeedSettings` says that the
definitions have databases of their own. `FreshTheorem`: a worker whose scan
succeeded in this run goes on above every document there is (`FreshInv`), and
there is always a number no document reaches (`BoundInv`), so the scan's maximum
exists. `PoolTheorem`: a document is in one hand, the cache or a worker
(`HandInv`); it is in no collection before it is sent, and marked when it is
deleted before it was registered (`SentInv`); what a delete took matches its
filter (`GoneInv`), if the pool was told of it and its record tells what the
filter asks for; so the record of a deleted document waits for that delete
(`LeaveInv`). The others are the four exceptions of the property (`raced`): a
delete before the insert was registered, one with an error for a reply, one by an
empty filter or by a range, and one by values that the record does not have. What
`RemoveMatching` leaves (`RemainingKeeps`) and what `Add` evicts (`AddTakes`) are
lemmas about pools of any length. `TrafficTheorem`: what a worker's hash covers is
just what it has reached of its first passes (`HashInv`: operations of the
iterations that ended, and those before its present one), and an iteration that a
worker left before the end of its pass makes the status incomplete (`PassInv`); an
id that was inserted belongs to an operation number its worker has passed
(`IdsInv`), and ids of different numbers or workers are apart (`IdsApart`), as
rows of a fixed length are (`RowsApart`). Its hypothesis `WithinStride` says that
a worker's fast inserts do not need more ids than the 100000000 between two
workers.

**Workers** (`WorkProofs`). `LoadTheorem`: `GateInv` is `Types`, `GaugeInv` (the
gauge is the number of workers behind the gate, and a worker that works is one of
them) and `WindowInv` (no operation outside the window, which closes after the
last worker; the result is the first panic that is reported, which stays, and a
run that a panic ended has one). It rests on `ProfilesAreFit`: the target of a
profile that `Compile` takes is always between 0 and its peak, the size of the
pool, for every kind and any numbers (rounding never leaves the ends of a ramp or
a sine, and some stage of a step profile is the largest). `ExplainsTheorem`: a job
that was handed out has its answer or exactly one worker (`OwnerInv`), which
stands at the attempt its answers say (`Fits`), with a limit that grows up to the
cap and stays if it was configured above it (`ChainInv`); who is gone has closed
its connections (`GoneInv`). `PlanTheorem`: `StageInv` says where every target is
in each step of a plan (behind the one in work done or ready, before it
untouched), `CompareInv` that a complete target wrote its outcome file in this run
and that a comparison of two complete ones is of these. A client may be open at
the end only if a panic ended the plan while a target was prepared.
`SweepTheorem`: while a sweep that registered alone goes on, nobody else is past
the check (`AloneInv`); so each change of the slot and of the phase is its own,
only the run of its level works (`RunsInv`) and the levels behind it are stored
under their own names (`StoredInv`). A start with an unreadable form that gets the
slot takes the sweep out of `alone`.

**Measurements** (`MeasureProofs`). Both properties are about sums over finite
sets, which the library defines by a recursion in an order it chooses. `SumIsCount`
shows that such a sum is the number of pairs of its `Table` (a row of `f[x]`
places for each `x`), so it depends on the terms alone: `SumTerm`, `SumSame`,
`SumChanges` and `SumForces` (terms that do not exceed those of an equal sum are
the same) follow from cardinalities. `MeasureTheorem`: an operation is counted in
a total once its worker has written that far (`Settled`), so what the windows and
the histogram hold together is the number of settled operations (`CountInv`), and
the clock has run for the ticks in which work was under way (`ClockInv`).
`AccountTheorem`: each key's reservoir holds operations of that key only and, until
one is left out, all of them (`CaptureFits`); the retained bytes follow each
admission (`AdmitSample`); the ring holds, back from where it writes, the newest
sampled operations (`RingInv`), so what a report reads from it is in order
(`RingInOrder`). That a shape "sampled in full" has every operation over all its
databases is not an invariant of one key: the code compares two sums, and only
because no reservoir is longer than its operations do equal sums mean equal terms.

**Trend data** (`ServerProofs`). `TrendInv` is the types of a file (`IsTrendData`)
with `TrendDataBounded`. Pruning makes anything that a file can hold well formed,
whatever was merged into it before (`PruneIs`), and the size limit only takes away
(`BoundIs`), so the limits need no help from the state before a call; but UpdateRun
and DeleteRun do not prune, and need the invariant. Which runs stay is settled by
the order of the shapes, which is strict once those of one id are reduced to one,
so that sorting it is a listing (`ListingIs`: an element's rank is the number of those
before it): the newest run is in a shape that only shapes with pinned runs precede.
`TrendAssumption` says that limits are positive numbers, that the history setting is
within the limit of a read, as `normalized` clamps it, and that a run brings one
snapshot for each shape, with a history. A file is any data of the right form.
What the proof had to learn of the model: a record drops the run again when shapes
with pinned runs fill `TrendMaxShapeBaselines`, or when an imported run is newer
than the clock here; and the values of a run may outlive its histories in an edited
file, so that the claim is about the snapshots.

**Findings** (`ReportProofs`). `FindingTheorem` holds for all samples and thresholds.
The diagnosis of a sample is the least in the order that applies, and a rank names one
diagnosis (`RankOf`), so the finding, the least rank of the explained samples, is
the diagnosis of each of them unless they disagree, which caps its confidence. What
is read from a plan is a function of the nodes outside the skipped keys
(`SignalsAreShown`), so two plans that show the same have the same signals.

**Index advice** (`ReportProofs`). `AdviceTheorem` holds for every filter, sort
and index. An index serves a candidate if its first keys are the equality fields
in any order and the tail follows (`ForwardIs`), from either end (`FlipIs`); the
keys that are left of both, when the equality fields are taken out, then agree
(`RestSteps`, `RestAfter`), which is what it means to give the order without a
sort (`ProvidesOrder`). Conversely the keys of a candidate are the equality field,
the rest of the sort and the range (`CandidateIs`), and an index on them serves it
((`CandidateServes`). A partial index that is called suitable holds every document
the query matches, if its filter was decoded whole (`DecodedWhole`); the reference
(`Includes`) reads the filter as the server has it. `QuestionAssumption` says that
the keys of an index or a sort name each field once and that a filter is finite.

**Ratings and verdicts** (`ReportProofs`). These theorems are about the operators
themselves, for all numbers, where the runs ask about small sets. `BoundTheorem`:
a counter that is left out makes the cost of its ratio unknown and no other cost
greater (`SampleScore`, `LargestOfThree`), so a score can only be too good, and
the bands of bounds are named with that in mind. `TargetTheorem` and
`OverheadTheorem` say the same of latencies and of sorts and spills;
`TableOrderTheorem` says that the table has one order. `VerdictTheorem` and
`LatencyVerdictTheorem` compare two runs from either side. The relative change of
an average is rounded, so 20 % means at least 3999 of 20000 (`RelativeAtLeast`),
and a change from the greater average that is material is so from the smaller. The
p95 needs an exception that the run's values do not show: for a baseline p95 of
zero `compareTrendLatency` takes the relative change as zero (`trends.go:1429`), so
a p95 that rose from zero does not contradict an average that fell, while from the
other side it does. These are parts of `NothingIsGuessed` and `TrendVerdictsSound`:
the reports that a counter comes from, the worst of several samples, the choice of a
baseline and the kept values stay with TLC.

Two forms of argument come back. A number that some set of naturals must have
(the highest id, the newest dashboards) and a fact about every prefix of a
sequence (what remains of a pool) are proved of the least counterexample, which
`LeastOf` provides from well-foundedness: the library's induction theorems take
an operator as parameter, which the provers here cannot instantiate. And every
invariant is a state predicate without primes inside, so the lemmas about it hold
of the next state too.

Only model-checked: `TypeOK` of the services, of which the theorems prove the parts
they need; of the algorithms `EveryTierGetsASlot` and `ReportAccounts`, and
`TrendVerdictsSound` and `NothingIsGuessed` but for the parts above, which fold over
their input; and all liveness (`SendsAndCloseReturn`, `EveryRunEnds`,
`ReplayEnds`, `ServicesEnd`): the prover does not handle liveness under fairness or
`ENABLED`. No module uses `RECURSIVE` operators.

## 5. What is not modelled

- Fingerprints, compression and key peeking (bytes), configuration parsing,
  traffic import and schema inference (sequential conversions), the command line,
  connection strings and logging. Their results are constants or inputs.
- `RunControl`: the dashboard id an insights request reads after its report was
  kept (`server.go:2493`), the map that `markFinalized` writes after a start has
  reset it (`chart_sampler.go:161`), HTTP forms and downloads.
- What two sweeps that begin together (`sweep.go:277`) do to each other: the model
  has them, no property is about them.
- `Recorder.Snapshot`, which may see a failed state whose reason is not stored yet
  (`writer.go:436`), and the overwrite check.
- Numerical parts: access patterns of the record pool, percentiles but for their
  windows, rates of the raw injector, logarithms between powers of ten.
- Texts of findings, reports and warnings, and the layout of HTML and CSV files.

Where a property is narrower than it could be, the code is the reason:

- `TrendDataBounded` counts one entry more than the data in a file (`ReadBack`):
  `boundTrendSize` fits the data into the limit, `writeTrendFile` adds a newline
  (`trend_store.go:612`), and `readTrendFile` takes a file above the limit for
  damaged (`trend_store.go:184`). So data of exactly the limit, or data that no
  removal brings below it, is moved aside at the next read and the store is empty.

- `TrendValues` keeps up to eight samples of a shape beside the explained ones;
  the ninth (the slowest beside a full reservoir) is left out without being
  counted as omitted or truncated.
- `NothingIsGuessed` leaves out a score of which only a lower bound of the matched
  documents is known, and a bound from 50 to 74 may be called moderate.
- `SuitableServes` says of a partial index whose filter was decoded in part nothing
  about the documents it leaves out (section 3), and of a sparse one
  nothing about those without its fields (`index_advice.go:1085`).
- `TrafficAsSpecified` states distinct ids for the first iteration: ids of the next
  one start after one pass and may be those of a second pass of the first.
- `DeletedLeavePool` excepts a document whose insert was not registered when it was
  deleted, a delete whose reply is an error (`workload_exec.go:231`), an empty filter
  (`recordpool.go:130`) or one of ranges, and values that the record does not have
  (`recordpool.go:153`). A filter of operators alone removes every record.
- `RecordedRunsKept` and `KeepsList` end where a lock was removed while its maker was
  at work, `SweepInOrder` where an unreadable start took the slot of the sweep.
- `LoadMeasured` lets a run return without an error when the panic of a worker is
  reported after the deadline or a stop.
- `FreshIds` excepts a worker whose scan failed: it starts at 0 again.
- `PlanSound`: a panic in a sequential plan leaves its target "running"; one while a
  target is prepared leaves it "preparing", with the clients open that were.

## 6. The plan

Done: the recorder, run control and the replay with their contracts and proofs;
the services and the algorithms with their runs; proofs of the outcome file, the
stores, the documents, the measurements, the workers, the trend data, the findings
and the index advice. Left:

- in the model: the dashboard id of insights requests and the sampler's finalized
  collectors in `RunControl`;
- in the proofs: `TypeOK` of the services as a whole, and the properties of the
  algorithms whose helpers are no folds over data.
