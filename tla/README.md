# A TLA+ model of app-frame

app-frame is a Rust framework that builds an application from its dependencies
at compile time and runs its services under a supervisor.  This directory holds
TLA+ modules translated from `src/src/*.rs`, TLC configurations that check them
on small instances, and proofs for every value of the constants that TLAPS
checks.

## 1. Inventory

| Part | Source | State it keeps | Operations | Status |
|---|---|---|---|---|
| Service orchestrator | `service_manager.rs` (`ServiceManager`, `ManagedService`) | per service: `heart` (time of the last beat), `failing_health_checks_since`, `handle` (mutex around the `JoinHandle`) | `register_service`, `spawn_services`, `check`, `monitor`, `monitor_with_recovery`, `restart` = `abort` + `spawn` | modelled |
| Report publisher | `service_manager.rs` (`ServiceReportPublisher`) | last healthy log time, last two counts | `new`, `handle_report` | modelled |
| Health endpoint | `health_endpoint.rs` | none | `GET /health` = `check`; `run` binds and serves | modelled |
| Application start-up | `service_manager.rs` (`Application`, `RunConfig`) | none | `validate`, init jobs, register, spawn, endpoint, monitor | modelled |
| Looping jobs | `service.rs` | `consecutive_failures` | `run_forever`, `is_healthy`, `heartbeat_ttl`, job lists, `Job for Mutex<MutJob>` | modelled |
| Backoff tracker | `backoff.rs` | map id -> count, last, delay | `event`, `singular_event`, `clear`, `clear_many`, `is_ready`, `backoff_*` | modelled |
| Queue receiver | `queue_consumer.rs` | shared priority queue, `last_appearances` | `recv_with`, `try_recv_with`, overrides | modelled |
| Timestamp arithmetic | `service_manager.rs` (`check`, `monitor_with_recovery`) | none | casts from `u64` to `i32`, `i32` sums and comparisons | modelled |
| Shared receiver | `queue_consumer.rs` (`&Mutex<QueueReceiver>`) | the guard, across an await | `process_batch` from several jobs | modelled |
| Batch processor | `queue_consumer.rs` (`process_batch`, `Dispatch`) | receiver behind a blocking mutex, optional backoff tracker | `process_batch` under a timeout | modelled |
| Dependency injection | `dependency_injection.rs` | the call stack, and the instances made | `Provides::provide`, `inject!`, `application!` | modelled |
| Time | `time.rs` | scale of the clock | `current_timestamp`, `sleep` | the clock variable and the waiting steps of the other modules |
| Errors, utilities, re-exports | `error.rs`, `util.rs`, `lib.rs` | none | logging, names, macros | not modelled: formatting and compile-time code |

How they interact.  `Application::start` has the init jobs constructed from their
dependencies, runs them, has the services constructed, registers every
service with a fresh `heart` and spawns it; `run_custom` then shares the manager
(an `Arc`) between the health endpoint's tasks and `monitor_with_recovery`.
Service tasks write their `heart` through the `Heartbeat` they were given and
answer `is_healthy()`; monitors and the endpoint read both through `check`,
which also *writes* `failing_health_checks_since`; monitors abort and spawn the
tasks through the `handle` mutex.  Every summary of a monitor goes through its
own publisher.  A `Dispatch` is a mutable job: run by a looping job, it takes
items from a queue receiver and reports failures to a backoff tracker.

What is hard.  (a) Monitors, probes and tasks run on parallel threads and meet
only at two relaxed atomics and a mutex that is *not* held from `abort` to
`spawn`.  (b) A monitor acts on a report taken before it awaited other restarts.
(c) Abort is a request: the task goes on to its next await, or for ever.
(d) Three timers (heartbeat ttl, recovery delay, abort timeout) race with the
tasks.  (e) Timestamps are `i32`, delays `u64`, and sums of them are unchecked.
(f) User code runs in the middle of the rate limiter, and of the batch
processor, while the clock goes on.  `PROJECT.json` lists each hazard at its
line with the properties that watch it.

What makes each part correct: a service has at most one task and is never
forgotten; a silent service recovers, a fresh one is not restarted, a healthy
answer is true (orchestrator); the log follows the state and is quiet otherwise
(publisher); executions respect the delay, delays respect their bounds
(backoff); every popped item is processed, recorded as failed, or knowingly
dropped (queue and batch); nothing is spawned unless every init job succeeded
(start-up); every dependent gets an instance of its own, and construction ends
(injection).

## 2. Modules

### `ServiceManager.tla` (orchestrator, health endpoint's handler)

One action is one stretch of code between two points at which another thread can
be seen: an await or an access to an atomic.

| Variable | Code |
|---|---|
| `heart`, `failingSince` | the two `AtomicUsize`s of `ManagedService` |
| `handle` | `None`, or `Some` of a task that is `running`, `aborted` (told to end, still on its last stretch) or `done` |
| `detached` | running tasks whose `JoinHandle` was dropped (tokio detaches them) |
| `healthy` | what `is_healthy()` returns |
| `pc`, `at`, `ts`, `lastBeat` | where each checker is, its service, the locals `timestamp` and `last_beat` |
| `dead`, `since` | the not yet consumed part of `ServiceReportSummary.dead` |
| `answer` | last status the endpoint gave to each probe |
| `now`, `spawned` | the clock; progress of `spawn_services` |

`BeginCheck`, `LoadHeart`, `AskHealth`, `ClearFailing`/`MarkFailing` are `check`:
the clock is read once per round, the heart, the health and the mark separately
per service.  `DecideRestart`/`TooRecent`/`RoundDone`/`Wake` are the loop of
`monitor_with_recovery`, each decision with a fresh reading of the clock against
an old report.  `AbortFinished`, `AbortPending`, `Join`, `JoinTimeout` are
`abort`, which holds the mutex while it awaits; `SpawnTask`, `SpawnBails`,
`SpawnResets` are `spawn`, which takes the mutex again.  `Respond` is the
handler of `GET /health`.  `Beat`, `Panic`, `AbortLands`, `Diagnose` are what
user code may do.  `Parallel = FALSE` is a single-threaded runtime: a stretch of
code without an await is then not interrupted by any other task.

Abstractions.  A sleep and the ten second timeout end after any number of clock
ticks, since the sleeper, tokio's timer and the clock are independent.  `Beat`
reads the clock and stores it in one step; it comes from the service's own task,
so a heartbeat handed to helper threads that outlive the task is outside of the
model.  The scan of the report is one step per service.  `reasons`, names and
log messages are left out.  `ConstantsAssumption` keeps all sums within `i32`
and demands `StartTime > AttemptRecoveryAfter` (a Unix time against a configured
delay).  `failing_health_checks_since` shares the code's sentinel 0.

### `ServiceManagerHistory.tla`

Adds two history variables (`spawnedAt`, `sickSince`) that no guard reads, for
the properties that compare a restart with the service's past.

### `ReportPublisher.tla`

`ServiceReportPublisher`: one action for `handle_report`, with the number of
dead services as its input, and two history variables, the last summary and the
last message.  The number of services is fixed after `spawn_services`.  At most
one summary's timestamp per clock value is not assumed: two may be equal.

### `Backoff.tla`

`field` is the `HashMap` as a total function, `Vacant` where there is no entry
(a real one has count >= 1).  `Event`, `SingularEvent`, `Clear` are the methods;
`Start` and the two `Finish` actions are `backoff_generic`, which all `backoff_*`
functions call, with the clock free to advance while the caller's function runs.
`exec` says which item is running; `&mut self` excludes the other methods
meanwhile.  A call on an item that is not ready returns `None` and changes
nothing, so it has no action.  `Wrap` is unsigned arithmetic in a release build,
on a word as small as `U64Max` says; a debug build panics instead.  `ranAt` is a
history variable.  `ConfigAssumption` (minimum <= maximum, base > 0) is what the
documentation presumes; the code does not check it.

### `QueueReceiver.tla`

One receiver of the shared queue.  A priority queue holds an item once, so it is
a set, and the order of `pop` is left open (priorities are not modelled).
`CheckLength`, `Poll`, `Slept`, `CheckDeadline` are the parts of the loop of
`recv_with`, with the lock free between them; `Poll` is `try_recv_with`, the
loop under the write lock in one step and with one reading of the clock.  Each
call picks its configuration from `Configs`, which stands for
`config.with(overrides)`; `None` is an absent option.  `Push` and `Steal` are the
other users of the queue, `Cancel` is a dropped future.  `takenAt` is a history
variable.  The clock does not step back and `max_chunk_size` is at least 1.
`batch_strategy` has no effect on the code and is left out.

### `ProcessBatch.tla`

Extends `QueueReceiver` by the job around it and instantiates `Backoff` for the
tracker, with its `field` as `tracker` and nothing executing.  `Begin`,
`Receive`, `Retain`, `Prepared`, `BatchFailed`, `BatchSucceeded` follow
`process_batch` from await to await; `TimedOut` drops the future at any of them.
The preparations end together (`join_all`).  `failedAt` and `triedAt` are history
variables.  One job owns the receiver; `SharedReceiver` has several.

### `LoopingJob.tla`

Extends `ServiceManager` by the loop inside each task: `LoopBeat`, `Lock`,
`Finish`, `Repeat`.  `healthy` now stands for `consecutive_failures = 0`, and
`Beat`, `Panic`, `AbortLands` happen only where the loop allows them (`End`,
`EndUnpolled`); `LoopSpawn` and `LoopMonitor` are the manager's steps, which put
a spawned task at the top of the loop (`StartLoops`).  `LoopTick` lets the clock go on only while jobs work or
sleep, at most until `limit`: tasks are prompt, monitors are not.  `Lock` waits
for ever where the code gives up after a minute; `LockIsFree` says that it never
waits at all.

### `Application.tla`

Extends `LoopingJob` by `run_custom`: `Validate`, the vector of init jobs
(`InitJobSucceeds`, `InitJobFails`, in order, the first error ends it),
`Register`, `StartService` (one turn of `spawn_services`), `Supervise` (the
manager is shared, the endpoint's task spawned) and from then on
`MonitorServices`.  `runConfig` is drawn at the start: whether `validate` accepts
it, and whether it asks for an endpoint.  `endpoint` is the state of the task of
`health_endpoint::run`, which may end while it binds or serves (`EndpointEnds`)
and which nobody joins.  The requests it serves are the probes of
`ServiceManager`.  What an init job does, and how long it takes, is left open.

### `Injection.tla`

Extends `Application` by what `inject!` and `application!` expand to.  `Fields`
gives the field types of each type in order, `Provided` the types of the section
`provided`; the rest of `Type` are components, jobs and services.  An
`Arc<dyn Trait>` for which a component is listed (`as dyn Trait`) is that
component, as its provider constructs it in the same way.  `stack` holds the
constructors that are running: `ConstructRoot` calls the one of the next entry of
the lists, `ProvideComponent` that of the next field, `ProvideClone` takes the
next field from what the application holds, and `Constructed` returns.  A frame's
`n` numbers the instances of its type, `made` counts them.  `StartUp` is a step
of `Application`, which waits for the list of init jobs before it runs one, and
for the list of services before it registers them (`ListsReady`).  `StackLimit`
is the size of the thread's stack: a call beyond it does not return.

### `SharedReceiver.tla`

`process_batch` called by several jobs with one `&Mutex<QueueReceiver>`.  `where`
says whether a job blocks a thread before the mutex (`lock`), polls the queue
behind it (`poll`), sleeps with the guard (`sleep`), or awaits its processor
without it (`process`).  A job in `lock` or `poll` occupies one of `Threads`
threads; one that is to be polled needs a free one.  `expired` is the timer of
`timeout`, which acts only when the job is polled.  The queue is its length, time
is abstract (any sleep or timeout may end at any moment), and there is no
`max_wait` and no cooldown: `QueueReceiver` has those.  `MinChunk = 0` is allowed;
`Take` then cannot happen on an empty queue, and the job stays on its thread, as
the code's loop does without an await.

### `UnhealthyTime.tla`

`ServiceManager` in the arithmetic of the code.  `WordSpec` has its variables, and
its actions but for those that decide on timestamps: the silence of a heart
(`WordSilent`), the failing mark and the minimum of line 254
(`WordMarkFailing`, `WordEarlier`), and the restart decision (`WordDue`).  Time
`t` is the timestamp `Epoch + t`; `Word` cuts it, and every sum, to a word of
`-Half .. Half - 1` (`Half` is 2^31 in the code).  A stored time 0 is the literal 0
of the code, which `WordOf` compares with the words as it is: they may be negative,
and a mark whose word is 0 counts as none.  It models a release build; a debug
build panics where a sum wraps.

### The abstract specifications

* `Supervision.tla` is what the orchestrator promises of its tasks: one per
  service, begun only when there is none and with a fresh sign of life.
  `ServiceManager!Supervises` instantiates it with `beat <- heart` and `task` from
  `TaskOf`, which counts detached tasks too.
* `RateLimit.tla` is what the backoff tracker promises to the functions it
  guards: an item that ran and registered an event rests for its period, which
  grows within its bounds until the item is forgotten.  `Backoff!LimitsRuns`
  instantiates it with `period` from the entries' delays.

`LoopingJob` and `Application` implement `ServiceManager` without a mapping: they
have its variables, and every step of theirs is one of its steps or none.  So does
`Injection` implement `Application`.

### Proof and MC modules

`*Proofs.tla`: see section 5.  `MC*.tla` hold the values of constants that a cfg
cannot write down.

## 3. Runs

Every run that passes is exhaustive for its bounds.

| Run | Instance | Properties | What it shows |
|---|---|---|---|
| `sm_supervised` | 2 services of ttl 1, the first `Blocking`, 1 monitor, 1 probe, delay 0, times 1..3, with history, `HFairSpec` | `SuccessIsEarned`, `SilentServiceRecovers`, `NoRestartStorm` | success means every service had beaten in time; a silent service recovers behind one that cannot be aborted, and not before ttl + delay after its last spawn |
| `sm_two_monitors` | 1 self-diagnosing service of ttl 1, 2 monitors, delay 1, times 2..6, `WordSpec` with a word that wraps after time 5 | `TypeOK`, `AtMostOneTask`, `NeverForgotten`, `AwaitsAborted`, `SilenceIsExact`, `FailingSinceIsSticky`, `Supervises`, `ManagerUntilWrap` | racing checks never move an existing mark, racing restarts neither duplicate nor lose a task: the manager implements `Supervision`, on both sides of the wrap, which also leaves the silence exact; before it, words make no difference |
| `application` | 2 init jobs, 1 failing looping job (delay 1, maximum 2, takes 0 or 1) with a diamond of dependencies, 1 monitor, times 3..9, `InjFairSpec` | `InjTypeOK`, `InstancePerDependent`, `NothingRunsBeforeInit`, `LockIsFree`, `PunctualJobIsNotSilent`, `RecoversWithoutEndpoint`, `ConstructionEnds` | one instance for every dependent, and an end to their construction; the start-up's order; restarts at any point of the loop; supervision outlives the endpoint |
| `publisher` | 2 services, interval 2, times 1..7 | `TypeOK`, `LogIsCurrent`, `LogIsRecent`, `HealthyIsQuiet` | changes are always logged, steady health at the interval |
| `backoff_exponential` | 2 items, Exponential(2) from 1 to 3, times 1..12 | `TypeOK`, `CountsAreSpaced`, `RateLimited`, `DelayNeverShrinks`, `LimitsRuns` | the rate limit under any mixture of calls: the tracker implements `RateLimit`, within the bounds of the delays |
| `queue_receiver` | 2 items, three configurations, times 4..8, `FairSpec` | `TypeOK`, `TakesAreSpaced`, `DropsOnlyRecent`, `ReturnsAreEarned`, `RecvReturns`, `AvailableIsReturned` | the cooldown under any mixture of calls; calls end, with items or late |
| `batch_backoff` | 2 items, Exponential(2) from 1 to 2, timeout 2, times 1..6 | `BatchTypeOK`, `TrackedSinceFailure`, `NoEarlyRetry` | failures are recorded exactly, retries wait |
| `shared_receiver` | 3 jobs, 3 threads, minimum 1, `FairSpec` | `TypeOK`, `GuardIsReceiving`, `JobEnds` | with a thread for each job the guard is handed on and every timeout ends its job |
| `shared_receiver_starved` | 2 jobs, 1 thread | `JobEnds` | **violated**, see below |
| `batch_cooldown` | 1 item, cooldown 2, delays of 2 | `DroppedWasUsed` | **violated**, see below |
| `sm_failing_health_check` | 1 service, 1 thread | `RestartsOnlyFailing` | **violated**, see below |
| `backoff_once` | 4-bit word, the configuration of `once()` | `NeverReadyAgain` | **violated**, see below |

The bounds.  A restart needs a spawn, ttl + delay + 1 ticks of silence, an
abort and a spawn: times 1..3 with delay 0 reach it once for each service, 2..6
with delay 1 by silence and many times by failing health checks.  Two
monitors are enough for every pair of interleavings at one mutex; two services
are enough for a report with an earlier and a later entry, which is the only way
services influence each other.  The word of `sm_two_monitors` wraps
after time 5: a service that fell silent is restarted before that, and beats, due
times and decisions lie on both sides of the wrap.  For the backoff tracker twelve ticks let Exponential(2) reach its cap and
then register again.  Each property also has a mutant in `PROJECT.json`, a
plausible bug in the code that the same instance detects.

For the queue, five ticks fit two takes a cooldown apart with a drop between;
in `batch_backoff` two failures of an item, the second with the longer delay, and
a third attempt fit into the clock; two items are enough for a batch that fails
in part.  `application` has time for two full loops and several restarts, and two
init jobs let the second one fail after the first.  Its dependencies are a job
that wants two components and the repository that each of them wants too, and a
singleton that refers back to the repository, a cycle that only `provided`
breaks; the deepest construction takes 3 of the 4 frames of `StackLimit`, and
`ConstructionEnds` would be violated if it took more than 4.  In `shared_receiver` one job
holds the guard, one blocks and one processes at the same time.

The violated runs state a sentence of the documentation.

* `service_manager.rs:66`: services "will be restarted after they have been in a
  failing state for this many seconds".  In `sm_failing_health_check` line 254
  takes the minimum of the failing mark and `unhealthy_since`, which is still 0
  when the heart is not silent; the service counts as failing since 1970 and is
  restarted in the round that first sees it fail.  `RestartsTheSilent` proves
  where the sentence does hold.
* `backoff.rs:203`: "it will never be ready again unless cleared".  `once()` uses
  `u64::MAX` as the delay, and `last + delay` overflows (lines 113 and 166).
  `OnceNeverBacksOff` proves that in a build whose sums wrap every item is then
  always ready; `LongDelayIsOnce`, that a long delay that does not overflow would
  do what the comment says.
* `queue_consumer.rs:138`, "only the first one is used": `process_batch` drops an
  item whose backoff is not over after the receiver has noted it as seen; the
  cooldown then swallows the next copy although the first was not used.
  `CooldownAloneLosesNothing` proves that it takes the backoff to do so.
* `queue_consumer.rs:273`, "the entire job will be cancelled if it exceeds this
  time": line 291 holds the guard of a blocking mutex across an await.  With fewer
  threads than jobs, one that waits for the mutex keeps the thread that the
  holder needs to go on or to see its timer; neither ever ends
  (`StarvationIsForever`).  With a thread for each job, `shared_receiver` finds that
  every expired job ends.

Three more things that the model makes visible, without a run of their own.  A
service that beats while the monitor awaits the abort of an earlier one is
restarted nevertheless, as line 176 of `service_manager.rs` decides on the old
report (`RestartsOnlyFailing` fails for two services with `SelfDiagnosing = {}`).
An iteration of exactly `max_iteration_secs`, "the longest you would ever expect"
(`service.rs:144`), makes a looping job silent, since death is at `>=` (line 236) and
its ttl is exactly its delay and maximum iteration (`service.rs:227`):
`PunctualJobIsNotSilent` is about iterations below the maximum, and fails at it
when that condition is dropped and `Slowest = MaxIteration`.  And
Cliff(c) with c >= 1 delays c + 1 times with the minimum interval, not c times as
`backoff.rs:236-239` says, because line 119 compares the count before the event.

Where a word wraps, the restart decision departs from line 66.  Until the clock or
a due time passes the largest i32, the code does what `ServiceManager` does
(`ManagerUntilWrap`), and `Supervises` and the safety invariants hold at any time.
After the wrap (in 2038 for `SystemClock::default()`) a service that is due may never
be restarted, since its due time is a large positive word and the clock a negative
one; and a delay that reaches past the wrap is none.  While the words are negative, as
those of `SystemClock::accelerated(2)` are today, the minimum of line 254 is the
failing mark itself instead of 0, so a failing health check does wait for its delay.
The disagreements across the wrap have no run of their own.

`NoRestartStorm` is about one monitor, as `run_custom` starts: with two, the
second may act on a report that is older than the first one's respawn.

## 4. Fairness

`FairSpec` assumes weak fairness of the clock, of `spawn_services`, of each
monitor, and of the end of each aborted task that is not in `Blocking`.  The
runtime polls main and every ready task, so a monitor's next step happens;
tokio drops an aborted task when it next yields, which an ordinary service does
and a `Blocking` one may never do.  Nothing obliges a service to beat, to panic
or to become unhealthy, nor anyone to probe.  The abort timeout needs no
fairness of its own: it is a step of the monitor that is enabled until the task
has ended.  `Blocking` services need parallel threads, as the code would hang
with them on one (`ProcessesAssumption`).

`FairSpec` of `QueueReceiver` assumes weak fairness of the clock and of the
receiver's own steps: the runtime polls its task, and a sleep ends once its time
has come.  `WakeTime` cuts a sleep at the end of the bounded clock.

`AppFairSpec` is the same for `Application`: the clock from the first spawn on,
the monitor once `run_custom` has become it, and the end of a task that was
aborted (`Reaped`), which never means a panic of one that was not.  Nothing obliges an
init job to end, the endpoint to come up, or a job to make progress or to panic.
`InjFairSpec` adds that construction, which is ordinary code without an await,
goes on.

`FairSpec` of `SharedReceiver` assumes weak fairness of a call's timer and of its
polls, which run on a thread of their own, and strong fairness of `Lock` and
`Cancel`: a woken task gets one of the threads that become free, since the
runtime's queues are first in first out, and parking_lot hands the mutex to its
longest waiter from time to time.  A queue need not fill, a processor not end.

## 5. Proofs

All theorems hold for every value of the constants that satisfies the module's
assumptions.

* `ServiceManagerProofs`.  `TypeCorrect`: per action; the only arithmetic is that
  a silent service's due time `lastBeat + Ttl` is at most the check's timestamp.
  `SafetyInvariant`: `SafetyInv` adds to the stated invariants that no task is
  detached (a handle is dropped only after its task ended, which gives
  `AtMostOneTask`) and that two monitors never hold one service's mutex.
  Without this exclusion `AwaitsAborted` is not inductive: another monitor could
  drop the finished handle and start a task under the waiting one.  `OneTask`,
  `NoneForgotten` and `AbortAwaitsAborted` are its consequences.
  `ProbesAreRight` proves `SuccessIsEarned`: the invariant `Walk` says that each
  service behind the probe is in its dead list or has beaten late enough, and it
  survives everybody else's steps because hearts only rise (`HeartStep`), as
  no beat is later than the clock.  `FirstMarkStays` is the action property of the
  failing mark.  `ImplementsSupervision` is the refinement: with no task detached,
  `TaskOf` follows the handle, and each action maps to one of `Supervision` or to
  a stutter.
* `ServiceManagerHistoryProofs`.  `NoStorm`, for one monitor: the invariant
  `Knows` says that what the monitor has learnt of a service concerns the task it
  has now: no beat it loaded is older than the last spawn, a due time in its
  report is at least a ttl later, and a report is consumed before the service is
  started anew.  A second monitor breaks exactly this.
  `RestartsTheSilent` proves `RestartsOnlyFailing` for one service without health
  checks of its own on a single thread (`AloneOnOneThread`), for any number of
  monitors and probes: `Current` says that what a monitor has read still agrees
  with the heart, since nobody interrupts its stretch.  None of the three conditions
  can go; TLC finds a restart of a service that is not failing without each.
  The words of `UnhealthyTime`, for every width and epoch: a word is its number less
  its era times the width (`WordOfEra`), so a difference below half the width is
  exact (`WordDifference`, hence `ExactSilence`).  `WordStep` splits a step of
  `WordSpec` into one of `ServiceManager` or one of its three decisions on words.
  The latter touch neither handles nor tasks (`WordStepFrame`), so that `SafetyInv`
  stays inductive: `WordsAreSafe`, `WordsSupervise` and `WordMarkStays` hold wherever
  the words wrap.  `RightUntilWrap` shows that before the wrap each decision on words
  is the one of `ServiceManager`: with no time beyond the largest word (`Past` keeps
  the stored times behind the clock) each word is its number, and the literal 0 is
  below all of them (`SmallWord`).  `WordsImplementManager` concludes that a clock
  that does not reach the wrap leaves `ServiceManager` as it is.
* `ApplicationProofs`.  `LoopsAreServices` and `AppImplementsManager` show that
  every step of the looping jobs, and of the application, is a step of
  `ServiceManager` or none, so its theorems hold of them.  `AppLocksAreFree` ties
  the lock to the step of the one living task, which needs `SafetyInv`.
  `AppPunctualJobs`, for one monitor and `Slowest < MaxIteration`, bounds the age of
  each heartbeat by the step its task is at.  Under the same conditions
  `PunctualJobsAreLeftAlone`: a loop whose job does not fail is never aborted.  Its
  invariant `Justified` says that such a service has no pending task while it is on
  the monitor's list or about to be aborted; a restart finds it off the list, so the
  new task is not on it either.  `InitComesFirst`: nothing was spawned
  before the phase is `spawn`, which is reached with all jobs done.
  `OneInstancePerDependent`, for any graph of dependencies, cyclic ones included:
  `StackInv` says that the running constructors build different instances, so
  that `Got`, the fields asked for so far, gains exactly one element with each
  field (`FieldIsAsked`) and none with a call or a return (`RootBegins`,
  `ConstructorReturns`); `OneEach` counts them against the instances.
  `InjImplementsApp` carries the theorems of `Application` over to `Injection`;
  `WholeProgram` and `WholeProgramIsCalm` collect what follows for the program that
  `application!` writes, up to `Supervises`.
  `NoConstructorRepeats` and `StackSuffices`, for graphs whose unprovided fields
  lie in lower layers (`Layered`; every cycle is cut by a provider): along the stack
  the layers descend (`Descends`), so that no type is on it twice and as many frames
  as there are layers suffice.  This is the safety part of `ConstructionEnds`.
* `ReportPublisherProofs`.  The invariant ties the counters to the last summary
  and the log time to the last message; all four promises follow.
* `BackoffProofs`, for configurations with `NoOverflow` (which `once()` lacks); only
  `BackoffTypeCorrect` and `OnceNeverBacksOff` are about sums and products that wrap.
  `GoodEntry` bounds every entry and says that a cliff's delay above the minimum
  is past the cliff, which makes delays monotone; the rest of `Inv` says that a
  recorded execution is not later than its entry's last event and that a running
  item stays ready.  From it: bounds, spacing, monotonicity, `RateLimited`, and the
  refinement `ImplementsRateLimit`.  `LongDelayIsOnce` adds that a minimum delay
  beyond the end of the clock is never over.
* `QueueReceiverProofs`.  The invariant says that `last_appearances` equals the
  history of takes, whatever overrides are used; `PollStep` derives both cooldown
  properties from it and from `TimeAssumption` (an absent entry is older than any
  cooldown).  `ReceiverReturnsAreEarned` needs the items to be finite, for the size
  of a chunk.
* `ProcessBatchProofs`.  `ItemsReady` says that what is attempted stays ready until
  it is reported, since time only makes an entry readier (`ReadyStays`); so the
  event of a failure is never inside a delay window (`RecordedEntry`) and the
  tracker is exact.  This holds even for delays that overflow.
  `BatchNoEarlyRetry` does not: under `Limiting` (a tracker without overflow)
  `DelaysSuffice` keeps every delay at the minimum or above, and what is ready is
  then past it.  `BatchUsesReceiver` maps each step to one of `QueueReceiver`.
  `CooldownAloneLosesNothing` needs `UsedInv`: every take is handed to the processor
  before the next call, as nothing stands between the two without a backoff.
* `SharedReceiverProofs`.  `GuardIsDropped` is inductive with the types.
  `StarvationIsForever`: in a state `Starved`, where all threads are taken by jobs at
  the mutex and its holder sleeps, no call can begin, resume, end or be cancelled, so
  the state is closed under every step.

Only model-checked: the liveness properties (`SilentServiceRecovers`,
`RecoversWithoutEndpoint`, `ConstructionEnds`, `RecvReturns`, `AvailableIsReturned`,
`JobEnds`), which need fairness and are out of the prover's reach.

## 6. Not modelled

* The blocks, wrappers (`as`) and expressions that an application writes into the
  sections of `application!`, and constructors written by hand: its own code.
* Errors, utilities and re-exports (`error.rs`, `util.rs`, `lib.rs`): formatting and
  compile-time code.
* hyper's server beyond whether its task is alive, tokio's scheduler beyond the
  rules above, and tokio's timer, which `TokioSleeper` scales.
* A system clock that steps back: `SystemTime::duration_since(..).unwrap()` in
  `recv_with` and `try_recv_with` then panics (`queue_consumer.rs:86` and 114).
  What a panic of a task leads to is in `ServiceManager` and `LoopingJob`.
* Priorities and batch strategies of the queue: the order of `pop` is left open,
  and the code never reads the strategy.
