# A TLA+ verification project for qlib-rs

qlib-rs ports Microsoft's Qlib, a quantitative investment platform, from Python
to Rust.  Most of its 70 000 lines in `crates/core` are sequential numeric or
text conversions.  What is hard to test is the rest: a multi-threaded producer
queue, a pool of child processes behind pipes with timeouts, vector
environments that exhaust and retire one by one, a trainer that saves, fails
and resumes, and backtest loops that are suspended and resumed inside nested
executors.  This project models that rest.

`PROJECT.json` lists components, runs, seeded faults, the source lines each
definition stands for, findings, hazards and theorems.  This file explains them.

## The system: inventory

Paths are below `crates/core/src` unless they start with `crates/`.

| Component | State | Operations | Talks to | What is hard | What makes it correct |
|---|---|---|---|---|---|
| Seed queue, `data_queue.rs` | bounded channel, `activated`, `done`, producer error, cancel flag, completion channel; in the producer: epoch, job and result channels, `pending`, `next`, `scheduled` | `activate`, `put`, `get`, `consumer`/`next`, `cleanup`, drop; a producer thread, scoped worker threads | vessels read seeds from it (`training_vessel_seed.rs`) | owner, producer and workers interleave; panics; cancellation while blocked | sampler order, no loss, outcome last, cleanup leaves nothing, no deadlock |
| Subprocess backend, `finite_subprocess*.rs`, `finite_shmem.rs`, `crates/shmem` | pool state Open/Poisoned/Closed, next request id, children, pipes, mapped region | construction, batched reset and step, `close`, drop; the child's loop | finite vector environment above, processes below | late answers, timeouts, dead children, wrapped ids, overlapping region access | answers belong to requests, an open pool is quiet, close reaps, calls return |
| Finite vector environment, `finite_vector*.rs`, `finite_dummy.rs`, `finite_observation.rs` | alive ids, zombie flag, collector guard, default placeholders | `reset`, `step`, `collect_guarded_with` | a backend, loggers, the collector | duplicates in a request, exhaustion at different times, failing loggers | a retired environment is never asked again, exhaustion is reported once |
| Environment episodes, `environment_reset.rs`, `environment_step.rs` | seed iterator, Dead/Alive status, episode histories, log collector | `reset`, `step`, log finalisation | simulator, interpreters, reward | a stop raised in the middle of a reset | each seed used at most once, an exhausted environment stays so |
| Trainer, `rl_trainer_*.rs`, `training_vessel_*.rs`, `rl_early_stopping.rs` | iteration, episode and stop counters, metrics, phase, best weights | `fit`, `test`, `run_phase`, callbacks, `state_dict`/`load_state_dict` | vessel, collector, callbacks, checkpoint storage | failures inside seed contexts, resume, callbacks that stop | contexts exit once, resumed run = uninterrupted run |
| Checkpoints, `rl_checkpoint_callback.rs`, `rl_checkpoint_file.rs`, `rl_trainer_checkpoint.rs` | last saved iteration and time, files, `latest` link | `on_hook`, `save`, `restore` | trainer, file system | crash in a save, failed save and retry | a checkpoint named latest can be read |
| Collector and replay, `rl_candle_collector.rs`, `rl_candle_replay.rs`, `rl_replay_index.rs` | current data per environment, ring of transitions per environment | `reset`, `collect`, ring insert and index walks | vector environment, policy | surplus environments, episodes that straddle ring ends | exactly the target collected; episode links stay inside the ring |
| Log writers, `rl_log_writer.rs`, `rl_metrics_writer.rs` | per-environment episode counts, rewards, buffers | `on_env_reset`, `on_env_step`, episode ends | vector environment | interleaved episodes | each episode logged once |
| Backtest loop and executors, `backtest_loop.rs`, `resumable_nested_executor.rs`, `executor_lifecycle.rs`, `shared_executor_lifecycle.rs`, … | phase, open child, calendar step, progress bar | `resume`, `close`, drop, `collect_data` | strategy, child executor, account, calendar | suspension inside a child, errors and closes in any phase | children and progress are closed exactly once, bars settle in order |
| Account and position, `account.rs`, `position.rs`, `position_cash.rs` | cash, delayed cash, holdings and their prices, accumulated returns, cost and turnover, rows | deals, `settle_start`, `settle_commit`, bar ends | executors, exchange | settlement across errors; the order in which account and position change | cash is conserved, settlement brackets match, the account explains the position |
| Exchange, `exchange_*.rs`, quotes; the order loop of `simulator_executor.rs` | quotes, limits, amounts dealt today | tradability, limits, sizing, deals | account | rounding, costs and limits over the orders of a bar and a day | purchases are paid for, limits hold, proceeds wait |
| Decisions and indicators, `decision_*.rs`, `trade_*.rs`, `order*.rs`, … | decision ranges, indicators | range updates, aggregation | executors, strategies | ranges narrowed by an outer decision | inner range within outer |
| SAOE, `saoe*.rs` | per-order adapters, live generations | generate, reset, update | backtest loop, simulator | stale generations | an action reaches the order it was made for |
| Calendars, `calendar_*.rs`, `file_calendar_*.rs`, `time_calendar_cache.rs` | caches, calendar files | lookup, rewrite | data providers | load, clear and rewrite overlap; a panic inside a load | answers never go back, one budget, no deadlock |
| Everything else | none or immutable | conversions, formulae, text formats, operating system queries | | wording and floating point | differential tests against Python |

## Modules

| Module | Models | Kind |
|---|---|---|
| `SampleStream` | what a consumer of the seed queue may rely on | abstract specification |
| `DataQueue` | `data_queue.rs` | detailed specification, implements `SampleStream` |
| `DataQueue_proofs` | | inductive invariant, safety theorems, refinement |
| `MCDataQueue` | | TLC instances |
| `SubprocessPool` | `finite_subprocess_backend.rs`, `finite_subprocess.rs`, `finite_shmem.rs`, `crates/shmem` | detailed specification of parent, pipes, children and region |
| `SubprocessPool_proofs` | | inductive invariants, safety theorems |
| `MCSubprocessPool` | | TLC instances |
| `FiniteVector` | `finite_vector.rs` over `finite_dummy.rs`, `environment_reset.rs`, `environment_step.rs` | detailed specification with a free caller |
| `Collector` | `rl_candle_collector.rs`, the phases of `training_vessel_runner.rs`, the guard of `finite_vector.rs` | composes: extends `FiniteVector`, takes the caller's place |
| `FiniteVector_proofs` | | inductive invariants, safety theorems |
| `Collector_proofs` | | lemmas on ordering, inductive invariant, safety theorems |
| `MCFiniteVector`, `MCCollector` | | TLC instances |
| `EarlyStopping` | `rl_early_stopping.rs`: what the callback keeps and decides | operators, used by `Trainer` |
| `Checkpoints` | `rl_checkpoint_callback.rs`, `rl_checkpoint_file.rs`: when a save is due, the save, the directory | actions of callback and storage, extended by `Trainer` |
| `Trainer` | `rl_trainer_driver.rs`, `rl_trainer_state.rs`, `rl_trainer_checkpoint.rs` | composes: driver, both callbacks, processes that die |
| `Trainer_proofs` | | inductive invariants, safety theorems |
| `Generator` | what the caller of a resumable run may rely on | abstract specification |
| `Backtest` | `backtest_loop.rs`, `resumable_nested_executor.rs`, `recursive_nested_inner.rs`, `executor_lifecycle.rs`, `execution_calendar.rs`, `position_cash.rs` | detailed specification, implements `Generator` |
| `Backtest_proofs` | | inductive invariant, safety theorems, refinement |
| `CalendarCache` | `calendar_provider.rs`, `local_calendar_loader.rs`, `file_calendar_backend.rs`, `file_calendar_storage.rs`, `calendar_file.rs`, `calendar_write.rs` | composes: shared cache, provider, loader, files |
| `CalendarCache_proofs` | | inductive invariant, safety theorems |
| `Dealing` | `simulator_executor.rs`, `exchange_deal.rs`, `exchange_volume.rs`, `exchange_trade.rs`, `exchange_sizing.rs`, `position.rs`, `position_cash.rs`, `account.rs` | detailed specification of the orders of each bar |
| `Dealing_proofs` | | lemmas on sizing and sums, inductive invariants, safety theorems |
| `MCTrainer`, `MCBacktest`, `MCCalendarCache`, `MCDealing` | | TLC instances |

### DataQueue

*State.*  The owner of the object is one thread at a time, for the type is not
`Sync` (also behind `Arc<Mutex<DataQueue>>`).  `owner` is its place in the
method it executes, `queue` the output channel, `completion` the one-place
completion channel, `done`, `activated`, `producerError`, `cancelled` the fields
and atomics of those names.  The producer's locals are `producer` (its place),
`epoch`, `len` (length of the epoch's index list), `next`, `scheduled`, `jobs`,
`results`, `pending`; each worker has a place and the job it holds.  An item is
its position in the sampler's order, or was put by hand.

*Actions.*  One action for each step between two synchronising operations, so
that everything another thread can see in between is there: `get` is a read of
`done`, a `try_recv`, a wait and a second look; `cleanup` is cancel, drain, join,
second drain; `send_with_retry` a look at the flag, then a send that succeeds
or times out.  A timeout is a step that is possible whenever the operation is
not.  `get` before `activate` spins for ever in the code and so in the model.
`SamplerFails`, `LoadFails` and a worker's failing load stand for returned
errors, invalid indices and panics alike.  Endless repetition is `Repeat = -1`.

*Not reachable, hence no action:* the `recv(receiver) -> Err` arm of `get` and
the producer's `ConsumerDisconnected`, for the queue holds both ends of its
channel while it lives.  *Left out:* queue and worker sizes below their
defaults, `epoch` saturation.

*Abstract specification.*  `SampleStream` knows no threads: items are announced,
become available and are delivered in order, once each; the outcome is told
after the last of them and never changes; closing gives the rest up.
`ImplementsStream` maps `available` to what was sent, `delivered` to what was
received.

*Properties.*  `VerdictAfterPrefix`: the end or the error is reported only after
every item before it.  `QuiescentAfterCleanup`: no thread survives cleanup or
drop, and a cleaned queue stays empty.  `AtMostOneLateItem`: what the second
drain is for, and that one is enough.  `WindowNeverBlocks`: neither job nor
result channel is ever full when somebody sends.  `GetReturns` and
`CleanupReturns`: no deadlock of owner, producer and workers.

*Bounds.*  Two workers, channel of one or two, epochs of none, two or three
items, one or two epochs, one put by hand: three items are more than the
capacity and more than the prefetch window of two, so that the producer blocks
and results arrive ahead of their turn; the second epoch shows what the first
leaves behind.  The proofs need no bound but those on how often the owner puts
and on epochs (`MaxPuts`, `MaxEpochs`), which are parameters there too.

*Fairness.*  Weak fairness of the owner inside a call, of the producer and of
each worker: threads that can run do run, which the operating system's
scheduler gives.  No lock is contended for in a loop, so nothing stronger is
needed.  The dataset's and sampler's code is assumed to return or panic.

### SubprocessPool

*State.*  `state` is `BackendState`, extended by the time before construction
and after drop.  `op` and `phase` are the parent's call and its place, `batch`
the requests of the call, `pos` the one it is at.  A request is known by its
serial number, which never repeats; on the wire travels the serial modulo
`setup.span`, the wrapping 64-bit id.  `requests[e]` and `responses[e]` are the pipes; the last
frame of a pipe holding more than `setup.room` frames is still being written,
and with no room no frame fits without a reader.  `child[e]` is the process,
`serving[e]` and `job[e]` the child's loop, `region[e]` the mapped observation as
payload, id and checksum, written and read in the order `write_frame` and
`read_frame` have.

*Actions.*  `reset_environments` and `step_environments` have the same control
and are one operation.  Every write and read can fail or time out whenever it
is not complete; every complete response may be rejected.  A failed batch
poisons the pool; `close` of an open pool talks to one child after the other and
turns to `terminate_all` at the first failure; `terminate_all` goes on past
failures.  The kill of a child that was already reaped always fails, as tokio's
does.  A child may fail, panic, die or stall anywhere.

*External.*  The handler a child runs is user code.  For the mapped region the
model takes the contract `crates/shmem/src/lib.rs` states in its module comment:
the writer completes `write_frame` before it sends its reply.

*Properties.*  `AnswersMatchRequests` is the promise to callers.
`OpenPoolIsQuiet` is why it holds although ids wrap: between two calls an open
pool has nothing in its pipes and no child at work.  `CloseReapsEveryChild`:
neither a first failure nor an already reaped child keeps later children
running.  `CallReturns`: nothing but the parent's own timers is needed for a
call to end.

*Bounds.*  Two children and two pools.  `Piped` has batches of nothing, of both
and of one twice, and up to six requests over three wire ids, so that ids wrap
twice; its pipes hold no whole frame, so that a child blocked on its answer and a
parent blocked on the next request occur.  `Mapped` has mapped regions and pipes
that hold a frame, so that a child works ahead of the parent's reads, and no
environment twice in a batch; five requests over two ids.

*Fairness.*  Only of the parent's steps, since each wait has a timer.  Children
owe nothing.

*Finding.*  Run `SubprocessPool_overlap`: with a mapped region and one
environment twice in a batch, the child writes the observation of the second
request while the parent reads that of the first, against the comment in
`crates/shmem/src/lib.rs:238-242` that the control channel serializes reads and
writes, and against `docs/migration-status.md:3877` that request ids remove the
stale-buffer race.  Most interleavings end in a checksum or id mismatch that
poisons a healthy pool.  One returns the second observation as the first answer:
`read_frame` takes the id before the write and payload and checksum after it.
Without duplicates (pool `Mapped` of run `SubprocessPool`) the answers are right.

### FiniteVector

*State.*  `alive` and `zombie` are the fields of `FiniteVectorEnv`, `known` the
placeholders it has captured (observation, reward).  Seeds are the numbers 1, 2,
and so on of one supply that all environments share, as they share the
`Arc<Mutex<DataQueue>>` of a vessel; `drawn` of them are gone.  `exhausted`,
`active`, `episode` and `left` are the environments': whether the seed source is
`Exhausted`, `EnvironmentStepRunner::active`, the seed installed and the steps
to its end.  `op`, `at`, `ids`, `pos` and `slots` are the call: its place, the
selection, the request it is at and what it will return.  `finished`,
`abandoned`, `faults` and `doubled` are history for the properties.

*Actions.*  There is one thread; what interleaves is failure.  A call is taken
apart where it can fail and leave work behind: one step per environment in the
backend, then retirement, then loggers, then defaults and the zombie test.  The
supply may end, a factory or first observation may fail or raise a stop, a first
observation may look invalid, a predicate or logger may fail; each keeps what the
code keeps (a lost seed, an installed episode, a dead source).

*Properties.*  `AliveUntilZombie`: the refill at the start of `reset` never
revives anybody.  `AliveTracksSeeds`: without failures and double mention, the
retired environments are those without seeds.  Both conditions are needed.  An
environment named twice in one `reset` is retired while it has seeds, for its
earlier place stays empty; `tests/finite_vector.rs:284` expects that.  And if one
environment of a batch runs out and a later one fails, the first stays alive in
the coordinator and dead in the backend, so that every later reset of it fails.
`CompleteRows`: an accepted answer that covers everyone has no empty place.

*Bounds.*  Two environments, episodes of one or two steps, supplies of no, one,
three or endless seeds (of which four are drawn), one failure, selections of
nobody, one, both in either order and one twice.

### Collector

*State.*  `pc` is the place of a pass in `collect_guarded_with`, in the vessel's
`train` or `evaluate` and in `collect`; `ready` and `rows` are the ids it steps
and their observations, an observation being known by the seed of its episode,
or 0 for a placeholder; `progress` counts episodes, `mark` is where the supply
stood.  All state of `FiniteVector` belongs to it too.

*Actions.*  Each call to the environment is `StartReset` or `StartStep` of
`FiniteVector`; the pass goes on when the call has returned.  `Record` and
`Replace` are the two halves of the loop around the reset of ended
environments.  A step of retired environments only has no reward while none is
known as the default, which ends the pass with an error (`Incomplete`).  An
observation is never missing here: an accepted reset of everyone, with which each
pass begins, has captured the default one.  Failures of policy, replay, factory, ready and done hooks and of
the mode switch are `RunFails` and `BeginFails`.  Training is asked for a number of episodes,
evaluation for so many steps (`INF` for each environment) that the model lets
them never be reached; it is run on finite supplies only, as the vessel does.

*Properties.*  `EpisodesExact`: whoever ends together or is retired, a training
pass collects what it was asked for, no more.  `RowsAreCurrent`: ids and
observations stay aligned, and nobody acts on an observation of an episode that
is over.  `EvaluationRunsEverySeed`: an evaluation that fails nowhere ends only
after every seed was run to its end.  `CollectReturns`: every pass returns, with
one exception that the property names: a training pass left with retired
environments only.  It is real: two environments, three seeds, three episodes;
both end together, the first gets the last seed and is dropped as surplus, the
second is retired and kept, and its made-up steps, with the rewards known by then,
never end an episode, so that `collect` never returns.  The standard vessel repeats its training seeds for
ever and so avoids it (`training_vessel_seed.rs:245`).

*Bounds.*  Three environments, so that some end together and others do not; one
or four episodes, fewer and more than environments; supplies that end before,
within and after a pass; a second pass over what the first left; one failure.

*Fairness.*  Weak fairness of the pass itself, one running thread; episodes end,
for simulators are assumed to be done after finitely many steps.

### Trainer

*State.*  `pc` is the place of the driver in `fit`, `test` or `run_phase`,
`phase` the phase it runs.  `runtime` holds the fields of `RlTrainerState` that
matter: the stop flag, the iteration, the stage and the one metric early
stopping looks at, tagged with the phase and iteration that measured it.  The
weights of the vessel are the iterations that trained them since they were
initialised: whatever a network is, that is what tells a resumed run from an
uninterrupted one.  With them goes, as history, how many of those came before the
last fit that began on them without a checkpoint.  `early` and `saver` are the two callbacks.  `files` and
`latest` are the checkpoint directory; they alone survive a crash, together with
the budgets.  A file is absent, half-written (`Broken`) or a whole graph of
weights, callback and runtime.  `latest` is a link, perhaps one that leads
nowhere, or a copy.

*Actions.*  One per hook or step of the driver; the callbacks act at the hook
they implement.  A save is taken apart into note, create, encode, remove, link
or open and fill, for a crash or an error between two of them leaves different
directories.  A failing plugin ends the call at any hook; a failing phase still
leaves its seed context, and the context may suppress the error.
`CallbackFails` is also the progress display at the head of an iteration;
`EarlyFails` tells a failure before the stop flag is set from one after it.
`FitFresh` is a fit without a checkpoint: it forgets the runtime, not the weights,
which stay as earlier calls left them.
`Crash` is external: the process dies at any step and another one, configured as
it likes, starts on the same directory.  `FitRestored` loads any whole file that
can be read, `FitBroken` meets one that cannot, `FitFails` stops between the
parts that are loaded one after the other.

*Properties.*  `TrainedOnce`: from one fit without a checkpoint to the next, over
any number of crashes, restores and failed calls, no iteration trains the same
weights twice.  A second such fit is the exception: it counts from 0 again on
weights that iteration 0 may have trained already, since `fit(None)` never touches
the vessel's weights (`rl_trainer_driver.rs:285-292`); the property starts over
there and says nothing of what trained the weights before.  `StopKeepsTheBest`: a stop leaves the
weights of the best validation of this fit, although a restored checkpoint
carries those of an earlier one.  `MonitorIsCurrent`: what is compared was
measured in this iteration and phase, also after a phase whose error was
suppressed.  `NamesHold`: nothing is written through a stale `latest.pth`.
`LossIsBounded`: an interrupted save costs the file it was writing.
`FinalStateSaved`: a fit that returned has its last state on disk.  This one
needs its condition `fresh`: the callback notes the iteration before the storage
has saved it, so that the end of a later fit with the same callback skips an
iteration whose save failed.  `OnlyFaultsFail`: leftovers of earlier calls never
make a call fail.  `SeedsReleased`: contexts and environments are given up on
every way out.  `CallsReturn`: also a fit restored past its last iteration ends.

*Bounds.*  Iterations 0 to 3 (a fit of three iterations counts to three, and
`StartIteration` starts none beyond), two calls, one failing plugin, one crash,
two values besides NaN and "not reported".  Two calls and one crash are what a
restore of one run's file by another needs; the proofs have none of these
bounds.  Four configurations: links with a restored best; copies every
iteration; relative links, timed saves and suppressed errors; no latest, a
baseline and a zero interval.  `MinDelta` is 0 in the run and any natural number
in the proofs.

*Left out.*  Mode "max" is modelled; "min" is its mirror image.  Infinite values,
loggers, the episode counter and the fast development limit.  The file name is
the iteration, as with the default `{iter:03d}.pth`.

*Fairness.*  Weak fairness of `Works`, the steps of the thread that runs the
call.  Nobody owes a call, a fault or a crash.

### Backtest

*State.*  Level 0 is the loop, levels 1 to `Depth` are nested executors, level
`Depth + 1` the atomic one.  One thread runs; `pc` says at which level and what
it does next.  `loop` is `BacktestLoop`'s phase, whether its progress scope is
open and whether reports exist, `bar` the progress bar.  `exec[l]` is the
executor in the session of level `l`, with its phase, the decisions it recorded
and the steps it passed over; `cal[l]` is that level's calendar; `prompting` are
the levels whose strategy waits for the caller.  `position` is the one
`PositionCash` all levels share.  `worth` is history: earnings less cost.

*Actions.*  `resume_inner` is taken apart where a plugin is called, for there it
may fail, and where the caller may get control: a decision shown before the level
begins (`Track`), the strategy (`Prompts`), an atomic decision shown (`Decides`).
A suspension goes up, and a resume goes down, through all levels in one step, as
nothing on that way can fail.  `CloseChild` takes the sessions down one by one.
`Fails` stands for every plugin, and for what the code itself refuses: a session
that still has its executor, a settlement inside a settlement, an unknown
settlement type, a finished calendar.  After a failure the executor stays in its
session as failed, as `docs/migration-status.md` describes for owned child
sessions, and an open settlement stays open, as `executor_lifecycle.rs:199-202`
says ("without rolling back earlier side effects").

*Abstract specification.*  `Generator` knows no levels: a run goes on only when
it is resumed, enters its scope at most once and leaves it exactly once, never
above something that is still suspended, publishes only after a complete run,
and ends once.  `LoopIsGenerator` maps the scope to the progress context.

*Properties.*  `SuspendedChain`: a caller that has control finds one chain of
executors, each waiting for the next, and no strategy asleep elsewhere.
`CashConserved`: settlements nest, fail and are closed without loss of cash, and
between two bars none is open.  `BarsCountOnce`: progress bar and records agree
with the calendars wherever a run was suspended.  `RunEnds`: resumes lead out of
the level they were answered in.

*Bounds.*  Two nested executors, so that one is both child and parent; windows of
no, one or two steps at each level; two prompts, two deals and one fault, a
close at any suspension.  Six configurations put the settlement nowhere, in the
atomic executor, in one around several of its steps, in two nested ones, and of a
kind that cannot be committed.

*Left out.*  The executors that share live decisions instead of snapshots
(`live_recursive_inner.rs`), the contents of decisions, executions and reports,
holdings and prices, and how an executor is built from a configuration.

*Fairness.*  Weak fairness of the running call, and of `Resume`, for
`run_backtest_loop` resumes until the run completes.  A strategy asks finitely
often (`MaxPrompts`).

### CalendarCache

*State.*  `files` are the calendar files, `locks` and `poisoned` the two loading
mutexes of `CalendarCache`, `recency` and `entries` its order of use and both of
its maps: a key is a file whose raw lines, or a view (a frequency and a future
flag) whose parsed calendar is cached.  A content is the file it was in and the
number of the change that wrote it, and whether the text decoder takes it; what
is parsed from it is the same content.  `calls[t]` is what thread `t` is doing,
with the content it has got.  `known` is history: what was answered for each
key, or was in the files when the cache was last cleared.

*Actions.*  A lock is taken together with the look that follows under it, for
nobody can tell an earlier taking; `clear` goes from lock to lock.  The entries
mutex is held within one step only.  `Check`, `Read`, `Keep` and `Store` are
apart, for files change between them.  A `Value` error of the check, the decoder
or the conversion makes the loader try the current calendar, once; any other
error, and each error after that boundary, ends the call (`StepFails`).  `Panics`
gives the held locks up poisoned.  A write truncates first (`Open`) and is
flushed later (`Flush`), with a prefix on failure; an edit reads first (`Load`),
which creates what is missing.  Writes touch neither locks nor cache, as
`calendar_write.rs:70-71` says, so the cache may be older than the file: that is
the documented behaviour, and no property contradicts it.

*Properties.*  `AnswersNeverGoBack` is what is left to rely on: a question is not
answered with an older content than before, nor, after `clear` has returned,
with one that was gone by then.  It needs both loading locks: the raw one, or a
slower reader overwrites the lines of a faster one; the parsed one in `clear`, or
a load under way stores what it read before.  `EntriesMatchRecency`: the order of
use and the maps agree within the one budget.  `CallsComeToRest`: the order of
the locks excludes deadlock, also with poisoned ones.

*Bounds.*  Two threads and four calls, one of them a write: a load, a write, a
`clear` and a second load are what it takes to bring an old content back.  One
fault.  A day calendar and its future variant, which may be missing or malformed
at first; a budget of two, where a view and a second file evict each other, and
no budget without cached lines.

*Left out.*  Slicing and index lookup, the discovery of frequencies, resampling,
changed roots, files that others delete, and a buffer too large for one write.
All backends cache raw lines or none does.

*Fairness.*  Weak fairness of each thread inside a call.  The mutexes need not
be fair, for there are finitely many calls.

### Dealing

*State.*  What the atomic executor of `Backtest` does in its one step.  `bar` is
the calendar's step, `market` the quotes of the bar under way, `orders` the
orders of its decision and `todo` the places of those still to deal.
`position` is `Position` with its `PositionCash`, `account` the accumulated
returns, cost and turnover and the value of the last row, `dealt` and `dealDay`
the collector's `dealt_order_amount` and its day.  `failure` is the error that
ended the backtest.  `fills`, `opening`, `marked` and `soldOff` are history.  Amounts count
ticks of a tenth of a share, the correction the code adds before it rounds; money
counts `1/Scale`, and rates of cost are multiples of that, so that every quotient
the code takes is exact or is rounded as the code rounds it.  `IsClose` is
`numpy_is_close`: its relative tolerance of 1e-5 counts from holdings of ten
thousand shares on, its absolute one of 1e-8 is always less than a tick.

*Actions.*  `OpenBar` opens the settlement and fixes decision and quotes, both any
of a set.  One action takes the next order, by the stable sort of
`simulator_order_iterator`, and goes through `deal_and_report`: not tradable
(`Untradable`), an error of quotes, limits or a division (`Refuse`), an amount of
nothing (`Nothing`), a purchase, a sale (`Buy`, `Sell`), or more than is held
(`Oversell`).  A sale of about everything is not rounded and empties the holding,
though it may be of a little more or less than is held (`SellAmount`, `SellsOff`).  `CloseBar` revalues what is not suspended, writes the row, moves
the calendar and commits the settlement; `CloseFails` is a row whose rates would
be fractions of 0.  The impact of the market is any addition to the rate of cost.

*Properties.*  `CashCovers`: without delayed settlement cash never falls short by
more than the cost of the correction of a purchase.  `ValueExplained`: the
position is worth what it began with, what closing prices added, and the returns
less the costs of the account; a holding keeps its price when more is bought, a
sale is booked before the holding goes and a purchase after it exists.  It cannot
hold exactly: whoever holds 20000 shares and sells 20000.1 is paid for them, and
whoever sells 19999.9 loses the rest, for `numpy_is_close` takes both for
everything (`exchange_trade.rs:256`, `position.rs:469`).  The property says how
much that can be: all in all, at most a hundred-thousandth of what was sold off
(`soldOff`, at the prices of the holdings).
`ProceedsWait`: what a bar sold pays for none of its purchases in parallel mode or
with cash settlement.  `FillsWithinCapacity`: over the orders of a bar and a
day limits of both kinds hold, each for its direction.

*Two boundaries the properties name.*  With cash settlement each sale is compared
with the same available cash, so that several sales whose minimum cost exceeds
their proceeds may together leave less than nothing after the commit;
`CashCovers` excludes it.  And the correction may round a sale up beyond a holding
that is no whole number of units, by more than is taken for everything: `sell_stock` then fails after account and
holding have changed and cash has not (`position.rs:469-479`); `ValueExplained`
excludes the backtest that ended so.

*Finding.*  Run `Dealing_cumulative`: a cumulative limit looks up what was dealt in
the stock today and fails if there is no entry, while the collector begins each day
with an empty map and adds entries after dealing.  So the first order of a stock
ends the backtest, although the comment at `exchange_volume.rs:14` speaks of a
capacity "reduced by prior fills", and the Python side of
`tests/simulator_collect.rs:972` uses a map with a default of 0.

*Bounds.*  Two stocks; three bars of two days, so that a bar shares a day with
the bar before it and a day begins afresh; four markets (prices that rise, a
suspended stock and one at its limit, unknown quotes, a capacity without value);
decisions of no or two orders, of one or two stocks, either direction first; seven
configurations of cost, limits, settlement and order of dealing; round and odd
holdings with no, little and enough cash; and holdings of 20000 and 19999.9
shares, which orders meet with a tick too much and with a rounding up that is
taken for everything.  The proofs need none of them.

*Left out.*  Factors other than 1 and adjusted prices (a missing factor counts as
an unknown market), limits of one kind beyond their least, missing closing
prices, portfolios that begin with debts or short holdings, the infinite position, weights and counts of holdings, benchmark,
indicators, snapshots and the reporter.

## Runs

| Run | Question | Bounds | States |
|---|---|---|---|
| `DataQueue_parallel` | safety and refinement in every interleaving | 2 workers, channel 2, 2 epochs of 0 or 3, 1 put | 282 000 |
| `DataQueue_live` | do calls return under the scheduler's fairness | 2 workers, channel 1, 1 epoch of 0 or 3 | 37 000 |
| `DataQueue_endless` | does cleanup end endless repetition without workers | channel 2, epochs of 0 or 2 | 17 000 |
| `SubprocessPool` | answers, cleanup and termination, with and without mapped regions | 2 children, 2 pools: 6 requests, 3 ids, no pipe room; 5 requests, 2 ids, pipe of 1 | 88 000 |
| `FiniteVector` | retirement under any caller and failure | 2 environments, 1 failure, 5 selections | 509 000 |
| `Collector` | training and evaluation passes: safety, and do they return | 3 environments, 2 passes, 1 failure | 1 204 000 |
| `Trainer` | fit, test, early stopping and checkpoints over faults and crashes | 2 calls, 1 fault, 1 crash, 4 configurations | 698 000 |
| `Backtest` | suspension, close and failure at any level; settlement; do runs end | 2 nested levels, windows of 0 to 2, 6 configurations | 182 000 |
| `CalendarCache` | loads, clears, rewrites and panics of two threads; do they come to rest | 4 calls, 1 write, 1 fault, 2 configurations | 976 000 |
| `Dealing` | costs, limits, settlement and books over the orders of three bars | 2 stocks, 3 bars, 4 markets, 6 decisions, 4 portfolios, 7 configurations | 2 842 000 |
| `Dealing_cumulative` | a documented claim that does not hold | the same | violation |
| `SubprocessPool_overlap` | a documented claim that does not hold | 2 requests to one child | violation |

## Proofs

`DataQueue_proofs` proves, for every capacity, set of workers, repeat count and
epoch size, `TypeCorrect`, `VerdictCorrect`, `CleanupCorrect`, `LateItemCorrect`,
`WindowCorrect` and `Refinement` (`Spec => ImplementsStream`), from
`QueueAssumption` alone (the constants have their types).

The argument is one inductive invariant, `IInv`, a conjunction of seven parts.
None of the checked invariants is inductive.  `VerdictAfterPrefix` needs to know
that a reader which saw `done` before an empty channel cannot have missed an item
(`OwnerInv`, `ChannelInv`), that the error is published before `done` and `done`
before the completion message (`ProducerInv`), and that the producer ended where
it should have (`PlaceInv`), which with workers needs every job to keep its place
in the epoch on its way through job channel, worker, result channel and pending
map (`PoolInv`).  `ChannelInv` says that the channel holds consecutive items
ending at the last one sent and starting after the last one received.  Each part
has a lemma with one step per action; the lemmas on sequences come first.  The
refinement uses the same invariant: a step maps to a step of `SampleStream` or to
a stutter.

`WindowCorrect` needs a second invariant, `WindowInv`, which counts jobs over
their places.  Jobs scheduled and not yet sent are as many as the places hold
together, and never more than the prefetch window (`CountInv`); the job channel
holds the last ones scheduled, in order; what is with workers, in the result
channel or pending is before those and after the item in hand (`PlacesInv`), and
nothing is in two places (`OnceInv`).  `WaitInv` says why waiting is no deadlock:
while the producer asks for a result, the next item is not pending, hence
under way.

`SubprocessPool_proofs` proves, for any number of children, batches, wire ids,
pipes and failures, `OpenPoolsAreQuiet`, `CloseReaps`, `AnswersAreTheRequests`
and `MappingIsSerialized`, from `PoolAssumption`.  The id that travels plays no
part: it wraps, so it cannot be what makes answers right.  `Line` says what does:
the responses of a child, the request it works on and the requests it has not
read are exactly the serials that parent and child owe each other, once each and
in order, and only a child that no longer runs may have lost some, from the end.
So the next response is the one the parent waits for, and nothing is left when
the batch is complete.  `Served` says that a child that stopped serving has left
a failure the parent meets before the batch ends.  `CloseInv` keeps the account
of close and termination.  With a mapped region `MapInv` adds that an observation
stays there until it is read.  This is false when a batch asks one environment
twice, which is the finding of run `SubprocessPool_overlap`; therefore the last
two theorems have the hypothesis `AsksOnce`, which excludes just those batches
and only for pools with mapped regions.

`FiniteVector_proofs` proves, for any number of environments, any supplies and
any selections, `ZombieWhenNobodyAlive`, `RetiredHaveNoSeeds`, `RowsAreComplete`
and `VectorTypes`, from `VectorAssumption`.  The first rests on `VectorInv`: while a call is under way
there is no zombie and somebody is alive, except between the retirement of the
last one and its report, where nothing can fail, for loggers are called for the
living only.  The second follows a reset through its requests (`WalkInv`): up to
the request it is at, a living environment has its place filled exactly when its
source has not ended, and beyond it nobody's source has.  That is where double
mention has to be excluded.  `RowsAreComplete` holds for double mentions too.  A
missing observation is filled with the default captured at the end of a reset, so
`RowInv` says why one was captured when it is needed: as long as there is none,
either a dead environment stands in the way (`Obstacle`: the vector takes it for
alive, so that the reset fails when it comes to it, and no step succeeds), or this
is the first reset that gives anybody an episode (`FirstReset`).

`Collector_proofs` proves, for any environments, supplies, episode counts, passes
and failures, the inductive invariant (`CollectInvariant`) and from it
`CollectsExactly`, `ActsOnCurrentRows` and `EvaluatesEverySeed`, from
`VectorAssumption` and `CollectorAssumption`.  It takes over the invariants of
`FiniteVector` (`VectorOK`), which knows any caller: the collector names
environments in ascending order, hence nobody twice (`InOrderIs`, by way of
`OrderExists`: a finite set of numbers can be put in order).  `CountInv` counts
what those taking part can still record together with what was recorded: never
more than was asked for, so that the excess is masked before it acts.  `RowsInv`
says that each row is of the running episode of its environment, or is about to be
replaced.  `CoverInv` says for an evaluation that each seed drawn in the pass is
over or is being run by somebody who is not dead; when all are dead, nothing is
left.

`Trainer_proofs` proves, for any configurations, values, thresholds, calls,
faults and crashes, `TrainerIsTyped`, `SeedsAreReleased`, `IterationsTrainOnce`,
`NamesAlwaysHold`, `StopsKeepTheBest`, `MonitorStaysCurrent`, `FaultsFail`,
`LossesAreBounded` and `FinalStateIsSaved`,
from the named assumptions on the constants (`EarlyAssumption`,
`CheckpointsAssumption`, `TrainerAssumption`, `ConfigAssumption`) and
`GraphAssumption`: "nothing" and a half-written file are no checkpoints.  The
layers build on each other: `DriverInv` (places, contexts and environments), then
`ModelInv` (runtime, weights and callback; a restored graph is as good as a live
one, so the graph in every file and in the saver has to satisfy it; of the weights
it says what has trained them since the last fit without a checkpoint) and
`StorageInv` (what a save has left behind at each of its steps).  On them rest
the budget of faults, the stage in each phase, and `BestInv`, which ties the best
weights to the validations of this fit: they are those of the fit only once
`on_fit_start` has forgotten what was restored.  `LossInv` charges every damaged
file that nobody is writing to a fault or a crash; the file under way is the only
one a step can damage.  `FinalInv` follows the last save: `SaveInv` says at each
step of a save what the directory already holds, and `NotedInv` that in its first
fit a callback that has noted the current iteration has saved it as it is.

`Backtest_proofs` proves, for any depth, windows and configurations, the
inductive invariant (`BacktestInvariant`) and from it `ChainsOnly`,
`LoopImplementsGenerator`, `CashKept` and `StepsCountOnce`, from
`BacktestAssumption` and `BacktestConfigs`.  `StackInv` says which executors
exist and what each is doing for every value of `pc`: those above the running
level are in their loops, those below it do not exist, and a failed one is
nowhere on the way of a call.  `LoopInv` ties the loop's phase and scope to it.
`CashInv` names the one level that holds an open settlement and says that `pc`
is inside its bracket.  `BarsInv` says by how much a calendar is ahead of its
record at each place.  Most steps change one level, and one lemma per invariant
(`HolderKept`, `BarsKept`) carries the others over.

`CalendarCache_proofs` proves, for any threads, files, views, capacities, writes
and faults, `AnswersAreCurrent`, `LoadersAreAlone` and `OrderMatchesEntries`, from
`CalendarAssumption`.
The recency of answers is not inductive: what a thread is given depends on what
is cached, and that on what others have read and not yet kept.  `BoundInv` says
that everything answered, cached or on the way is no newer than what comes next:
the file, its cached lines, and lines somebody is about to keep.  A step that
puts something between two of these has to know that nobody else is doing so:
`RawInv` (no lines are cached of a file that somebody reads in order to cache
it) rests on the raw lock, and `CacheInv` (no view is stored under an answer that
is newer) on the parsed one, so `LockInv` says where each is held.  `FloorInv`
then ties what a call owes to what it gets.  The order of use plays no part in
this: an eviction can only take entries away.  It has an invariant of its own,
`OrderInv`: each cached key is in the order once and no other key is, through
touching, insertion, eviction and `clear`.

`Dealing_proofs` proves, for any stocks, prices, costs, impacts, limits, trade
units, portfolios and decisions, `CashAlwaysCovers`, `AccountExplains`,
`ProceedsAlwaysWait` and `LimitsAreKept`, from `DealingAssumption` and
`PortfolioAssumption`.  The arithmetic comes first.  `AffordableCovers` is about the
limit by cash: in each of its two branches, whichever of proportional and minimum
cost then turns out greater, the amount and its cost exceed the cash by at most
one tick (`ProportionalCost`, `MinimumCost`); `BuyCovers` adds the two other ways
to an amount.  The invariant, `CashInv`, adds to the property that cash is held
back only in an executor that settles in cash (`PositionInv`) and that the next
order exists and is one of the decision's (`BatchInv`, `CurrentIsNext`: the sort
has a first element however many orders there are).

The other three are about sums: of holdings, of purchases, of a day's executions.
A sum is the fold of the community modules, a recursive function over finite
sets.  `SumsExist` shows that the recursion defines one for every size, `SumsAgree`
that no two differ, and `SumWithout`, `SumWith` and `SameSum` say what one element
more, less or changed does.  The induction in them goes by a least counterexample
(`NatLessThanWellFounded` and `WFMin`), for the induction theorems of the library
take an operator.  `HeldInv` then says that holdings are finitely many integers
and that nothing is held back between two bars, until more is sold than is held;
each order changes one holding, the cash and the account so that both sides move
alike, but for a sale of about everything.  `ReducedValue` bounds what such a sale
leaves unexplained by the value of the amount sold (`CloseValue`), and `GapInv`
adds these up: a sum of parts that are each a hundred-thousandth of a sale, or
less, is at most that of their sum.  It multiplies instead of dividing, so that
it is inductive; the property, which divides, follows (`GapIsWithin`).  `WaitInv` says that the cash of the bar is what it opened with less what
was spent on purchases, as long as settlement is open or, in parallel mode, a
purchase is to come.  `DayInv` says that the collector's record of a stock is the
sum of the executions of its day, hence the amount a limit leaves is the
limit less what was dealt.

Proved and in no run: the type invariants of `DataQueue`, `FiniteVector` and
`Trainer` (`TypeCorrect`, `VectorTypes`, `TrainerIsTyped`), which the safety
theorems rest on; `LoadersAreAlone`; the inductive invariants of `Backtest` and
`Collector`.

Model-checked only: liveness (`GetReturns`, `CleanupReturns`, `CallReturns`,
`CollectReturns`, `CallsReturn`, `RunEnds`, `CallsComeToRest`), for weak fairness
needs ENABLED, which TLAPS cannot reason about here.  Each other property of
a passing run is proved.  `SubprocessPool_overlap` and `Dealing_cumulative` show
claims that do not hold.

## Plan

1. `DataQueue`, `SampleStream` and their proofs: done.
2. `SubprocessPool`, with proofs: done.
3. `FiniteVector` and `Collector` on top of it, with proofs: done.
4. `EarlyStopping`, `Checkpoints` and `Trainer`, with proofs: done.
5. `Backtest` over `Generator`, with proofs: done.
6. `CalendarCache`, with proofs: done.
7. `Dealing`, with proofs: done.
8. Candidates: `Dealing` as the atomic executor of `Backtest`, log writers, SAOE
   generations, the live-decision variant of the nested executor.

Theorems to come: what close and termination leave in the pipes of a poisoned
`SubprocessPool`; the contract of `collector_guarded` as an abstract specification
of `Collector`; simpler arguments where an invariant says more than is used.

Out of reach of the prover and left to TLC: liveness under fairness, ENABLED, and
RECURSIVE operators, of which no module has one.

## Not modelled

Numeric formulae (indicators, returns, risk, networks), text
formats (timestamps, checkpoint names, Python format strings), pandas-compatible
conversions (data frames, series, normalisation) and operating system queries
(paths, locale): sequential functions over floats and strings, without state that
outlives a call.  A finite model of them would either copy the code or say
nothing, and the repository compares them with Python in differential tests.
They are most of the source, so that the share of all lines a model stands for
stays small however much of the stateful part is modelled.  `PROJECT.json` lists
every component with its reason.
