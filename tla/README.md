# Varn: a verification project

Varn is a language whose virtual machine runs tasks cooperatively on one thread per isolate,
while timers, sockets, blocking calls and other isolates complete operations from their own
threads. These modules specify that runtime, the libraries of the language whose behaviour
depends on the order of calls (tasks, signals, generators), and two parts of the compiler that are
about the paths through a body: the checks of control flow and the lowering of structured exits.
TLC checks small instances; TLAPS proves the safety invariants of the runtime and its two refinements
for every instance.

## 1. The system

| part | source (under `src/crates`) | state | operations | talks to |
|---|---|---|---|---|
| task cells | `varn-vm/src/task.rs` | status, waiters, observed mark, `Gather` counter, list of unobserved rejections | `settle`, `watch`, `gather_into`, `gather_one` | queue (tokens into its inbox) |
| task queue | `varn-vm/src/exec/scheduler/queue.rs` | `ready`, slab of parked tasks (generation, free list, `live`, `sweep_at`), `inbox` | `push_ready`, `park`, `collect_resumes`, `sweep_abandoned` | cells (`watch`) |
| pump | `exec/scheduler/drive.rs`, `pumps.rs` | the loop of `pump_until`, the slab of adopted host handles | `run_task`, `finish`, `adopt_host`, `drain_hosts`, `host_wait` | queue, wake queue, user code |
| operations on handles | `exec/host/tasks.rs`, `isolates.rs`, `spawn.rs`, `ctx_tasks.rs`, `host_tasks.rs` | none of their own | `spawn`, `parallel`, `cancel`, `await`, `yield`, `task_from_host`, `complete_host` | cells, queue, promises |
| entry points | `vm.rs`, `debug.rs`, `varn-pipeline/src/execute.rs`, `exec/host/isolate_spawn.rs` | what the entry awaits | `Vm::run`, `drive_main`, `call_main_global` | pump; unobserved rejections |
| host promises | `varn-types/src/task.rs` | `done`, tokens | `complete`, `watch`, `peek` | wake queue |
| wake queue | `varn-types/src/wake.rs` | tokens, generation, condition variable | `push`, `drain_into`, `wait_past` | any thread |
| channels | `varn-builtins/src/runtime/channel.rs`, `modules/runtime/task/task.rs` | bounded queue, closed flag, parked receives and sends | `send`, `try_receive`, `close` | promises of other isolates |
| blocking pool | `varn-builtins/src/runtime/blocking.rs` | job queue, `idle`, `total` | `submit`, `next_job` | promises |
| timers | `varn-builtins/src/runtime/timer.rs` | heap of deadlines | `sleep_task`, `take_due`, `note_cancel` | I/O driver, promises |
| I/O driver | `varn-builtins/src/modules/runtime/net/driver/` | sockets with one pending read, write, connect; command queue | event loop | timers, promises |
| isolates | `exec/host/isolate_spawn.rs` | a VM of its own | spawn, join | channels, promises |
| generators | `varn-vm/src/generator.rs` | state of a generator and its parked step | `next`, `close` | queue (`Start::Step`) |
| task library | `src/std/task/*.vn` | mutexes, semaphores, wait groups, task groups over channels and handles | `race`, `timeout`, `TaskGroup`, ... | all of the above |
| signals | `src/std/signals/*.vn` | dependency graph, pending effects | `set`, `effect`, `batch` | task library |
| lowering of statements | `varn-emit/src/body/` | the loops, handlers and pending finally blocks around a statement | `lower_try`, `splice_finally`, `lower_loop`, `lower_for` | checker before it, TIR passes after it |
| flow checks | `varn-checker/src/checker/stmts/completion.rs`, `completion.rs`, `definite_assignment/`, `varn-binder/src/definite_field_assignment.rs` | what one walk knows of a field or a variable | `completes`, `CtorFlow::stmt`, `da_stmt`, `fields_assigned_on_every_path` | lowering after them |
| module loading | `varn-modules`, `varn-resolver`, `exec/modules.rs` | modules under evaluation | load, link | interpreter |

The rest is sequential: lexer, parser, binder, checker, compiler, emitter, JIT, interpreter,
heap, language server, debugger, user interface, library. `PROJECT.json` lists each.

**How the parts meet.** User code never blocks. `await` of a pending handle freezes the task;
`TaskQueue::park` puts it into a slot and leaves the token *(slot, generation)* with the awaited
cell. `settle` moves the tokens of a cell to the inbox and `collect_resumes` turns them into
ready tasks. A handle of a host operation has a slot in `Hosts` and a token in its promise; when
a host thread completes the promise the token goes to the `WakeQueue`, `drain_hosts` finds the
handle and `complete_host` settles it. `pump_until` does all this in a loop until the handle the
entry point waits for has settled, and sleeps in `wait_past` when nothing is left to do.

**What is hard.** Tokens outlive what they name (cancelled tasks, swept slots, generations that
wrap); `settle` re-enters itself through `gather_one`; a completion may fall between any two
lock regions of the VM thread; cancelling races completing; channels and the pool decide under a
lock and act after it; wake-ups may be spurious, late or for somebody else. `PROJECT.json`,
`hazards`, lists them by line.

**What makes each part correct.** Cells: an outcome is final; a `parallel` settles once, after
its last child. Queue: no task is lost, doubled or resumed twice; the slab's books balance.
Pump: it never sleeps with work left and starves nobody. Promises and wake queue: a completion
is announced once and to the right handle. Channels: first in, first out, nothing duplicated,
nobody waits in vain. Pool: a queued job is started. Timers: a sleep ends, in order, not early.
Sockets: nothing parked sleeps over a socket that could serve it, and bytes keep their order.
Task library: permits are conserved when tasks are cancelled; whoever waits for a group is told.
Signals: an effect sees no stale and no half-updated value. Generators: a body has one frame and
its finally blocks run when it is closed. Flow checks: what
they accept holds on every path. Lowering: the lowered program means what the source does.

## 2. Modules

| module | what it is | main correspondence |
|---|---|---|
| `TaskScheduler` | cells, queue, pump, operations and entry points of one VM thread | one action per operation or per turn of a loop: `Spawn`, `Parallel`, `Cancel`, `TaskAwait`, `Finish`, `DrainHosts`, `CompleteHost`, `CollectStale/Reparks/Resumes`, `RunTask`, ... |
| `TaskHandles` | abstract specification: what handles and tasks promise a program | no code: a handle settles once, a task that awaits one joins its `line` behind those `ahead` of it, awaiters resume in order |
| `TaskSchedulerRefinement` | the refinement mapping from the first to the second | `TaskOf`, `LineOf`, `AheadOf` read the abstract state from the places that hold seeds and tokens |
| `HostWake` | promises, wake queue and host slab with real threads | every lock region is an action; `FirePush` and `Notify` are the two halves of `push`, `Adopt` and `WatchPromise` those of `adopt_host`, `Drain` and then `LookUp`, token by token, those of `drain_hosts` |
| `Channel` | one channel and the handles of its callers | every lock region of `send`, `try_receive`, `close` is an action; `Resolve` makes the completions after it, one by one |
| `MessageLine` | abstract specification of a channel: one line of messages | no code |
| `BlockingPool` | the worker pool | `Submit`, then `Start` or `NotifyOne`; `Look`, `WakesUp`, `Expire` are the ways through `next_job` |
| `TimerDriver` | timers and the part of the event loop that polls and fires them | `Sleep` (the clock), `Push` (under the lock) and `Poke` (after it) are the parts of `sleep_task`; `ReadDeadline`, `PollReturns`, `TakeDue`, `ResolveDue`, `DueDone` are a turn of the loop |
| `SocketStream` | one TCP connection, its kernel and the event loop | `Read`, `Write`, `Close` run under the registry's lock, over whatever is parked; `Cancel` is the program's; `Register`, `Poll`, `Handle` are the loop, `Complete` makes what `Handle` deferred past the unlock |
| `TaskPermits` | `Mutex` and `Semaphore` | a step is what a task does between two awaits |
| `TaskWaitGroup` | `WaitGroup` | the same; `Loops` is the body of `wait`'s loop; `Add` takes any delta, `Done` is called at any time |
| `Signals` | signals, computed values, effects, scopes | a call of the program is a step, each function of the library a recursive operator on the record `g` of all its fields |
| `Generators` | sync and async generators and their queue of steps | `Next_` and `Close`; `RunStep` and `WakeStep` are the scheduler's turns; `EntersTry`, `Awaits`, `Yields`, `Ends`, `Abandons` what a body may do |
| `StructuredExits` | the lowering of loops (`do`, `for`, walks), try, `using` and labelled jumps | `Lower` is the lowering; `Exec` gives the meaning of both languages; a behaviour builds a program construct by construct |
| `FlowChecks` | do all paths return, assign the fields, assign a variable before it is read? | `Completes`, `Ctor`, `Da*` are the walks of the code; `Run` gives all paths through the same body |
| `TaskScheduler_proofs`, `HostWake_proofs`, `Channel_proofs`, `BlockingPool_proofs`, `SocketStream_proofs` | theorems about those modules and their proofs | see section 5 |
| `TaskHandles_proofs` | the proof that `TaskScheduler` implements `TaskHandles` | see section 5 |
| `TaskLibrary_proofs` | the same for `TaskPermits`, `TaskWaitGroup`, `Generators` and `TimerDriver`, one section each | see section 5 |
| `Counting` | how the number of members at a place changes when one moves, how often a value occurs in a sequence, what the ends of a sequence hold: the lemmas the proofs share | no code |
| `MC*` | instances for TLC; `MCHostWake` runs `HostWake` and `TimerDriver`, `MCRuntimeParts` runs `BlockingPool`, `TaskPermits`, `TaskWaitGroup` and `Generators`: parts that share nothing, one per behaviour | |

`HostWake` refines one edge of `TaskScheduler`: there a completion, the firing of its token and
the moved generation are one step (`HostComplete`) and the comparison of generations is the flag
`news`; `HostWake` justifies this by splitting them. A channel's handle settles "some time
after" its promise in `Channel` for the same reason.

`TaskPermits`, `TaskWaitGroup` and `Generators` take from `TaskScheduler` and `Channel` what those
establish: a task runs undisturbed between two awaits, a settled handle's task is resumed later and
in order, a cancelled task runs no more and leaves what it parked in the channel.

`TimerDriver` and `SocketStream` are two views of one thread. They meet only in the poll: a socket
event that ends it early is `SocketReady` in the first (an interrupted system call is
`PollInterrupted`), and the second's loop polls whenever it is not handling something.

**Abstractions.** A value is named by the cell or the call that carries it. User code is any
sequence of operations on any handle the run has created, so every program over the given number
of handles is covered. A lazy task that is awaited runs in its caller's frames and is no step of
the scheduler; a lazy element of `parallel` is a `Spawn` before the `Parallel`. `work` is the
call stack of `settle` and `gather_one`, which the VM thread empties before anything else. A
frozen task is opaque. Definitions marked "Variant" are deliberately wrong forms of the
definition below them; `PROJECT.json` (`mutants`) pairs each property with one that breaks it.

## 3. Runs

| run | checks | bounds | states |
|---|---|---|---|
| `scheduler` | `OneHome`, `ParkedIsWatched`, `SlabAccounting`, `GatherExact`, `HostTokenDue`, `SleepsOnlyWhenIdle`, `OutcomeIsFinal`, refinement `ImplementsTaskHandles` | 3 cells of all kinds, arrays of up to 2, sweep from 1 live slot, generations wrap at 11, unit-test entry | 162 000 |
| `scheduler_live` | `RunnableRuns`, `HostOutcomeArrives` | 3 cells, tasks and host operations, generations wrap at 1, module entry | 237 000 |
| `unhandled_rejection` | `UnobservedRejectionFails`, violated | 3 cells, tasks, unit-test entry | |
| `host_wake` | wake queue: `OneTokenPerSlot`, `CompletionAgrees`, `SleeperIsToldOfTokens`, `AwaitedCompletionArrives`; timers: `NoSleepLost`, `SleepsEndInOrder` | 3 promises, 2 host threads, 1 VM thread; 2 sleeps, clock to 3, polls of up to 2, purge from 2 cancellations | 679 000 |
| `channel` | `NobodyWaitsInVain`, `MessagesAreKept`, refinement `KeepsMessagesInLine` | 4 sends, 3 receives, 2 isolates, capacity 2 | 103 000 |
| `socket_stream` | `EveryWaitHasAnAnswerer`, `BytesAreKept`, `ReadsEnd` | 2 reads, 2 writes of 2 units, 2 units from the peer | 1 066 000 |
| `runtime_parts` | pool: `CountersAgree`, `NoJobStranded`, `QueuedJobStarts`; permits: `PermitsAreConserved`, `WaitersAreServed`; group: `NobodyLeftBehind`; generators: `OneFrame`, `CloseRunsFinally`, `NullMarksTheEndIfUncut`, `CallsAreAnswered` | 4 jobs, 3 submitters, 3 workers; 4 tasks, 1 to 3 permits; 3 waiters, 6 calls of `done` and of `add` with -1, 1 and 2; 4 calls of `next` and `close`, 2 nested tries, 4 body steps between calls | 174 000 |
| `signals` | `EffectsAreCurrent`, `ReadsAreFresh`, `LinksAgree`, `RunsOnlyForChange` | 6 programs over 2 signals, 2 computed values, 2 effects; 6 calls | 550 000 |
| `structured_exits` | `LoweringKeepsMeaning` | 3 nested constructs, 1 conditional exit, 1 label, 2 turns per loop | 938 000 |
| `finally_always` | `FinallyAlwaysRuns`, violated | as above | |
| `flow_checks` | `EveryPathReturns`, `FieldsAreAssigned`, `LocalsAreAssigned` | 3 nested constructs of 11 kinds around every statement, 1 label | 1 270 000 |
| `no_way_past_return` | `NoWayPastReturn`, violated | 2 nested constructs of 4 kinds | |

The type invariant of each module is a conjunct of the first invariant about its books (`WTypeOK` of
`CompletionAgrees`, `CTypeOK` of `MessagesAreKept`, `PTypeOK` of `CountersAgree`, `STypeOK` of
`LinksAgree`, `TypeOK` of `OneHome`, ...). `PollEndsInTime` is a conjunct of `NoSleepLost` and
`NothingParkedIsMissed` one of `EveryWaitHasAnAnswerer`.

**Why the bounds are enough to be worth something.** Three cells give a task that waits for a task
that waits for a third; two tasks that wait for one handle; a `parallel` of two children that runs
on its own parent's task; a cancelled task whose slot is swept while its token is out. A sweep floor
of 1 makes `sweep_abandoned` run at the second park (1024 in the code). In the safety run
generations wrap at 11, which no run reaches, since three cells make nine pairs (see `HandlesKept`
in section 5): there a token of an earlier occupant is recognised, as it is in practice with 2^32.
The liveness run lets them wrap at every reuse, so `CollectReparks`, the branch for a token that
matches a later occupant, is taken. Four sends over a capacity of two fill the queue and park two
senders. The pool's limit of 3 is reached with jobs left over (256 in the code). No state constraint
is used; unbounded quantities are bounded by the identities a run may create.

Deadlock is not checked: a program may end, and it may await a handle that nobody settles
(`pump_until` then sleeps for ever, by design).

Timers: a poll is capped at 2 units of time (50 ms in the code) and cancelled entries are purged
from 2 on (1024), so both happen within 2 sleeps and 3 units; sleeps may have equal deadlines. A sleep
of one unit cuts a poll short, one of three outlasts it, and a caller held up between the clock and
the lock comes when a later deadline is due. Both properties are about one sleep or a pair, and their
safety is proved for any number; three sleeps with the clock to 2 were checked once (1 786 000
states). Sockets: the kernel buffer holds as much as one write, so a
second write is cut in two by the loop, or, called while the first is parked, put in the middle of
it; the connect, a read and a write may be cancelled, so a cancelled write can be half on the wire
and a cancelled read can swallow a unit. A semaphore with fewer permits than tasks and one cancelled
task more than permits lets every permit be lost. Six calls of `add` and `done` let the counter
return to zero and rise again while a told waiter has not run, fall below zero, and be brought to
zero by a negative delta or from below. Signals: the six programs are a diamond, branches, a chain,
a failing effect, effects that write what others read, and an effect that disposes of another; six
calls are enough to mount both effects, write, batch, dispose and run scheduled jobs, and the flush
limit of 4 rounds (1000) is out of reach of those programs. Generators: four calls put a `close`
before, between and after queued steps. Lowering: three constructs are enough for a labelled jump
that crosses a try in an inner loop, a finally within a handler, a break through a finally out of a
do loop, and a closing walk within a for with an update; four constructs with two labels and without
the conditional exit were checked once, without `do` loops (542 000 states). `turn` lets a loop go
round twice, the first turn from which an update or a sticky flag shows.

`LoweringKeepsMeaning` is about programs that satisfy `Closed` (jumps have a loop to go to, as the
checker demands) and `Covered`. What `Covered` leaves out is where the lowering does differ from
the source; see `finally_always` and section 6.

Flow checks: a body is built from the inside out, so three constructs are enough for a labelled
break that crosses a switch in an endless loop, a finally after a catch that diverges, and a block
that declares the variable again in a branch; the head of a `for` assigns the variable or declares
its name. `ReturnCovers`, `CtorCovers` and `FlowCovers` name what each property leaves out, all of
it in section 6; the exactness on straight statements and branches, a conjunct of each property,
keeps a check from passing because it refuses everything.

**`no_way_past_return`.** `docs/lang/types.md:508` says that a body with a declared result returns on
every path or is refused. `completes` asks only the last case of a switch whether it ends, as if
the others fell into it; they run alone (`types.md:533`).

**`finally_always`.** `docs/lang/statements.md:255` says that a finally always runs. `lower_try`
copies it before the exits it can see in a handler; an expression that raises there, or a throw in
a loop of the handler, passes it over.

**`unhandled_rejection`.** `docs/dev/SOUNDNESS_CHECKLIST.md:23` says that an unobserved
rejection makes the program fail. That holds where `Vm::run` is the last thing to run.
`call_main_global` (a unit test's function) and an isolate's function return without the check,
and the run shows such a test that passes.

## 4. Fairness

* `scheduler_live`: weak fairness of the VM thread's next step, which is what an operating
  system owes a running thread; it does not choose *which* step is taken. A task that computes for
  ever without an operation on a handle would be a stutter and is excluded: on a cooperative
  scheduler nothing else could run, and the properties are about tasks that give up the thread.
  They may do so by yielding for ever. `RunnableRuns` then holds because `ready` and `inbox` are
  queues and each turn takes the oldest. Host threads owe nothing: a promise may stay pending.
* `host_wake`, wake queue: the VM thread goes on inside the pump and inside `adopt_host`, and a thread that
  has taken tokens from a promise fires and notifies. No thread owes a completion and the
  condition variable owes no spurious wake-up.
* `host_wake`, timers: the clock goes on, the driver thread goes on, a call of `sleep_task` or
  `note_cancel` that has begun gets the lock and returns, and a poll that could return again and
  again does (strong fairness, because other events may interrupt it for ever).
* `channel` has no fairness and no liveness property: `NobodyWaitsInVain` states as an invariant
  that whoever waits is parked for a reason or about to be told.
* `socket_stream`: the event loop goes on. The peer and the network owe nothing: `ReadsEnd` is
  about a peer that has ended.
* `runtime_parts`, pool: every thread that is not asleep goes on; a job may run for ever, and a wait
  need not time out. Of tasks: whoever can be resumed is (`RunnableRuns` of `scheduler_live`), and a
  task inside gives its permit back or is cancelled. Of generators: queued steps are run and parked
  ones resumed, and a mounted body goes on. A part that a behaviour does not use has nothing
  enabled.
* `signals`, `structured_exits` and `flow_checks` are synchronous and have no liveness property.

## 5. What is proved

For every value of the constants that meets the assumptions:

| theorem | says | what the instance is freed from |
|---|---|---|
| `TaskScheduler_proofs!TypeCorrect` | `Spec => []TypeOK` | the cells and their kinds, generation bound, sweep floor, array bound, entry point |
| `TaskScheduler_proofs!OutcomeFinal` | `Spec => OutcomeIsFinal`, an action property | the same |
| `TaskScheduler_proofs!WakeUpsKept` | `Spec => []ParkedIsWatched`: no wake-up of a parked task is lost | the same |
| `TaskScheduler_proofs!SeedsKept` | `Spec => []OneHome`: a live task is at one place | the same |
| `TaskScheduler_proofs!SlabBalances` | `Spec => []SlabAccounting` | the same |
| `TaskScheduler_proofs!TokensAreDue` | `Spec => []HostTokenDue` | the same |
| `TaskScheduler_proofs!SleepIsIdle` | `Spec => []SleepsOnlyWhenIdle` | the same |
| `TaskScheduler_proofs!GathersBalance` | `Spec => []GatherExact` | the same |
| `TaskHandles_proofs!HandlesKeptUnwrapped` | `Spec /\ []NoneWraps => ImplementsTaskHandles`: the scheduler implements `TaskHandles` in every behaviour in which no slot comes to its last generation | the same |
| `TaskHandles_proofs!SlotsNeverWrap` | `Plenty /\ Spec => []NoneWraps`: none does when there are more generations than pairs of cells, and one more | the same |
| `TaskHandles_proofs!HandlesKept` | `Plenty /\ Spec => ImplementsTaskHandles` | the same |
| `HostWake_proofs!SleeperIsTold` | `WSpec => []SleeperIsToldOfTokens` | promises, host threads |
| `HostWake_proofs!TokensMatchSlots`, `CompletionsAgree` | `WSpec => []OneTokenPerSlot`, `WSpec => []CompletionAgrees` | the same |
| `Channel_proofs!NobodyWaits` | `CSpec => []NobodyWaitsInVain` | capacity, sends, receives, isolates |
| `Channel_proofs!MessagesKept` | `CSpec => []MessagesAreKept` | the same |
| `Channel_proofs!LineKept` | `CSpec => KeepsMessagesInLine`: a channel implements `MessageLine` | the same |
| `BlockingPool_proofs!CountersKept`, `JobsAreServed` | `PSpec => []CountersAgree`, `PSpec => []NoJobStranded` | jobs, submitters, workers, the limit of workers |
| `SocketStream_proofs!WaitsAreAnswered` | `StreamSpec => []EveryWaitHasAnAnswerer` | reads, writes, which of them are cancelled, what the peer sends, the size of a write and of the kernel's buffer |
| `SocketStream_proofs!BytesKept` | `StreamSpec => []BytesAreKept` | the same |
| `TaskLibrary_proofs!NoSleepIsLost` | `TimerSpec => []NoSleepLost` | sleeps, clock, longest poll, rhythm of the purge |
| `TaskLibrary_proofs!SleepsFireInOrder` | `TimerSpec => FiresInOrder`, the action property in `SleepsEndInOrder` | the same |
| `TaskLibrary_proofs!PermitsKept` | `PermitSpec => []PermitsAreConserved` | tasks, capacities |
| `TaskLibrary_proofs!NobodyIsLeft` | `GroupSpec => []NobodyLeftBehind` | waiters, the deltas of `add`, calls of `add` and `done` |
| `TaskLibrary_proofs!OneFrameKept`, `ClosesRunFinally` | `GenSpec => []OneFrame`, `GenSpec => []CloseRunsFinally` | calls, nested tries, steps of the body |
| `TaskLibrary_proofs!NullIsLast` | `GenSpec => NullMarksTheEndIfUncut`, an action property | the same |

The assumptions are the `ASSUME`s of the modules: sets of identities that are counted are finite,
`None` is none of them, capacities and limits are positive, the markers of an outcome in `Channel`
("sent", "closed", "waiting", ...) are not messages, and the units that a peer sends in
`SocketStream` are not the words a promise may hold. TLC evaluates each of them on the instances.

**The scheduler.** `TypeOK` is not inductive. Releasing a slot whose index is not in the slab, or
resuming a task whose awaited "cell" is `None`, would leave the types, and nothing in the types
excludes either. `TInv` adds `Created`: the free list names only slots there are, an occupied
slot waits for a cell (`GoodSlab`), whatever is ready, parked, running, adopted or a waiter's
parent has been created, and a cell not yet created is pending without waiters. Each action has
a lemma (`SpawnTypes`, `ParallelTypes`, ...) and `TypesKept` combines them. `OutcomeFinal`
follows from `SettleOnce`, since `settle` is the only place that changes a status, and from
`KnownParents`/`UnusedPending`, which keep a new cell from being a settled one.

For `WakeUpsKept`, `Due` says what is owed to one token, and the lemmas say which kind of step
could break it: a step that consumes tokens (`Consumed`: only `collect_resumes`, and it empties
the slot of the token it takes), a step that settles (`SettleDue`: tokens move from the waiters
to `work`, `NotifyAwaiter` from there to the inbox), and a step that parks (`ParkWatched`: the
new token is left with the cell or put into the inbox). That a sweep, a release or a reuse
disturbs no other slot is `InsertKeeps`, `ReleaseKeeps` and `SweepKeeps`. The theorem covers
generations that wrap: a stale token can at worst cost a detour through `CollectReparks`.

`SeedsKept` and `SlabBalances` come from one invariant, `HomeParts`. Its part about the slab
(`Books`) says that the free list names each vacant slot once and that `live` is the number of the
others; `InsertBooks` and `ReleaseBooks` show that `Slab::insert` and `release` keep it, with
`Counting` for the numbers. The rest says that no task is twice in `ready` or in two slots, and that
a live task is at home in exactly one of `ready`, the slab and the running context. Neither half is
inductive without the other: were a vacant slot released again, two tasks would be parked in it.

`TokensAreDue` needs where a host token is (`HostParts`): the wake queue and the batch that
`drain_hosts` has taken hold exactly the adopted handles whose promise is no longer pending, each
once. `SleepIsIdle` follows from what the pump has emptied by each point of its loop (`Emptied`) and
from `WakeUpsKept`. For `GathersBalance`, `Open(wk, p)` are the indices of a `parallel` whose child
is pending or whose settlement is still in `work`; `Ledger` says that the counter of the `Gather` is
their number, and `GatherEnds` that it settles when there are none left. A settlement that settles
the next cell out of its own loop takes exactly one index out of one `Open`.

**Handles.** `ImplementsTaskHandles` is the refinement of `TaskHandles`. The abstract `line` of a cell
is a set, and `ahead` says of a task in it who came before; the mapping reads both from `Places`: the
ready queue, the inbox, the work of `settle` and the cell's waiters, one behind the other, with the task
for which each stands. The proof never handles that sequence: `Seat` numbers the positions, `Stands(t, c,
n)` says who is where, and `LinesViewed` shows that `LineOf` and `AheadOf` are what `Stands` says. Each
action then moves a run of positions down by a constant (`Carried`): a token leaves the waiters for
`work`, `work` for the inbox, the inbox for the ready queue, and each move keeps the order. The inductive
invariant is `LineParts`, on top of `HomeInv`: a token that is anywhere has been given by its slot, so
the next one is new (`TokensGiven`); a live task's token is with a pending cell or on its way from a
settled one (`TokensWait`); it stands once (`StandsOnce`); what is ready has a settled handle behind it
(`ReadySettled`). `StepMaps` has one lemma per action: nearly all of the pump stutters, `settle` is
`SettleHandle`, `Park` is `Await`, `RunTask` is `Start`, `Resume` or a stutter.

None of this holds once generations wrap: a token of an earlier occupant then stands for a later one,
which loses its place in the line (`CollectReparks`), and TLC finds the refinement violated where they
wrap at 1 or 2. `HandlesKeptUnwrapped` therefore assumes that no slot comes to its last generation, as a
condition on the behaviour, and `NeverReparks` that the branch is dead until one does. A program with
many tasks that await again and again for long enough may reach 2^32 in one slot; `SlotsNeverWrap` says
which program certainly does not. `Budget` is its invariant: a slot is never occupied more often than
pairs of a task and a cell have been used up (`MayPark` are those left), for a task awaits a cell that is
pending and, once resumed, finds it settled. So 65535 handles in a run are safe with 2^32 generations.

**The wake queue.** That a sleeper on a moved generation has a thread about to notify it does not
follow from itself: a push that falls between the pump's reading of the generation and its drain
must show in the comparison under the lock. `WakeInv` says how: the generation read is never ahead
of the queue's, and as long as they are equal nothing has come since the drain.

`TokensMatchSlots` and `CompletionsAgree` rest on `TokenInv`, which follows one token from `watch`
to the lookup in the slab. An occupied slot's token is with its promise while that is pending and
afterwards in flight (in the hand of the thread that completes, in the queue, in the batch) exactly
once; `TokensApart` and `TokensThere` say "once" and "at least once" and `LookUpOnly` that only the
lookup of the VM thread takes it away.

**Channels.** `NobodyWaitsInVain` leaves `CTypeOK` out and states who is owed an answer as a set;
`ChannelInv` has both, with `Owes` as the position of the completion in what an isolate has still
to do. `LeavesOwes` is about the lock regions, which only append to that list, `ResolveKeeps` about
the one action that shortens it: what it drops it completes. `CloseKeeps` is the longest step: the
answers of all parked receives and sends are appended at once.

`MessagesKept` compares numbers: messages acknowledged to a sender that are nowhere any more
(`Gone`), and cancelled receives that are neither parked nor owed anything (`Spent`). `MessageInv`
says that the first are no more than the second, and needs `Lines` and `Phases` for it: what is in
the queue, parked, owed and delivered is at one of these places only, wherever the isolates are
between their lock regions. `LineKept` is the refinement: the line of `MessageLine` is the queue
followed by the parked sends, and `IsGiven` says what a receive has been given from the moment the
lock decides it, not from the moment its promise is completed. So the lock regions are the abstract
steps, completing and settling stutter, and cancelling a receive that holds a message is the
abstract `GiveUp`.

**Pool.** `CountersAgree` is inductive once the counts are written as numbers of threads at a set of
places (`Counting`: a thread that goes from one place to another changes each such number by at
most one). `NoJobStranded` needs both counters: a submitter decides by `total` and `idle` whether it
starts a worker, notifies one or leaves the job, and only `Books` says that those tell the truth
about the threads.

**Timers.** `NoSleepLost` has to survive the middle of `take_due`, after the entries have left the
heap and before their promises are completed. `TimerInv` says what was taken (`Taken`: due, in
order, and before everything that is left, or overtaking what came to the lock when it was due
already), that entries are numbered in the order of the pushes (`Numbered`) and that a poll that
nobody is about to interrupt ends before every deadline in the heap, those of cancelled sleeps too
(`PollIsShort`). That `peek` of a heap that is not empty has an answer is `FirstEntry`; it follows
from the library's theorem that the strict subsets of finite sets are well-founded, without an
induction over data.

**Sockets.** `WaitsAreAnswered` is about one step of the driver at a time: readiness is edge-triggered, so
a read or write that parks must have found the socket empty or full since the last event
(`NothingParkedIsMissed`, `RoomIsAwaited`). Calls may overlap, and one that takes the place of a parked
one leaves it in `displaced`: the theorem says that nobody else is left waiting. `BytesKept` follows each
unit through the kernel's buffers, the completions the driver has put off and the promises. `over` says
what each call was made over; `Overtaken`, that whatever was called since a call was parked was called over
it, is what lets `UnitsTaken` and `WireOrder` name the exact pairs that are out of order. `WholeWrites` says
that nothing is taken twice or sent in part, `LossesAreCancelled` that only a cancelled read loses a unit.

**Generators.** `OnePlace` is stronger than `OneFrame`: the frame is in the generator, on the stack
of the step that runs, with the task that is parked, or with the one that is resumed, and at most at
one of them. `ClosesRunFinally` and `NullIsLast` need `EndIsKept`: unless a close fell into a
running step (section 6), a generator that is done stays done, has no frame, and its finally has run
or never was entered.

**Permits.** The counter of a `Semaphore` hears of a permit that the channel hands to a waiter only
when that task runs again, so "available and held make the capacity" is not what is kept.
`PermitBooks` has two sums, one over the channel and the tasks, one over the counter and those it
knows of. `ParkedOnce` is what lets a hand-over move exactly one task. That `release` is never
refused to a holder (`HoldersMayRelease`) follows from the second sum.

**Wait group.** A cancelled waiter stays in `waiterCount` and its receive stays in the channel.
`Covered` says that the count is at least the parked receives and the told waiters that have not
run; so the messages `done` sends, one for each count, reach every parked receive. `add` tells nobody, so
the theorem has to know who brought the counter to zero: `byAdd` is set by an `add` that changes it and
cleared by `done`, and while the counter is at a zero of `done` nobody can park.

**Only model-checked.**

* Liveness, for fairness and ENABLED are outside the prover's reach: the properties of section 3
  that end in an *eventually*, and the other half of `SleepsEndInOrder`.
* `Signals`, `StructuredExits` and `FlowChecks`, which are built from RECURSIVE operators over the library's
  own recursion and over programs: what they compute for every program is an induction over data.
* `UnobservedRejectionFails`, `FinallyAlwaysRuns` and `NoWayPastReturn` are violated, so there is
  nothing to prove.

## 6. What is not modelled

* Inside the modelled parts: values and their transfer between isolates; the pool of spare
  contexts; roots for the collector; a task that cannot be frozen is one that rejects
  (`Finish`); steps of async generators are tasks that finish; a test function that is not async
  and what it returns (`vm.rs:100-107`); `await Task.yield()` at top level, which returns at once;
  `parallel` whose element is a function that throws (`isolates.rs:260`); failure to start a
  thread (`blocking.rs:86`, `isolate_spawn.rs:129`); debug breaks; poisoned locks.
* The 2^64 generation of the wake queue is not bounded, so its wrap is not modelled.
* Timers: the counters that only report. Sockets: listeners, UDP, TLS sessions, more than one
  connection (the registry keeps them apart by token).
* `Task.race`, `Task.timeout`, `TaskGroup`: compositions of operations `TaskScheduler` has; the hazard
  of `combinators.vn` is listed and has no property yet.
* Signals: custom equality, `subscribe` and `map`, nested scopes, `State`.
* Generators: what freezing a frame keeps; the depth limit at the first entry.
* Lowering: `switch`, walks over arrays, the evaluation of conditions, and the copy of a captured loop
  variable (only its control is there).
* Flow checks: closures that read a variable before it is assigned (`da_call`), destructuring,
  `using`, and the narrowing of types.
* Heap and collector, interpreter, JIT, front and back end of the compiler, tools and user
  interface: sequential code over large data (programs, heaps, registers), whose hazards are in the
  data and not in an order of steps; each has its line in `PROJECT.json`. Module loading is
  sequential too: each isolate evaluates its modules in an order the linker has fixed.
* Isolates: a thread with a VM of its own. Its channels, its promise and its entry are modelled;
  loading it, copying its arguments and the failure of its thread are not.

**Seen while modelling, and left out of the instances.** These are behaviours of the code that the models
show, or show when a precondition is lifted; no sentence of the documentation is plain enough
about most of them to call them a divergence.

* Signals. An effect that writes what a computed value it read depends on is not run again
  (`graph.vn:107`, `reactive.vn:85`). A derivation that throws half-way gives its stale value at the
  second read (`reactive.vn:114-124`). An effect whose first run throws is not owned by its scope
  (`effect.vn:75`). A job that fails in `ManualScheduler` drops the jobs behind it, which stay
  marked as queued (`scheduler.vn:20`); so does the flush limit (`graph.vn:155`). An effect that
  disposes of itself and reads on subscribes again (`graph.vn:43`). Clean-ups of computed values are
  never run (`reactive.vn:105`).
* Generators. One that is closed while a step runs is revived by that step's next yield
  (`generator.rs:184`), so `NullMarksTheEndIfUncut` excludes it. A cancelled step that is parked leaves
  its generator running for ever; its finally does not run.
* Lowering. A `using` is not disposed of when its block is left by return, throw or break
  (`stmt_block.rs:18`), though `docs/lang/statements.md:337` says so of leaving a block. A finally that
  raises on the path of a return is entered again. The argument of a throw in a catch clause is
  evaluated after the finally. A `do` loop becomes an endless loop that ends in its test, and a `continue`
  goes to its head (`stmt_block.rs:195-209`, `from_tir/build/stmt.rs:156-167`), so it skips the test:
  `do { continue } while (false)` never ends. `Covered` leaves out every `continue` whose loop is a `do`.
* Flow checks. A labelled break deeper than the top of a case is not seen as a way out of an endless
  loop (`completion.rs:124`). The break that closes a case makes the constructor and the variable
  walk drop the case where the arms meet (`ctor_flow.rs:216`, `flow.rs:106`), so `switch (k) { case
  1: break; default: this.x = 1 }` counts as assigning `x`, though
  `docs/dev/SOUNDNESS_CHECKLIST.md:15` asks for every path. A read in a finally, and in the update
  of a `for` that a `continue` leads to, is compared with what the statements before it would have
  assigned had they ended. `c && (x = 1)` counts as an assignment, and only the first catch clause
  is walked (`traversal.rs`). What the head of a `for` declares counts as assigned in the flow
  around it and for good, although the head has a scope of its own (`traversal.rs:362-376`,
  `binder_stmts.rs:91-113`): in `let x: int; for (let x = 0; ...) {} read(x)` the read is accepted.
  The binder's walk does not know early returns.
* Task library. A task cancelled inside `lock` or `acquire` takes its permit with it (`sync.vn:15`):
  `PermitsAreConserved` counts it as lost. `WaitGroup.add` tells nobody: when a negative delta
  brings the counter to zero, who waits goes on waiting until a later `done` reaches zero. A `done`
  too many throws with the counter at -1, where it stays, and the next `add(1)` brings it to zero
  untold (`sync.vn:94-106`).
* Sockets. The driver has one place for a read and one for a write, and checks for neither whether
  it is taken. A read or write called while another of its kind is parked is tried at once: a read
  that is served gets what the earlier one was waiting for, a write puts its bytes in the middle of
  the earlier one's. If it has to be parked it takes the earlier one's place, whose promise nobody
  completes any more and the rest of whose bytes are never sent (`tcp.rs:228`, `tcp.rs:249-272`).
  The WebSocket client can overlap writes: its reader task writes a Pong (`std/ws/client.vn:238`)
  while a `send` waits (`:212`).
* Timers. `sleep_task` reads the clock ahead of the lock (`timer.rs:66-68`). A caller held up
  between the two ends behind sleeps with a later deadline, if one of them was due before it got the
  lock.

## 7. Plan

1. *(done)* `TaskScheduler` with its refinement; `HostWake`; `Channel`; `BlockingPool`; the first
   three theorems.
2. *(done)* `TimerDriver`, `SocketStream`, `TaskPermits`, `TaskWaitGroup`, `Signals`, `Generators`,
`StructuredExits`, `FlowChecks`. *(left)* `Task.race`, `Task.timeout` and `TaskGroup` over
`TaskHandles`; two isolates with join and the failure of one; switch and walks over arrays in
`StructuredExits`.
3. *(done)* the theorems of section 5: every safety invariant and action property of the runtime and of
   the task library that a run checks, and the refinements of `MessageLine` and of `TaskHandles`. *(left)*
   nothing that is in the prover's reach for the modules there are.
