--------------------------- MODULE TaskScheduler ---------------------------
(***************************************************************************)
(* The cooperative scheduler of one Varn VM thread: task cells and their   *)
(* waiters (crates/varn-vm/src/task.rs), the queue of ready and parked     *)
(* tasks (exec/scheduler/queue.rs), the pump that drives them              *)
(* (exec/scheduler/drive.rs, pumps.rs), the operations a program has on    *)
(* task handles (exec/host/tasks.rs, isolates.rs, ctx_tasks.rs) and the    *)
(* entry points that start the pump (vm.rs, debug.rs, isolate_spawn.rs).   *)
(*                                                                         *)
(* The VM thread is sequential: pc says where it is.  User code, whether   *)
(* of the entry module (pc = "main") or of the running task (pc = "task"), *)
(* is any sequence of the operations below on any handle.  Awaiting or     *)
(* calling a lazy task mounts its body in the caller's frames and is no    *)
(* step of the scheduler, and a lazy element of a parallel is a Spawn      *)
(* before the Parallel.  Host threads act at any time: HostComplete.       *)
(*                                                                         *)
(* `settle` calls itself through `gather_one`.  The model keeps the call   *)
(* stack of that recursion in `work`, the waiters still to be notified,    *)
(* innermost call first; no other step of the VM thread is taken while     *)
(* there is work.                                                          *)
(***************************************************************************)
EXTENDS Integers, Sequences, FiniteSets, SequencesExt

CONSTANTS
    Cells,         \* identities for the TaskCells a run may create
    None,          \* no cell
    Generations,   \* the generation of a slot wraps at this value (2^32)
    SweepFloor,    \* SWEEP_FLOOR
    MaxParallel,   \* bound on the array given to `parallel`
    Kinds,         \* bound on the program: the kinds of cells it creates
    Entry          \* what drives the pump: "module", "test" or "isolate"

ASSUME GenerationsAssumption == Generations \in Nat \ {0}
ASSUME SweepFloorAssumption == SweepFloor \in Nat
ASSUME MaxParallelAssumption == MaxParallel \in Nat
ASSUME KindsAssumption == Kinds \subseteq {"task", "settled", "host", "gather"}
ASSUME NoneAssumption == None \notin Cells
ASSUME CellsAssumption == IsFiniteSet(Cells)
ASSUME EntryAssumption == Entry \in {"module", "test", "isolate"}

VARIABLES
    kind,        \* cell -> "unused", or what created it
    status,      \* cell -> Status
    waiters,     \* cell -> its Waiters, first to last
    unobserved,  \* heap.unobserved_rejections, less the cells whose outcome
                 \* has been read or acknowledged since (TaskCell.observed)
    promise,     \* cell -> the state of its HostPromise
    held,        \* host cells whose Extra still holds the promise
    parts,       \* gather cell -> the children it was created over
    left,        \* gather cell -> Gather.remaining
    failed,      \* gather cell -> the child whose error it holds, or None
    results,     \* gather cell -> the results array
    ready,       \* TaskQueue.local.ready
    slab,        \* TaskQueue.local.parked
    inbox,       \* TaskQueue.inbox
    hostQ,       \* WakeQueue.tokens: host cells whose token has fired
    news,        \* has the wake generation moved since `entered` was read?
    work,        \* waiters taken by a settle that is still notifying them
    batch,       \* what drain_hosts returned, not yet completed
    pc,          \* where the VM thread is
    phase,       \* "main", or "call" once the entry calls a function
    running,     \* the output cell of the task being run, or None
    target       \* the cell pump_until waits for, or None

cellVars == <<kind, status, waiters, unobserved, work>>
hostVars == <<promise, held, hostQ, news>>
gatherVars == <<parts, left, failed, results>>
queueVars == <<ready, slab, inbox>>
pumpVars == <<batch, pc, phase, running, target>>
vars == <<cellVars, hostVars, gatherVars, queueVars, pumpVars>>

(***************************************************************************)
(* Tokens, waiters and jobs                                                *)
(***************************************************************************)
Outcomes == {"resolved", "rejected"}
Tokens == [slot : Nat \ {0}, gen : 0..(Generations - 1)]
ResumeWaiters == [token : Tokens]
GatherWaiters == [parent : Cells, index : Nat \ {0}]
Waiters == ResumeWaiters \cup GatherWaiters
IsResume(w) == "token" \in DOMAIN w

Creates(what, c) ==
    /\ what \in Kinds
    /\ kind[c] = "unused"
    /\ kind' = [kind EXCEPT ![c] = what]

Unused == {c \in Cells : kind[c] = "unused"}
Known == Cells \ Unused
Settled(c) == status[c] \in Outcomes
Pending(c) == c \in Known /\ status[c] = "pending"

\* Variant: settle notifies `first` and forgets `more`.
JobsFirstOnly(c) ==
    [i \in 1..(IF waiters[c] = <<>> THEN 0 ELSE 1) |->
        [waiter |-> waiters[c][i], from |-> c]]

\* The waiters of c, each with the cell whose outcome it is to receive.
Jobs(c) == [i \in 1..Len(waiters[c]) |-> [waiter |-> waiters[c][i], from |-> c]]

-----------------------------------------------------------------------------
(***************************************************************************)
(* The slab of parked tasks.  A slot holds its generation and, when        *)
(* occupied, the output of the parked task and the cell it waits for.  The *)
(* slots one sweep releases enter the free list in an order of no          *)
(* consequence: they are interchangeable.                                  *)
(***************************************************************************)
Slot == [gen : 0..(Generations - 1), out : Cells \cup {None}, on : Cells \cup {None}]
Vacant(cell) ==
    [gen |-> (cell.gen + 1) % Generations, out |-> None, on |-> None]

EmptySlab == [cells |-> <<>>, free |-> <<>>, live |-> 0, sweepAt |-> SweepFloor]

Occupied(s) == {i \in DOMAIN s.cells : s.cells[i].out # None}
Abandoned(s) == {i \in Occupied(s) : status[s.cells[i].out] # "pending"}

\* Variant: the sweep does not count down `live`.
SweepMiscounts(s) ==
    LET gone == Abandoned(s)
    IN  [cells |-> [i \in DOMAIN s.cells |->
                        IF i \in gone THEN Vacant(s.cells[i]) ELSE s.cells[i]],
         free |-> s.free \o SetToSeq(gone),
         live |-> s.live,
         sweepAt |-> IF 2 * s.live > SweepFloor THEN 2 * s.live ELSE SweepFloor]

SweepAbandoned(s) ==
    LET gone == Abandoned(s)
        live == s.live - Cardinality(gone)
    IN  [cells |-> [i \in DOMAIN s.cells |->
                        IF i \in gone THEN Vacant(s.cells[i]) ELSE s.cells[i]],
         free |-> s.free \o SetToSeq(gone),
         live |-> live,
         sweepAt |-> IF 2 * live > SweepFloor THEN 2 * live ELSE SweepFloor]

Roomy(s) == IF s.live >= s.sweepAt THEN SweepAbandoned(s) ELSE s

\* The token of the next task to be parked in s, and s with that task in it.
NextToken(s) ==
    LET r == Roomy(s)
    IN  IF r.free = <<>>
        THEN [slot |-> Len(r.cells) + 1, gen |-> 0]
        ELSE LET i == Last(r.free) IN [slot |-> i, gen |-> r.cells[i].gen]

Insert(s, t, c) ==
    LET r == Roomy(s)
        token == NextToken(s)
        entry == [gen |-> token.gen, out |-> t, on |-> c]
    IN  IF r.free = <<>>
        THEN [cells |-> Append(r.cells, entry), free |-> r.free,
              live |-> r.live + 1, sweepAt |-> r.sweepAt]
        ELSE [cells |-> [r.cells EXCEPT ![token.slot] = entry], free |-> Front(r.free),
              live |-> r.live + 1, sweepAt |-> r.sweepAt]

Holds(s, token) ==
    /\ token.slot \in Occupied(s)
    /\ s.cells[token.slot].gen = token.gen

\* Variant: the parked task is copied out of its slot, not taken.
ReleaseKeepsTask(s, i) ==
    [cells |-> [s.cells EXCEPT ![i].gen = (@ + 1) % Generations],
     free |-> Append(s.free, i), live |-> s.live - 1, sweepAt |-> s.sweepAt]

Release(s, i) ==
    [cells |-> [s.cells EXCEPT ![i] = Vacant(@)],
     free |-> Append(s.free, i), live |-> s.live - 1, sweepAt |-> s.sweepAt]

-----------------------------------------------------------------------------
(***************************************************************************)
(* settle: a cell settles once; its waiters are taken and queued as work   *)
(* ahead of what the callers still have to notify (`rest`).  A rejection   *)
(* nobody waits for is remembered.  `seen` are the cells whose outcome the *)
(* step reads besides.                                                     *)
(***************************************************************************)
\* Variant: settle does not look whether the cell has settled.
SettleAgain(c, outcome, seen, rest) ==
    /\ status' = [status EXCEPT ![c] = outcome]
    /\ waiters' = [waiters EXCEPT ![c] = <<>>]
    /\ work' = Jobs(c) \o rest
    /\ unobserved' = unobserved \ seen

Settle(c, outcome, seen, rest) ==
    IF status[c] # "pending"
    THEN /\ work' = rest
         /\ unobserved' = unobserved \ seen
         /\ UNCHANGED <<status, waiters>>
    ELSE /\ status' = [status EXCEPT ![c] = outcome]
         /\ waiters' = [waiters EXCEPT ![c] = <<>>]
         /\ work' = Jobs(c) \o rest
         /\ unobserved' = IF outcome = "rejected" /\ waiters[c] = <<>>
                          THEN (unobserved \cup {c}) \ seen
                          ELSE unobserved \ seen

\* Variant: the waiters of a cell are a stack.
WatchLifo(c, token) ==
    /\ waiters' = [waiters EXCEPT ![c] = <<[token |-> token]>> \o @]
    /\ UNCHANGED inbox

\* TaskCell::watch
Watch(c, token) ==
    IF status[c] = "pending"
    THEN /\ waiters' = [waiters EXCEPT ![c] = Append(@, [token |-> token])]
         /\ UNCHANGED inbox
    ELSE /\ inbox' = Append(inbox, token)
         /\ UNCHANGED waiters

\* TaskQueue::park of a task with output t, into the slab s
Park(s, t, c) ==
    /\ slab' = Insert(s, t, c)
    /\ Watch(c, NextToken(s))

\* Variant: what becomes ready jumps the queue.
PushReadyFront(t, on) == ready' = <<[output |-> t, on |-> on]>> \o ready

PushReady(t, on) == ready' = Append(ready, [output |-> t, on |-> on])

-----------------------------------------------------------------------------
(***************************************************************************)
(* settle's loop over the waiters it took.                                 *)
(***************************************************************************)
NotifyAwaiter ==
    /\ work # <<>>
    /\ IsResume(Head(work).waiter)
    /\ inbox' = Append(inbox, Head(work).waiter.token)
    /\ work' = Tail(work)
    /\ UNCHANGED <<kind, status, waiters, unobserved, ready, slab,
                   hostVars, gatherVars, pumpVars>>

\* Variant: the parent settles with the first child that rejects.
GatherFailsFast ==
    /\ work # <<>>
    /\ ~IsResume(Head(work).waiter)
    /\ LET child == Head(work).from
           p == Head(work).waiter.parent
           i == Head(work).waiter.index
           resolved == status[child] = "resolved"
       IN  /\ results' = IF resolved /\ status[p] = "pending"
                         THEN [results EXCEPT ![p][i] = child] ELSE results
           /\ failed' = IF ~resolved /\ failed[p] = None
                        THEN [failed EXCEPT ![p] = child] ELSE failed
           /\ left' = [left EXCEPT ![p] = IF resolved /\ @ > 0 THEN @ - 1 ELSE 0]
           /\ IF left'[p] = 0
              THEN Settle(p, IF failed'[p] = None THEN "resolved" ELSE "rejected",
                          {child}, Tail(work))
              ELSE /\ work' = Tail(work)
                   /\ unobserved' = unobserved \ {child}
                   /\ UNCHANGED <<status, waiters>>
    /\ UNCHANGED <<kind, parts, hostVars, queueVars, pumpVars>>

\* gather_one for the child whose settlement is being notified.  The value of
\* a cancelled parent is no longer the results array, so nothing is stored.
GatherOne ==
    /\ work # <<>>
    /\ ~IsResume(Head(work).waiter)
    /\ LET child == Head(work).from
           p == Head(work).waiter.parent
           i == Head(work).waiter.index
           resolved == status[child] = "resolved"
       IN  /\ results' = IF resolved /\ status[p] = "pending"
                         THEN [results EXCEPT ![p][i] = child] ELSE results
           /\ failed' = IF ~resolved /\ failed[p] = None
                        THEN [failed EXCEPT ![p] = child] ELSE failed
           /\ left' = [left EXCEPT ![p] = IF @ = 0 THEN 0 ELSE @ - 1]
           /\ IF left'[p] = 0
              THEN Settle(p, IF failed'[p] = None THEN "resolved" ELSE "rejected",
                          {child}, Tail(work))
              ELSE /\ work' = Tail(work)
                   /\ unobserved' = unobserved \ {child}
                   /\ UNCHANGED <<status, waiters>>
    /\ UNCHANGED <<kind, parts, hostVars, queueVars, pumpVars>>

-----------------------------------------------------------------------------
(***************************************************************************)
(* What user code does: the entry module or the running task.              *)
(***************************************************************************)
InUserCode == pc \in {"main", "task"} /\ work = <<>>

\* spawn: a detached task with a fresh output goes to the back of the queue.
Spawn(c) ==
    /\ InUserCode
    /\ Creates("task", c)
    /\ PushReady(c, None)
    /\ UNCHANGED <<status, waiters, unobserved, work, slab, inbox,
                   hostVars, gatherVars, pumpVars>>

\* task_resolved and task_rejected: a handle that is born settled.
BornSettled(c, outcome) ==
    /\ InUserCode
    /\ Creates("settled", c)
    /\ Settle(c, outcome, {}, <<>>)
    /\ UNCHANGED <<hostVars, gatherVars, queueVars, pumpVars>>

\* task_from_host: the cell is adopted and its token watches the promise,
\* which fires at once when the promise is already complete.
FromHost(c, state) ==
    /\ InUserCode
    /\ Creates("host", c)
    /\ promise' = [promise EXCEPT ![c] = state]
    /\ held' = held \cup {c}
    /\ IF state = "pending"
       THEN UNCHANGED <<hostQ, news>>
       ELSE hostQ' = Append(hostQ, c) /\ news' = TRUE
    /\ UNCHANGED <<status, waiters, unobserved, work, gatherVars,
                   queueVars, pumpVars>>

\* parallel over handles: a waiter is left in every pending child, and the
\* outcome of a settled one is taken at once, in index order.
Parallel(p, children) ==
    LET Open == {i \in DOMAIN children : status[children[i]] = "pending"}
        Errs == {i \in DOMAIN children : status[children[i]] = "rejected"}
        error == IF Errs = {} THEN None
                 ELSE children[CHOOSE i \in Errs : \A j \in Errs : i <= j]
        gathers(c) == SetToSeq({[parent |-> p, index |-> i] :
                                   i \in {j \in DOMAIN children : children[j] = c}})
        done == {children[i] : i \in DOMAIN children \ Open}
    IN
    /\ InUserCode
    /\ Creates("gather", p)
    /\ parts' = [parts EXCEPT ![p] = children]
    /\ results' = [results EXCEPT ![p] =
                      [i \in DOMAIN children |->
                          IF status[children[i]] = "resolved"
                          THEN children[i] ELSE None]]
    /\ left' = [left EXCEPT ![p] = Cardinality(Open)]
    /\ failed' = [failed EXCEPT ![p] = error]
    /\ waiters' = [c \in Cells |->
                      IF status[c] = "pending" /\ c # p
                      THEN waiters[c] \o gathers(c) ELSE waiters[c]]
    /\ IF Open = {}
       THEN status' = [status EXCEPT ![p] =
                          IF error = None THEN "resolved" ELSE "rejected"]
       ELSE UNCHANGED status
    /\ unobserved' = (unobserved \ done) \cup
                     (IF Open = {} /\ error # None THEN {p} ELSE {})
    /\ UNCHANGED <<work, hostVars, queueVars, pumpVars>>

\* task_cancel: the promise behind a host cell is rejected, which fires its
\* token if it was still pending; the cell is rejected and acknowledged.
Cancel(c) ==
    /\ InUserCode
    /\ c \in Known
    /\ IF c \in held /\ promise[c] = "pending"
       THEN /\ promise' = [promise EXCEPT ![c] = "rejected"]
            /\ hostQ' = Append(hostQ, c)
            /\ news' = TRUE
       ELSE UNCHANGED <<promise, hostQ, news>>
    /\ Settle(c, "rejected", {c}, <<>>)
    /\ UNCHANGED <<kind, held, gatherVars, queueVars, pumpVars>>

\* begin_await of a handle that is already settled: the value is returned or
\* thrown on the spot.
AwaitSettled(c) ==
    /\ InUserCode
    /\ Settled(c)
    /\ unobserved' = unobserved \ {c}
    /\ UNCHANGED <<kind, status, waiters, work, hostVars,
                   gatherVars, queueVars, pumpVars>>

\* The running task awaits a pending handle: run_task freezes and parks it.
TaskAwait(c) ==
    /\ InUserCode
    /\ pc = "task"
    /\ Pending(c)
    /\ Park(slab, running, c)
    /\ running' = None
    /\ pc' = "top"
    /\ UNCHANGED <<kind, status, unobserved, work, ready, hostVars,
                   gatherVars, batch, phase, target>>

\* The running task awaits a yield cell: it goes to the back of the queue.
TaskYield ==
    /\ InUserCode
    /\ pc = "task"
    /\ PushReady(running, None)
    /\ running' = None
    /\ pc' = "top"
    /\ UNCHANGED <<cellVars, slab, inbox, hostVars, gatherVars, batch, phase, target>>

\* The running task returns, throws, or cannot be frozen: finish.
Finish(outcome) ==
    /\ InUserCode
    /\ pc = "task"
    /\ Settle(running, outcome, {}, <<>>)
    /\ running' = None
    /\ pc' = "top"
    /\ UNCHANGED <<kind, hostVars, gatherVars, queueVars, batch, phase, target>>

-----------------------------------------------------------------------------
(***************************************************************************)
(* The entry: Vm::run under drive_main, then call_main_global for a unit   *)
(* test; an isolate worker loads its module and calls the worker function. *)
(***************************************************************************)
Unhandled == unobserved # {}

\* The entry module awaits a pending handle: Vm::run returns, looks for an
\* unhandled rejection, and drive_main pumps until the handle settles.
MainAwait(c) ==
    /\ InUserCode
    /\ pc = "main"
    /\ Entry # "isolate"
    /\ Pending(c)
    /\ IF Unhandled
       THEN pc' = "failed" /\ UNCHANGED target
       ELSE pc' = "top" /\ target' = c
    /\ UNCHANGED <<cellVars, hostVars, gatherVars, queueVars, batch, phase, running>>

\* The entry module ends.
MainEnd ==
    /\ InUserCode
    /\ pc = "main"
    /\ Entry = "module"
    /\ pc' = IF Unhandled THEN "failed" ELSE "done"
    /\ UNCHANGED <<cellVars, hostVars, gatherVars, queueVars, batch, phase, running, target>>

\* The entry module has ended and a function of it is called as a task:
\* run_lazy_task_sync.  An isolate does not look for unhandled rejections.
CallMain(c) ==
    /\ InUserCode
    /\ pc = "main"
    /\ Entry # "module"
    /\ c \in Unused
    /\ IF Entry = "test" /\ Unhandled
       THEN pc' = "failed" /\ UNCHANGED <<kind, ready, phase, target>>
       ELSE /\ kind' = [kind EXCEPT ![c] = "task"]
            /\ PushReady(c, None)
            /\ target' = c
            /\ phase' = "call"
            /\ pc' = "top"
    /\ UNCHANGED <<status, waiters, unobserved, work, slab, inbox,
                   hostVars, gatherVars, batch, running>>

-----------------------------------------------------------------------------
(***************************************************************************)
(* pump_until                                                              *)
(***************************************************************************)
Pumping(where) == pc = where /\ work = <<>>

\* The target has settled: the pump returns its outcome to the entry.
PumpReturn ==
    /\ Pumping("top")
    /\ Settled(target)
    /\ unobserved' = unobserved \ {target}
    /\ target' = None
    /\ pc' = CASE phase = "main" -> "main"
               [] phase = "call" /\ status[target] = "resolved" -> "done"
               [] phase = "call" /\ status[target] = "rejected" -> "failed"
    /\ UNCHANGED <<kind, status, waiters, work, hostVars, gatherVars,
                   queueVars, batch, phase, running>>

\* entered = host_generation(), before the drain
PumpTop ==
    /\ Pumping("top")
    /\ ~Settled(target)
    /\ news' = FALSE
    /\ pc' = "drain"
    /\ UNCHANGED <<cellVars, promise, held, hostQ, gatherVars, queueVars,
                   batch, phase, running, target>>

\* Variant: the drained tokens stay in the wake queue.
DrainKeepsTokens ==
    /\ Pumping("drain")
    /\ batch' = hostQ
    /\ pc' = "hosts"
    /\ UNCHANGED <<cellVars, hostVars, gatherVars, queueVars, phase, running, target>>

DrainHosts ==
    /\ Pumping("drain")
    /\ batch' = hostQ
    /\ hostQ' = <<>>
    /\ pc' = "hosts"
    /\ UNCHANGED <<cellVars, promise, held, news, gatherVars, queueVars,
                   phase, running, target>>

\* complete_host: the promise is taken and its completion settles the cell.
CompleteHost ==
    /\ Pumping("hosts")
    /\ batch # <<>>
    /\ LET c == Head(batch)
       IN  IF c \in held /\ promise[c] # "pending"
           THEN Settle(c, promise[c], {}, <<>>)
           ELSE UNCHANGED <<status, waiters, unobserved, work>>
    /\ held' = held \ {Head(batch)}
    /\ batch' = Tail(batch)
    /\ UNCHANGED <<kind, promise, hostQ, news, gatherVars, queueVars, pc,
                   phase, running, target>>

\* Variant: the generation is read after the drain.
HostsDoneReadsGeneration ==
    /\ Pumping("hosts")
    /\ batch = <<>>
    /\ news' = FALSE
    /\ pc' = "collect"
    /\ UNCHANGED <<cellVars, promise, held, hostQ, gatherVars, queueVars, batch,
                   phase, running, target>>

HostsDone ==
    /\ Pumping("hosts")
    /\ batch = <<>>
    /\ pc' = "collect"
    /\ UNCHANGED <<cellVars, hostVars, gatherVars, queueVars, batch, phase,
                   running, target>>

(***************************************************************************)
(* collect_resumes takes the tokens of the inbox one at a time.            *)
(***************************************************************************)
Collecting == Pumping("collect") /\ inbox # <<>>

\* The slot was released, or the parked task's own handle has settled: the
\* token, and the task with it, is dropped.
CollectStale ==
    /\ Collecting
    /\ LET token == Head(inbox)
       IN  \/ /\ ~Holds(slab, token)
              /\ UNCHANGED slab
           \/ /\ Holds(slab, token)
              /\ status[slab.cells[token.slot].out] # "pending"
              /\ slab' = Release(slab, token.slot)
    /\ inbox' = Tail(inbox)
    /\ UNCHANGED <<cellVars, hostVars, gatherVars, ready, pumpVars>>

\* A token of an earlier occupant whose generation has come round again: the
\* task's own handle is still pending, so it is parked afresh.
CollectReparks ==
    /\ Collecting
    /\ LET token == Head(inbox)
           parked == slab.cells[token.slot]
       IN  /\ Holds(slab, token)
           /\ status[parked.out] = "pending"
           /\ status[parked.on] = "pending"
           /\ slab' = Insert(Release(slab, token.slot), parked.out, parked.on)
           /\ waiters' = [waiters EXCEPT ![parked.on] =
                 Append(@, [token |-> NextToken(Release(slab, token.slot))])]
    /\ inbox' = Tail(inbox)
    /\ UNCHANGED <<kind, status, unobserved, work, hostVars,
                   gatherVars, ready, pumpVars>>

CollectResumes ==
    /\ Collecting
    /\ LET token == Head(inbox)
           parked == slab.cells[token.slot]
       IN  /\ Holds(slab, token)
           /\ status[parked.out] = "pending"
           /\ Settled(parked.on)
           /\ slab' = Release(slab, token.slot)
           /\ PushReady(parked.out, parked.on)
    /\ inbox' = Tail(inbox)
    /\ UNCHANGED <<cellVars, hostVars, gatherVars, pumpVars>>

CollectDone ==
    /\ Pumping("collect")
    /\ inbox = <<>>
    /\ pc' = "ready"
    /\ UNCHANGED <<cellVars, hostVars, gatherVars, queueVars, batch, phase,
                   running, target>>

\* run_task: a task whose handle has settled is dropped; any other is mounted
\* or thawed, and the outcome it awaited is read.
RunTask ==
    /\ Pumping("ready")
    /\ ready # <<>>
    /\ ready' = Tail(ready)
    /\ LET next == Head(ready)
       IN  IF status[next.output] # "pending"
           THEN /\ pc' = "top"
                /\ UNCHANGED <<running, unobserved>>
           ELSE /\ pc' = "task"
                /\ running' = next.output
                /\ unobserved' = unobserved \ {next.on}
    /\ UNCHANGED <<kind, status, waiters, work, slab, inbox,
                   hostVars, gatherVars, batch, phase, target>>

\* host_wait sleeps until the generation moves; the other two conditions are
\* read once more before it sleeps.
GoToSleep ==
    /\ Pumping("ready")
    /\ ready = <<>>
    /\ pc' = "wait"
    /\ UNCHANGED <<cellVars, hostVars, gatherVars, queueVars, batch, phase,
                   running, target>>

WakeUp ==
    /\ Pumping("wait")
    /\ news \/ Settled(target) \/ inbox # <<>>
    /\ pc' = "top"
    /\ UNCHANGED <<cellVars, hostVars, gatherVars, queueVars, batch, phase,
                   running, target>>

-----------------------------------------------------------------------------
\* A host thread completes a promise: its token reaches the wake queue.
HostComplete(c, outcome) ==
    /\ promise[c] = "pending"
    /\ promise' = [promise EXCEPT ![c] = outcome]
    /\ hostQ' = Append(hostQ, c)
    /\ news' = TRUE
    /\ UNCHANGED <<cellVars, held, gatherVars, queueVars, pumpVars>>

Init ==
    /\ kind = [c \in Cells |-> "unused"]
    /\ status = [c \in Cells |-> "pending"]
    /\ waiters = [c \in Cells |-> <<>>]
    /\ unobserved = {}
    /\ promise = [c \in Cells |-> "none"]
    /\ held = {}
    /\ parts = [c \in Cells |-> <<>>]
    /\ left = [c \in Cells |-> 0]
    /\ failed = [c \in Cells |-> None]
    /\ results = [c \in Cells |-> <<>>]
    /\ ready = <<>>
    /\ slab = EmptySlab
    /\ inbox = <<>>
    /\ hostQ = <<>>
    /\ news = FALSE
    /\ work = <<>>
    /\ batch = <<>>
    /\ pc = "main"
    /\ phase = "main"
    /\ running = None
    /\ target = None

Children == UNION {[1..n -> Known] : n \in 0..MaxParallel}

UserCode ==
    \/ \E c \in Cells : Spawn(c) \/ Cancel(c) \/ AwaitSettled(c) \/ TaskAwait(c)
    \/ \E c \in Cells, o \in Outcomes : BornSettled(c, o)
    \/ \E c \in Cells, s \in {"pending"} \cup Outcomes : FromHost(c, s)
    \/ \E p \in Cells : \E children \in Children : Parallel(p, children)
    \/ \E o \in Outcomes : Finish(o)
    \/ TaskYield

EntryPoint ==
    \/ \E c \in Cells : MainAwait(c) \/ CallMain(c)
    \/ MainEnd

Pump ==
    \/ NotifyAwaiter \/ GatherOne
    \/ PumpReturn \/ PumpTop \/ DrainHosts \/ CompleteHost \/ HostsDone
    \/ CollectStale \/ CollectReparks \/ CollectResumes \/ CollectDone
    \/ RunTask \/ GoToSleep \/ WakeUp

VmThread == UserCode \/ EntryPoint \/ Pump

HostThreads == \E c \in Cells, o \in Outcomes : HostComplete(c, o)

Next == VmThread \/ HostThreads

Spec == Init /\ [][Next]_vars

\* The VM thread goes on running; host threads owe nothing.
FairSpec == Spec /\ WF_vars(VmThread)
-----------------------------------------------------------------------------
(***************************************************************************)
(* Invariants                                                              *)
(***************************************************************************)
Notifications == [waiter : Waiters, from : Cells]
ReadyTasks == [output : Cells, on : Cells \cup {None}]
Slabs == [cells : Seq(Slot), free : Seq(Nat \ {0}), live : Int, sweepAt : Int]

CellTypes ==
    /\ kind \in [Cells -> {"unused", "task", "settled", "host", "gather"}]
    /\ status \in [Cells -> {"pending"} \cup Outcomes]
    /\ waiters \in [Cells -> Seq(Waiters)]
    /\ unobserved \subseteq Cells
    /\ work \in Seq(Notifications)

HostTypes ==
    /\ promise \in [Cells -> {"none", "pending"} \cup Outcomes]
    /\ held \subseteq Cells
    /\ hostQ \in Seq(Cells)
    /\ news \in BOOLEAN

GatherTypes ==
    /\ parts \in [Cells -> Seq(Cells)]
    /\ left \in [Cells -> Nat]
    /\ failed \in [Cells -> Cells \cup {None}]
    /\ results \in [Cells -> Seq(Cells \cup {None})]

QueueTypes ==
    /\ ready \in Seq(ReadyTasks)
    /\ slab \in Slabs
    /\ inbox \in Seq(Tokens)

PumpTypes ==
    /\ batch \in Seq(Cells)
    /\ pc \in {"main", "task", "top", "drain", "hosts", "collect", "ready",
               "wait", "done", "failed"}
    /\ phase \in {"main", "call"}
    /\ running \in Cells \cup {None}
    /\ target \in Cells \cup {None}

\* The values every variable keeps to: the cells, their waiters and the queues
\* of TaskQueue.
TypeOK == CellTypes /\ HostTypes /\ GatherTypes /\ QueueTypes /\ PumpTypes

(***************************************************************************)
(* A task is never lost and never duplicated: the seed of a live task is   *)
(* in exactly one place (being run, ready, or parked in one slot), and the *)
(* seed of one whose handle has settled is in at most one, whatever        *)
(* cancels, sweeps and stale tokens (run_task, collect_resumes and         *)
(* sweep_abandoned move it or drop it).                                    *)
(***************************************************************************)
Homes(t) ==
    Cardinality({i \in DOMAIN ready : ready[i].output = t})
    + Cardinality({i \in DOMAIN slab.cells : slab.cells[i].out = t})
    + (IF running = t THEN 1 ELSE 0)

OneHome ==
    /\ TypeOK
    /\ \A t \in Cells :
          /\ Homes(t) <= 1
          /\ kind[t] = "task" /\ status[t] = "pending" => Homes(t) = 1
          /\ kind[t] # "task" => Homes(t) = 0

(***************************************************************************)
(* No wake-up of a parked task is lost: the token of every occupied slot   *)
(* is among the waiters of the cell the task awaits while that is pending, *)
(* and on its way through settle's loop or in the inbox once it has        *)
(* settled (park, watch, settle, collect_resumes).                         *)
(***************************************************************************)
TokenOf(i) == [slot |-> i, gen |-> slab.cells[i].gen]

Delivered(token) ==
    \/ \E k \in DOMAIN inbox : inbox[k] = token
    \/ \E k \in DOMAIN work : work[k].waiter = [token |-> token]

ParkedIsWatched ==
    \A i \in Occupied(slab) :
        IF status[slab.cells[i].on] = "pending"
        THEN \E k \in DOMAIN waiters[slab.cells[i].on] :
                 waiters[slab.cells[i].on][k] = [token |-> TokenOf(i)]
        ELSE Delivered(TokenOf(i))

(***************************************************************************)
(* The slab's books: the free list names each vacant slot once and no      *)
(* other, and `live` counts the occupied ones, so that `live -= 1` never   *)
(* wraps and a slot is never given to two tasks (Parked::insert, remove,   *)
(* sweep_abandoned).                                                       *)
(***************************************************************************)
SlabAccounting ==
    /\ IsInjective(slab.free)
    /\ {slab.free[k] : k \in DOMAIN slab.free}
          = DOMAIN slab.cells \ Occupied(slab)
    /\ slab.live = Cardinality(Occupied(slab))

(***************************************************************************)
(* A `parallel` settles exactly when its last child does.  Gather.remaining *)
(* is the number of children still pending or whose settlement is being    *)
(* notified; while it is not 0 the parent may only have been cancelled; a  *)
(* resolved parent holds the result of every child at its index, and an    *)
(* error it holds is a rejected child's (gather_tasks, gather_one).        *)
(***************************************************************************)
Owed(p) ==
    Cardinality({i \in DOMAIN parts[p] : status[parts[p][i]] = "pending"})
    + Cardinality({k \in DOMAIN work : ~IsResume(work[k].waiter)
                                       /\ work[k].waiter.parent = p})

GatherExact ==
    \A p \in {c \in Cells : kind[c] = "gather"} :
        /\ left[p] = Owed(p)
        /\ status[p] = "pending" => left[p] > 0
        /\ status[p] = "resolved" => left[p] = 0 /\ results[p] = parts[p]
        /\ failed[p] # None => /\ status[failed[p]] = "rejected"
                               /\ failed[p] \in {parts[p][i] : i \in DOMAIN parts[p]}
                               /\ status[p] # "resolved"

(***************************************************************************)
(* A completed host operation reaches its handle: while the handle has not *)
(* been completed its promise is still pending or exactly one token of it  *)
(* is in the wake queue or among those drained (adopt_host, drain_hosts,   *)
(* complete_host); a pending host handle is never without its promise.     *)
(***************************************************************************)
TokensOfHost(c) ==
    Cardinality({k \in DOMAIN hostQ : hostQ[k] = c})
    + Cardinality({k \in DOMAIN batch : batch[k] = c})

HostTokenDue ==
    \A c \in {x \in Cells : kind[x] = "host"} :
        /\ status[c] = "pending" => c \in held
        /\ TokensOfHost(c) = IF c \in held /\ promise[c] # "pending" THEN 1 ELSE 0

(***************************************************************************)
(* The VM thread sleeps in host_wait only when nothing is left for it to   *)
(* do: no fired token, no ready task, and no parked live task whose        *)
(* awaited handle has settled (pump_until reads the generation first).     *)
(***************************************************************************)
SleepsOnlyWhenIdle ==
    pc = "wait" /\ ~news =>
        /\ hostQ = <<>> /\ batch = <<>> /\ ready = <<>> /\ inbox = <<>>
        /\ \A i \in Occupied(slab) :
              status[slab.cells[i].out] = "pending" =>
                  status[slab.cells[i].on] = "pending"

(***************************************************************************)
(* docs/dev/SOUNDNESS_CHECKLIST.md:23, "[x] Rechazo de tarea no observado   *)
(* hace fallar el programa": a program that ends well has left no rejection *)
(* of a task unobserved.  Vm::run looks for one whenever it returns;       *)
(* call_main_global and an isolate's run_lazy_task_sync do not.            *)
(***************************************************************************)
UnobservedRejectionFails == pc = "done" => unobserved = {}

(***************************************************************************)
(* Action properties                                                       *)
(***************************************************************************)
\* An outcome is final: no cancel, late completion or last child of a parallel
\* changes a handle that has settled, or the waiters it no longer has.
OutcomeIsFinal ==
    [][\A c \in Cells : status[c] # "pending" =>
            /\ status'[c] = status[c]
            /\ waiters'[c] = waiters[c]]_vars

(***************************************************************************)
(* Liveness                                                                *)
(***************************************************************************)
Over == pc \in {"done", "failed"}
InReady(t) == \E k \in DOMAIN ready : ready[k].output = t
ParkedOnSettled(t) == \E i \in Occupied(slab) :
    slab.cells[i].out = t /\ Settled(slab.cells[i].on)
Runnable(t) == status[t] = "pending" /\ (InReady(t) \/ ParkedOnSettled(t))

\* Every task that can run does, or the program ends, or the task is cancelled
\* first: nothing starves it, neither tasks that keep yielding nor a stream of
\* host completions, and no wake-up it needs is missed.
RunnableRuns ==
    \A t \in Cells : Runnable(t) ~> (running = t \/ status[t] # "pending" \/ Over)

\* A completed host operation settles its handle, or the program ends.
HostOutcomeArrives ==
    \A c \in Cells : (kind[c] = "host" /\ promise[c] \in Outcomes)
                        ~> (Settled(c) \/ Over)
=============================================================================
