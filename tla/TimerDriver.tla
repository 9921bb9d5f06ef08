---------------------------- MODULE TimerDriver ----------------------------
(***************************************************************************)
(* Timers (crates/varn-builtins/src/runtime/timer.rs) and the thread that  *)
(* fires them, the event loop of the I/O driver (modules/runtime/net/      *)
(* driver/event_loop.rs).                                                  *)
(*                                                                         *)
(* sleep_task reads the clock, pushes the deadline under the lock of the   *)
(* heap and pokes the driver after it if the deadline is the earliest; the *)
(* driver reads the next deadline, polls until then, takes what is due     *)
(* under the lock and resolves it after.  Between any two of these steps   *)
(* others sleep, cancel and are poked.  Time is discrete and passes at any *)
(* point, also while a call waits for the lock with its deadline computed. *)
(***************************************************************************)
EXTENDS Naturals, Sequences, FiniteSets

CONSTANTS
    MaxSleeps,    \* bound: calls to sleep_task, numbered as they come
    PollCap,      \* the longest poll: 50 ms
    PurgeEvery,   \* cancellations between two purges: 1024
    MaxTime       \* bound: the clock and the deadlines stop there

ASSUME TimerAssumption ==
    {PollCap, PurgeEvery} \subseteq Nat \ {0} /\ {MaxSleeps, MaxTime} \subseteq Nat

Sleeps == 1..MaxSleeps

VARIABLES
    now,
    heap,       \* WheelState.queue, as a set of entries
    sleepSeq,   \* WheelState.seq
    outcome,    \* call -> the state of its promise
    entryOf,    \* call -> its entry, of which it makes the deadline first
    calling,    \* call -> what its thread has still to do
    cancelled,  \* CANCELLED, modulo PurgeEvery
    waking,     \* the waker of the poll has been used
    driver,     \* where the event loop is
    until,      \* the end of the poll, 0 outside it
    due         \* what take_due returned, not yet resolved

heapVars == <<heap, sleepSeq, entryOf>>
tvars == <<now, heapVars, outcome, calling, cancelled, waking, driver, until, due>>

\* pushed is auxiliary: when the entry came into the heap.
NoEntry == [call |-> 0, deadline |-> 0, seq |-> 0, pushed |-> 0]
Before(x, y) == x.deadline < y.deadline \/ (x.deadline = y.deadline /\ x.seq < y.seq)
Pending(x) == outcome[x.call] = "pending"

TimerInit ==
    /\ now = 0
    /\ heap = {}
    /\ sleepSeq = 0
    /\ outcome = [s \in Sleeps |-> "none"]
    /\ entryOf = [s \in Sleeps |-> NoEntry]
    /\ calling = [s \in Sleeps |-> "none"]
    /\ cancelled = 0
    /\ waking = FALSE
    /\ driver = "deadline"
    /\ until = 0
    /\ due = <<>>

Tick ==
    /\ now < MaxTime
    /\ now' = now + 1
    /\ UNCHANGED <<heapVars, outcome, calling, cancelled, waking, driver, until, due>>

NextSeq == sleepSeq + 1

\* Variant: only an empty heap makes a deadline the earliest.
EarliestIfAlone(deadline) == heap = {}
Earliest(deadline) == \A x \in heap : deadline < x.deadline

Called(t) == outcome[t] # "none" \/ calling[t] = "push"

\* sleep_task as far as the lock: the deadline is computed.
Sleep(s, ms) ==
    /\ ~Called(s) /\ \A t \in 1..(s - 1) : Called(t)
    /\ now + ms <= MaxTime
    /\ IF ms = 0
       THEN outcome' = [outcome EXCEPT ![s] = "slept"] /\ UNCHANGED <<entryOf, calling>>
       ELSE /\ entryOf' = [entryOf EXCEPT ![s] =
                               [call |-> s, deadline |-> now + ms, seq |-> 0, pushed |-> 0]]
            /\ calling' = [calling EXCEPT ![s] = "push"]
            /\ UNCHANGED outcome
    /\ UNCHANGED <<now, heap, sleepSeq, cancelled, waking, driver, until, due>>

\* Under the lock: the entry is pushed, after a look at the head.
Push(s) ==
    /\ calling[s] = "push"
    /\ LET e == [call |-> s, deadline |-> entryOf[s].deadline, seq |-> sleepSeq, pushed |-> now]
       IN  /\ heap' = heap \cup {e}
           /\ entryOf' = [entryOf EXCEPT ![s] = e]
           /\ calling' = [calling EXCEPT ![s] = IF Earliest(e.deadline) THEN "poke" ELSE "none"]
    /\ sleepSeq' = NextSeq
    /\ outcome' = [outcome EXCEPT ![s] = "pending"]
    /\ UNCHANGED <<now, cancelled, waking, driver, until, due>>

\* poke, after the lock is released: wake_driver.
Poke(s) ==
    /\ calling[s] = "poke"
    /\ calling' = [calling EXCEPT ![s] = "none"]
    /\ waking' = TRUE
    /\ UNCHANGED <<now, heapVars, outcome, cancelled, driver, until, due>>

\* Cancelling the handle completes the promise, and then counts.
CancelSleep(s) ==
    /\ outcome[s] = "pending"
    /\ calling[s] = "none"
    /\ outcome' = [outcome EXCEPT ![s] = "cancelled"]
    /\ calling' = [calling EXCEPT ![s] = "note"]
    /\ UNCHANGED <<now, heapVars, cancelled, waking, driver, until, due>>

NoteCancel(s) ==
    /\ calling[s] = "note"
    /\ calling' = [calling EXCEPT ![s] = "none"]
    /\ cancelled' = (cancelled + 1) % PurgeEvery
    /\ heap' = IF cancelled = 0 THEN {x \in heap : Pending(x)} ELSE heap
    /\ UNCHANGED <<now, sleepSeq, entryOf, outcome, waking, driver, until, due>>

-----------------------------------------------------------------------------
\* The loop has drained its commands: next_deadline and the timeout of the poll.
ReadDeadline ==
    /\ driver = "deadline"
    /\ LET cap == now + PollCap
           first == {x.deadline : x \in {x \in heap : \A y \in heap : ~Before(y, x)}}
       IN  until' = IF \E d \in first : d < cap
                    THEN CHOOSE d \in first : TRUE ELSE cap
    /\ driver' = "poll"
    /\ UNCHANGED <<now, heapVars, outcome, calling, cancelled, waking, due>>

\* poll returns, with the waker's event if there is one: its time has come, it
\* was woken, or a socket is ready.
PollEnds ==
    /\ driver = "poll"
    /\ waking' = FALSE
    /\ until' = 0
    /\ driver' = "due"
    /\ UNCHANGED <<now, heapVars, outcome, calling, cancelled, due>>
PollReturns == (waking \/ now >= until) /\ PollEnds
SocketReady == PollEnds

\* poll was interrupted: the loop goes back to its commands.
PollInterrupted ==
    /\ driver = "poll"
    /\ until' = 0
    /\ driver' = "deadline"
    /\ UNCHANGED <<now, heapVars, outcome, calling, cancelled, waking, due>>

\* An entry stays if it, or one before it, is pending and not due.
Kept(x) == \E y \in heap : (y = x \/ Before(y, x)) /\ y.deadline > now /\ Pending(y)

\* Variant: the last deadline is resolved first.
LastFirst(x, y) == Before(y, x)
FiringOrder(x, y) == Before(x, y)

\* The sequence of the entries of a set, each once, in firing order.
InFiringOrder(seq, entries) ==
    /\ \A x \in entries : \E k \in DOMAIN seq : seq[k] = x
    /\ \A j, k \in DOMAIN seq : j < k => FiringOrder(seq[j], seq[k])

\* take_due: the head is popped while it is due or no longer pending.
TakeDue ==
    /\ driver = "due"
    /\ heap' = {x \in heap : Kept(x)}
    /\ LET popped == {x \in heap : ~Kept(x) /\ Pending(x)}
       IN  \E seq \in [1..Cardinality(popped) -> popped] :
              InFiringOrder(seq, popped) /\ due' = seq
    /\ driver' = "resolve"
    /\ UNCHANGED <<now, sleepSeq, entryOf, outcome, calling, cancelled, waking, until>>

\* The first of them is resolved, unless it was cancelled meanwhile.
ResolveDue ==
    /\ driver = "resolve"
    /\ due # <<>>
    /\ LET s == Head(due).call
       IN  outcome' = [outcome EXCEPT ![s] = IF @ = "pending" THEN "slept" ELSE @]
    /\ due' = Tail(due)
    /\ UNCHANGED <<now, heapVars, calling, cancelled, waking, driver, until>>

DueDone ==
    /\ driver = "resolve"
    /\ due = <<>>
    /\ driver' = "deadline"
    /\ UNCHANGED <<now, heapVars, outcome, calling, cancelled, waking, until, due>>

Turn == ReadDeadline \/ TakeDue \/ ResolveDue \/ DueDone
TimerNext ==
    \/ Tick \/ Turn \/ PollReturns \/ SocketReady \/ PollInterrupted
    \/ \E s \in Sleeps : Push(s) \/ Poke(s) \/ CancelSleep(s) \/ NoteCancel(s)
    \/ \E s \in Sleeps, ms \in 0..MaxTime : Sleep(s, ms)

\* Time passes, the driver thread runs, and a call that has begun gets the lock
\* and returns.  An interrupted poll is no excuse: interruptions end.
PollsAndCallsEnd ==
    /\ SF_tvars(PollReturns)
    /\ WF_tvars(\E s \in Sleeps : Push(s) \/ Poke(s) \/ NoteCancel(s))
TimerFairness == WF_tvars(Tick) /\ WF_tvars(Turn) /\ PollsAndCallsEnd

TimerSpec == TimerInit /\ [][TimerNext]_tvars /\ TimerFairness

-----------------------------------------------------------------------------
Entries == [call : 0..MaxSleeps, deadline : 0..MaxTime, seq : Nat,
            pushed : 0..MaxTime]

TimerTypeOK ==
    /\ now \in 0..MaxTime
    /\ heap \subseteq {entryOf[s] : s \in Sleeps}
    /\ \A x, y \in heap : x.seq = y.seq => x = y
    /\ outcome \in [Sleeps -> {"none", "pending", "slept", "cancelled"}]
    /\ entryOf \in [Sleeps -> Entries]
    /\ calling \in [Sleeps -> {"none", "push", "poke", "note"}]
    /\ driver \in {"deadline", "poll", "due", "resolve"}
    /\ cancelled \in 0..(PurgeEvery - 1)
    /\ until \in 0..(MaxTime + PollCap)
    /\ due \in Seq(Entries)

\* The driver never polls past the deadline of a sleep that is pending, unless
\* somebody has woken it or is about to: becomes_earliest, tested under the lock
\* against a heap that holds cancelled entries too, misses no case.
PollEndsInTime ==
    driver = "poll" /\ (\E x \in heap : Pending(x) /\ x.deadline < until) =>
        waking \/ \E s \in Sleeps : calling[s] = "poke"

\* No pending sleep is overlooked: it is in the heap or about to be resolved, which
\* purges, pops and cancellations of others do not change (take_due, note_cancel),
\* and no poll outlasts it.  One that has ended has lasted as long as was asked for.
NoSleepLost ==
    /\ TimerTypeOK /\ PollEndsInTime
    /\ \A s \in Sleeps : outcome[s] = "pending" =>
          entryOf[s] \in heap \/ \E k \in DOMAIN due : due[k] = entryOf[s]
    /\ \A s \in Sleeps : outcome[s] = "slept" => now >= entryOf[s].deadline

\* x was pushed before y, and y only when x was due: y's caller was held up between
\* the clock and the lock until y's own deadline had passed.
Overtakes(x, y) == x.seq < y.seq /\ y.pushed >= x.deadline

\* Sleeps end in the order of their deadlines, and those of one deadline in the
\* order in which they were pushed; the one way to end behind a later deadline is to
\* come to the lock when that one is already due (sleep_task reads the clock ahead
\* of the lock, take_due behind it).
FiresInOrder ==
    [][\A s, t \in Sleeps :
          (s # t /\ outcome[s] = "pending" /\ outcome'[s] = "slept" /\ outcome[t] = "pending")
              => Before(entryOf[s], entryOf[t]) \/ Overtakes(entryOf[s], entryOf[t])]_tvars

\* Every sleep ends, and in that order; a behaviour has MaxSleeps of them.
SleepsEndInOrder ==
    FiresInOrder /\ <>[](\A s \in Sleeps : outcome[s] # "pending" /\ calling[s] # "push")
=============================================================================
