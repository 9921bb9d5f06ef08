---------------------------- MODULE TaskPermits ----------------------------
(***************************************************************************)
(* Mutex and Semaphore of std:task (src/std/task/sync.vn) over a channel   *)
(* that holds one message per free permit.                                 *)
(*                                                                         *)
(* All tasks run on one VM thread: what a task does between two awaits is  *)
(* one step.  A receive that finds a message goes on at once; one that     *)
(* does not is parked in the channel, is handed a message by a later send, *)
(* and its task is resumed some time after.  A cancelled task is dropped   *)
(* where it stands: nothing of it runs any more, and a receive it has      *)
(* parked stays in the channel (see Channel and TaskScheduler).            *)
(***************************************************************************)
EXTENDS Naturals, Sequences, FiniteSets

CONSTANTS
    Tasks,
    Permits    \* the capacities a semaphore may be made with

ASSUME TasksAssumption == IsFiniteSet(Tasks)
ASSUME PermitsAssumption == Permits \subseteq Nat \ {0}

VARIABLES
    kind,       \* "mutex" or "semaphore"
    capacity,   \* 1 for a mutex
    free,       \* messages in the channel: the permits that are free
    queue,      \* tasks whose receive is parked in the channel
    available,  \* Semaphore._available, Mutex._locked as 1 - available
    stage       \* what each task is doing

pvars == <<kind, capacity, free, queue, available, stage>>

\* "gone": cancelled in the channel's queue; "lost" and "lostUnseen": cancelled
\* with a permit that the counter has, or has not, been told of.
Stages == {"idle", "waiting", "handed", "holding", "gone", "lost", "lostUnseen"}
In(ph) == {t \in Tasks : stage[t] = ph}

PermitInit ==
    /\ kind \in {"mutex", "semaphore"}
    /\ IF kind = "mutex" THEN capacity = 1 ELSE capacity \in Permits
    /\ free = capacity
    /\ queue = <<>>
    /\ available = capacity
    /\ stage = [t \in Tasks |-> "idle"]

Becomes(t, ph) == stage' = [stage EXCEPT ![t] = ph]

\* lock, acquire: a permit is free.
AcquireNow(t) ==
    /\ stage[t] = "idle"
    /\ free > 0
    /\ free' = free - 1
    /\ available' = available - 1
    /\ Becomes(t, "holding")
    /\ UNCHANGED <<kind, capacity, queue>>

AcquireParks(t) ==
    /\ stage[t] = "idle"
    /\ free = 0
    /\ queue' = Append(queue, t)
    /\ Becomes(t, "waiting")
    /\ UNCHANGED <<kind, capacity, free, available>>

\* The task that waited is resumed, some time after it was handed the permit.
Resume(t) ==
    /\ stage[t] = "handed"
    /\ available' = available - 1
    /\ Becomes(t, "holding")
    /\ UNCHANGED <<kind, capacity, free, queue>>

\* unlock and release throw when the counter says that nothing is held.
Refused == available >= capacity

\* Variant: the permit goes to the first receiver and to the queue.
ReleaseTwice(t) ==
    /\ stage[t] = "holding"
    /\ ~Refused
    /\ available' = available + 1
    /\ free' = free + 1
    /\ IF queue = <<>>
       THEN Becomes(t, "idle") /\ UNCHANGED queue
       ELSE /\ queue' = Tail(queue)
            /\ stage' = [stage EXCEPT ![t] = "idle", ![Head(queue)] =
                   IF @ = "waiting" THEN "handed" ELSE "lostUnseen"]
    /\ UNCHANGED <<kind, capacity>>

\* Variant: the last receiver to come is served first.
ReleaseToLast(t) ==
    /\ stage[t] = "holding"
    /\ ~Refused
    /\ available' = available + 1
    /\ IF queue = <<>>
       THEN free' = free + 1 /\ Becomes(t, "idle") /\ UNCHANGED queue
       ELSE LET last == queue[Len(queue)]
            IN  /\ queue' = SubSeq(queue, 1, Len(queue) - 1)
                /\ stage' = [stage EXCEPT ![t] = "idle", ![last] =
                       IF @ = "waiting" THEN "handed" ELSE "lostUnseen"]
                /\ UNCHANGED free
    /\ UNCHANGED <<kind, capacity>>

\* unlock, release, and the end of withLock and withPermit, well or not: the
\* permit goes to the first parked receive, were its task cancelled or not.
Release(t) ==
    /\ stage[t] = "holding"
    /\ ~Refused
    /\ available' = available + 1
    /\ IF queue = <<>>
       THEN free' = free + 1 /\ Becomes(t, "idle") /\ UNCHANGED queue
       ELSE /\ queue' = Tail(queue)
            /\ stage' = [stage EXCEPT ![t] = "idle", ![Head(queue)] =
                   IF @ = "waiting" THEN "handed" ELSE "lostUnseen"]
            /\ UNCHANGED free
    /\ UNCHANGED <<kind, capacity>>

\* Somebody cancels the task; withLock has no finally that would release.
Cancel(t) ==
    /\ stage[t] \in {"waiting", "handed", "holding"}
    /\ Becomes(t, CASE stage[t] = "waiting" -> "gone"
                    [] stage[t] = "handed" -> "lostUnseen"
                    [] stage[t] = "holding" -> "lost")
    /\ UNCHANGED <<kind, capacity, free, queue, available>>

PermitNext == \E t \in Tasks :
    AcquireNow(t) \/ AcquireParks(t) \/ Resume(t) \/ Release(t) \/ Cancel(t)

\* The scheduler resumes who can be resumed, and who holds a permit gives it
\* back or is cancelled.
PermitFairness == \A t \in Tasks : WF_pvars(Resume(t) \/ Release(t))

PermitSpec == PermitInit /\ [][PermitNext]_pvars /\ PermitFairness

-----------------------------------------------------------------------------
PermitTypeOK ==
    /\ kind \in {"mutex", "semaphore"}
    /\ capacity \in Nat \ {0}
    /\ free \in 0..capacity
    /\ queue \in Seq(Tasks)
    /\ available \in 0..capacity
    /\ stage \in [Tasks -> Stages]

\* The counter, told of an acquisition only when the task is resumed, never
\* makes the release of a permit that is held throw.
HoldersMayRelease == In("holding") # {} => ~Refused

\* The receives parked in the channel are those of tasks that wait or were
\* cancelled waiting, and a permit is never free while one of them is there.
ParkedWait ==
    /\ \A t \in Tasks : stage[t] = "waiting" => \E k \in DOMAIN queue : queue[k] = t
    /\ \A k \in DOMAIN queue : stage[queue[k]] \in {"waiting", "gone"}
    /\ queue # <<>> => free = 0

\* Every permit is in the channel, on its way to one task, with one task, or
\* lost with a cancelled one: never two at once, so no more tasks than the
\* capacity are inside, whoever is cancelled when (Mutex.lock, Semaphore.release).
\* None is free while somebody waits, and who holds one may give it back.
PermitsAreConserved ==
    /\ PermitTypeOK /\ HoldersMayRelease /\ ParkedWait
    /\ free + Cardinality(In("handed")) + Cardinality(In("holding"))
           + Cardinality(In("lost")) + Cardinality(In("lostUnseen")) = capacity

\* While not every permit has been lost, a task that waits gets one in the end:
\* the channel serves in order of arrival.
WaitersAreServed ==
    \A t \in Tasks :
        stage[t] = "waiting" ~>
            \/ stage[t] # "waiting"
            \/ Cardinality(In("lost") \cup In("lostUnseen")) = capacity
=============================================================================
