---------------------------- MODULE BlockingPool ----------------------------
(***************************************************************************)
(* The pool of threads that runs the blocking operations of a program      *)
(* (crates/varn-builtins/src/runtime/blocking.rs).  submit decides under   *)
(* the lock whether to start a worker and does so, or notifies one, after  *)
(* it has released it; a worker that has waited IDLE_EXIT for a job        *)
(* leaves.  What a job does, and the promise it completes, is HostWake's.  *)
(***************************************************************************)
EXTENDS Naturals, Sequences, FiniteSets

CONSTANTS
    Jobs,        \* the blocking operations of a run
    Submitters,  \* the threads that submit them
    Workers,     \* identities of worker threads
    MaxWorkers   \* MAX_WORKERS

ASSUME MaxWorkersAssumption == MaxWorkers \in Nat \ {0}
ASSUME WorkersAssumption == IsFiniteSet(Workers) /\ IsFiniteSet(Submitters)

VARIABLES
    jobQueue,    \* State.queue
    idle,        \* State.idle
    total,       \* State.total
    worker,      \* worker -> "none", or where it is
    submitting,  \* thread -> what it has left to do after the lock
    jobStage     \* job -> "new", "queued" or "started"

poolVars == <<jobQueue, idle, total, worker, submitting, jobStage>>

(***************************************************************************)
(* A worker looks for a job (it has just been started, or its last job is  *)
(* done), is asleep on the condition variable, has been woken or has timed *)
(* out and wants the lock back, or is busy.                                *)
(***************************************************************************)
WorkerPlaces == {"looking", "asleep", "woken", "late", "busy"}
At(place) == {w \in Workers : worker[w] = place}
About(what) == {t \in Submitters : submitting[t] = what}

PInit ==
    /\ jobQueue = <<>>
    /\ idle = 0
    /\ total = 0
    /\ worker = [w \in Workers |-> "none"]
    /\ submitting = [t \in Submitters |-> "nothing"]
    /\ jobStage = [j \in Jobs |-> "new"]

\* Variant: a worker is started only when none is idle.
SubmitCountsNoQueue(t, j) ==
    /\ submitting[t] = "nothing"
    /\ jobStage[j] = "new"
    /\ jobStage' = [jobStage EXCEPT ![j] = "queued"]
    /\ jobQueue' = Append(jobQueue, j)
    /\ IF idle = 0 /\ total < MaxWorkers
       THEN /\ total' = total + 1
            /\ submitting' = [submitting EXCEPT ![t] = "start"]
       ELSE /\ submitting' = [submitting EXCEPT ![t] = "notify"]
            /\ UNCHANGED total
    /\ UNCHANGED <<idle, worker>>

\* submit, under the lock
Submit(t, j) ==
    /\ submitting[t] = "nothing"
    /\ jobStage[j] = "new"
    /\ jobStage' = [jobStage EXCEPT ![j] = "queued"]
    /\ jobQueue' = Append(jobQueue, j)
    /\ IF Len(jobQueue') > idle /\ total < MaxWorkers
       THEN /\ total' = total + 1
            /\ submitting' = [submitting EXCEPT ![t] = "start"]
       ELSE /\ submitting' = [submitting EXCEPT ![t] = "notify"]
            /\ UNCHANGED total
    /\ UNCHANGED <<idle, worker>>

Start(t, w) ==
    /\ submitting[t] = "start"
    /\ worker[w] = "none"
    /\ worker' = [worker EXCEPT ![w] = "looking"]
    /\ submitting' = [submitting EXCEPT ![t] = "nothing"]
    /\ UNCHANGED <<jobQueue, idle, total, jobStage>>

\* notify_one: some sleeping worker, or nobody
NotifyOne(t) ==
    /\ submitting[t] = "notify"
    /\ \/ At("asleep") = {} /\ UNCHANGED worker
       \/ \E w \in At("asleep") : worker' = [worker EXCEPT ![w] = "woken"]
    /\ submitting' = [submitting EXCEPT ![t] = "nothing"]
    /\ UNCHANGED <<jobQueue, idle, total, jobStage>>

-----------------------------------------------------------------------------
\* Worker w leaves next_job with the first job of the queue.
Takes(w) ==
    /\ jobQueue # <<>>
    /\ jobQueue' = Tail(jobQueue)
    /\ worker' = [worker EXCEPT ![w] = "busy"]
    /\ jobStage' = [jobStage EXCEPT ![Head(jobQueue)] = "started"]
    /\ UNCHANGED <<total, submitting>>

\* next_job finds a job at once, or the worker counts itself idle and sleeps.
Look(w) ==
    /\ worker[w] = "looking"
    /\ \/ Takes(w) /\ UNCHANGED idle
       \/ /\ jobQueue = <<>>
          /\ idle' = idle + 1
          /\ worker' = [worker EXCEPT ![w] = "asleep"]
          /\ UNCHANGED <<jobQueue, total, submitting, jobStage>>

\* The worker has the lock again after a wake-up: it takes a job, or finds that
\* another has taken it and sleeps again.
WakesUp(w) ==
    /\ worker[w] = "woken"
    /\ \/ Takes(w) /\ idle' = idle - 1
       \/ /\ jobQueue = <<>>
          /\ worker' = [worker EXCEPT ![w] = "asleep"]
          /\ UNCHANGED <<jobQueue, idle, total, submitting, jobStage>>

\* Variant: a worker whose wait has timed out leaves whatever is queued.
ExpireRegardless(w) ==
    /\ worker[w] = "late"
    /\ idle' = idle - 1
    /\ total' = total - 1
    /\ worker' = [worker EXCEPT ![w] = "none"]
    /\ UNCHANGED <<jobQueue, submitting, jobStage>>

\* Variant: a worker that leaves is still counted.
ExpireUncounted(w) ==
    /\ worker[w] = "late"
    /\ \/ Takes(w) /\ idle' = idle - 1
       \/ /\ jobQueue = <<>>
          /\ idle' = idle - 1
          /\ worker' = [worker EXCEPT ![w] = "none"]
          /\ UNCHANGED <<jobQueue, total, submitting, jobStage>>

\* The same after its wait has timed out: it takes a job that has come in
\* between, or leaves.
Expire(w) ==
    /\ worker[w] = "late"
    /\ \/ Takes(w) /\ idle' = idle - 1
       \/ /\ jobQueue = <<>>
          /\ idle' = idle - 1
          /\ total' = total - 1
          /\ worker' = [worker EXCEPT ![w] = "none"]
          /\ UNCHANGED <<jobQueue, submitting, jobStage>>

\* The wait ends for no reason, or after IDLE_EXIT; a notification that comes
\* later goes to another sleeper.
WaitEnds(w, how) ==
    /\ worker[w] = "asleep"
    /\ worker' = [worker EXCEPT ![w] = how]
    /\ UNCHANGED <<jobQueue, idle, total, submitting, jobStage>>

\* The job returns or panics, and the worker lives on (catch_unwind).
JobEnds(w) ==
    /\ worker[w] = "busy"
    /\ worker' = [worker EXCEPT ![w] = "looking"]
    /\ UNCHANGED <<jobQueue, idle, total, submitting, jobStage>>

PNext ==
    \/ \E t \in Submitters, j \in Jobs : Submit(t, j)
    \/ \E t \in Submitters, w \in Workers : Start(t, w)
    \/ \E t \in Submitters : NotifyOne(t)
    \/ \E w \in Workers : Look(w) \/ WakesUp(w) \/ Expire(w) \/ JobEnds(w)
    \/ \E w \in Workers, how \in {"woken", "late"} : WaitEnds(w, how)

PSpec == PInit /\ [][PNext]_poolVars

\* Every thread goes on that is not asleep; a job may run for ever.
PoolFairness ==
    /\ \A t \in Submitters :
          WF_poolVars(NotifyOne(t)) /\ WF_poolVars(\E w \in Workers : Start(t, w))
    /\ \A w \in Workers : WF_poolVars(Look(w)) /\ WF_poolVars(WakesUp(w)) /\ WF_poolVars(Expire(w))
FairPSpec == PSpec /\ PoolFairness

-----------------------------------------------------------------------------
\* The values every variable keeps to.
PTypeOK ==
    /\ jobQueue \in Seq(Jobs)
    /\ idle \in Nat
    /\ total \in 0..MaxWorkers
    /\ worker \in [Workers -> WorkerPlaces \cup {"none"}]
    /\ submitting \in [Submitters -> {"nothing", "start", "notify"}]
    /\ jobStage \in [Jobs -> {"new", "queued", "started"}]

(***************************************************************************)
(* The counters are the pool's own view of its threads: `total` counts the *)
(* workers there are or are about to be, `idle` those that have gone to    *)
(* sleep and not yet had the lock back (submit, next_job).  A `total` too  *)
(* high would leave the pool short of workers for good.                    *)
(***************************************************************************)
CountersAgree ==
    /\ PTypeOK
    /\ total = Cardinality({w \in Workers : worker[w] # "none"}) + Cardinality(About("start"))
    /\ idle = Cardinality(At("asleep") \cup At("woken") \cup At("late"))

(***************************************************************************)
(* No job waits behind a job that runs: for each queued one there is a     *)
(* thread on its way to the queue (a worker that looks for a job, is awake *)
(* again, or is about to be started, or a sleeper about to be notified),   *)
(* unless the pool is full and no sleeper is left unnotified.              *)
(***************************************************************************)
OnTheWay ==
    Cardinality(At("looking") \cup At("woken") \cup At("late"))
    + Cardinality(About("start"))
Sleepers == Cardinality(At("asleep"))
Notices == Cardinality(About("notify"))

NoJobStranded ==
    \/ Len(jobQueue) <= OnTheWay + (IF Sleepers < Notices THEN Sleepers ELSE Notices)
    \/ total = MaxWorkers /\ Sleepers <= Notices

\* A queued job is started, unless MaxWorkers jobs are running: neither a
\* notification that wakes nobody nor a worker that leaves strands it.
QueuedJobStarts ==
    \A j \in Jobs :
        jobStage[j] = "queued" ~> (jobStage[j] = "started" \/ Cardinality(At("busy")) = MaxWorkers)
=============================================================================
