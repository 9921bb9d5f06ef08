------------------------ MODULE BlockingPool_proofs ------------------------
(***************************************************************************)
(* Theorems about the worker pool, for every number of workers, of         *)
(* submitting threads and of jobs.                                         *)
(***************************************************************************)
EXTENDS BlockingPool, Counting, SequenceTheorems

\* The numbers that the pool's counters and the stranding of a job are about.
Hired == Count(Workers, worker, WorkerPlaces)
Idlers == Count(Workers, worker, {"asleep", "woken", "late"})
Awake == Count(Workers, worker, {"looking", "woken", "late"})
Asleep == Count(Workers, worker, {"asleep"})
Starts == Count(Submitters, submitting, {"start"})
Noting == Count(Submitters, submitting, {"notify"})

Books == total = Hired + Starts /\ idle = Idlers

Served ==
    \/ Len(jobQueue) <= Awake + Starts + Asleep /\ Asleep < Noting
    \/ Len(jobQueue) <= Awake + Starts + Noting /\ Noting <= Asleep
    \/ total = MaxWorkers /\ Asleep <= Noting

PoolInv == PTypeOK /\ Books /\ Served

LEMMA NumbersAreNat ==
  /\ Hired \in Nat /\ Idlers \in Nat /\ Awake \in Nat
  /\ Asleep \in Nat /\ Starts \in Nat /\ Noting \in Nat
  BY WorkersAssumption, CountType DEF Hired, Idlers, Awake, Asleep, Starts, Noting

\* An idle worker sleeps or is awake again.
LEMMA IdlersAreSomewhere == Idlers <= Awake + Asleep
  <1> DEFINE I == {w \in Workers : worker[w] \in {"asleep", "woken", "late"}}
             A == {w \in Workers : worker[w] \in {"looking", "woken", "late"}}
             S == {w \in Workers : worker[w] \in {"asleep"}}
  <1>1. IsFiniteSet(I) /\ IsFiniteSet(A) /\ IsFiniteSet(S)
    BY WorkersAssumption, FS_Subset
  <1>2. I \subseteq A \cup S
    OBVIOUS
  <1>3. /\ IsFiniteSet(A \cup S) /\ IsFiniteSet(A \cap S)
        /\ Cardinality(A \cup S) = Cardinality(A) + Cardinality(S) - Cardinality(A \cap S)
    BY <1>1, FS_Union, FS_Intersection
  <1>4. Cardinality(I) <= Cardinality(A \cup S)
    BY <1>2, <1>3, FS_Subset
  <1>5. /\ Cardinality(A \cap S) \in Nat /\ Cardinality(A) \in Nat
        /\ Cardinality(S) \in Nat /\ Cardinality(I) \in Nat
    BY <1>1, <1>3, FS_CardinalityType
  <1>6. Cardinality(I) <= Cardinality(A) + Cardinality(S)
    <2> HIDE DEF I, A, S
    <2> QED
      BY <1>3, <1>4, <1>5
  <1> QED
    BY <1>6 DEF Idlers, Awake, Asleep, Count

\* The invariants that the runs check, in terms of the numbers.
LEMMA InvImplies == PoolInv => CountersAgree /\ NoJobStranded
  <1> SUFFICES ASSUME PoolInv PROVE CountersAgree /\ NoJobStranded
    OBVIOUS
  <1>1. /\ Cardinality({w \in Workers : worker[w] # "none"}) = Hired
    <2>1. {w \in Workers : worker[w] # "none"} = {w \in Workers : worker[w] \in WorkerPlaces}
      BY DEF PoolInv, PTypeOK, WorkerPlaces
    <2> QED
      BY <2>1 DEF Hired, Count
  <1>2. Cardinality(About("start")) = Starts /\ Cardinality(About("notify")) = Noting
    <2>1. /\ About("start") = {t \in Submitters : submitting[t] \in {"start"}}
          /\ About("notify") = {t \in Submitters : submitting[t] \in {"notify"}}
      BY DEF About
    <2> QED
      BY <2>1 DEF Starts, Noting, Count
  <1>3. /\ Cardinality(At("asleep") \cup At("woken") \cup At("late")) = Idlers
        /\ Cardinality(At("looking") \cup At("woken") \cup At("late")) = Awake
        /\ Cardinality(At("asleep")) = Asleep
    <2>1. /\ At("asleep") \cup At("woken") \cup At("late")
                 = {w \in Workers : worker[w] \in {"asleep", "woken", "late"}}
          /\ At("looking") \cup At("woken") \cup At("late")
                 = {w \in Workers : worker[w] \in {"looking", "woken", "late"}}
          /\ At("asleep") = {w \in Workers : worker[w] \in {"asleep"}}
      BY DEF At
    <2> QED
      BY <2>1 DEF Idlers, Awake, Asleep, Count
  <1>4. CountersAgree
    BY <1>1, <1>2, <1>3 DEF PoolInv, Books, CountersAgree
  <1>5. OnTheWay = Awake + Starts /\ Sleepers = Asleep /\ Notices = Noting
    BY <1>2, <1>3 DEF OnTheWay, Sleepers, Notices
  <1>6. NoJobStranded
    BY <1>5, NumbersAreNat DEF PoolInv, Served, NoJobStranded
  <1> QED
    BY <1>4, <1>6

LEMMA PoolStart == PInit => PoolInv
  <1> SUFFICES ASSUME PInit PROVE PoolInv
    OBVIOUS
  <1>1. /\ Hired = 0 /\ Idlers = 0 /\ Awake = 0 /\ Asleep = 0
    <2>1. /\ {w \in Workers : worker[w] \in WorkerPlaces} = {}
          /\ {w \in Workers : worker[w] \in {"asleep", "woken", "late"}} = {}
          /\ {w \in Workers : worker[w] \in {"looking", "woken", "late"}} = {}
          /\ {w \in Workers : worker[w] \in {"asleep"}} = {}
      BY DEF PInit, WorkerPlaces
    <2> QED
      BY <2>1, FS_EmptySet DEF Hired, Idlers, Awake, Asleep, Count
  <1>2. Starts = 0 /\ Noting = 0
    <2>1. /\ {t \in Submitters : submitting[t] \in {"start"}} = {}
          /\ {t \in Submitters : submitting[t] \in {"notify"}} = {}
      BY DEF PInit
    <2> QED
      BY <2>1, FS_EmptySet DEF Starts, Noting, Count
  <1>3. PTypeOK
    BY MaxWorkersAssumption DEF PInit, PTypeOK
  <1>4. Books /\ Served
    BY <1>1, <1>2 DEF PInit, Books, Served
  <1> QED
    BY <1>3, <1>4 DEF PoolInv

-----------------------------------------------------------------------------
One(a, P) == IF a \in P THEN 1 ELSE 0

\* What it does to the numbers that a worker, or a submitting thread, moves.
LEMMA WorkerMoves ==
  ASSUME NEW w \in Workers, NEW a, NEW b, Goes(Workers, worker, worker', w, a, b)
  PROVE  /\ Hired' = Hired + One(b, WorkerPlaces) - One(a, WorkerPlaces)
         /\ Idlers' = Idlers + One(b, {"asleep", "woken", "late"})
                             - One(a, {"asleep", "woken", "late"})
         /\ Awake' = Awake + One(b, {"looking", "woken", "late"})
                           - One(a, {"looking", "woken", "late"})
         /\ Asleep' = Asleep + One(b, {"asleep"}) - One(a, {"asleep"})
         /\ Hired' \in Nat /\ Idlers' \in Nat /\ Awake' \in Nat /\ Asleep' \in Nat
  <1>1. ASSUME NEW P
        PROVE  /\ Count(Workers, worker', P) = Count(Workers, worker, P) + One(b, P) - One(a, P)
               /\ Count(Workers, worker', P) \in Nat
    <2>1. /\ Count(Workers, worker, P) \in Nat /\ Count(Workers, worker', P) \in Nat
      BY WorkersAssumption, CountType
    <2>2. Count(Workers, worker', P) =
              IF b \in P /\ a \notin P THEN Count(Workers, worker, P) + 1
              ELSE IF a \in P /\ b \notin P THEN Count(Workers, worker, P) - 1
              ELSE Count(Workers, worker, P)
      BY WorkersAssumption, Moves
    <2> QED
      BY <2>1, <2>2 DEF One
  <1> QED
    BY <1>1 DEF Hired, Idlers, Awake, Asleep

LEMMA ThreadMoves ==
  ASSUME NEW t \in Submitters, NEW a, NEW b, Goes(Submitters, submitting, submitting', t, a, b)
  PROVE  /\ Starts' = Starts + One(b, {"start"}) - One(a, {"start"})
         /\ Noting' = Noting + One(b, {"notify"}) - One(a, {"notify"})
         /\ Starts' \in Nat /\ Noting' \in Nat
  <1>1. ASSUME NEW P
        PROVE  /\ Count(Submitters, submitting', P)
                      = Count(Submitters, submitting, P) + One(b, P) - One(a, P)
               /\ Count(Submitters, submitting', P) \in Nat
    <2>1. /\ Count(Submitters, submitting, P) \in Nat
          /\ Count(Submitters, submitting', P) \in Nat
      BY WorkersAssumption, CountType
    <2>2. Count(Submitters, submitting', P) =
              IF b \in P /\ a \notin P THEN Count(Submitters, submitting, P) + 1
              ELSE IF a \in P /\ b \notin P THEN Count(Submitters, submitting, P) - 1
              ELSE Count(Submitters, submitting, P)
      BY WorkersAssumption, Moves
    <2> QED
      BY <2>1, <2>2 DEF One
  <1> QED
    BY <1>1 DEF Starts, Noting

LEMMA WorkersStay ==
  UNCHANGED worker => UNCHANGED <<Hired, Idlers, Awake, Asleep>>
  BY DEF Hired, Idlers, Awake, Asleep

LEMMA ThreadsStay == UNCHANGED submitting => UNCHANGED <<Starts, Noting>>
  BY DEF Starts, Noting

-----------------------------------------------------------------------------
LEMMA SubmitKeeps ==
  ASSUME PoolInv, NEW t \in Submitters, NEW j \in Jobs, Submit(t, j)
  PROVE  PoolInv'
  <1>1. PTypeOK /\ Books /\ Served
    BY DEF PoolInv
  <1>2. /\ Hired \in Nat /\ Idlers \in Nat /\ Awake \in Nat
        /\ Asleep \in Nat /\ Starts \in Nat /\ Noting \in Nat
    BY NumbersAreNat
  <1>3. UNCHANGED <<Hired, Idlers, Awake, Asleep>> /\ idle' = idle
    BY WorkersStay DEF Submit
  <1>4. Len(jobQueue') = Len(jobQueue) + 1 /\ jobQueue' \in Seq(Jobs) /\ Len(jobQueue) \in Nat
    BY <1>1, AppendProperties, LenProperties DEF Submit, PTypeOK
  <1>5. total \in 0..MaxWorkers /\ MaxWorkers \in Nat /\ idle = Idlers /\ Idlers <= Awake + Asleep
    BY <1>1, IdlersAreSomewhere, MaxWorkersAssumption DEF PTypeOK, Books
  <1>6. CASE Len(jobQueue') > idle /\ total < MaxWorkers
    <2>1. /\ total' = total + 1 /\ Goes(Submitters, submitting, submitting', t, "nothing", "start")
      BY <1>1, <1>6 DEF Submit, Goes, PTypeOK
    <2>2. Starts' = Starts + 1 /\ Noting' = Noting
      BY <1>2, <2>1, ThreadMoves DEF One
    <2>3. PTypeOK'
      BY <1>1, <1>4, <1>5, <1>6 DEF Submit, PTypeOK
    <2>4. Books'
      BY <1>1, <1>2, <1>3, <2>1, <2>2 DEF Books
    <2>5. Served'
      BY <1>1, <1>2, <1>3, <1>4, <1>5, <1>6, <2>2 DEF Served
    <2> QED
      BY <2>3, <2>4, <2>5 DEF PoolInv
  <1>7. CASE ~(Len(jobQueue') > idle /\ total < MaxWorkers)
    <2>1. /\ total' = total /\ Goes(Submitters, submitting, submitting', t, "nothing", "notify")
      BY <1>1, <1>7 DEF Submit, Goes, PTypeOK
    <2>2. Starts' = Starts /\ Noting' = Noting + 1
      BY <1>2, <2>1, ThreadMoves DEF One
    <2>3. PTypeOK'
      BY <1>1, <1>4, <1>5, <1>7 DEF Submit, PTypeOK
    <2>4. Books'
      BY <1>1, <1>2, <1>3, <2>1, <2>2 DEF Books
    <2>5. Served'
      BY <1>1, <1>2, <1>3, <1>4, <1>5, <1>7, <2>1, <2>2 DEF Served
    <2> QED
      BY <2>3, <2>4, <2>5 DEF PoolInv
  <1> QED
    BY <1>6, <1>7

LEMMA StartKeeps ==
  ASSUME PoolInv, NEW t \in Submitters, NEW w \in Workers, Start(t, w)
  PROVE  PoolInv'
  <1>1. PTypeOK /\ Books /\ Served
    BY DEF PoolInv
  <1>2. /\ Hired \in Nat /\ Idlers \in Nat /\ Awake \in Nat
        /\ Asleep \in Nat /\ Starts \in Nat /\ Noting \in Nat
    BY NumbersAreNat
  <1>3. /\ Goes(Workers, worker, worker', w, "none", "looking")
        /\ Goes(Submitters, submitting, submitting', t, "start", "nothing")
        /\ UNCHANGED <<jobQueue, idle, total, jobStage>>
    BY <1>1 DEF Start, Goes, PTypeOK
  <1>4. /\ Hired' = Hired + 1 /\ Idlers' = Idlers /\ Awake' = Awake + 1 /\ Asleep' = Asleep
    BY <1>2, <1>3, WorkerMoves DEF One, WorkerPlaces
  <1>5. Starts' = Starts - 1 /\ Noting' = Noting
    BY <1>2, <1>3, ThreadMoves DEF One
  <1>6. PTypeOK'
    BY <1>1 DEF Start, PTypeOK, WorkerPlaces
  <1>7. Books'
    BY <1>1, <1>2, <1>3, <1>4, <1>5 DEF Books
  <1>8. Served'
    BY <1>1, <1>2, <1>3, <1>4, <1>5 DEF Served
  <1> QED
    BY <1>6, <1>7, <1>8 DEF PoolInv

LEMMA NotifyKeeps ==
  ASSUME PoolInv, NEW t \in Submitters, NotifyOne(t) PROVE PoolInv'
  <1>1. PTypeOK /\ Books /\ Served
    BY DEF PoolInv
  <1>2. /\ Hired \in Nat /\ Idlers \in Nat /\ Awake \in Nat
        /\ Asleep \in Nat /\ Starts \in Nat /\ Noting \in Nat
    BY NumbersAreNat
  <1>3. /\ Goes(Submitters, submitting, submitting', t, "notify", "nothing")
        /\ UNCHANGED <<jobQueue, idle, total, jobStage>>
    BY <1>1 DEF NotifyOne, Goes, PTypeOK
  <1>4. Starts' = Starts /\ Noting' = Noting - 1 /\ Noting' \in Nat
    BY <1>2, <1>3, ThreadMoves DEF One
  <1>5. jobQueue \in Seq(Jobs) /\ Len(jobQueue) \in Nat
    BY <1>1, LenProperties DEF PTypeOK
  <1>6. CASE At("asleep") = {} /\ UNCHANGED worker
    <2>1. Asleep = 0
      <3>1. {w \in Workers : worker[w] \in {"asleep"}} = {}
        BY <1>6 DEF At
      <3> QED
        BY <3>1, FS_EmptySet DEF Asleep, Count
    <2>2. UNCHANGED <<Hired, Idlers, Awake, Asleep>>
      BY <1>6, WorkersStay
    <2>3. PTypeOK'
      BY <1>1, <1>3, <1>6 DEF NotifyOne, PTypeOK
    <2>4. Books'
      BY <1>1, <1>2, <1>3, <1>4, <2>2 DEF Books
    <2>5. Served'
      BY <1>1, <1>2, <1>3, <1>4, <1>5, <2>1, <2>2 DEF Served
    <2> QED
      BY <2>3, <2>4, <2>5 DEF PoolInv
  <1>7. ASSUME NEW w \in At("asleep"), worker' = [worker EXCEPT ![w] = "woken"]
        PROVE  PoolInv'
    <2>1. w \in Workers /\ Goes(Workers, worker, worker', w, "asleep", "woken")
      BY <1>1, <1>7 DEF At, Goes, PTypeOK
    <2>2. /\ Hired' = Hired /\ Idlers' = Idlers /\ Awake' = Awake + 1 /\ Asleep' = Asleep - 1
      BY <1>2, <2>1, WorkerMoves DEF One, WorkerPlaces
    <2>3. PTypeOK'
      BY <1>1, <1>3, <1>7 DEF NotifyOne, PTypeOK, WorkerPlaces
    <2>4. Books'
      BY <1>1, <1>2, <1>3, <1>4, <2>2 DEF Books
    <2>5. Served'
      BY <1>1, <1>2, <1>3, <1>4, <1>5, <2>2 DEF Served
    <2> QED
      BY <2>3, <2>4, <2>5 DEF PoolInv
  <1> QED
    BY <1>6, <1>7 DEF NotifyOne

\* A worker that has the lock takes the first job.
LEMMA TakesKeeps ==
  ASSUME PoolInv, NEW w \in Workers, NEW a \in {"looking", "woken", "late"},
         worker[w] = a, Takes(w), idle' = IF a = "looking" THEN idle ELSE idle - 1
  PROVE  PoolInv'
  <1>1. PTypeOK /\ Books /\ Served
    BY DEF PoolInv
  <1>2. /\ Hired \in Nat /\ Idlers \in Nat /\ Awake \in Nat
        /\ Asleep \in Nat /\ Starts \in Nat /\ Noting \in Nat
    BY NumbersAreNat
  <1>3. Goes(Workers, worker, worker', w, a, "busy") /\ UNCHANGED <<total, submitting>>
    BY <1>1 DEF Takes, Goes, PTypeOK
  <1>4. /\ Hired' = Hired /\ Idlers' = (IF a = "looking" THEN Idlers ELSE Idlers - 1)
        /\ Awake' = Awake - 1 /\ Asleep' = Asleep /\ Idlers' \in Nat
    BY <1>2, <1>3, WorkerMoves DEF One, WorkerPlaces
  <1>5. UNCHANGED <<Starts, Noting>>
    BY <1>3, ThreadsStay
  <1>6. /\ jobQueue' \in Seq(Jobs) /\ Len(jobQueue) \in Nat \ {0} /\ Len(jobQueue') = Len(jobQueue) - 1
        /\ Head(jobQueue) \in Jobs
    BY <1>1, HeadTailProperties, LenProperties, EmptySeq DEF Takes, PTypeOK
  <1>7. Books'
    BY <1>1, <1>2, <1>3, <1>4, <1>5 DEF Books
  <1>8. PTypeOK'
    BY <1>1, <1>3, <1>4, <1>6, <1>7 DEF Takes, PTypeOK, WorkerPlaces, Books
  <1>9. Served'
    BY <1>1, <1>2, <1>3, <1>4, <1>5, <1>6 DEF Served
  <1> QED
    BY <1>7, <1>8, <1>9 DEF PoolInv

\* With an empty queue nothing can be stranded.
LEMMA EmptyKeeps ==
  ASSUME PoolInv, jobQueue = <<>>, UNCHANGED <<jobQueue, submitting, jobStage>>,
         worker' \in [Workers -> WorkerPlaces \cup {"none"}],
         NEW hired \in Nat, NEW idlers \in Nat, NEW awake \in Nat, NEW asleep \in Nat,
         Hired' = hired, Idlers' = idlers, Awake' = awake, Asleep' = asleep,
         idle' = idlers, total' = hired + Starts, total' <= total
  PROVE  PoolInv'
  <1>1. PTypeOK
    BY DEF PoolInv
  <1>2. Starts \in Nat /\ Noting \in Nat /\ Starts' = Starts /\ Noting' = Noting
    BY NumbersAreNat, ThreadsStay
  <1>3. total' \in 0..MaxWorkers
    <2>1. total' \in Nat
      BY <1>2
    <2>2. total \in Nat /\ total <= MaxWorkers /\ MaxWorkers \in Nat
      BY <1>1, MaxWorkersAssumption DEF PTypeOK
    <2>3. total' <= MaxWorkers
      BY <2>1, <2>2
    <2> QED
      BY <2>1, <2>2, <2>3
  <1>4. PTypeOK'
    BY <1>1, <1>3 DEF PTypeOK
  <1>5. Books'
    BY <1>2 DEF Books
  <1>6. Served'
    <2>1. Len(jobQueue') = 0
      OBVIOUS
    <2>2. 0 <= Awake' + Starts' + Asleep' /\ 0 <= Awake' + Starts' + Noting'
      <3>1. 0 <= awake + Starts + asleep /\ 0 <= awake + Starts + Noting
        BY <1>2
      <3> QED
        BY <1>2, <3>1
    <2>3. Asleep' < Noting' \/ Noting' <= Asleep'
      BY <1>2
    <2> QED
      BY <2>1, <2>2, <2>3 DEF Served
  <1> QED
    BY <1>4, <1>5, <1>6 DEF PoolInv

LEMMA LookKeeps ==
  ASSUME PoolInv, NEW w \in Workers, Look(w) PROVE PoolInv'
  <1>1. CASE Takes(w) /\ UNCHANGED idle
    <2>1. worker[w] = "looking" /\ "looking" \in {"looking", "woken", "late"}
      BY DEF Look
    <2> QED
      BY <1>1, <2>1, TakesKeeps
  <1>2. CASE /\ jobQueue = <<>> /\ idle' = idle + 1 /\ total' = total
             /\ worker' = [worker EXCEPT ![w] = "asleep"]
             /\ UNCHANGED <<jobQueue, submitting, jobStage>>
    <2>1. PTypeOK /\ Books /\ worker[w] = "looking"
      BY DEF PoolInv, Look
    <2>2. Goes(Workers, worker, worker', w, "looking", "asleep")
      BY <1>2, <2>1 DEF Goes, PTypeOK
    <2>3. worker' \in [Workers -> WorkerPlaces \cup {"none"}]
      BY <1>2, <2>1 DEF PTypeOK, WorkerPlaces
    <2>4. /\ Hired' = Hired /\ Idlers' = Idlers + 1
          /\ Hired' \in Nat /\ Idlers' \in Nat /\ Awake' \in Nat /\ Asleep' \in Nat
      BY <2>2, NumbersAreNat, WorkerMoves DEF One, WorkerPlaces
    <2>5. idle' = Idlers' /\ total' = Hired' + Starts /\ total' <= total
      BY <1>2, <2>1, <2>4, NumbersAreNat DEF Books
    <2> QED
      BY <1>2, <2>3, <2>4, <2>5, EmptyKeeps
  <1> QED
    BY <1>1, <1>2 DEF Look

LEMMA WakesUpKeeps ==
  ASSUME PoolInv, NEW w \in Workers, WakesUp(w) PROVE PoolInv'
  <1>1. CASE Takes(w) /\ idle' = idle - 1
    <2>1. worker[w] = "woken" /\ "woken" \in {"looking", "woken", "late"}
      BY DEF WakesUp
    <2> QED
      BY <1>1, <2>1, TakesKeeps
  <1>2. CASE /\ jobQueue = <<>> /\ idle' = idle /\ total' = total
             /\ worker' = [worker EXCEPT ![w] = "asleep"]
             /\ UNCHANGED <<jobQueue, submitting, jobStage>>
    <2>1. PTypeOK /\ Books /\ worker[w] = "woken"
      BY DEF PoolInv, WakesUp
    <2>2. Goes(Workers, worker, worker', w, "woken", "asleep")
      BY <1>2, <2>1 DEF Goes, PTypeOK
    <2>3. worker' \in [Workers -> WorkerPlaces \cup {"none"}]
      BY <1>2, <2>1 DEF PTypeOK, WorkerPlaces
    <2>4. /\ Hired' = Hired /\ Idlers' = Idlers
          /\ Hired' \in Nat /\ Idlers' \in Nat /\ Awake' \in Nat /\ Asleep' \in Nat
      BY <2>2, NumbersAreNat, WorkerMoves DEF One, WorkerPlaces
    <2>5. idle' = Idlers' /\ total' = Hired' + Starts /\ total' <= total
      BY <1>2, <2>1, <2>4, NumbersAreNat DEF Books
    <2> QED
      BY <1>2, <2>3, <2>4, <2>5, EmptyKeeps
  <1> QED
    BY <1>1, <1>2 DEF WakesUp

LEMMA ExpireKeeps ==
  ASSUME PoolInv, NEW w \in Workers, Expire(w) PROVE PoolInv'
  <1>1. CASE Takes(w) /\ idle' = idle - 1
    <2>1. worker[w] = "late" /\ "late" \in {"looking", "woken", "late"}
      BY DEF Expire
    <2> QED
      BY <1>1, <2>1, TakesKeeps
  <1>2. CASE /\ jobQueue = <<>> /\ idle' = idle - 1 /\ total' = total - 1
             /\ worker' = [worker EXCEPT ![w] = "none"]
             /\ UNCHANGED <<jobQueue, submitting, jobStage>>
    <2>1. PTypeOK /\ Books /\ worker[w] = "late"
      BY DEF PoolInv, Expire
    <2>2. Goes(Workers, worker, worker', w, "late", "none")
      BY <1>2, <2>1 DEF Goes, PTypeOK
    <2>3. worker' \in [Workers -> WorkerPlaces \cup {"none"}]
      BY <1>2, <2>1 DEF PTypeOK, WorkerPlaces
    <2>4. /\ Hired' = Hired - 1 /\ Idlers' = Idlers - 1
          /\ Hired' \in Nat /\ Idlers' \in Nat /\ Awake' \in Nat /\ Asleep' \in Nat
      BY <2>2, NumbersAreNat, WorkerMoves DEF One, WorkerPlaces
    <2>5. idle' = Idlers' /\ total' = Hired' + Starts /\ total' <= total
      BY <1>2, <2>1, <2>4, NumbersAreNat DEF Books
    <2> QED
      BY <1>2, <2>3, <2>4, <2>5, EmptyKeeps
  <1> QED
    BY <1>1, <1>2 DEF Expire

\* A wait or a job ends.
LEMMA EndKeeps ==
  ASSUME PoolInv, NEW w \in Workers,
         JobEnds(w) \/ WaitEnds(w, "woken") \/ WaitEnds(w, "late")
  PROVE  PoolInv'
  <1>1. PTypeOK /\ Books /\ Served
    BY DEF PoolInv
  <1>2. /\ Hired \in Nat /\ Idlers \in Nat /\ Awake \in Nat
        /\ Asleep \in Nat /\ Starts \in Nat /\ Noting \in Nat
    BY NumbersAreNat
  <1>3. UNCHANGED <<jobQueue, idle, total, submitting, jobStage>> /\ UNCHANGED <<Starts, Noting>>
    BY ThreadsStay DEF JobEnds, WaitEnds
  <1>4. /\ Hired' = Hired /\ Idlers' = Idlers /\ Awake' = Awake + 1
        /\ Asleep' = Asleep \/ (Asleep' = Asleep - 1 /\ Asleep' \in Nat)
    <2>1. CASE JobEnds(w)
      <3>1. Goes(Workers, worker, worker', w, "busy", "looking")
        BY <1>1, <2>1 DEF JobEnds, Goes, PTypeOK
      <3> QED
        BY <1>2, <3>1, WorkerMoves DEF One, WorkerPlaces
    <2>2. ASSUME NEW how \in {"woken", "late"}, WaitEnds(w, how)
          PROVE  /\ Hired' = Hired /\ Idlers' = Idlers /\ Awake' = Awake + 1
                 /\ Asleep' = Asleep - 1 /\ Asleep' \in Nat
      <3>1. Goes(Workers, worker, worker', w, "asleep", how)
        BY <1>1, <2>2 DEF WaitEnds, Goes, PTypeOK
      <3> QED
        BY <1>2, <3>1, WorkerMoves DEF One, WorkerPlaces
    <2> QED
      BY <2>1, <2>2
  <1>5. PTypeOK'
    BY <1>1, <1>3 DEF PTypeOK, JobEnds, WaitEnds, WorkerPlaces
  <1>6. Books'
    BY <1>1, <1>3, <1>4 DEF Books
  <1>7. Served'
    <2>1. Len(jobQueue) \in Nat
      BY <1>1, LenProperties DEF PTypeOK
    <2> QED
      BY <1>1, <1>2, <1>3, <1>4, <2>1 DEF Served
  <1> QED
    BY <1>5, <1>6, <1>7 DEF PoolInv

LEMMA PoolStep == PoolInv /\ [PNext]_poolVars => PoolInv'
  <1> SUFFICES ASSUME PoolInv, [PNext]_poolVars PROVE PoolInv'
    OBVIOUS
  <1>1. CASE UNCHANGED poolVars
    BY <1>1, WorkersStay, ThreadsStay DEF poolVars, PoolInv, PTypeOK, Books, Served
  <1>2. ASSUME NEW t \in Submitters, NEW j \in Jobs, Submit(t, j) PROVE PoolInv'
    BY <1>2, SubmitKeeps
  <1>3. ASSUME NEW t \in Submitters, NEW w \in Workers, Start(t, w) PROVE PoolInv'
    BY <1>3, StartKeeps
  <1>4. ASSUME NEW t \in Submitters, NotifyOne(t) PROVE PoolInv'
    BY <1>4, NotifyKeeps
  <1>5. ASSUME NEW w \in Workers, Look(w) \/ WakesUp(w) \/ Expire(w) \/ JobEnds(w)
        PROVE  PoolInv'
    BY <1>5, LookKeeps, WakesUpKeeps, ExpireKeeps, EndKeeps
  <1>6. ASSUME NEW w \in Workers, NEW how \in {"woken", "late"}, WaitEnds(w, how)
        PROVE  PoolInv'
    BY <1>6, EndKeeps
  <1> QED
    BY <1>1, <1>2, <1>3, <1>4, <1>5, <1>6 DEF PNext

LEMMA PoolInvariant == PSpec => []PoolInv
  <1>1. PInit => PoolInv
    BY PoolStart
  <1>2. PoolInv /\ [PNext]_poolVars => PoolInv'
    BY PoolStep
  <1> QED
    BY <1>1, <1>2, PTL DEF PSpec

\* Between any steps of the submitting threads and the workers, the pool's two
\* counters are the workers it has and those of them that are idle (State.total,
\* State.idle).
THEOREM CountersKept == PSpec => []CountersAgree
  <1>1. PoolInv => CountersAgree
    BY InvImplies
  <1> QED
    BY <1>1, PoolInvariant, PTL

\* Whatever notification wakes nobody and whatever worker leaves, a queued job has
\* a thread on its way to the queue unless the pool is full (submit, next_job).
THEOREM JobsAreServed == PSpec => []NoJobStranded
  <1>1. PoolInv => NoJobStranded
    BY InvImplies
  <1> QED
    BY <1>1, PoolInvariant, PTL
=============================================================================
