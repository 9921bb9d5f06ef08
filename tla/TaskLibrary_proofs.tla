-------------------------- MODULE TaskLibrary_proofs --------------------------
(***************************************************************************)
(* Theorems about what tasks build on the scheduler: Mutex and Semaphore,  *)
(* for every finite set of tasks and every capacity; WaitGroup, for every  *)
(* finite set of waiters and any number of calls of add; generators, for   *)
(* any number of calls, of nested try blocks and of steps of the body; and *)
(* timers and the loop that fires them, for any number of sleeps, any      *)
(* clock, any longest poll and any rhythm of the purge.  The four share    *)
(* nothing but the lemmas on counting.                                     *)
(***************************************************************************)
EXTENDS TaskPermits, TaskWaitGroup, Generators, TimerDriver, Counting, SequenceTheorems

-----------------------------------------------------------------------------
(***************************************************************************)
(* Mutex and Semaphore.                                                    *)
(***************************************************************************)
\* How many tasks f puts at a stage.
Number(f, ph) == Count(Tasks, f, {ph})

LEMMA NumberType == \A f, ph : Number(f, ph) \in Nat
  BY TasksAssumption, CountType DEF Number

\* A task that goes from one stage to another changes two of the numbers by one.
LEMMA NumberMoves ==
  ASSUME NEW f, NEW g, NEW t \in Tasks, NEW a, NEW b, a # b, Goes(Tasks, f, g, t, a, b)
  PROVE  \A ph : Number(g, ph) = IF ph = b THEN Number(f, ph) + 1
                                 ELSE IF ph = a THEN Number(f, ph) - 1 ELSE Number(f, ph)
  <1>1. \A P : Count(Tasks, g, P) =
            IF b \in P /\ a \notin P THEN Count(Tasks, f, P) + 1
            ELSE IF a \in P /\ b \notin P THEN Count(Tasks, f, P) - 1
            ELSE Count(Tasks, f, P)
    BY TasksAssumption, Moves
  <1> QED
    BY <1>1 DEF Number

-----------------------------------------------------------------------------
\* A receive is parked once.
ParkedOnce == \A j, k \in DOMAIN queue : queue[j] = queue[k] => j = k

\* Where the permits are, and what the counter knows of them: it has not heard
\* of a permit that was handed over and whose task has not been resumed.
PermitBooks ==
    /\ free + Number(stage, "handed") + Number(stage, "holding")
           + Number(stage, "lost") + Number(stage, "lostUnseen") = capacity
    /\ available + Number(stage, "holding") + Number(stage, "lost") = capacity

PermitInv == PermitTypeOK /\ ParkedWait /\ ParkedOnce /\ PermitBooks

LEMMA NumbersAreIn ==
  \A ph : Cardinality(In(ph)) = Number(stage, ph)
  <1> TAKE ph
  <1>1. In(ph) = {t \in Tasks : stage[t] \in {ph}}
    BY DEF In
  <1> QED
    BY <1>1 DEF Number, Count

LEMMA PermitInvImplies == PermitInv => PermitsAreConserved
  <1> SUFFICES ASSUME PermitInv PROVE PermitsAreConserved
    OBVIOUS
  <1>1. HoldersMayRelease
    <2> SUFFICES ASSUME In("holding") # {} PROVE available < capacity
      BY DEF HoldersMayRelease, Refused, PermitInv, PermitTypeOK
    <2>1. IsFiniteSet(In("holding"))
      BY TasksAssumption, FS_Subset DEF In
    <2>2. Number(stage, "holding") # 0
      BY <2>1, NumbersAreIn, FS_EmptySet
    <2> QED
      BY <2>2, NumberType DEF PermitInv, PermitBooks, PermitTypeOK
  <1> QED
    BY <1>1, NumbersAreIn DEF PermitInv, PermitBooks, PermitsAreConserved

LEMMA PermitStart == PermitInit => PermitInv
  <1> SUFFICES ASSUME PermitInit PROVE PermitInv
    OBVIOUS
  <1>1. capacity \in Nat \ {0}
    <2>1. capacity = 1 \/ capacity \in Permits
      BY DEF PermitInit
    <2>2. CASE capacity = 1
      BY <2>2
    <2>3. CASE capacity \in Permits
      BY <2>3, PermitsAssumption
    <2> QED
      BY <2>1, <2>2, <2>3
  <1>2. \A ph \in Stages \ {"idle"} : Number(stage, ph) = 0
    <2> TAKE ph \in Stages \ {"idle"}
    <2>1. In(ph) = {}
      BY DEF PermitInit, In
    <2> QED
      BY <2>1, NumbersAreIn, FS_EmptySet
  <1>3. PermitTypeOK /\ ParkedWait /\ ParkedOnce
    BY <1>1 DEF PermitInit, PermitTypeOK, ParkedWait, ParkedOnce, Stages
  <1>4. PermitBooks
    BY <1>1, <1>2 DEF PermitInit, PermitBooks, Stages
  <1> QED
    BY <1>3, <1>4 DEF PermitInv

\* What a step that moves one task does to the books.
LEMMA MoveBooks ==
  ASSUME PermitInv, NEW t \in Tasks, NEW b \in Stages, stage[t] # b,
         stage' = [stage EXCEPT ![t] = b], UNCHANGED <<kind, capacity>>
  PROVE  /\ stage' \in [Tasks -> Stages]
         /\ \A ph \in Stages : Number(stage, ph) \in Nat /\ Number(stage', ph) \in Nat
         /\ \A ph \in Stages : Number(stage', ph) =
                IF ph = b THEN Number(stage, ph) + 1
                ELSE IF ph = stage[t] THEN Number(stage, ph) - 1 ELSE Number(stage, ph)
  <1>1. stage \in [Tasks -> Stages]
    BY DEF PermitInv, PermitTypeOK
  <1>2. Goes(Tasks, stage, stage', t, stage[t], b) /\ stage' \in [Tasks -> Stages]
    BY <1>1 DEF Goes
  <1>3. \A ph : Number(stage', ph) =
            IF ph = b THEN Number(stage, ph) + 1
            ELSE IF ph = stage[t] THEN Number(stage, ph) - 1 ELSE Number(stage, ph)
    BY <1>2, NumberMoves
  <1> QED
    BY <1>2, <1>3, NumberType

-----------------------------------------------------------------------------
LEMMA AcquireNowKeeps ==
  ASSUME PermitInv, NEW t \in Tasks, AcquireNow(t) PROVE PermitInv'
  <1>1. stage' = [stage EXCEPT ![t] = "holding"] /\ stage[t] = "idle"
        /\ UNCHANGED <<kind, capacity, queue>> /\ free' = free - 1 /\ available' = available - 1
        /\ free > 0
    BY DEF AcquireNow, Becomes
  <1>2. PermitTypeOK /\ ParkedWait /\ ParkedOnce /\ PermitBooks
    BY DEF PermitInv
  <1>3. queue = <<>>
    BY <1>1, <1>2 DEF ParkedWait
  <1>4. /\ stage' \in [Tasks -> Stages]
        /\ \A ph \in Stages : Number(stage, ph) \in Nat /\ Number(stage', ph) \in Nat
        /\ \A ph \in Stages : Number(stage', ph) =
               IF ph = "holding" THEN Number(stage, ph) + 1
               ELSE IF ph = "idle" THEN Number(stage, ph) - 1 ELSE Number(stage, ph)
    BY <1>1, MoveBooks DEF Stages
  <1>5. PermitBooks'
    <2>1. /\ Number(stage', "handed") = Number(stage, "handed")
          /\ Number(stage', "holding") = Number(stage, "holding") + 1
          /\ Number(stage', "lost") = Number(stage, "lost")
          /\ Number(stage', "lostUnseen") = Number(stage, "lostUnseen")
      BY <1>4 DEF Stages
    <2>2. /\ Number(stage, "handed") \in Nat /\ Number(stage, "holding") \in Nat
          /\ Number(stage, "lost") \in Nat /\ Number(stage, "lostUnseen") \in Nat
      BY <1>4 DEF Stages
    <2>3. free \in Nat /\ available \in Nat /\ free' = free - 1 /\ available' = available - 1
      BY <1>1, <1>2 DEF PermitTypeOK
    <2>4. /\ free + Number(stage, "handed") + Number(stage, "holding")
                  + Number(stage, "lost") + Number(stage, "lostUnseen") = capacity
          /\ available + Number(stage, "holding") + Number(stage, "lost") = capacity
          /\ capacity' = capacity
      BY <1>1, <1>2 DEF PermitBooks
    <2> QED
      BY ONLY <2>1, <2>2, <2>3, <2>4 DEF PermitBooks
  <1>6. PermitTypeOK'
    <2>1. available > 0
      <3>1. /\ Number(stage, "handed") \in Nat /\ Number(stage', "holding") \in Nat
            /\ Number(stage', "lost") = Number(stage, "lost") /\ Number(stage, "lost") \in Nat
            /\ Number(stage, "lostUnseen") \in Nat /\ Number(stage, "holding") \in Nat
        BY <1>4 DEF Stages
      <3>2. free \in Nat /\ available \in Nat /\ capacity \in Nat /\ free > 0
        BY <1>1, <1>2 DEF PermitTypeOK
      <3>3. /\ free + Number(stage, "handed") + Number(stage, "holding")
                    + Number(stage, "lost") + Number(stage, "lostUnseen") = capacity
            /\ available + Number(stage, "holding") + Number(stage, "lost") = capacity
        BY <1>2 DEF PermitBooks
      <3> QED
        BY ONLY <3>1, <3>2, <3>3
    <2> QED
      BY <1>1, <1>2, <1>4, <2>1 DEF PermitTypeOK
  <1>7. ParkedWait' /\ ParkedOnce'
    BY <1>1, <1>2, <1>3 DEF ParkedWait, ParkedOnce, PermitTypeOK
  <1> QED
    BY <1>5, <1>6, <1>7 DEF PermitInv

LEMMA AcquireParksKeeps ==
  ASSUME PermitInv, NEW t \in Tasks, AcquireParks(t) PROVE PermitInv'
  <1>1. /\ stage' = [stage EXCEPT ![t] = "waiting"] /\ stage[t] = "idle"
        /\ UNCHANGED <<kind, capacity, free, available>>
        /\ queue' = Append(queue, t) /\ free = 0
    BY DEF AcquireParks, Becomes
  <1>2. PermitTypeOK /\ ParkedWait /\ ParkedOnce /\ PermitBooks
    BY DEF PermitInv
  <1>3. /\ stage' \in [Tasks -> Stages]
        /\ \A ph \in {"handed", "holding", "lost", "lostUnseen"} :
               Number(stage', ph) = Number(stage, ph)
    <2>1. /\ stage' \in [Tasks -> Stages]
          /\ \A ph \in Stages : Number(stage', ph) =
                 IF ph = "waiting" THEN Number(stage, ph) + 1
                 ELSE IF ph = "idle" THEN Number(stage, ph) - 1 ELSE Number(stage, ph)
      BY <1>1, MoveBooks DEF Stages
    <2> QED
      BY <2>1 DEF Stages
  <1>4. queue \in Seq(Tasks) /\ stage \in [Tasks -> Stages]
    BY <1>2 DEF PermitTypeOK
  <1>5. /\ queue' \in Seq(Tasks) /\ Len(queue') = Len(queue) + 1 /\ Len(queue) \in Nat
        /\ DOMAIN queue = 1..Len(queue) /\ DOMAIN queue' = 1..(Len(queue) + 1)
        /\ \A k \in 1..Len(queue) : queue'[k] = queue[k] /\ queue[k] \in Tasks
        /\ queue'[Len(queue) + 1] = t
    BY <1>1, <1>4, AppendProperties, LenProperties, ElementOfSeq
  <1>6. \A k \in DOMAIN queue : queue[k] # t
    BY <1>1, <1>2 DEF ParkedWait
  <1>7. PermitTypeOK'
    BY <1>1, <1>2, <1>3, <1>5 DEF PermitTypeOK
  <1>8. PermitBooks'
    BY <1>1, <1>2, <1>3 DEF PermitBooks
  <1>9. ParkedOnce'
    BY <1>2, <1>5, <1>6 DEF ParkedOnce
  <1>10. ParkedWait'
    <2>1. ASSUME NEW u \in Tasks, stage'[u] = "waiting"
          PROVE  \E k \in DOMAIN queue' : queue'[k] = u
      <3>1. CASE u = t
        BY <3>1, <1>5
      <3>2. CASE u # t
        <4>1. PICK k \in DOMAIN queue : queue[k] = u
          BY <3>2, <2>1, <1>1, <1>2, <1>4 DEF ParkedWait
        <4> QED
          BY <4>1, <1>5
      <3> QED
        BY <3>1, <3>2
    <2>2. ASSUME NEW k \in DOMAIN queue' PROVE stage'[queue'[k]] \in {"waiting", "gone"}
      <3>1. CASE k = Len(queue) + 1
        BY <3>1, <1>1, <1>4, <1>5
      <3>2. CASE k \in 1..Len(queue)
        <4>1. queue'[k] = queue[k] /\ queue[k] # t /\ queue[k] \in Tasks
              /\ stage[queue[k]] \in {"waiting", "gone"}
          BY <3>2, <1>2, <1>5, <1>6 DEF ParkedWait
        <4> QED
          BY <4>1, <1>1, <1>4
      <3> QED
        BY <2>2, <3>1, <3>2, <1>5
    <2> QED
      BY <2>1, <2>2, <1>1 DEF ParkedWait
  <1> QED
    BY <1>7, <1>8, <1>9, <1>10 DEF PermitInv

LEMMA ResumeKeeps ==
  ASSUME PermitInv, NEW t \in Tasks, Resume(t) PROVE PermitInv'
  <1>1. /\ stage' = [stage EXCEPT ![t] = "holding"] /\ stage[t] = "handed"
        /\ UNCHANGED <<kind, capacity, free, queue>> /\ available' = available - 1
    BY DEF Resume, Becomes
  <1>2. PermitTypeOK /\ ParkedWait /\ ParkedOnce /\ PermitBooks
    BY DEF PermitInv
  <1>3. /\ stage' \in [Tasks -> Stages]
        /\ Number(stage', "handed") = Number(stage, "handed") - 1
        /\ Number(stage', "holding") = Number(stage, "holding") + 1
        /\ Number(stage', "lost") = Number(stage, "lost")
        /\ Number(stage', "lostUnseen") = Number(stage, "lostUnseen")
    BY <1>1, MoveBooks DEF Stages
  <1>4. \A ph : Number(stage, ph) \in Nat /\ Number(stage', ph) \in Nat
    BY NumberType
  <1>5. PermitBooks' /\ available' \in 0..capacity
    <2>1. /\ free \in Nat /\ available \in Nat /\ capacity \in Nat
      BY <1>2 DEF PermitTypeOK
    <2>2. /\ Number(stage, "handed") \in Nat /\ Number(stage', "handed") \in Nat
          /\ Number(stage, "holding") \in Nat /\ Number(stage, "lost") \in Nat
          /\ Number(stage, "lostUnseen") \in Nat
      BY <1>4
    <2> QED
      BY <1>1, <1>2, <1>3, <2>1, <2>2 DEF PermitBooks
  <1>6. PermitTypeOK'
    BY <1>1, <1>2, <1>3, <1>5 DEF PermitTypeOK
  <1>7. stage \in [Tasks -> Stages] /\ \A k \in DOMAIN queue : queue[k] \in Tasks
    BY <1>2, ElementOfSeq, LenProperties DEF PermitTypeOK
  <1>8. ParkedWait' /\ ParkedOnce'
    BY <1>1, <1>2, <1>7 DEF ParkedWait, ParkedOnce
  <1> QED
    BY <1>5, <1>6, <1>8 DEF PermitInv

LEMMA CancelTaskKeeps ==
  ASSUME PermitInv, NEW t \in Tasks, Cancel(t) PROVE PermitInv'
  <1>1. UNCHANGED <<kind, capacity, free, queue, available>>
    BY DEF Cancel
  <1>2. PermitTypeOK /\ ParkedWait /\ ParkedOnce /\ PermitBooks
    BY DEF PermitInv
  <1>3. stage \in [Tasks -> Stages] /\ \A k \in DOMAIN queue : queue[k] \in Tasks
    BY <1>2, ElementOfSeq, LenProperties DEF PermitTypeOK
  <1>4. \/ stage[t] = "waiting" /\ stage' = [stage EXCEPT ![t] = "gone"]
        \/ stage[t] = "handed" /\ stage' = [stage EXCEPT ![t] = "lostUnseen"]
        \/ stage[t] = "holding" /\ stage' = [stage EXCEPT ![t] = "lost"]
    BY DEF Cancel, Becomes
  <1>5. PermitTypeOK' /\ ParkedWait' /\ ParkedOnce'
    <2>1. /\ stage' \in [Tasks -> Stages]
          /\ \A u \in Tasks : stage'[u] = "waiting" => stage[u] = "waiting"
          /\ \A u \in Tasks : stage[u] \in {"waiting", "gone"} => stage'[u] \in {"waiting", "gone"}
      <3>1. CASE stage[t] = "waiting" /\ stage' = [stage EXCEPT ![t] = "gone"]
        BY <1>3, <3>1 DEF Stages
      <3>2. CASE stage[t] = "handed" /\ stage' = [stage EXCEPT ![t] = "lostUnseen"]
        BY <1>3, <3>2 DEF Stages
      <3>3. CASE stage[t] = "holding" /\ stage' = [stage EXCEPT ![t] = "lost"]
        BY <1>3, <3>3 DEF Stages
      <3> QED
        BY <1>4, <3>1, <3>2, <3>3
    <2>2. PermitTypeOK'
      BY <1>1, <1>2, <2>1 DEF PermitTypeOK
    <2>3. ParkedOnce'
      BY <1>1, <1>2 DEF ParkedOnce
    <2>4. ParkedWait'
      BY <1>1, <1>2, <1>3, <2>1 DEF ParkedWait
    <2> QED
      BY <2>2, <2>3, <2>4
  <1>6. /\ \A ph : Number(stage, ph) \in Nat /\ Number(stage', ph) \in Nat
        /\ capacity \in Nat /\ free \in Nat /\ available \in Nat
    BY <1>2, NumberType DEF PermitTypeOK
  <1>7. CASE stage[t] = "waiting"
    <2>1. \A ph \in {"handed", "holding", "lost", "lostUnseen"} :
              Number(stage', ph) = Number(stage, ph)
      BY <1>1, <1>4, <1>7, MoveBooks DEF Stages
    <2> QED
      BY <1>1, <1>2, <1>5, <2>1 DEF PermitBooks, PermitInv
  <1>8. CASE stage[t] = "handed"
    <2>1. /\ Number(stage', "handed") = Number(stage, "handed") - 1
          /\ Number(stage', "holding") = Number(stage, "holding")
          /\ Number(stage', "lost") = Number(stage, "lost")
          /\ Number(stage', "lostUnseen") = Number(stage, "lostUnseen") + 1
      BY <1>1, <1>4, <1>8, MoveBooks DEF Stages
    <2> QED
      BY <1>1, <1>2, <1>5, <1>6, <2>1 DEF PermitBooks, PermitInv
  <1>9. CASE stage[t] = "holding"
    <2>1. /\ Number(stage', "handed") = Number(stage, "handed")
          /\ Number(stage', "holding") = Number(stage, "holding") - 1
          /\ Number(stage', "lost") = Number(stage, "lost") + 1
          /\ Number(stage', "lostUnseen") = Number(stage, "lostUnseen")
      BY <1>1, <1>4, <1>9, MoveBooks DEF Stages
    <2> QED
      BY <1>1, <1>2, <1>5, <1>6, <2>1 DEF PermitBooks, PermitInv
  <1> QED
    BY <1>4, <1>7, <1>8, <1>9

\* The head of the queue is no longer parked, and its task is one stage on.
LEMMA ReleaseKeeps ==
  ASSUME PermitInv, NEW t \in Tasks, Release(t) PROVE PermitInv'
  <1>1. /\ stage[t] = "holding" /\ available' = available + 1
        /\ UNCHANGED <<kind, capacity>>
    BY DEF Release
  <1>2. PermitTypeOK /\ ParkedWait /\ ParkedOnce /\ PermitBooks
    BY DEF PermitInv
  <1>3. /\ stage \in [Tasks -> Stages] /\ queue \in Seq(Tasks)
        /\ \A k \in DOMAIN queue : queue[k] \in Tasks
        /\ capacity \in Nat /\ free \in Nat /\ available \in Nat
    BY <1>2, ElementOfSeq, LenProperties DEF PermitTypeOK
  <1>4. CASE queue = <<>>
    <2>1. free' = free + 1 /\ stage' = [stage EXCEPT ![t] = "idle"] /\ queue' = queue
      BY <1>4 DEF Release, Becomes
    <2>2. /\ Number(stage', "handed") = Number(stage, "handed")
          /\ Number(stage', "holding") = Number(stage, "holding") - 1
          /\ Number(stage', "lost") = Number(stage, "lost")
          /\ Number(stage', "lostUnseen") = Number(stage, "lostUnseen")
          /\ stage' \in [Tasks -> Stages]
      BY <1>1, <2>1, MoveBooks DEF Stages
    <2>3. /\ Number(stage, "handed") \in Nat /\ Number(stage', "handed") \in Nat
          /\ Number(stage, "holding") \in Nat /\ Number(stage', "holding") \in Nat
          /\ Number(stage, "lost") \in Nat /\ Number(stage, "lostUnseen") \in Nat
      BY NumberType
    <2>4. PermitBooks' /\ available' \in 0..capacity /\ free' \in 0..capacity
      <3>1. /\ free + Number(stage, "handed") + Number(stage, "holding")
                   + Number(stage, "lost") + Number(stage, "lostUnseen") = capacity
            /\ available + Number(stage, "holding") + Number(stage, "lost") = capacity
        BY <1>2 DEF PermitBooks
      <3>2. /\ (free + 1) + Number(stage, "handed") + (Number(stage, "holding") - 1)
                   + Number(stage, "lost") + Number(stage, "lostUnseen") = capacity
            /\ (available + 1) + (Number(stage, "holding") - 1) + Number(stage, "lost") = capacity
        BY <1>3, <2>3, <3>1
      <3>3. available + 1 <= capacity /\ free + 1 <= capacity
        <4>1. Number(stage, "holding") - 1 \in Nat
          BY <2>2, <2>3
        <4>2. available + 1 <= capacity
          BY <1>3, <2>3, <3>2, <4>1
        <4>3. free + 1 <= capacity
          <5>1. ASSUME NEW u \in Nat, NEW v \in Nat, NEW w \in Nat, NEW x \in Nat, NEW y \in Nat,
                       NEW c \in Nat, (y + 1) + u + v + w + x = c
                PROVE  y + 1 <= c
            BY <5>1
          <5> QED
            BY <1>3, <2>3, <3>2, <4>1, <5>1
        <4> QED
          BY <4>2, <4>3
      <3>4. PermitBooks'
        BY <1>1, <2>1, <2>2, <3>2 DEF PermitBooks
      <3> QED
        BY <1>1, <1>3, <2>1, <3>3, <3>4
    <2>5. PermitTypeOK' /\ ParkedWait' /\ ParkedOnce'
      BY <1>1, <1>2, <1>3, <1>4, <2>1, <2>2, <2>4
         DEF PermitTypeOK, ParkedWait, ParkedOnce
    <2> QED
      BY <2>4, <2>5 DEF PermitInv
  <1>5. CASE queue # <<>>
    <2> DEFINE h == Head(queue)
               to == IF stage[h] = "waiting" THEN "handed" ELSE "lostUnseen"
               mid == [stage EXCEPT ![t] = "idle"]
    <2>1. /\ h \in Tasks /\ h = queue[1] /\ Len(queue) \in Nat \ {0}
          /\ DOMAIN queue = 1..Len(queue) /\ Tail(queue) \in Seq(Tasks)
          /\ Len(Tail(queue)) = Len(queue) - 1 /\ DOMAIN Tail(queue) = 1..(Len(queue) - 1)
          /\ \A k \in 1..(Len(queue) - 1) : Tail(queue)[k] = queue[k + 1]
      BY <1>3, <1>5, HeadTailProperties, LenProperties, EmptySeq
    <2>2. stage[h] \in {"waiting", "gone"} /\ h # t
      BY <1>1, <1>2, <2>1 DEF ParkedWait
    <2>3. /\ queue' = Tail(queue) /\ free' = free
          /\ stage' = [stage EXCEPT ![t] = "idle", ![h] =
                           IF @ = "waiting" THEN "handed" ELSE "lostUnseen"]
      BY <1>5 DEF Release
    <2>4. stage' = [mid EXCEPT ![h] = to] /\ mid \in [Tasks -> Stages] /\ mid[h] = stage[h]
          /\ mid[t] = "idle" /\ to \in Stages /\ mid[h] # to
      BY <1>3, <2>1, <2>2, <2>3 DEF Stages
    <2>5. \A ph : Number(mid, ph) =
              IF ph = "idle" THEN Number(stage, ph) + 1
              ELSE IF ph = "holding" THEN Number(stage, ph) - 1 ELSE Number(stage, ph)
      <3>1. Goes(Tasks, stage, mid, t, "holding", "idle")
        BY <1>1, <1>3 DEF Goes
      <3> HIDE DEF mid
      <3> QED
        BY <3>1, NumberMoves
    <2>6. \A ph : Number(stage', ph) =
              IF ph = to THEN Number(mid, ph) + 1
              ELSE IF ph = stage[h] THEN Number(mid, ph) - 1 ELSE Number(mid, ph)
      <3> HIDE DEF mid, h, to
      <3>1. Goes(Tasks, mid, stage', h, stage[h], to) /\ stage[h] # to
        BY <2>1, <2>4 DEF Goes
      <3> QED
        BY <2>1, <3>1, NumberMoves
    <2>7. /\ Number(mid, "handed") = Number(stage, "handed")
          /\ Number(mid, "holding") = Number(stage, "holding") - 1
          /\ Number(mid, "lost") = Number(stage, "lost")
          /\ Number(mid, "lostUnseen") = Number(stage, "lostUnseen")
      <3> HIDE DEF mid
      <3> QED
        BY <2>5 DEF Stages
    <2>8. /\ Number(stage', "holding") = Number(mid, "holding")
          /\ Number(stage', "lost") = Number(mid, "lost")
          /\ \/ /\ Number(stage', "handed") = Number(mid, "handed") + 1
                /\ Number(stage', "lostUnseen") = Number(mid, "lostUnseen")
             \/ /\ Number(stage', "handed") = Number(mid, "handed")
                /\ Number(stage', "lostUnseen") = Number(mid, "lostUnseen") + 1
      <3>1. CASE stage[h] = "waiting"
        BY <3>1, <2>6 DEF Stages
      <3>2. CASE stage[h] = "gone"
        BY <3>2, <2>6 DEF Stages
      <3> QED
        BY <2>2, <3>1, <3>2
    <2>9. /\ Number(stage, "handed") \in Nat /\ Number(stage, "holding") \in Nat
          /\ Number(stage', "holding") \in Nat
          /\ Number(stage, "lost") \in Nat /\ Number(stage, "lostUnseen") \in Nat
      BY NumberType
    <2>10. PermitBooks' /\ available' \in 0..capacity
      <3> HIDE DEF mid, h, to
      <3>1. /\ free' = free /\ capacity' = capacity /\ available' = available + 1
            /\ Number(stage', "holding") = Number(stage, "holding") - 1
            /\ Number(stage', "lost") = Number(stage, "lost")
        BY <1>1, <2>3, <2>7, <2>8, <2>9
      <3>2. /\ free + Number(stage, "handed") + Number(stage, "holding")
                   + Number(stage, "lost") + Number(stage, "lostUnseen") = capacity
            /\ available + Number(stage, "holding") + Number(stage, "lost") = capacity
        BY <1>2 DEF PermitBooks
      <3>3. /\ free' + Number(stage', "handed") + Number(stage', "holding")
                   + Number(stage', "lost") + Number(stage', "lostUnseen") = capacity'
            /\ available' + Number(stage', "holding") + Number(stage', "lost") = capacity'
            /\ available' \in 0..capacity
        <4>1. free' = free /\ capacity' = capacity /\ available' = available + 1
          BY <3>1
        <4>3. /\ Number(stage', "holding") = Number(stage, "holding") - 1
              /\ Number(stage', "lost") = Number(stage, "lost")
          BY <3>1
        <4>4. available' + Number(stage', "holding") + Number(stage', "lost") = capacity'
          BY <1>3, <2>9, <3>2, <4>1, <4>3
        <4>5. free' + Number(stage', "handed") + Number(stage', "holding")
                   + Number(stage', "lost") + Number(stage', "lostUnseen") = capacity'
          <5>1. CASE /\ Number(stage', "handed") = Number(stage, "handed") + 1
                     /\ Number(stage', "lostUnseen") = Number(stage, "lostUnseen")
            BY <1>3, <2>9, <3>2, <4>1, <4>3, <5>1
          <5>2. CASE /\ Number(stage', "handed") = Number(stage, "handed")
                     /\ Number(stage', "lostUnseen") = Number(stage, "lostUnseen") + 1
            <6>1. free + Number(stage, "handed") + (Number(stage, "holding") - 1)
                      + Number(stage, "lost") + (Number(stage, "lostUnseen") + 1) = capacity
              BY <1>3, <2>9, <3>2
            <6> QED
              BY <4>1, <4>3, <5>2, <6>1
          <5> QED
            BY <2>7, <2>8, <5>1, <5>2
        <4>6. available' \in 0..capacity
          BY <1>3, <2>9, <3>2, <4>1, <4>3, <4>4
        <4> QED
          BY <4>4, <4>5, <4>6
      <3> QED
        BY <3>3 DEF PermitBooks
    <2>11. stage' \in [Tasks -> Stages]
      BY <2>4, <2>1
    <2>12. PermitTypeOK'
      BY <1>1, <1>2, <2>1, <2>3, <2>10, <2>11 DEF PermitTypeOK
    <2>13. \A k \in 1..(Len(queue) - 1) : queue[k + 1] # h /\ queue[k + 1] \in Tasks
      BY <1>2, <1>3, <2>1 DEF ParkedOnce
    <2>14. ParkedOnce'
      BY <1>2, <2>1, <2>3 DEF ParkedOnce
    <2>15. ParkedWait'
      <3>1. ASSUME NEW u \in Tasks, stage'[u] = "waiting"
            PROVE  \E k \in DOMAIN queue' : queue'[k] = u
        <4>1. u # t /\ u # h /\ stage[u] = "waiting"
          BY <3>1, <2>1, <2>2, <2>4, <1>3
        <4>2. PICK k \in DOMAIN queue : queue[k] = u
          BY <4>1, <1>2 DEF ParkedWait
        <4>3. k \in 2..Len(queue)
          BY <4>1, <4>2, <2>1
        <4>4. k - 1 \in 1..(Len(queue) - 1) /\ (k - 1) + 1 = k
          BY <4>3, <2>1
        <4>5. k - 1 \in DOMAIN queue' /\ queue'[k - 1] = u
          BY <4>2, <4>4, <2>1, <2>3
        <4> QED
          BY <4>5
      <3>2. ASSUME NEW k \in DOMAIN queue' PROVE stage'[queue'[k]] \in {"waiting", "gone"}
        <4>1. k \in 1..(Len(queue) - 1) /\ queue'[k] = queue[k + 1] /\ k + 1 \in DOMAIN queue
          BY <3>2, <2>1, <2>3
        <4>2. stage[queue[k + 1]] \in {"waiting", "gone"} /\ queue[k + 1] # h
              /\ queue[k + 1] # t /\ queue[k + 1] \in Tasks
          BY <4>1, <1>1, <1>2, <2>13 DEF ParkedWait
        <4> QED
          BY <4>1, <4>2, <2>4, <1>3
      <3>3. queue' # <<>> => free' = 0
        BY <1>2, <1>5, <2>3 DEF ParkedWait
      <3> QED
        BY <3>1, <3>2, <3>3 DEF ParkedWait
    <2> QED
      BY <2>10, <2>12, <2>14, <2>15 DEF PermitInv
  <1> QED
    BY <1>4, <1>5

LEMMA PermitStep == PermitInv /\ [PermitNext]_pvars => PermitInv'
  <1> SUFFICES ASSUME PermitInv, [PermitNext]_pvars PROVE PermitInv'
    OBVIOUS
  <1>1. CASE UNCHANGED pvars
    BY <1>1 DEF pvars, PermitInv, PermitTypeOK, ParkedWait, ParkedOnce, PermitBooks
  <1>2. ASSUME NEW t \in Tasks,
               AcquireNow(t) \/ AcquireParks(t) \/ Resume(t) \/ Release(t) \/ Cancel(t)
        PROVE  PermitInv'
    BY <1>2, AcquireNowKeeps, AcquireParksKeeps, ResumeKeeps, ReleaseKeeps, CancelTaskKeeps
  <1> QED
    BY <1>1, <1>2 DEF PermitNext

\* Whoever locks, releases and is cancelled in whatever order, every permit is in
\* one place, none is free while somebody waits for it, and who holds one may give
\* it back (Mutex, Semaphore).
THEOREM PermitsKept == PermitSpec => []PermitsAreConserved
  <1>1. PermitInit => PermitInv
    BY PermitStart
  <1>2. PermitInv /\ [PermitNext]_pvars => PermitInv'
    BY PermitStep
  <1>3. PermitInv => PermitsAreConserved
    BY PermitInvImplies
  <1> QED
    BY <1>1, <1>2, <1>3, PTL DEF PermitSpec

-----------------------------------------------------------------------------
(***************************************************************************)
(* WaitGroup.                                                              *)
(***************************************************************************)
\* Who is in the count of waiters: a cancelled one stays there for good.
Counted == {"waiting", "handed", "gone"}
InPhase(P) == Count(Waiters, doing, P)

\* Every parked receive is counted, beside the waiters that were told and have
\* not run since; so a message for each count leaves no receive behind.
Covered ==
    /\ waiterCount = InPhase(Counted)
    /\ Len(receivers) + InPhase({"handed"}) <= waiterCount

Parked == \A t \in Waiters : doing[t] = "waiting" => \E k \in DOMAIN receivers : receivers[k] = t
NobodyWaitsForZero == counter = 0 /\ ~byAdd => \A t \in Waiters : doing[t] # "waiting"

GroupInv == GroupTypeOK /\ Covered /\ Parked /\ NobodyWaitsForZero

LEMMA PhasesCounted ==
  /\ \A P : InPhase(P) \in Nat
  /\ InPhase({"handed", "waiting"}) <= InPhase(Counted)
  /\ InPhase(Counted) <= Cardinality(Waiters)
  /\ Cardinality(Waiters) \in Nat
  <1>1. {"handed", "waiting"} \subseteq Counted
    BY DEF Counted
  <1> QED
    BY <1>1, WaitersAssumption, CountType, CountGrows, FS_CardinalityType DEF InPhase

LEMMA GroupInvImplies == GroupInv => NobodyLeftBehind
  <1> SUFFICES ASSUME GroupInv PROVE NobodyLeftBehind
    OBVIOUS
  <1>1. Cardinality({t \in Waiters : doing[t] = "handed"}) = InPhase({"handed"})
    <2>1. {t \in Waiters : doing[t] = "handed"} = {t \in Waiters : doing[t] \in {"handed"}}
      OBVIOUS
    <2> QED
      BY <2>1 DEF InPhase, Count
  <1>2. Len(receivers) \in Nat /\ waiterCount \in Nat /\ InPhase({"handed"}) \in Nat
    BY PhasesCounted, LenProperties DEF GroupInv, GroupTypeOK, Covered
  <1>3. CountCoversParked
    BY <1>1, <1>2 DEF GroupInv, Covered, CountCoversParked
  <1> QED
    BY <1>3 DEF GroupInv, NobodyLeftBehind, NobodyWaitsForZero

LEMMA GroupStart == GroupInit => GroupInv
  <1> SUFFICES ASSUME GroupInit PROVE GroupInv
    OBVIOUS
  <1>1. InPhase(Counted) = 0 /\ InPhase({"handed"}) = 0
    <2>1. /\ {t \in Waiters : doing[t] \in Counted} = {}
          /\ {t \in Waiters : doing[t] \in {"handed"}} = {}
      BY DEF GroupInit, Counted
    <2> QED
      BY <2>1, FS_EmptySet DEF InPhase, Count
  <1>2. GroupTypeOK
    <2>1. byAdd \in BOOLEAN
      BY DEF GroupInit
    <2>2. changes \in 0..MaxChanges /\ counter \in Int
      BY ChangesAssumption DEF GroupInit
    <2> QED
      BY <2>1, <2>2, PhasesCounted DEF GroupInit, GroupTypeOK, Places
  <1> QED
    BY <1>1, <1>2 DEF GroupInit, GroupInv, Covered, Parked, NobodyWaitsForZero

-----------------------------------------------------------------------------
LEMMA PhasesStay == UNCHANGED doing => \A P : InPhase(P)' = InPhase(P)
  BY DEF InPhase

\* add moves nobody; it brings the counter to zero only untold.
LEMMA AddKeeps == ASSUME NEW delta \in Deltas PROVE GroupInv /\ Add(delta) => GroupInv'
  <1> SUFFICES ASSUME GroupInv, Add(delta) PROVE GroupInv'
    OBVIOUS
  <1>1. \A P : InPhase(P)' = InPhase(P)
    BY PhasesStay DEF Add
  <1>2. /\ counter \in Int /\ delta \in Int /\ counter' = counter + delta
        /\ byAdd' = (byAdd \/ delta # 0)
        /\ UNCHANGED <<waiterCount, messages, receivers, doing>>
    BY ChangesAssumption DEF GroupInv, GroupTypeOK, Add
  <1>3. GroupTypeOK'
    <2>1. changes' \in 0..MaxChanges
      BY ChangesAssumption DEF GroupInv, GroupTypeOK, Add, Change
    <2>2. counter' \in Int /\ byAdd' \in BOOLEAN
      BY <1>2
    <2> QED
      BY <1>2, <2>1, <2>2 DEF GroupInv, GroupTypeOK
  <1>4. Covered' /\ Parked'
    BY <1>1, <1>2 DEF GroupInv, Covered, Parked
  <1>5. NobodyWaitsForZero'
    <2>1. CASE delta = 0
      <3>1. counter' = counter
        BY <1>2, <2>1
      <3>2. byAdd => byAdd'
        BY <1>2
      <3> QED
        BY <1>2, <3>1, <3>2 DEF GroupInv, NobodyWaitsForZero
    <2>2. CASE delta # 0
      BY <1>2, <2>2 DEF NobodyWaitsForZero
    <2> QED
      BY <2>1, <2>2
  <1> QED
    BY <1>3, <1>4, <1>5 DEF GroupInv

LEMMA DoneKeeps == GroupInv /\ Done => GroupInv'
  <1> SUFFICES ASSUME GroupInv, Done PROVE GroupInv'
    OBVIOUS
  <1>1. GroupTypeOK /\ Covered /\ Parked
    BY DEF GroupInv
  <1>2. /\ counter \in Int /\ counter' = counter - 1
        /\ byAdd' = FALSE /\ UNCHANGED waiterCount
    BY <1>1 DEF Done, GroupTypeOK
  <1>3. counter' \in Int /\ changes' \in 0..MaxChanges
    BY <1>1, <1>2, ChangesAssumption DEF Done, Change, GroupTypeOK
  <1>4. CASE counter # 1
    <2>1. UNCHANGED <<receivers, messages, doing>>
      BY <1>4 DEF Done
    <2>2. \A P : InPhase(P)' = InPhase(P)
      BY <2>1, PhasesStay
    <2>3. GroupTypeOK'
      BY <1>1, <1>2, <1>3, <2>1 DEF GroupTypeOK
    <2>4. Covered' /\ Parked'
      BY <1>1, <1>2, <1>3, <2>1, <2>2 DEF Covered, Parked
    <2>5. NobodyWaitsForZero'
      BY <1>2, <1>4 DEF NobodyWaitsForZero
    <2> QED
      BY <2>3, <2>4, <2>5 DEF GroupInv
  <1>5. CASE counter = 1
    <2> DEFINE heads == {receivers[k] : k \in 1..Len(receivers)}
    <2>1. /\ Len(receivers) \in Nat /\ waiterCount \in Nat /\ messages \in Nat
          /\ Len(receivers) <= waiterCount /\ DOMAIN receivers = 1..Len(receivers)
          /\ InPhase({"handed"}) \in Nat
      BY <1>1, PhasesCounted, LenProperties DEF GroupTypeOK, Covered
    <2>2. (IF waiterCount < Len(receivers) THEN waiterCount ELSE Len(receivers)) = Len(receivers)
      <3>1. ~(waiterCount < Len(receivers))
        BY <2>1
      <3> QED
        BY <3>1
    <2>3. /\ receivers' = SubSeq(receivers, Len(receivers) + 1, Len(receivers))
          /\ messages' = messages + (waiterCount - Len(receivers))
          /\ doing' = [t \in Waiters |-> IF t \in heads /\ doing[t] = "waiting"
                                         THEN "handed" ELSE doing[t]]
      BY <1>5, <2>2 DEF Done, NotifyWaiters
    <2>4. receivers' = <<>>
      BY <1>1, <2>1, <2>3, SubSeqEmpty DEF GroupTypeOK
    <2>5. \A t \in Waiters : doing[t] = "waiting" => t \in heads
      BY <1>1, <2>1 DEF Parked
    <2>6. doing' = [t \in Waiters |-> IF doing[t] = "waiting" THEN "handed" ELSE doing[t]]
      BY <2>3, <2>5
    <2>7. /\ doing' \in [Waiters -> Places]
          /\ \A t \in Waiters : doing'[t] # "waiting"
      BY <1>1, <2>6 DEF GroupTypeOK, Places
    <2>8. InPhase(Counted)' = InPhase(Counted)
      <3>1. {t \in Waiters : doing'[t] \in Counted} = {t \in Waiters : doing[t] \in Counted}
        BY <2>6 DEF Counted
      <3> QED
        BY <3>1 DEF InPhase, Count
    <2>9. InPhase({"handed"})' = InPhase({"handed", "waiting"})
      <3>1. {t \in Waiters : doing'[t] \in {"handed"}}
                = {t \in Waiters : doing[t] \in {"handed", "waiting"}}
        BY <2>6
      <3> QED
        BY <3>1 DEF InPhase, Count
    <2>10. Len(receivers') = 0 /\ receivers' \in Seq(Waiters) /\ messages' \in Nat
      BY <2>1, <2>3, <2>4, EmptySeq
    <2>11. GroupTypeOK'
      BY <1>1, <1>2, <1>3, <2>7, <2>10 DEF GroupTypeOK
    <2>12. Covered'
      <3>1. /\ InPhase({"handed", "waiting"}) \in Nat
            /\ InPhase({"handed", "waiting"}) <= waiterCount
        BY <1>1, PhasesCounted DEF Covered
      <3>2. Len(receivers') + InPhase({"handed"})' = InPhase({"handed", "waiting"})
        BY <2>9, <2>10, <3>1
      <3> QED
        BY <1>1, <1>2, <1>3, <2>8, <3>1, <3>2 DEF Covered
    <2>13. Parked' /\ NobodyWaitsForZero'
      BY <2>7 DEF Parked, NobodyWaitsForZero
    <2> QED
      BY <2>11, <2>12, <2>13 DEF GroupInv
  <1> QED
    BY <1>4, <1>5

\* A waiter that was not counted, or has been told, goes through the loop; a is
\* its doing and count the number of waiters without it.
LEMMA LoopsKeeps ==
  ASSUME GroupInv, NEW t \in Waiters, NEW a \in {"out", "handed"}, doing[t] = a,
         NEW count, count = (IF a = "out" THEN waiterCount ELSE waiterCount - 1),
         Loops(t, count), UNCHANGED <<counter, byAdd, changes>>
  PROVE  GroupInv'
  <1>1. GroupTypeOK /\ Covered /\ Parked /\ NobodyWaitsForZero
    BY DEF GroupInv
  <1>2. /\ InPhase(Counted) \in Nat /\ InPhase({"handed"}) \in Nat
        /\ Len(receivers) \in Nat /\ DOMAIN receivers = 1..Len(receivers)
        /\ \A P : InPhase(P)' \in Nat
    <2>1. \A P : InPhase(P)' \in Nat
      BY WaitersAssumption, CountType DEF InPhase
    <2> QED
      BY <1>1, <2>1, PhasesCounted, LenProperties DEF GroupTypeOK
  <1>3. CASE counter = 0
    <2>1. /\ waiterCount' = count /\ UNCHANGED <<messages, receivers>>
          /\ doing' = [doing EXCEPT ![t] = "returned"]
      BY <1>3 DEF Loops
    <2>2. Goes(Waiters, doing, doing', t, a, "returned") /\ doing' \in [Waiters -> Places]
      BY <1>1, <2>1 DEF GroupTypeOK, Goes, Places
    <2>3. \A P : InPhase(P)' = IF "returned" \in P /\ a \notin P THEN InPhase(P) + 1
                               ELSE IF a \in P /\ "returned" \notin P THEN InPhase(P) - 1
                               ELSE InPhase(P)
      BY <2>2, WaitersAssumption, Moves DEF InPhase
    <2>4. waiterCount' = InPhase(Counted)'
      BY <1>1, <1>2, <2>1, <2>3 DEF Covered, Counted
    <2>5. Len(receivers) + InPhase({"handed"})' <= waiterCount'
      BY <1>1, <1>2, <2>1, <2>3 DEF Covered
    <2>6. \A u \in Waiters : doing'[u] = "waiting" => doing[u] = "waiting"
      BY <1>1, <2>1 DEF GroupTypeOK
    <2>7. GroupTypeOK'
      <3>1. InPhase(Counted)' <= Cardinality(Waiters)
        BY WaitersAssumption, CountGrows DEF InPhase
      <3>2. waiterCount' \in 0..Cardinality(Waiters)
        BY <1>2, <2>4, <3>1, PhasesCounted
      <3> QED
        BY <1>1, <2>1, <2>2, <3>2 DEF GroupTypeOK
    <2>8. Covered'
      BY <1>1, <2>1, <2>4, <2>5 DEF Covered
    <2>9. Parked' /\ NobodyWaitsForZero'
      BY <1>1, <2>1, <2>6 DEF Parked, NobodyWaitsForZero
    <2> QED
      BY <2>7, <2>8, <2>9 DEF GroupInv
  <1>4. CASE counter # 0
    <2>1. /\ waiterCount' = count + 1 /\ messages' = 0 /\ receivers' = Append(receivers, t)
          /\ doing' = [doing EXCEPT ![t] = "waiting"]
      BY <1>4 DEF Loops
    <2>2. Goes(Waiters, doing, doing', t, a, "waiting") /\ doing' \in [Waiters -> Places]
      BY <1>1, <2>1 DEF GroupTypeOK, Goes, Places
    <2>3. \A P : InPhase(P)' = IF "waiting" \in P /\ a \notin P THEN InPhase(P) + 1
                               ELSE IF a \in P /\ "waiting" \notin P THEN InPhase(P) - 1
                               ELSE InPhase(P)
      BY <2>2, WaitersAssumption, Moves DEF InPhase
    <2>4. waiterCount' = InPhase(Counted)'
      BY <1>1, <1>2, <2>1, <2>3 DEF Covered, Counted
    <2>5. /\ receivers' \in Seq(Waiters) /\ Len(receivers') = Len(receivers) + 1
          /\ DOMAIN receivers' = 1..(Len(receivers) + 1)
          /\ receivers'[Len(receivers) + 1] = t
          /\ \A k \in 1..Len(receivers) : receivers'[k] = receivers[k]
      BY <1>1, <1>2, <2>1, AppendProperties, LenProperties DEF GroupTypeOK
    <2>6. Len(receivers') + InPhase({"handed"})' <= waiterCount'
      BY <1>1, <1>2, <2>1, <2>3, <2>5 DEF Covered
    <2>7. GroupTypeOK'
      <3>1. InPhase(Counted)' <= Cardinality(Waiters)
        BY WaitersAssumption, CountGrows DEF InPhase
      <3>2. waiterCount' \in 0..Cardinality(Waiters)
        BY <1>2, <2>4, <3>1, PhasesCounted
      <3> QED
        BY <1>1, <2>1, <2>2, <2>5, <3>2 DEF GroupTypeOK
    <2>8. Covered'
      BY <1>1, <2>4, <2>6 DEF Covered
    <2>9. Parked'
      <3> SUFFICES ASSUME NEW u \in Waiters, doing'[u] = "waiting"
                   PROVE  \E k \in DOMAIN receivers' : receivers'[k] = u
        BY DEF Parked
      <3>1. CASE u = t
        BY <1>2, <2>5, <3>1
      <3>2. CASE u # t
        <4>1. doing[u] = "waiting"
          BY <1>1, <2>1, <3>2 DEF GroupTypeOK
        <4>2. PICK k \in 1..Len(receivers) : receivers[k] = u
          BY <1>1, <1>2, <4>1 DEF Parked
        <4>3. k \in DOMAIN receivers' /\ receivers'[k] = u
          BY <1>2, <2>5, <4>2
        <4> QED
          BY <4>3
      <3> QED
        BY <3>1, <3>2
    <2>10. NobodyWaitsForZero'
      BY <1>4 DEF NobodyWaitsForZero
    <2> QED
      BY <2>7, <2>8, <2>9, <2>10 DEF GroupInv
  <1> QED
    BY <1>3, <1>4

LEMMA CancelWaiterKeeps ==
  ASSUME GroupInv, NEW t \in Waiters, CancelWaiter(t) PROVE GroupInv'
  <1>1. GroupTypeOK /\ Covered /\ Parked /\ NobodyWaitsForZero
    BY DEF GroupInv
  <1>2. /\ InPhase(Counted) \in Nat /\ InPhase({"handed"}) \in Nat
        /\ Len(receivers) \in Nat /\ waiterCount \in Nat
        /\ UNCHANGED <<counter, waiterCount, messages, receivers, byAdd, changes>>
    BY <1>1, PhasesCounted, LenProperties DEF GroupTypeOK, CancelWaiter
  <1>3. PICK a \in {"waiting", "handed"} : doing[t] = a
    BY DEF CancelWaiter
  <1>4. doing' = [doing EXCEPT ![t] = "gone"]
    BY DEF CancelWaiter
  <1>5. Goes(Waiters, doing, doing', t, a, "gone") /\ doing' \in [Waiters -> Places]
    BY <1>1, <1>3, <1>4 DEF GroupTypeOK, Goes, Places
  <1>6. \A P : InPhase(P)' = IF "gone" \in P /\ a \notin P THEN InPhase(P) + 1
                             ELSE IF a \in P /\ "gone" \notin P THEN InPhase(P) - 1
                             ELSE InPhase(P)
    BY <1>5, WaitersAssumption, Moves DEF InPhase
  <1>7. InPhase(Counted)' = InPhase(Counted)
    BY <1>2, <1>6 DEF Counted
  <1>8. Len(receivers) + InPhase({"handed"})' <= waiterCount
    BY <1>1, <1>2, <1>6 DEF Covered
  <1>9. \A u \in Waiters : doing'[u] = "waiting" => doing[u] = "waiting"
    BY <1>1, <1>4 DEF GroupTypeOK
  <1>10. GroupTypeOK'
    BY <1>1, <1>2, <1>5 DEF GroupTypeOK
  <1>11. Covered'
    BY <1>1, <1>2, <1>7, <1>8 DEF Covered
  <1>12. Parked' /\ NobodyWaitsForZero'
    BY <1>1, <1>2, <1>9 DEF Parked, NobodyWaitsForZero
  <1> QED
    BY <1>10, <1>11, <1>12 DEF GroupInv

LEMMA GroupStep == GroupInv /\ [GroupNext]_gvars => GroupInv'
  <1> SUFFICES ASSUME GroupInv, [GroupNext]_gvars PROVE GroupInv'
    OBVIOUS
  <1>1. CASE UNCHANGED gvars
    BY <1>1, PhasesStay DEF gvars, GroupInv, GroupTypeOK, Covered, Parked, NobodyWaitsForZero
  <1>2. ASSUME NEW t \in Waiters, Wait(t) PROVE GroupInv'
    <2>1. doing[t] = "out" /\ Loops(t, waiterCount) /\ UNCHANGED <<counter, byAdd, changes>>
      BY <1>2 DEF Wait
    <2> QED
      BY <2>1, LoopsKeeps
  <1>3. ASSUME NEW t \in Waiters, ResumeWaiter(t) PROVE GroupInv'
    <2>1. doing[t] = "handed" /\ Loops(t, waiterCount - 1) /\ UNCHANGED <<counter, byAdd, changes>>
      BY <1>3 DEF ResumeWaiter
    <2> QED
      BY <2>1, LoopsKeeps
  <1> QED
    BY <1>1, <1>2, <1>3, AddKeeps, DoneKeeps, CancelWaiterKeeps DEF GroupNext

\* Whatever calls of add with any delta, of done, of wait, and whatever cancellations
\* come in between: when a done has brought the counter to zero nobody is parked, and the
\* count of waiters covers every parked receive (WaitGroup).
THEOREM NobodyIsLeft == GroupSpec => []NobodyLeftBehind
  <1>1. GroupInit => GroupInv
    BY GroupStart
  <1>2. GroupInv /\ [GroupNext]_gvars => GroupInv'
    BY GroupStep
  <1>3. GroupInv => NobodyLeftBehind
    BY GroupInvImplies
  <1> QED
    BY <1>1, <1>2, <1>3, PTL DEF GroupSpec

-----------------------------------------------------------------------------
(***************************************************************************)
(* Generators.                                                             *)
(***************************************************************************)
Steps == [call : Calls, resumed : BOOLEAN]

\* The steps of a queue that hold the frame of the body.
ResumedIn(steps) == {k \in DOMAIN steps : steps[k].resumed}
AtMostOne(S) == \A x, y \in S : x = y

\* The frame of the body is at one place, or at none.
OnePlace ==
    /\ phase \in {"fresh", "suspended"} => mounted = None /\ parked = {} /\ ResumedIn(ready) = {}
    /\ mounted # None => parked = {} /\ ResumedIn(ready) = {}
    /\ parked # {} => ResumedIn(ready) = {}
    /\ AtMostOne(parked) /\ AtMostOne(ResumedIn(ready))
    /\ phase = "running" /\ "cancelled" \notin dropped =>
          mounted # None \/ parked # {} \/ ResumedIn(ready) # {}

\* What was not called has found nothing; a body that has not begun is in no try
\* block.
Asked ==
    /\ \A c \in Calls : call[c] = "none" => found[c] = "none"
    /\ phase = "fresh" => open = 0

\* Nobody has the frame.
Gone == mounted = None /\ parked = {} /\ ResumedIn(ready) = {}

\* Unless a close has cut a step short, a generator that is done stays done, and
\* one that has answered the end is done.
EndIsKept ==
    ~CutShort =>
        /\ phase = "done" => Gone /\ (open = 0 \/ dropped # {})
        /\ \A c \in Calls : Ended(c) => phase = "done"

GenInv == GenTypeOK /\ OnePlace /\ Asked /\ EndIsKept

-----------------------------------------------------------------------------
\* What a queue holds resumed when a step is added, and when the first is taken.
LEMMA QueueAppend ==
  ASSUME NEW q \in Seq(Steps), NEW e \in Steps
  PROVE  /\ Append(q, e) \in Seq(Steps)
         /\ ~e.resumed => ResumedIn(Append(q, e)) = ResumedIn(q)
         /\ e.resumed /\ ResumedIn(q) = {} =>
               ResumedIn(Append(q, e)) # {} /\ AtMostOne(ResumedIn(Append(q, e)))
  BY AppendParts DEF ResumedIn, AtMostOne

LEMMA QueueTail ==
  ASSUME NEW q \in Seq(Steps), q # <<>>, AtMostOne(ResumedIn(q))
  PROVE  /\ Tail(q) \in Seq(Steps) /\ Head(q) \in Steps
         /\ AtMostOne(ResumedIn(Tail(q)))
         /\ Head(q).resumed => ResumedIn(q) # {} /\ ResumedIn(Tail(q)) = {}
         /\ ~Head(q).resumed => (ResumedIn(Tail(q)) = {} <=> ResumedIn(q) = {})
  <1>1. /\ Tail(q) \in Seq(Steps) /\ Len(q) \in Nat /\ DOMAIN q = 1..Len(q)
        /\ 1 \in DOMAIN q /\ Head(q) = q[1] /\ Head(q) \in Steps
        /\ DOMAIN Tail(q) = 1..(Len(q) - 1)
        /\ \A k \in DOMAIN Tail(q) : k + 1 \in DOMAIN q /\ Tail(q)[k] = q[k + 1]
        /\ \A k \in DOMAIN q : k = 1 \/ (k - 1 \in DOMAIN Tail(q) /\ Tail(q)[k - 1] = q[k])
    BY TailParts
  <1>2. \A k \in ResumedIn(Tail(q)) : k \in Nat \ {0} /\ k + 1 \in ResumedIn(q)
    BY <1>1 DEF ResumedIn
  <1>3. \A k \in ResumedIn(q) : k = 1 \/ k - 1 \in ResumedIn(Tail(q))
    BY <1>1 DEF ResumedIn
  <1>4. Head(q).resumed <=> 1 \in ResumedIn(q)
    BY <1>1 DEF ResumedIn
  <1>5. AtMostOne(ResumedIn(Tail(q)))
    BY <1>2 DEF AtMostOne
  <1>6. ASSUME Head(q).resumed PROVE ResumedIn(Tail(q)) = {}
    <2>1. \A k \in ResumedIn(q) : k = 1
      BY <1>4, <1>6 DEF AtMostOne
    <2> QED
      BY <1>2, <2>1
  <1>7. ASSUME ~Head(q).resumed PROVE ResumedIn(Tail(q)) = {} <=> ResumedIn(q) = {}
    BY <1>2, <1>3, <1>4, <1>7
  <1> QED
    BY <1>1, <1>4, <1>5, <1>6, <1>7

\* The number of frames that the model counts.
LEMMA FramesCounted ==
  ASSUME GenTypeOK, OnePlace
  PROVE  Frames \in {0, 1} /\ (Frames = 0 <=> phase # "suspended" /\ Gone)
  <1>1. Cardinality(parked) = IF parked = {} THEN 0 ELSE 1
    BY Lone DEF OnePlace, AtMostOne
  <1>2. Cardinality(ResumedIn(ready)) = IF ResumedIn(ready) = {} THEN 0 ELSE 1
    <2>1. \A x, y \in ResumedIn(ready) : x = y
      BY DEF OnePlace, AtMostOne
    <2> QED
      BY <2>1, Lone
  <1>3. Frames = (IF phase = "suspended" THEN 1 ELSE 0) + (IF mounted # None THEN 1 ELSE 0)
                     + Cardinality(parked) + Cardinality(ResumedIn(ready))
    BY DEF Frames, ResumedIn
  <1> QED
    BY <1>1, <1>2, <1>3 DEF OnePlace, Gone

LEMMA GenInvImplies == GenInv => OneFrame /\ CloseRunsFinally
  <1> SUFFICES ASSUME GenInv PROVE OneFrame /\ CloseRunsFinally
    OBVIOUS
  <1>1. Frames \in {0, 1} /\ (Frames = 0 <=> phase # "suspended" /\ Gone)
    BY FramesCounted DEF GenInv
  <1>2. OneFrame
    <2>1. phase = "fresh" => Gone
      BY DEF GenInv, OnePlace, Gone
    <2>2. phase = "running" /\ "cancelled" \notin dropped => ~Gone
      BY DEF GenInv, OnePlace, Gone
    <2> QED
      BY <1>1, <2>1, <2>2 DEF GenInv, OneFrame
  <1>3. CloseRunsFinally
    BY <1>1 DEF GenInv, EndIsKept, CloseRunsFinally, Ended
  <1> QED
    BY <1>2, <1>3

-----------------------------------------------------------------------------
LEMMA GenInitInv == GenInit => GenInv
  <1> SUFFICES ASSUME GenInit PROVE GenInv
    OBVIOUS
  <1>1. ready = <<>> /\ ready \in Seq(Steps) /\ ResumedIn(ready) = {}
    BY DEF GenInit, ResumedIn
  <1>2. GenTypeOK
    <2>1. /\ call \in [Calls -> {"none", "next", "close"}]
          /\ answer \in [Calls -> {"none", "pending", "value", "null", "busy", "error", "cancelled"}]
          /\ found \in [Calls -> Phases \cup {"none"}]
      BY DEF GenInit
    <2>2. open \in 0..MaxDepth /\ work \in 0..MaxWork
      BY GeneratorAssumption DEF GenInit
    <2> QED
      BY <1>1, <2>1, <2>2 DEF GenInit, GenTypeOK, Phases, Steps
  <1>3. OnePlace /\ Asked
    BY <1>1 DEF GenInit, OnePlace, AtMostOne, Asked
  <1>4. EndIsKept
    BY DEF GenInit, EndIsKept, Ended
  <1> QED
    BY <1>2, <1>3, <1>4 DEF GenInv

\* What enter_generator does.
LEMMA EnterOutcome ==
  ASSUME GenTypeOK, NEW c \in Calls, NEW input \in BOOLEAN, Enter(c, input)
  PROVE  \/ /\ phase \in {"done", "running"}
            /\ answer' = [answer EXCEPT ![c] = IF phase = "done" THEN "null" ELSE "busy"]
            /\ UNCHANGED <<phase, exit, mounted>>
         \/ /\ phase \in {"fresh", "suspended"} /\ phase' = "running" /\ mounted' = c
            /\ exit' \in {"no", "return", "throw"}
            /\ answer' = [answer EXCEPT ![c] = "pending"]
  <1>1. phase \in Phases /\ exit \in {"no", "return", "throw"}
    BY DEF GenTypeOK
  <1>2. CASE phase = "done"
    BY <1>2 DEF Enter, Answers
  <1>3. CASE phase = "running"
    BY <1>3 DEF Enter, Answers
  <1>4. CASE phase = "fresh"
    BY <1>1, <1>4 DEF Enter, Answers
  <1>5. CASE phase = "suspended"
    BY <1>1, <1>5 DEF Enter, Answers
  <1> QED
    BY <1>1, <1>2, <1>3, <1>4, <1>5 DEF Phases

\* A step that leaves alone what calls were and found changes nothing in CutShort,
\* and keeps the end if it keeps a generator that is done so, and gives the end as
\* an answer only then.
LEMMA KeepsTheEnd ==
  ASSUME GenInv, found' = found, call' = call, NEW c,
         ~CutShort /\ phase' = "done" => Gone' /\ (open' = 0 \/ dropped' # {}),
         ~CutShort /\ phase = "done" => phase' = "done",
         \A d \in Calls : d # c => answer'[d] = answer[d],
         c \in Calls /\ answer'[c] = "null" /\ (call[c] = "next" \/ found[c] = "suspended") =>
             phase' = "done"
  PROVE  EndIsKept'
  <1>1. CutShort' <=> CutShort
    BY DEF CutShort
  <1> SUFFICES ASSUME ~CutShort
               PROVE  /\ phase' = "done" => Gone' /\ (open' = 0 \/ dropped' # {})
                      /\ \A d \in Calls : Ended(d)' => phase' = "done"
    BY <1>1 DEF EndIsKept
  <1>2. ASSUME NEW d \in Calls, Ended(d)' PROVE phase' = "done"
    <2>1. CASE d = c
      BY <1>2, <2>1 DEF Ended
    <2>2. CASE d # c
      <3>1. Ended(d)
        BY <1>2, <2>2 DEF Ended
      <3> QED
        BY <3>1 DEF GenInv, EndIsKept
    <2> QED
      BY <2>1, <2>2
  <1> QED
    BY <1>2

LEMMA CancelStepKeeps == ASSUME NEW c \in Calls PROVE GenInv /\ CancelStep(c) => GenInv'
  <1> SUFFICES ASSUME GenInv, CancelStep(c) PROVE GenInv'
    OBVIOUS
  <1>1. /\ answer[c] = "pending" /\ answer' = [answer EXCEPT ![c] = "cancelled"]
        /\ UNCHANGED <<phase, closing, open, exit, work, mounted, ready, parked, call, found, dropped>>
    BY DEF CancelStep, Answers, state, body, tasks
  <1>2. GenTypeOK'
    BY <1>1 DEF GenInv, GenTypeOK, Phases, Steps
  <1>3. OnePlace'
    BY <1>1 DEF GenInv, OnePlace, ResumedIn, AtMostOne
  <1>4. Asked'
    BY <1>1 DEF GenInv, GenTypeOK, Asked
  <1>5. EndIsKept'
    <2>1. \A d \in Calls : answer'[d] = IF d = c THEN "cancelled" ELSE answer[d]
      BY <1>1 DEF GenInv, GenTypeOK
    <2>2. CutShort' <=> CutShort
      BY <1>1 DEF CutShort
    <2>3. \A d \in Calls : Ended(d)' => Ended(d)
      BY <1>1, <2>1 DEF Ended
    <2> QED
      BY <1>1, <2>2, <2>3 DEF GenInv, EndIsKept, Gone, ResumedIn
  <1> QED
    BY <1>2, <1>3, <1>4, <1>5 DEF GenInv

-----------------------------------------------------------------------------
\* A call that enters the generator at once, or queues a step.
LEMMA NextKeeps == ASSUME NEW c \in Calls PROVE GenInv /\ Next_(c) => GenInv'
  <1> SUFFICES ASSUME GenInv, Next_(c) PROVE GenInv'
    OBVIOUS
  <1>1. /\ call[c] = "none" /\ found[c] = "none"
        /\ call' = [call EXCEPT ![c] = "next"]
        /\ UNCHANGED <<closing, open, work, parked, found, dropped>>
    BY DEF Next_, IsNext, GenInv, Asked
  <1>2. \/ /\ ready' = Append(ready, Is(c, FALSE)) /\ answer' = [answer EXCEPT ![c] = "pending"]
           /\ UNCHANGED <<phase, exit, mounted>>
        \/ /\ ready' = ready /\ Enter(c, FALSE)
    BY DEF Next_, Answers
  <1>3. Is(c, FALSE) \in Steps /\ ~Is(c, FALSE).resumed
    BY DEF Is, Steps
  <1>4. ready \in Seq(Steps)
    BY DEF GenInv, GenTypeOK, Steps
  <1>5. ready' \in Seq(Steps) /\ ResumedIn(ready') = ResumedIn(ready)
    BY <1>2, <1>3, <1>4, QueueAppend
  <1>6. \/ /\ phase' = phase /\ exit' = exit /\ mounted' = mounted
           /\ \E what \in {"pending", "null", "busy"} :
                 answer' = [answer EXCEPT ![c] = what] /\ (what = "null" => phase = "done")
        \/ /\ phase \in {"fresh", "suspended"} /\ phase' = "running" /\ mounted' = c
           /\ exit' \in {"no", "return", "throw"} /\ answer' = [answer EXCEPT ![c] = "pending"]
    BY <1>2, EnterOutcome DEF GenInv
  <1>7. GenTypeOK'
    BY <1>1, <1>5, <1>6 DEF GenInv, GenTypeOK, Phases, Steps
  <1>8. OnePlace'
    BY <1>1, <1>5, <1>6, GeneratorAssumption DEF GenInv, OnePlace, AtMostOne
  <1>9. Asked'
    BY <1>1, <1>6 DEF GenInv, GenTypeOK, Asked
  <1>10. EndIsKept'
    <2>1. CutShort' <=> CutShort
      BY <1>1 DEF CutShort
    <2>2. \A d \in Calls : d # c => (Ended(d)' <=> Ended(d))
      BY <1>1, <1>6 DEF GenInv, GenTypeOK, Ended
    <2>3. Ended(c)' => phase' = "done"
      BY <1>1, <1>6 DEF GenInv, GenTypeOK, Ended
    <2>4. phase = "done" => phase' = "done" /\ (Gone => Gone')
      BY <1>1, <1>5, <1>6 DEF Gone
    <2>5. phase' = "done" => phase = "done"
      BY <1>6
    <2> QED
      BY <1>1, <2>1, <2>2, <2>3, <2>4, <2>5 DEF GenInv, EndIsKept
  <1> QED
    BY <1>7, <1>8, <1>9, <1>10 DEF GenInv

LEMMA CloseKeeps == ASSUME NEW c \in Calls PROVE GenInv /\ Close(c) => GenInv'
  <1> SUFFICES ASSUME GenInv, Close(c) PROVE GenInv'
    OBVIOUS
  <1>1. /\ call[c] = "none" /\ found[c] = "none"
        /\ call' = [call EXCEPT ![c] = "close"] /\ found' = [found EXCEPT ![c] = phase]
        /\ UNCHANGED <<open, work, parked, dropped>>
    BY DEF Close, IsNext, GenInv, Asked
  <1>2. \/ /\ phase # "suspended" /\ phase' = "done" /\ answer' = [answer EXCEPT ![c] = "null"]
           /\ UNCHANGED <<closing, exit, mounted, ready>>
        \/ /\ phase = "suspended" /\ closing' = TRUE /\ ready' = Append(ready, Is(c, FALSE))
           /\ answer' = [answer EXCEPT ![c] = "pending"] /\ UNCHANGED <<phase, exit, mounted>>
        \/ /\ phase = "suspended" /\ Enter(c, TRUE) /\ UNCHANGED <<closing, ready>>
    BY DEF Close, Answers
  <1>3. Is(c, FALSE) \in Steps /\ ~Is(c, FALSE).resumed
    BY DEF Is, Steps
  <1>4. ready \in Seq(Steps)
    BY DEF GenInv, GenTypeOK, Steps
  <1>5. ready' \in Seq(Steps) /\ ResumedIn(ready') = ResumedIn(ready)
    BY <1>2, <1>3, <1>4, QueueAppend
  <1>6. \/ /\ phase # "suspended" /\ phase' = "done" /\ answer' = [answer EXCEPT ![c] = "null"]
           /\ UNCHANGED <<closing, exit, mounted>>
        \/ /\ phase = "suspended" /\ phase' = "suspended" /\ closing' = TRUE
           /\ answer' = [answer EXCEPT ![c] = "pending"] /\ UNCHANGED <<exit, mounted>>
        \/ /\ phase = "suspended" /\ phase' = "running" /\ mounted' = c
           /\ exit' \in {"no", "return", "throw"} /\ answer' = [answer EXCEPT ![c] = "pending"]
           /\ closing' = closing
    BY <1>2, EnterOutcome DEF GenInv
  <1>7. GenTypeOK'
    BY <1>1, <1>5, <1>6 DEF GenInv, GenTypeOK, Phases, Steps
  <1>8. OnePlace'
    BY <1>1, <1>5, <1>6, GeneratorAssumption DEF GenInv, OnePlace, AtMostOne
  <1>9. Asked'
    BY <1>1, <1>6 DEF GenInv, GenTypeOK, Asked
  <1>10. EndIsKept'
    <2>1. found'[c] = phase /\ \A d \in Calls : d # c => found'[d] = found[d]
      BY <1>1 DEF GenInv, GenTypeOK
    <2>2. (CutShort => CutShort') /\ (phase = "running" => CutShort')
      BY <1>1, <2>1 DEF CutShort
    <2>3. \A d \in Calls : d # c => (Ended(d)' <=> Ended(d))
      BY <1>1, <1>6, <2>1 DEF GenInv, GenTypeOK, Ended
    <2>4. ~Ended(c)'
      BY <1>1, <1>6, <2>1 DEF GenInv, GenTypeOK, Ended
    <2>5. CASE phase = "suspended"
      BY <1>6, <2>2, <2>3, <2>4, <2>5 DEF GenInv, EndIsKept
    <2>6. CASE phase # "suspended"
      <3>1. mounted' = mounted /\ phase' = "done"
        BY <1>6, <2>6
      <3>2. phase \in {"fresh", "done"} /\ ~CutShort =>
                Gone /\ (open = 0 \/ dropped # {})
        BY DEF GenInv, Asked, OnePlace, EndIsKept, Gone
      <3>3. phase \in {"fresh", "running", "done"}
        BY <2>6 DEF GenInv, GenTypeOK, Phases
      <3>4. Gone => Gone'
        BY <1>1, <1>5, <3>1 DEF Gone
      <3> QED
        BY <1>1, <2>2, <2>3, <2>4, <3>1, <3>2, <3>3, <3>4 DEF GenInv, EndIsKept
    <2> QED
      BY <2>5, <2>6
  <1> QED
    BY <1>7, <1>8, <1>9, <1>10 DEF GenInv

-----------------------------------------------------------------------------
\* A queued step runs: only one that holds the frame may lose it.
LEMMA RunStepKeeps == GenInv /\ RunStep => GenInv'
  <1> SUFFICES ASSUME GenInv, RunStep PROVE GenInv'
    OBVIOUS
  <1> SUFFICES ASSUME NEW step, step = Head(ready) PROVE GenInv'
    OBVIOUS
  <1>1. /\ mounted = None /\ ready # <<>> /\ ready' = Tail(ready)
        /\ UNCHANGED <<closing, open, work, parked, call, found>>
    BY DEF RunStep
  <1>2. ready \in Seq(Steps) /\ AtMostOne(ResumedIn(ready))
    BY DEF GenInv, GenTypeOK, OnePlace, Steps
  <1>3. /\ ready' \in Seq(Steps) /\ step \in Steps /\ AtMostOne(ResumedIn(ready'))
        /\ step.resumed => ResumedIn(ready) # {} /\ ResumedIn(ready') = {}
        /\ ~step.resumed => (ResumedIn(ready') = {} <=> ResumedIn(ready) = {})
    BY <1>1, <1>2, QueueTail
  <1>4. step.call \in Calls /\ step.resumed \in BOOLEAN /\ closing \in BOOLEAN
    BY <1>3 DEF Steps, GenInv, GenTypeOK
  <1>5. CASE answer[step.call] # "pending"
    <2>1. /\ dropped' = IF step.resumed THEN dropped \cup {"cancelled"} ELSE dropped
          /\ UNCHANGED <<phase, exit, mounted, answer>>
      BY <1>5 DEF RunStep
    <2>2. GenTypeOK'
      BY <1>1, <1>3, <2>1 DEF GenInv, GenTypeOK, Phases, Steps
    <2>3. OnePlace'
      BY <1>1, <1>3, <1>4, <2>1 DEF GenInv, OnePlace
    <2>4. Asked'
      BY <1>1, <2>1 DEF GenInv, Asked
    <2>5. Gone /\ (open = 0 \/ dropped # {}) => Gone' /\ (open' = 0 \/ dropped' # {})
      BY <1>1, <1>3, <1>4, <2>1 DEF Gone
    <2>6. EndIsKept'
      BY <1>1, <2>1, <2>5 DEF GenInv, EndIsKept, CutShort, Ended
    <2> QED
      BY <2>2, <2>3, <2>4, <2>6 DEF GenInv
  <1>6. CASE answer[step.call] = "pending" /\ step.resumed
    <2>1. mounted' = step.call /\ UNCHANGED <<phase, exit, answer, dropped>>
      BY <1>6 DEF RunStep
    <2>2. mounted' # None /\ ResumedIn(ready) # {}
      BY <1>3, <1>4, <1>6, <2>1, GeneratorAssumption
    <2>3. GenTypeOK'
      BY <1>1, <1>3, <1>4, <2>1 DEF GenInv, GenTypeOK, Phases, Steps
    <2>4. OnePlace'
      BY <1>1, <1>3, <1>6, <2>1, <2>2 DEF GenInv, OnePlace
    <2>5. Asked'
      BY <1>1, <2>1 DEF GenInv, Asked
    <2>6. ~Gone
      BY <2>2 DEF Gone
    <2>7. EndIsKept'
      BY <1>1, <2>1, <2>6 DEF GenInv, EndIsKept, CutShort, Ended
    <2> QED
      BY <2>3, <2>4, <2>5, <2>7 DEF GenInv
  <1>7. CASE answer[step.call] = "pending" /\ ~step.resumed
    <2>1. Enter(step.call, closing) /\ dropped' = dropped
      BY <1>7 DEF RunStep
    <2>2. \/ /\ phase \in {"done", "running"}
             /\ answer' = [answer EXCEPT ![step.call] = IF phase = "done" THEN "null" ELSE "busy"]
             /\ UNCHANGED <<phase, exit, mounted>>
          \/ /\ phase \in {"fresh", "suspended"} /\ phase' = "running" /\ mounted' = step.call
             /\ exit' \in {"no", "return", "throw"}
             /\ answer' = [answer EXCEPT ![step.call] = "pending"]
      BY <1>4, <2>1, EnterOutcome DEF GenInv
    <2>3. ResumedIn(ready') = {} <=> ResumedIn(ready) = {}
      BY <1>3, <1>7
    <2>4. GenTypeOK'
      BY <1>1, <1>3, <1>4, <2>1, <2>2 DEF GenInv, GenTypeOK, Phases, Steps
    <2>5. OnePlace'
      BY <1>1, <1>3, <1>4, <2>1, <2>2, <2>3, GeneratorAssumption DEF GenInv, OnePlace
    <2>6. Asked'
      BY <1>1, <1>4, <1>7, <2>2 DEF GenInv, GenTypeOK, Asked
    <2>7. EndIsKept'
      <3>1. ~CutShort /\ phase' = "done" => Gone' /\ (open' = 0 \/ dropped' # {})
        BY <1>1, <2>1, <2>2, <2>3 DEF GenInv, EndIsKept, Gone
      <3>2. phase = "done" => phase' = "done"
        BY <2>2
      <3>3. \A d \in Calls : d # step.call => answer'[d] = answer[d]
        BY <1>4, <2>2 DEF GenInv, GenTypeOK
      <3>4. answer'[step.call] = "null" => phase' = "done"
        BY <1>4, <2>2 DEF GenInv, GenTypeOK
      <3>5. found' = found /\ call' = call
        BY <1>1
      <3> QED
        BY <3>1, <3>2, <3>3, <3>4, <3>5, KeepsTheEnd
    <2> QED
      BY <2>4, <2>5, <2>6, <2>7 DEF GenInv
  <1> QED
    BY <1>4, <1>5, <1>6, <1>7

LEMMA WakeStepKeeps == ASSUME NEW c \in Calls PROVE GenInv /\ WakeStep(c) => GenInv'
  <1> SUFFICES ASSUME GenInv, WakeStep(c) PROVE GenInv'
    OBVIOUS
  <1>1. /\ mounted = None /\ c \in parked /\ parked' = parked \ {c}
        /\ UNCHANGED <<phase, closing, open, exit, work, mounted, call, answer, found>>
    BY DEF WakeStep, state, body, calls
  <1>2. parked' = {} /\ ResumedIn(ready) = {} /\ parked # {} /\ phase \notin {"fresh", "suspended"}
    BY <1>1 DEF GenInv, OnePlace, AtMostOne
  <1>3. ready \in Seq(Steps) /\ Is(c, TRUE) \in Steps /\ Is(c, TRUE).resumed
    BY DEF GenInv, GenTypeOK, Is, Steps
  <1>4. \/ /\ dropped' = dropped /\ ready' \in Seq(Steps)
           /\ ResumedIn(ready') # {} /\ AtMostOne(ResumedIn(ready'))
        \/ dropped' = dropped \cup {"cancelled"} /\ ready' = ready
    BY <1>2, <1>3, QueueAppend DEF WakeStep
  <1>5. GenTypeOK'
    BY <1>1, <1>3, <1>4 DEF GenInv, GenTypeOK, Phases, Steps
  <1>6. OnePlace'
    BY <1>1, <1>2, <1>4 DEF GenInv, OnePlace, AtMostOne
  <1>7. Asked'
    BY <1>1 DEF GenInv, Asked
  <1>8. EndIsKept'
    <2>1. ~Gone
      BY <1>2 DEF Gone
    <2> QED
      BY <1>1, <2>1 DEF GenInv, EndIsKept, CutShort, Ended
  <1> QED
    BY <1>5, <1>6, <1>7, <1>8 DEF GenInv

-----------------------------------------------------------------------------
\* While the body is on the stack it is nowhere else, and unless it was cut short
\* the generator is running.
LEMMA OnTheStack ==
  ASSUME GenInv, Within
  PROVE  /\ mounted \in Calls /\ mounted # None /\ parked = {} /\ ResumedIn(ready) = {}
         /\ phase \in {"running", "done"} /\ (~CutShort => phase = "running")
         /\ ready \in Seq(Steps)
  BY DEF GenInv, GenTypeOK, Phases, OnePlace, EndIsKept, Gone, Within, Steps

\* A step of the body that only counts keeps everything.
LEMMA CountingKeeps ==
  ASSUME GenInv, Within,
         UNCHANGED <<phase, closing, mounted, ready, parked, call, answer, found, dropped>>,
         open' \in 0..MaxDepth, exit' \in {"no", "return", "throw"}, work' \in 0..MaxWork
  PROVE  GenInv'
  <1>1. phase \in {"running", "done"} /\ (~CutShort => phase = "running")
    BY OnTheStack
  <1>2. GenTypeOK'
    BY DEF GenInv, GenTypeOK, Phases, Steps
  <1>3. OnePlace'
    BY DEF GenInv, OnePlace
  <1>4. Asked' /\ EndIsKept'
    BY <1>1 DEF GenInv, Asked, EndIsKept, CutShort, Ended
  <1> QED
    BY <1>2, <1>3, <1>4 DEF GenInv

LEMMA AwaitsKeeps == GenInv /\ Awaits => GenInv'
  <1> SUFFICES ASSUME GenInv, Awaits PROVE GenInv'
    OBVIOUS
  <1>1. /\ Within /\ work < MaxWork /\ work' = work + 1
        /\ parked' = parked \cup {mounted} /\ mounted' = None
        /\ UNCHANGED <<phase, closing, open, exit, ready, call, answer, found, dropped>>
    BY DEF Awaits, BodyStep
  <1>2. /\ mounted \in Calls /\ parked = {} /\ ResumedIn(ready) = {}
        /\ phase \in {"running", "done"} /\ (~CutShort => phase = "running")
    BY <1>1, OnTheStack
  <1>3. GenTypeOK'
    BY <1>1, <1>2, GeneratorAssumption DEF GenInv, GenTypeOK, Phases, Steps
  <1>4. OnePlace'
    BY <1>1, <1>2 DEF GenInv, OnePlace, AtMostOne
  <1>5. Asked' /\ EndIsKept'
    BY <1>1, <1>2 DEF GenInv, Asked, EndIsKept, CutShort, Ended
  <1> QED
    BY <1>3, <1>4, <1>5 DEF GenInv

\* A step of the body after which it is off the stack: suspended, or over with no
\* finally left to run unless it was dropped.
LEMMA LeavesTheStack ==
  ASSUME GenInv, Within, NEW what \in {"value", "null", "error"},
         mounted' = None, phase' \in {"suspended", "done"},
         answer' = [answer EXCEPT ![mounted] = what],
         UNCHANGED <<closing, open, exit, ready, parked, call, found>>,
         work' \in 0..MaxWork, dropped \subseteq dropped',
         dropped' \subseteq {"cancelled", "yield", "abandoned"},
         phase' = "done" => open = 0 \/ dropped' # {},
         what = "null" => phase' = "done"
  PROVE  GenInv'
  <1>1. /\ mounted \in Calls /\ parked = {} /\ ResumedIn(ready) = {}
        /\ phase \in {"running", "done"} /\ (~CutShort => phase = "running")
    BY OnTheStack
  <1>2. \A d \in Calls : answer'[d] = IF d = mounted THEN what ELSE answer[d]
    BY <1>1 DEF GenInv, GenTypeOK
  <1>3. GenTypeOK'
    BY <1>1 DEF GenInv, GenTypeOK, Phases, Steps
  <1>4. OnePlace'
    BY <1>1 DEF OnePlace, AtMostOne
  <1>5. Asked'
    BY DEF GenInv, Asked
  <1>6. EndIsKept'
    <2>1. ~CutShort /\ phase' = "done" => Gone' /\ (open' = 0 \/ dropped' # {})
      BY <1>1 DEF Gone
    <2>2. ~CutShort /\ phase = "done" => phase' = "done"
      BY <1>1
    <2>3. \A d \in Calls : d # mounted => answer'[d] = answer[d]
      BY <1>2
    <2>4. answer'[mounted] = "null" => phase' = "done"
      BY <1>1, <1>2
    <2> QED
      BY <2>1, <2>2, <2>3, <2>4, KeepsTheEnd
  <1> QED
    BY <1>3, <1>4, <1>5, <1>6 DEF GenInv

LEMMA BodyKeeps == GenInv /\ Body => GenInv'
  <1> SUFFICES ASSUME GenInv, Body PROVE GenInv'
    OBVIOUS
  <1>1. /\ open \in Nat /\ open \in 0..MaxDepth /\ work \in 0..MaxWork
        /\ (work < MaxWork => work + 1 \in 0..MaxWork) /\ exit \in {"no", "return", "throw"}
        /\ dropped \subseteq {"cancelled", "yield", "abandoned"}
    BY GeneratorAssumption DEF GenInv, GenTypeOK
  <1>2. CASE EntersTry
    <2>1. open' \in 0..MaxDepth /\ work' \in 0..MaxWork
      BY <1>1, <1>2, GeneratorAssumption DEF EntersTry, BodyStep
    <2> QED
      BY <1>1, <1>2, <2>1, CountingKeeps DEF EntersTry, BodyStep, tasks
  <1>3. CASE Leaves("return") \/ Leaves("throw")
    <2>1. exit' \in {"no", "return", "throw"}
      BY <1>3 DEF Leaves
    <2>2. /\ Within
          /\ UNCHANGED <<phase, closing, mounted, ready, parked, call, answer, found, dropped>>
          /\ open' = open /\ work' = work
      BY <1>3 DEF Leaves, BodyStep, tasks
    <2> QED
      BY <1>1, <2>1, <2>2, CountingKeeps
  <1>4. CASE Finally
    <2>1. open' \in 0..MaxDepth
      BY <1>1, <1>4, GeneratorAssumption DEF Finally, BodyStep
    <2> QED
      BY <1>1, <1>4, <2>1, CountingKeeps DEF Finally, BodyStep, tasks
  <1>5. CASE Awaits
    BY <1>5, AwaitsKeeps
  <1>6. CASE Yields
    <2>1. /\ Within /\ mounted' = None /\ work' \in 0..MaxWork
          /\ UNCHANGED <<closing, open, exit, ready, parked, call, found>>
      BY <1>1, <1>6 DEF Yields, BodyStep, tasks
    <2>2. \/ /\ phase' = "done" /\ answer' = [answer EXCEPT ![mounted] = "null"]
             /\ dropped' = dropped \cup {"yield"}
          \/ /\ phase' = "suspended" /\ answer' = [answer EXCEPT ![mounted] = "value"]
             /\ dropped' = dropped
      BY <1>6 DEF Yields, Answers
    <2>3. CASE phase' = "done"
      <3>1. answer' = [answer EXCEPT ![mounted] = "null"] /\ dropped' = dropped \cup {"yield"}
        BY <2>2, <2>3
      <3> QED
        BY <1>1, <2>1, <2>3, <3>1, LeavesTheStack
    <2>4. CASE phase' = "suspended"
      <3>1. answer' = [answer EXCEPT ![mounted] = "value"] /\ dropped' = dropped
        BY <2>2, <2>4
      <3> QED
        BY <1>1, <2>1, <2>4, <3>1, LeavesTheStack
    <2> QED
      BY <2>2, <2>3, <2>4
  <1>7. CASE Abandons
    <2>1. /\ Within /\ mounted' = None /\ work' \in 0..MaxWork /\ phase' = "done"
          /\ UNCHANGED <<closing, open, exit, ready, parked, call, found>>
          /\ answer' = [answer EXCEPT ![mounted] = "error"]
          /\ dropped' = dropped \cup {"abandoned"}
      BY <1>1, <1>7 DEF Abandons, BodyStep, tasks, Answers
    <2> QED
      BY <1>1, <2>1, LeavesTheStack
  <1>8. CASE Ends
    <2>1. /\ Within /\ mounted' = None /\ work' \in 0..MaxWork /\ phase' = "done" /\ open = 0
          /\ UNCHANGED <<closing, open, exit, ready, parked, call, found>> /\ dropped' = dropped
      BY <1>1, <1>8 DEF Ends, BodyStep, tasks
    <2>2. \/ answer' = [answer EXCEPT ![mounted] = "error"]
          \/ answer' = [answer EXCEPT ![mounted] = "null"]
      BY <1>8 DEF Ends, Answers
    <2> QED
      BY <1>1, <2>1, <2>2, LeavesTheStack
  <1> QED
    BY <1>2, <1>3, <1>4, <1>5, <1>6, <1>7, <1>8 DEF Body

LEMMA GenStepKeeps == GenInv /\ [GenNext]_genVars => GenInv'
  <1> SUFFICES ASSUME GenInv, [GenNext]_genVars PROVE GenInv'
    OBVIOUS
  <1>1. CASE \E c \in Calls : Next_(c) \/ Close(c) \/ CancelStep(c) \/ WakeStep(c)
    BY <1>1, NextKeeps, CloseKeeps, CancelStepKeeps, WakeStepKeeps
  <1>2. CASE RunStep
    BY <1>2, RunStepKeeps
  <1>3. CASE Body
    BY <1>3, BodyKeeps
  <1>4. CASE UNCHANGED genVars
    <2>1. UNCHANGED <<phase, closing, open, exit, work, mounted, ready, parked, call, answer,
                      found, dropped>>
      BY <1>4 DEF genVars, state, body, tasks, calls
    <2>2. GenTypeOK' /\ OnePlace'
      BY <2>1 DEF GenInv, GenTypeOK, OnePlace
    <2>3. Asked' /\ EndIsKept'
      BY <2>1 DEF GenInv, Asked, EndIsKept, CutShort, Ended, Gone
    <2> QED
      BY <2>2, <2>3 DEF GenInv
  <1> QED
    BY <1>1, <1>2, <1>3, <1>4 DEF GenNext

LEMMA GenInvHolds == GenSpec => []GenInv
  BY GenInitInv, GenStepKeeps, PTL DEF GenSpec

\* However calls, steps, closes and cancellations follow each other, the body has one
\* frame: it is never mounted twice, and while the generator runs its frame is kept,
\* save by a cancelled step (enter_generator, park_generator, run_task).
THEOREM OneFrameKept == GenSpec => []OneFrame
  BY GenInvImplies, GenInvHolds, PTL

\* When the close of a suspended generator is answered, the body is over and every
\* finally it was in has run, unless a finally yielded or the body was dropped with a
\* cancelled step (close_generator, close_async_generator).
THEOREM ClosesRunFinally == GenSpec => []CloseRunsFinally
  BY GenInvImplies, GenInvHolds, PTL

\* A value is given only by a body that yields and stays suspended.
LEMMA ValueIsYielded ==
  ASSUME GenInv, GenNext, NEW c \in Calls, Newly(c, "value")
  PROVE  Within
  <1>1. answer \in [Calls -> {"none", "pending", "value", "null", "busy", "error", "cancelled"}]
    BY DEF GenInv, GenTypeOK
  <1>2. answer[c] # "value" /\ answer'[c] = "value"
    BY DEF Newly
  <1>3. CASE \E d \in Calls : Next_(d) \/ Close(d) \/ CancelStep(d) \/ WakeStep(d)
    <2>1. PICK d \in Calls : Next_(d) \/ Close(d) \/ CancelStep(d) \/ WakeStep(d)
      BY <1>3
    <2>2. \/ answer' = answer
          \/ \E what \in {"null", "busy", "pending", "cancelled"} : answer' = [answer EXCEPT ![d] = what]
      BY <2>1, EnterOutcome DEF GenInv, Next_, Close, CancelStep, WakeStep, Answers, calls
    <2> QED
      BY <1>1, <1>2, <2>2
  <1>4. CASE RunStep
    <2>1. ready \in Seq(Steps) /\ ready # <<>>
      BY <1>4 DEF GenInv, GenTypeOK, Steps, RunStep
    <2>2. Head(ready) \in Steps
      BY <2>1, TailParts
    <2>3. Head(ready).call \in Calls /\ closing \in BOOLEAN
      BY <2>2 DEF Steps, GenInv, GenTypeOK
    <2>4. answer' = answer \/ Enter(Head(ready).call, closing)
      BY <1>4 DEF RunStep
    <2>5. \/ answer' = answer
          \/ \E what \in {"null", "busy", "pending"} :
                answer' = [answer EXCEPT ![Head(ready).call] = what]
      BY <2>3, <2>4, EnterOutcome DEF GenInv
    <2> QED
      BY <1>1, <1>2, <2>3, <2>5
  <1>5. CASE Body
    BY <1>5 DEF Body, EntersTry, Leaves, Finally, Awaits, Yields, Abandons, Ends, BodyStep
  <1> QED
    BY <1>3, <1>4, <1>5 DEF GenNext

\* null marks the end of the iteration: once a next has answered it, or the close of a
\* suspended generator is answered, nobody gets a value (park_generator,
\* enter_generator), unless a close came while a step was going.
THEOREM NullIsLast == GenSpec => NullMarksTheEndIfUncut
  <1>1. ASSUME GenInv, [GenNext]_genVars
        PROVE  [~CutShort => NullIsTheEnd]_genVars
    <2> SUFFICES ASSUME GenNext, ~CutShort, NEW d \in Calls, Ended(d),
                        NEW c \in Calls, Newly(c, "value")
                 PROVE  FALSE
      BY <1>1 DEF NullIsTheEnd
    <2>1. Gone
      BY <1>1 DEF GenInv, EndIsKept
    <2>2. Within
      BY <1>1, ValueIsYielded
    <2> QED
      BY <2>1, <2>2 DEF Gone, Within
  <1> QED
    BY <1>1, GenInvHolds, PTL DEF GenSpec, NullMarksTheEndIfUncut

-----------------------------------------------------------------------------
(***************************************************************************)
(* Timers and the loop that fires them.                                    *)
(***************************************************************************)
\* Entries carry the order in which they were pushed; the heap and what has been taken
\* from it hold only those of calls that pushed theirs.
Numbered ==
    /\ sleepSeq \in Nat
    /\ \A s \in Sleeps : outcome[s] = "none" /\ calling[s] # "push" => entryOf[s] = NoEntry
    /\ \A s \in Sleeps : calling[s] = "push" => outcome[s] = "none" /\ entryOf[s].call = s
    /\ \A s \in Sleeps : calling[s] = "poke" => outcome[s] # "none"
    /\ \A s \in Sleeps : outcome[s] = "pending" => entryOf[s].call = s
    /\ \A x \in heap :
          x.call \in Sleeps /\ entryOf[x.call] = x /\ x.seq < sleepSeq /\ outcome[x.call] # "none"
    /\ \A k \in DOMAIN due :
          /\ due[k].call \in Sleeps /\ entryOf[due[k].call] = due[k]
          /\ due[k].seq < sleepSeq /\ outcome[due[k].call] # "none"

\* x ends before y.
Ahead(x, y) == Before(x, y) \/ Overtakes(x, y)

\* What has been taken is due, in firing order, and ahead of whatever is left.
Taken ==
    /\ driver # "resolve" => due = <<>>
    /\ \A k \in DOMAIN due : due[k].deadline <= now
    /\ \A j, k \in DOMAIN due : j < k => Before(due[j], due[k])
    /\ \A k \in DOMAIN due : \A x \in heap : Ahead(due[k], x)

\* Cancelled entries count too: what becomes the earliest is compared with them.
PollIsShort ==
    driver = "poll" =>
        waking \/ (\E s \in Sleeps : calling[s] = "poke") \/ \A x \in heap : until <= x.deadline

\* The parts of NoSleepLost about the sleeps themselves.
Held ==
    \A s \in Sleeps : outcome[s] = "pending" =>
        entryOf[s] \in heap \/ \E k \in DOMAIN due : due[k] = entryOf[s]
Lasted == \A s \in Sleeps : outcome[s] = "slept" => now >= entryOf[s].deadline

TimerInv == TimerTypeOK /\ Numbered /\ Taken /\ PollIsShort /\ Held /\ Lasted

-----------------------------------------------------------------------------
\* A heap with entries has a first one: next_deadline finds it.
LEMMA FirstEntry ==
  ASSUME NEW H, IsFiniteSet(H), H # {}, \A x \in H : x.deadline \in Nat /\ x.seq \in Nat
  PROVE  \E x \in H : \A y \in H : ~Before(y, x) /\ x.deadline <= y.deadline
  <1> DEFINE D == [x \in H |-> {y \in H : Before(y, x)}]
             T == {D[x] : x \in H}
             R == StrictSubsetOrdering(H)
  <1>1. IsWellFoundedOn(R, FiniteSubsetsOf(H))
    BY FS_StrictSubsetOrderingWellFounded
  <1>2. T \subseteq FiniteSubsetsOf(H) /\ T # {}
    <2>1. \A x \in H : D[x] \in SUBSET H
      OBVIOUS
    <2>2. \A t \in SUBSET H : t \in FiniteSubsetsOf(H)
      BY FS_Subset DEF FiniteSubsetsOf
    <2> QED
      BY <2>1, <2>2
  <1>3. \E t \in T : \A u \in T : ~ (<<u, t>> \in R)
    <2> HIDE DEF T, R
    <2> QED
      BY ONLY <1>1, <1>2, WFMin
  <1>4. PICK x \in H : \A y \in H : ~ (<<D[y], D[x]>> \in R)
    BY <1>3
  <1>5. ASSUME NEW y \in H, Before(y, x)
        PROVE  FALSE
    <2>1. D[y] \subseteq D[x] /\ y \in D[x] /\ y \notin D[y]
      BY <1>5 DEF Before
    <2>2. <<D[y], D[x]>> \in R
      BY <2>1 DEF StrictSubsetOrdering
    <2> QED
      BY <1>4, <2>2
  <1> QED
    BY <1>5 DEF Before

\* What the parts of the invariant say of an entry of the heap or one taken.
LEMMA EntryParts ==
  ASSUME TimerTypeOK
  PROVE  /\ now \in Nat
         /\ \A s \in Sleeps : entryOf[s] \in Entries /\ entryOf[s].deadline \in Nat
         /\ \A x \in heap : x \in Entries /\ x.deadline \in Nat /\ x.seq \in Nat
         /\ \A k \in DOMAIN due : due[k] \in Entries /\ due[k].deadline \in Nat /\ due[k].seq \in Nat
  <1>2. \A x \in Entries : x.deadline \in Nat /\ x.seq \in Nat
    BY TimerAssumption DEF Entries
  <1>3. \A s \in Sleeps : entryOf[s] \in Entries
    BY DEF TimerTypeOK
  <1>4. \A x \in heap : x \in Entries
    BY <1>3 DEF TimerTypeOK
  <1>5. \A k \in DOMAIN due : due[k] \in Entries
    BY ElementOfSeq, LenProperties DEF TimerTypeOK
  <1> QED
    BY <1>2, <1>3, <1>4, <1>5, TimerAssumption DEF TimerTypeOK

LEMMA TimerInvImplies == TimerInv => NoSleepLost
  <1> SUFFICES ASSUME TimerInv PROVE NoSleepLost
    OBVIOUS
  <1>1. PollEndsInTime
    <2> SUFFICES ASSUME driver = "poll", NEW x \in heap, x.deadline < until
                 PROVE  waking \/ \E s \in Sleeps : calling[s] = "poke"
      BY DEF PollEndsInTime
    <2>1. ~(until <= x.deadline)
      BY EntryParts, TimerAssumption DEF TimerInv, TimerTypeOK
    <2> QED
      BY <2>1 DEF TimerInv, PollIsShort
  <1> QED
    BY <1>1 DEF TimerInv, NoSleepLost, Held, Lasted

-----------------------------------------------------------------------------
LEMMA TimerInitInv == TimerInit => TimerInv
  <1> SUFFICES ASSUME TimerInit PROVE TimerInv
    OBVIOUS
  <1>1. MaxSleeps \in Nat /\ MaxTime \in Nat
    BY TimerAssumption
  <1>2. NoEntry \in Entries
    BY <1>1 DEF NoEntry, Entries
  <1>3. due \in Seq(Entries) /\ DOMAIN due = {}
    BY DEF TimerInit
  <1>4. TimerTypeOK
    BY <1>1, <1>2, <1>3, TimerAssumption DEF TimerInit, TimerTypeOK
  <1> QED
    BY <1>3, <1>4 DEF TimerInit, TimerInv, Numbered, Taken, PollIsShort, Held, Lasted, Sleeps

LEMMA TickKeeps == TimerInv /\ Tick => TimerInv'
  <1> SUFFICES ASSUME TimerInv, Tick PROVE TimerInv'
    OBVIOUS
  <1>1. TimerTypeOK'
    BY TimerAssumption DEF TimerInv, TimerTypeOK, Tick, heapVars, Entries
  <1>2. now' = now + 1 /\ now \in Nat
    BY TimerAssumption DEF TimerInv, TimerTypeOK, Tick
  <1>3. Taken'
    <2>1. \A k \in DOMAIN due : due[k].deadline \in Nat /\ due[k].deadline <= now
      BY EntryParts DEF TimerInv, Taken
    <2> QED
      BY <1>2, <2>1 DEF TimerInv, Taken, Tick, heapVars, Ahead, Overtakes, Before
  <1>4. Lasted'
    BY <1>2, EntryParts DEF TimerInv, Lasted, Tick, heapVars
  <1> QED
    BY <1>1, <1>3, <1>4 DEF TimerInv, Tick, heapVars, Numbered, PollIsShort, Held

LEMMA PokeKeeps == ASSUME NEW s \in Sleeps PROVE TimerInv /\ Poke(s) => TimerInv'
  <1> SUFFICES ASSUME TimerInv, Poke(s) PROVE TimerInv'
    OBVIOUS
  <1>1. /\ calling[s] = "poke" /\ calling'[s] = "none"
        /\ \A t \in Sleeps \ {s} : calling'[t] = calling[t]
    BY DEF TimerInv, TimerTypeOK, Poke
  <1>2. UNCHANGED <<now, heapVars, outcome, cancelled, driver, until, due>> /\ waking' = TRUE
    BY DEF Poke
  <1>3. TimerTypeOK'
    BY <1>2 DEF TimerInv, TimerTypeOK, Poke, heapVars, Entries
  <1>4. Numbered'
    BY <1>1, <1>2 DEF TimerInv, Numbered, heapVars
  <1>5. Taken'
    BY <1>2 DEF TimerInv, Taken, heapVars, Ahead, Overtakes, Before
  <1>6. PollIsShort' /\ Held' /\ Lasted'
    BY <1>2 DEF TimerInv, PollIsShort, Held, Lasted, heapVars
  <1> QED
    BY <1>3, <1>4, <1>5, <1>6 DEF TimerInv

LEMMA CancelSleepKeeps == ASSUME NEW s \in Sleeps PROVE TimerInv /\ CancelSleep(s) => TimerInv'
  <1> SUFFICES ASSUME TimerInv, CancelSleep(s) PROVE TimerInv'
    OBVIOUS
  <1>0. /\ outcome[s] = "pending" /\ outcome'[s] = "cancelled" /\ calling'[s] = "note"
        /\ \A t \in Sleeps \ {s} : outcome'[t] = outcome[t] /\ calling'[t] = calling[t]
    BY DEF TimerInv, TimerTypeOK, CancelSleep
  <1>1. TimerTypeOK' /\ Held' /\ Lasted' /\ Numbered'
    <2>1. TimerTypeOK'
      BY DEF TimerInv, CancelSleep, heapVars, TimerTypeOK, Entries
    <2>2. UNCHANGED <<now, heap, sleepSeq, entryOf, due>>
      BY DEF CancelSleep, heapVars
    <2>3. Held' /\ Lasted'
      BY <1>0, <2>2 DEF TimerInv, Held, Lasted
    <2>4. Numbered'
      BY <1>0, <2>2 DEF TimerInv, Numbered
    <2> QED
      BY <2>1, <2>3, <2>4
  <1>2. Taken'
    BY DEF TimerInv, CancelSleep, heapVars, Taken, Ahead, Overtakes, Before
  <1>3. \A t \in Sleeps : calling[t] = "poke" => calling'[t] = "poke"
    BY DEF TimerInv, TimerTypeOK, CancelSleep
  <1>4. PollIsShort'
    BY <1>3 DEF TimerInv, CancelSleep, heapVars, PollIsShort
  <1> QED
    BY <1>1, <1>2, <1>4 DEF TimerInv

\* A purge drops only what is no longer pending.
LEMMA NoteCancelKeeps == ASSUME NEW s \in Sleeps PROVE TimerInv /\ NoteCancel(s) => TimerInv'
  <1> SUFFICES ASSUME TimerInv, NoteCancel(s) PROVE TimerInv'
    OBVIOUS
  <1>1. heap' \subseteq heap /\ \A x \in heap : Pending(x) => x \in heap'
    BY DEF NoteCancel
  <1>2. /\ entryOf' = entryOf /\ outcome' = outcome /\ due' = due /\ now' = now
        /\ sleepSeq' = sleepSeq /\ waking' = waking /\ driver' = driver /\ until' = until
    BY DEF NoteCancel
  <1>3. cancelled' \in 0..(PurgeEvery - 1)
    BY TimerAssumption DEF TimerInv, TimerTypeOK, NoteCancel
  <1>4. calling' \in [Sleeps -> {"none", "push", "poke", "note"}]
    BY DEF TimerInv, TimerTypeOK, NoteCancel
  <1>5. TimerTypeOK'
    BY <1>1, <1>2, <1>3, <1>4 DEF TimerInv, TimerTypeOK, Entries
  <1>6. Numbered' /\ Taken' /\ Lasted'
    <2>1. calling[s] = "note" /\ \A t \in Sleeps : calling'[t] = IF t = s THEN "none" ELSE calling[t]
      BY DEF TimerInv, TimerTypeOK, NoteCancel
    <2>2. Numbered'
      BY <1>1, <1>2, <2>1 DEF TimerInv, Numbered
    <2>3. Taken' /\ Lasted'
      BY <1>1, <1>2 DEF TimerInv, Taken, Lasted, Ahead, Overtakes, Before
    <2> QED
      BY <2>2, <2>3
  <1>7. Held'
    <2>1. \A t \in Sleeps : outcome[t] = "pending" => Pending(entryOf[t])
      BY DEF TimerInv, Numbered, Pending
    <2> QED
      BY <1>1, <1>2, <2>1 DEF TimerInv, Held
  <1>8. \A t \in Sleeps : calling[t] = "poke" => calling'[t] = "poke"
    BY DEF TimerInv, TimerTypeOK, NoteCancel
  <1>9. PollIsShort'
    BY <1>1, <1>2, <1>8 DEF TimerInv, PollIsShort
  <1> QED
    BY <1>5, <1>6, <1>7, <1>9 DEF TimerInv

-----------------------------------------------------------------------------
\* What a call that is at the lock has made is like no entry of the heap, or taken
\* from it.
LEMMA CallIsNew ==
  ASSUME NEW s \in Sleeps, TimerInv, outcome[s] = "none"
  PROVE  (\A x \in heap : x.call # s) /\ (\A k \in DOMAIN due : due[k].call # s)
  BY DEF TimerInv, Numbered

\* A call computes its deadline, or has slept at once.
LEMMA SleepKeeps ==
  ASSUME NEW s \in Sleeps, NEW ms \in 0..MaxTime
  PROVE  TimerInv /\ Sleep(s, ms) => TimerInv'
  <1> SUFFICES ASSUME TimerInv, Sleep(s, ms) PROVE TimerInv'
    OBVIOUS
  <1>1. /\ outcome[s] = "none" /\ calling[s] # "push" /\ now + ms <= MaxTime
        /\ UNCHANGED <<now, heap, sleepSeq, cancelled, waking, driver, until, due>>
    BY DEF Sleep, Called
  <1>2. /\ ms \in Nat /\ now \in Nat /\ MaxTime \in Nat /\ MaxSleeps \in Nat
        /\ s \in 0..MaxSleeps
    BY EntryParts, TimerAssumption DEF TimerInv, Sleeps
  <1>3. CASE ms = 0
    <2>1. outcome' = [outcome EXCEPT ![s] = "slept"] /\ UNCHANGED <<entryOf, calling>>
      BY <1>3 DEF Sleep
    <2>2. entryOf[s].deadline = 0 /\ now >= 0
      BY <1>1, <1>2 DEF TimerInv, Numbered, NoEntry
    <2>3. \A t \in Sleeps : outcome'[t] = IF t = s THEN "slept" ELSE outcome[t]
      BY <2>1 DEF TimerInv, TimerTypeOK
    <2>4. TimerTypeOK'
      BY <1>1, <2>1 DEF TimerInv, TimerTypeOK, Entries
    <2>5. Numbered' /\ Held' /\ Lasted'
      BY <1>1, <2>1, <2>2, <2>3 DEF TimerInv, Numbered, Held, Lasted
    <2>6. Taken' /\ PollIsShort'
      BY <1>1, <2>1 DEF TimerInv, Taken, PollIsShort, Ahead, Overtakes, Before
    <2> QED
      BY <2>4, <2>5, <2>6 DEF TimerInv
  <1>4. CASE ms # 0
    <2>1. PICK e : e = [call |-> s, deadline |-> now + ms, seq |-> 0, pushed |-> 0]
      OBVIOUS
    <2>2. /\ entryOf' = [entryOf EXCEPT ![s] = e]
          /\ calling' = [calling EXCEPT ![s] = "push"] /\ UNCHANGED outcome
      BY <1>4, <2>1 DEF Sleep
    <2>3. e \in Entries /\ e.call = s
      BY <1>1, <1>2, <2>1 DEF Entries
    <2>4. entryOf'[s] = e /\ \A t \in Sleeps \ {s} : entryOf'[t] = entryOf[t]
      BY <2>2 DEF TimerInv, TimerTypeOK
    <2>5. calling'[s] = "push" /\ \A t \in Sleeps \ {s} : calling'[t] = calling[t]
      BY <2>2 DEF TimerInv, TimerTypeOK
    <2>6. /\ \A x \in heap : x.call \in Sleeps /\ x.call # s /\ entryOf'[x.call] = x
          /\ \A k \in DOMAIN due : due[k].call # s /\ entryOf'[due[k].call] = due[k]
      BY <1>1, <2>4, CallIsNew DEF TimerInv, Numbered
    <2>7. TimerTypeOK'
      <3>1. entryOf' \in [Sleeps -> Entries] /\ calling' \in [Sleeps -> {"none", "push", "poke", "note"}]
        BY <2>2, <2>3 DEF TimerInv, TimerTypeOK
      <3>2. heap \subseteq {entryOf'[t] : t \in Sleeps}
        BY <2>6
      <3> QED
        BY <1>1, <2>2, <3>1, <3>2 DEF TimerInv, TimerTypeOK, Entries
    <2>8. Numbered'
      BY <1>1, <2>2, <2>3, <2>4, <2>5, <2>6 DEF TimerInv, Numbered
    <2>9. Taken'
      BY <1>1 DEF TimerInv, Taken, Ahead, Overtakes, Before
    <2>10. PollIsShort'
      <3>1. \A t \in Sleeps : calling[t] = "poke" => calling'[t] = "poke" \/ t = s
        BY <2>5
      <3>2. calling[s] # "poke"
        BY <1>1 DEF TimerInv, Numbered
      <3> QED
        BY <1>1, <3>1, <3>2 DEF TimerInv, PollIsShort
    <2>11. Held'
      BY <1>1, <2>2, <2>4 DEF TimerInv, Held
    <2>12. Lasted'
      BY <1>1, <2>2, <2>4 DEF TimerInv, Lasted
    <2> QED
      BY <2>7, <2>8, <2>9, <2>10, <2>11, <2>12 DEF TimerInv
  <1> QED
    BY <1>3, <1>4

\* The entry pushed comes behind whatever has been taken: its deadline is later, or
\* the driver was before it at the lock.
LEMMA PushKeeps == ASSUME NEW s \in Sleeps PROVE TimerInv /\ Push(s) => TimerInv'
  <1> SUFFICES ASSUME TimerInv, Push(s) PROVE TimerInv'
    OBVIOUS
  <1>1. PICK e : e = [call |-> s, deadline |-> entryOf[s].deadline, seq |-> sleepSeq,
                          pushed |-> now]
    OBVIOUS
  <1>2. /\ calling[s] = "push" /\ heap' = heap \cup {e} /\ sleepSeq' = sleepSeq + 1
        /\ entryOf' = [entryOf EXCEPT ![s] = e]
        /\ outcome' = [outcome EXCEPT ![s] = "pending"]
        /\ calling' = [calling EXCEPT ![s] = IF Earliest(e.deadline) THEN "poke" ELSE "none"]
        /\ UNCHANGED <<now, cancelled, waking, driver, until, due>>
    BY <1>1 DEF Push, NextSeq
  <1>3. outcome[s] = "none" /\ entryOf[s] \in Entries /\ entryOf[s].call = s /\ sleepSeq \in Nat
    BY <1>2, EntryParts DEF TimerInv, Numbered
  <1>4. e \in Entries /\ e.call = s /\ e.seq = sleepSeq /\ e.pushed = now /\ e.deadline \in Nat
    <2>1. now \in 0..MaxTime /\ MaxTime \in Nat
      BY TimerAssumption DEF TimerInv, TimerTypeOK
    <2>2. entryOf[s].deadline \in 0..MaxTime /\ entryOf[s].deadline \in Nat /\ s \in 0..MaxSleeps
      BY <1>3, EntryParts, TimerAssumption DEF TimerInv, Entries, Sleeps
    <2> QED
      BY <1>1, <1>3, <2>1, <2>2 DEF Entries
  <1>5. /\ \A x \in heap : x \in Entries /\ x.deadline \in Nat /\ x.seq \in Nat /\ x.seq < sleepSeq
        /\ \A k \in DOMAIN due : due[k].seq < sleepSeq /\ due[k].deadline <= now
        /\ now \in Nat
    BY EntryParts DEF TimerInv, Numbered, Taken
  <1>6. entryOf'[s] = e /\ \A t \in Sleeps \ {s} : entryOf'[t] = entryOf[t]
    BY <1>2 DEF TimerInv, TimerTypeOK
  <1>7. outcome'[s] = "pending" /\ \A t \in Sleeps \ {s} : outcome'[t] = outcome[t]
    BY <1>2 DEF TimerInv, TimerTypeOK
  <1>8. /\ calling'[s] = IF Earliest(e.deadline) THEN "poke" ELSE "none"
        /\ \A t \in Sleeps \ {s} : calling'[t] = calling[t]
    BY <1>2 DEF TimerInv, TimerTypeOK
  <1>9. /\ \A x \in heap : x.call \in Sleeps /\ x.call # s /\ entryOf'[x.call] = x
        /\ \A k \in DOMAIN due : due[k].call \in Sleeps /\ due[k].call # s /\ entryOf'[due[k].call] = due[k]
    BY <1>3, <1>6, CallIsNew DEF TimerInv, Numbered
  <1>10. TimerTypeOK'
    <2>1. entryOf' \in [Sleeps -> Entries] /\ outcome' \in [Sleeps -> {"none", "pending", "slept", "cancelled"}]
      BY <1>2, <1>4 DEF TimerInv, TimerTypeOK
    <2>2. calling' \in [Sleeps -> {"none", "push", "poke", "note"}]
      BY <1>2 DEF TimerInv, TimerTypeOK
    <2>3. heap' \subseteq {entryOf'[t] : t \in Sleeps}
      BY <1>2, <1>6, <1>9
    <2>4. \A x, y \in heap' : x.seq = y.seq => x = y
      <3>1. \A x \in heap : x.seq # e.seq
        BY <1>3, <1>4, <1>5
      <3> QED
        BY <1>2, <3>1 DEF TimerInv, TimerTypeOK
    <2> QED
      BY <1>2, <2>1, <2>2, <2>3, <2>4 DEF TimerInv, TimerTypeOK, Entries
  <1>11. Numbered'
    <2>1. sleepSeq' \in Nat /\ sleepSeq < sleepSeq'
      BY <1>2, <1>3
    <2>2. \A t \in Sleeps : outcome'[t] = "none" /\ calling'[t] # "push" => entryOf'[t] = NoEntry
      BY <1>6, <1>7, <1>8 DEF TimerInv, Numbered
    <2>3. \A t \in Sleeps : calling'[t] = "push" => outcome'[t] = "none" /\ entryOf'[t].call = t
      BY <1>6, <1>7, <1>8 DEF TimerInv, Numbered
    <2>4. \A t \in Sleeps : (calling'[t] = "poke" => outcome'[t] # "none")
                              /\ (outcome'[t] = "pending" => entryOf'[t].call = t)
      BY <1>4, <1>6, <1>7, <1>8 DEF TimerInv, Numbered
    <2>5. \A x \in heap : x.seq < sleepSeq' /\ outcome'[x.call] # "none"
      BY <1>3, <1>5, <1>7, <1>9, <2>1 DEF TimerInv, Numbered
    <2>6. \A x \in heap' : /\ x.call \in Sleeps /\ entryOf'[x.call] = x
                           /\ x.seq < sleepSeq' /\ outcome'[x.call] # "none"
      BY <1>2, <1>4, <1>6, <1>7, <1>9, <2>1, <2>5
    <2>7. \A k \in DOMAIN due : due[k].seq < sleepSeq' /\ outcome'[due[k].call] # "none"
      <3>1. \A k \in DOMAIN due : due[k].seq \in Nat
        BY EntryParts DEF TimerInv
      <3> QED
        BY <1>3, <1>5, <1>7, <1>9, <2>1, <3>1 DEF TimerInv, Numbered
    <2> QED
      BY <1>2, <1>9, <2>1, <2>2, <2>3, <2>4, <2>6, <2>7 DEF Numbered
  <1>12. Taken'
    <2>1. \A k \in DOMAIN due : Ahead(due[k], e)
      BY <1>4, <1>5 DEF Ahead, Overtakes
    <2> QED
      BY <1>2, <2>1 DEF TimerInv, Taken, Ahead, Overtakes, Before
  <1>13. PollIsShort'
    <2>1. CASE Earliest(e.deadline)
      BY <1>8, <2>1 DEF PollIsShort
    <2>2. CASE ~Earliest(e.deadline)
      <3>1. PICK x \in heap : ~(e.deadline < x.deadline)
        BY <2>2 DEF Earliest
      <3>2. x.deadline <= e.deadline /\ x.deadline \in Nat
        BY <1>4, <1>5, <3>1
      <3>3. until \in Nat
        BY TimerAssumption DEF TimerInv, TimerTypeOK
      <3>4. \A t \in Sleeps : calling[t] = "poke" => calling'[t] = "poke"
        BY <1>2, <1>8
      <3> QED
        BY <1>2, <1>4, <3>2, <3>3, <3>4 DEF TimerInv, PollIsShort
    <2> QED
      BY <2>1, <2>2
  <1>14. Held'
    BY <1>2, <1>6, <1>7 DEF TimerInv, Held
  <1>15. Lasted'
    BY <1>2, <1>6, <1>7 DEF TimerInv, Lasted
  <1> QED
    BY <1>10, <1>11, <1>12, <1>13, <1>14, <1>15 DEF TimerInv

-----------------------------------------------------------------------------
LEMMA HeapIsFinite == TimerInv => IsFiniteSet(heap)
  <1> SUFFICES ASSUME TimerInv PROVE IsFiniteSet(heap)
    OBVIOUS
  <1>1. IsFiniteSet(Sleeps)
    BY TimerAssumption, FS_Interval DEF Sleeps
  <1> DEFINE f == [t \in Sleeps |-> entryOf[t]]
             E == {entryOf[t] : t \in Sleeps}
  <1>2. f \in Surjection(Sleeps, E)
    BY DEF Surjection
  <1>3. IsFiniteSet(E)
    <2> HIDE DEF f, E
    <2> QED
      BY ONLY <1>1, <1>2, FS_Surjection DEF ExistsSurjection
  <1> QED
    BY <1>3, FS_Subset DEF TimerInv, TimerTypeOK

LEMMA ReadDeadlineKeeps == TimerInv /\ ReadDeadline => TimerInv'
  <1> SUFFICES ASSUME TimerInv, ReadDeadline PROVE TimerInv'
    OBVIOUS
  <1> DEFINE cap == now + PollCap
             first == {x.deadline : x \in {x \in heap : \A y \in heap : ~Before(y, x)}}
  <1>1. /\ driver = "deadline" /\ driver' = "poll"
        /\ until' = IF \E d \in first : d < cap THEN CHOOSE d \in first : TRUE ELSE cap
        /\ UNCHANGED <<now, heapVars, outcome, calling, cancelled, waking, due>>
    BY DEF ReadDeadline
  <1>2. \A x \in heap : x.deadline \in 0..MaxTime /\ x.deadline \in Nat /\ x.seq \in Nat
    BY EntryParts, TimerAssumption DEF TimerInv, Entries
  <1>3. \A d \in first : d \in 0..MaxTime /\ \A x \in heap : d <= x.deadline
    BY <1>2 DEF Before
  <1>4. heap # {} => first # {}
    <2>1. IsFiniteSet(heap)
      BY HeapIsFinite
    <2> QED
      BY <1>2, <2>1, FirstEntry
  <1>5. cap \in 0..(MaxTime + PollCap) /\ cap \in Nat
    BY TimerAssumption DEF TimerInv, TimerTypeOK
  <1>6. until' \in 0..(MaxTime + PollCap) /\ \A x \in heap : until' <= x.deadline
    <2>1. CASE \E d \in first : d < cap
      <3>1. until' \in first
        BY <1>1, <2>1
      <3> QED
        BY <1>3, <3>1, TimerAssumption
    <2>2. CASE ~ \E d \in first : d < cap
      <3>1. until' = cap
        BY <1>1, <2>2
      <3>2. \A x \in heap : cap <= x.deadline
        <4> SUFFICES ASSUME NEW x \in heap PROVE cap <= x.deadline
          OBVIOUS
        <4>1. heap # {} /\ first # {}
          BY <1>4
        <4>2. PICK d : d \in first
          BY <4>1
        <4>3. ~(d < cap) /\ d \in 0..MaxTime /\ d <= x.deadline
          BY <1>3, <2>2, <4>2
        <4> HIDE DEF cap, first
        <4> QED
          BY <1>2, <1>5, <4>3, TimerAssumption
      <3> QED
        BY <1>5, <3>1, <3>2
    <2> QED
      BY <2>1, <2>2
  <1> HIDE DEF cap, first
  <1>7. TimerTypeOK'
    BY <1>1, <1>6 DEF TimerInv, TimerTypeOK, heapVars, Entries
  <1>8. Numbered' /\ Held' /\ Lasted' /\ PollIsShort'
    BY <1>1, <1>6 DEF TimerInv, heapVars, Numbered, Held, Lasted, PollIsShort
  <1>9. Taken'
    BY <1>1 DEF TimerInv, heapVars, Taken, Ahead, Overtakes, Before
  <1> QED
    BY <1>7, <1>8, <1>9 DEF TimerInv

LEMMA PollEndsKeeps == TimerInv /\ PollEnds => TimerInv'
  <1> SUFFICES ASSUME TimerInv, PollEnds PROVE TimerInv'
    OBVIOUS
  <1>1. TimerTypeOK'
    BY TimerAssumption DEF TimerInv, TimerTypeOK, PollEnds, heapVars, Entries
  <1>2. Taken'
    BY DEF TimerInv, PollEnds, heapVars, Taken, Ahead, Overtakes, Before
  <1> QED
    BY <1>1, <1>2 DEF TimerInv, PollEnds, heapVars, Numbered, Held, Lasted, PollIsShort

LEMMA PollInterruptedKeeps == TimerInv /\ PollInterrupted => TimerInv'
  <1> SUFFICES ASSUME TimerInv, PollInterrupted PROVE TimerInv'
    OBVIOUS
  <1>1. TimerTypeOK'
    BY TimerAssumption DEF TimerInv, TimerTypeOK, PollInterrupted, heapVars, Entries
  <1>2. Taken'
    BY DEF TimerInv, PollInterrupted, heapVars, Taken, Ahead, Overtakes, Before
  <1> QED
    BY <1>1, <1>2 DEF TimerInv, PollInterrupted, heapVars, Numbered, Held, Lasted, PollIsShort

LEMMA DueDoneKeeps == TimerInv /\ DueDone => TimerInv'
  <1> SUFFICES ASSUME TimerInv, DueDone PROVE TimerInv'
    OBVIOUS
  <1>1. TimerTypeOK'
    BY DEF TimerInv, TimerTypeOK, DueDone, heapVars, Entries
  <1>2. Taken'
    BY DEF TimerInv, DueDone, heapVars, Taken, Ahead, Overtakes, Before
  <1> QED
    BY <1>1, <1>2 DEF TimerInv, DueDone, heapVars, Numbered, Held, Lasted, PollIsShort

\* What is popped while pending is due, and what is kept comes after it.
LEMMA Popped ==
  ASSUME TimerInv, NEW x \in heap, ~Kept(x), Pending(x)
  PROVE  x.deadline <= now /\ \A y \in heap : Kept(y) => Before(x, y)
  <1>1. now \in Nat /\ \A y \in heap : y.deadline \in Nat /\ y.seq \in Nat
    BY EntryParts DEF TimerInv
  <1>2. x.deadline <= now
    BY <1>1 DEF Kept
  <1> QED
    BY <1>1, <1>2 DEF Kept, Before

LEMMA TakeDueKeeps == TimerInv /\ TakeDue => TimerInv'
  <1> SUFFICES ASSUME TimerInv, TakeDue PROVE TimerInv'
    OBVIOUS
  <1> DEFINE popped == {x \in heap : ~Kept(x) /\ Pending(x)}
             n == Cardinality(popped)
  <1>1. /\ driver = "due" /\ driver' = "resolve" /\ due = <<>>
        /\ heap' = {x \in heap : Kept(x)}
        /\ UNCHANGED <<now, sleepSeq, entryOf, outcome, calling, cancelled, waking, until>>
    BY DEF TakeDue, TimerInv, Taken
  <1>2. due' \in [1..n -> popped] /\ InFiringOrder(due', popped)
    BY DEF TakeDue
  <1>3. n \in Nat
    <2>1. IsFiniteSet(heap)
      BY HeapIsFinite
    <2>2. IsFiniteSet(popped)
      BY <2>1, FS_Subset
    <2> QED
      BY <2>2, FS_CardinalityType
  <1> HIDE DEF n
  <1>4. /\ DOMAIN due' = 1..n /\ \A k \in DOMAIN due' : due'[k] \in popped
        /\ \A x \in popped : \E k \in DOMAIN due' : due'[k] = x
        /\ \A j, k \in DOMAIN due' : j < k => Before(due'[j], due'[k])
    BY <1>2 DEF InFiringOrder, FiringOrder
  <1>5. TimerTypeOK'
    <2>1. popped \subseteq Entries
      BY EntryParts DEF TimerInv
    <2>2. due' \in Seq(Entries)
      <3>1. due' \in [1..n -> Entries]
        BY <1>2, <2>1
      <3> QED
        BY <1>3, <3>1, SeqDef
    <2> QED
      BY <1>1, <2>2 DEF TimerInv, TimerTypeOK, Entries
  <1>6. Numbered'
    BY <1>1, <1>4 DEF TimerInv, Numbered
  <1>7. Taken'
    <2>1. \A k \in DOMAIN due' : due'[k].deadline <= now /\ \A x \in heap' : Ahead(due'[k], x)
      BY <1>1, <1>4, Popped DEF Ahead
    <2> QED
      BY <1>1, <1>4, <2>1 DEF Taken, Ahead, Overtakes, Before
  <1>8. Held'
    <2> SUFFICES ASSUME NEW s \in Sleeps, outcome[s] = "pending"
                 PROVE  entryOf[s] \in heap' \/ \E k \in DOMAIN due' : due'[k] = entryOf[s]
      BY <1>1 DEF Held
    <2>1. entryOf[s] \in heap /\ Pending(entryOf[s])
      BY <1>1 DEF TimerInv, Held, Numbered, Pending
    <2> QED
      BY <1>1, <1>4, <2>1
  <1> QED
    BY <1>1, <1>5, <1>6, <1>7, <1>8 DEF TimerInv, PollIsShort, Lasted

LEMMA ResolveDueKeeps == TimerInv /\ ResolveDue => TimerInv'
  <1> SUFFICES ASSUME TimerInv, ResolveDue PROVE TimerInv'
    OBVIOUS
  <1> DEFINE s == Head(due).call
  <1>1. /\ driver = "resolve" /\ due # <<>> /\ due' = Tail(due)
        /\ outcome' = [outcome EXCEPT ![s] = IF @ = "pending" THEN "slept" ELSE @]
        /\ UNCHANGED <<now, heapVars, calling, cancelled, waking, driver, until>>
    BY DEF ResolveDue
  <1>2. due \in Seq(Entries)
    BY DEF TimerInv, TimerTypeOK
  <1>3. /\ due' \in Seq(Entries) /\ 1 \in DOMAIN due /\ Head(due) = due[1]
        /\ Len(due) \in Nat /\ DOMAIN due = 1..Len(due)
        /\ \A k \in DOMAIN due' : k \in Nat /\ k + 1 \in DOMAIN due /\ due'[k] = due[k + 1]
        /\ \A k \in DOMAIN due : k = 1 \/ (k - 1 \in DOMAIN due' /\ due'[k - 1] = due[k])
    BY <1>1, <1>2, TailParts
  <1>4. s \in Sleeps /\ entryOf[s] = due[1] /\ due[1].call = s
    BY <1>3 DEF TimerInv, Numbered
  <1> HIDE DEF s
  <1>5. \A t \in Sleeps : outcome'[t] = IF t = s /\ outcome[s] = "pending" THEN "slept" ELSE outcome[t]
    BY <1>1, <1>4 DEF TimerInv, TimerTypeOK
  <1>6. TimerTypeOK'
    <2>1. outcome' \in [Sleeps -> {"none", "pending", "slept", "cancelled"}]
      BY <1>1 DEF TimerInv, TimerTypeOK
    <2> QED
      BY <1>1, <1>3, <2>1 DEF TimerInv, TimerTypeOK, heapVars, Entries
  <1>7. Numbered'
    BY <1>1, <1>3, <1>5 DEF TimerInv, Numbered, heapVars
  <1>8. Taken'
    <2>1. \A j, k \in DOMAIN due' : j < k => Before(due'[j], due'[k])
      <3> SUFFICES ASSUME NEW j \in DOMAIN due', NEW k \in DOMAIN due', j < k
                   PROVE  Before(due[j + 1], due[k + 1])
        BY <1>3
      <3>1. j + 1 \in DOMAIN due /\ k + 1 \in DOMAIN due /\ j + 1 < k + 1
        BY <1>3
      <3> QED
        BY <3>1 DEF TimerInv, Taken
    <2>2. \A k \in DOMAIN due' : due'[k].deadline <= now /\ \A x \in heap : Ahead(due'[k], x)
      BY <1>3 DEF TimerInv, Taken
    <2>3. now' = now /\ heap' = heap /\ driver' = "resolve"
      BY <1>1 DEF heapVars
    <2> QED
      BY <2>1, <2>2, <2>3 DEF Taken, Ahead, Overtakes, Before
  <1>9. Held'
    <2> SUFFICES ASSUME NEW t \in Sleeps, outcome'[t] = "pending"
                 PROVE  entryOf[t] \in heap \/ \E k \in DOMAIN due' : due'[k] = entryOf[t]
      BY <1>1 DEF Held, heapVars
    <2>1. outcome[t] = "pending" /\ t # s
      BY <1>5
    <2>2. entryOf[t] # due[1]
      BY <1>3, <1>4, <2>1 DEF TimerInv, Numbered
    <2>3. CASE entryOf[t] \in heap
      BY <2>3
    <2>4. ASSUME NEW k \in DOMAIN due, due[k] = entryOf[t]
          PROVE  \E j \in DOMAIN due' : due'[j] = entryOf[t]
      <3>1. k - 1 \in DOMAIN due' /\ due'[k - 1] = due[k]
        BY <1>3, <2>2, <2>4
      <3> QED
        BY <2>4, <3>1
    <2> QED
      BY <2>1, <2>3, <2>4 DEF TimerInv, Held
  <1>10. Lasted'
    <2>1. due[1].deadline <= now /\ due[1].deadline \in Nat /\ now \in Nat
      BY <1>3, EntryParts DEF TimerInv, Taken
    <2> QED
      BY <1>1, <1>4, <1>5, <2>1 DEF TimerInv, Lasted, heapVars
  <1> QED
    BY <1>1, <1>6, <1>7, <1>8, <1>9, <1>10 DEF TimerInv, PollIsShort, heapVars

-----------------------------------------------------------------------------
LEMMA TimerStepKeeps == TimerInv /\ [TimerNext]_tvars => TimerInv'
  <1> SUFFICES ASSUME TimerInv, [TimerNext]_tvars PROVE TimerInv'
    OBVIOUS
  <1>1. CASE Tick
    BY <1>1, TickKeeps
  <1>2. CASE Turn
    BY <1>2, ReadDeadlineKeeps, TakeDueKeeps, ResolveDueKeeps, DueDoneKeeps DEF Turn
  <1>3. CASE PollReturns \/ SocketReady
    BY <1>3, PollEndsKeeps DEF PollReturns, SocketReady
  <1>4. CASE PollInterrupted
    BY <1>4, PollInterruptedKeeps
  <1>5. CASE \E s \in Sleeps : Push(s) \/ Poke(s) \/ CancelSleep(s) \/ NoteCancel(s)
    BY <1>5, PushKeeps, PokeKeeps, CancelSleepKeeps, NoteCancelKeeps
  <1>6. CASE \E s \in Sleeps, ms \in 0..MaxTime : Sleep(s, ms)
    BY <1>6, SleepKeeps
  <1>7. CASE UNCHANGED tvars
    <2>1. TimerTypeOK'
      BY <1>7 DEF TimerInv, TimerTypeOK, tvars, heapVars, Entries
    <2>2. Taken'
      BY <1>7 DEF TimerInv, Taken, tvars, heapVars, Ahead, Overtakes, Before
    <2> QED
      BY <1>7, <2>1, <2>2
         DEF TimerInv, tvars, heapVars, Numbered, Held, Lasted, PollIsShort
  <1> QED
    BY <1>1, <1>2, <1>3, <1>4, <1>5, <1>6, <1>7 DEF TimerNext

LEMMA TimerInvHolds == TimerSpec => []TimerInv
  BY TimerInitInv, TimerStepKeeps, PTL DEF TimerSpec

\* No pending sleep is overlooked by the driver, whoever sleeps, cancels, purges or is
\* poked between reading the deadline and polling (sleep_task, take_due, note_cancel,
\* event_loop); and no sleep ends before its time.
THEOREM NoSleepIsLost == TimerSpec => []NoSleepLost
  <1>1. TimerInv => NoSleepLost
    BY TimerInvImplies
  <1> QED
    BY <1>1, TimerInvHolds, PTL

\* The only step in which a pending sleep ends as slept resolves the head of what
\* was taken.
LEMMA FiringStep ==
  ASSUME TimerInv, TimerNext, NEW s \in Sleeps, outcome[s] = "pending", outcome'[s] = "slept"
  PROVE  due # <<>> /\ entryOf[s] = due[1]
  <1>1. outcome \in [Sleeps -> {"none", "pending", "slept", "cancelled"}]
    BY DEF TimerInv, TimerTypeOK
  <1>2. CASE ResolveDue
    <2>1. due # <<>> /\ Head(due).call = s
      BY <1>1, <1>2 DEF ResolveDue
    <2>2. Head(due) = due[1] /\ 1 \in DOMAIN due
      BY <2>1, TailParts DEF TimerInv, TimerTypeOK
    <2> QED
      BY <2>1, <2>2 DEF TimerInv, Numbered
  <1>3. CASE \E t \in Sleeps, ms \in 0..MaxTime : Sleep(t, ms)
    BY <1>1, <1>3 DEF Sleep, Called
  <1>4. CASE \E t \in Sleeps : CancelSleep(t) \/ Push(t)
    BY <1>1, <1>4 DEF CancelSleep, Push
  <1> QED
    BY <1>2, <1>3, <1>4 DEF TimerNext, Tick, Turn, ReadDeadline, TakeDue, DueDone, PollReturns,
        SocketReady, PollEnds, PollInterrupted, Poke, NoteCancel

\* Sleeps end in the order of their deadlines, and those of one deadline in the order
\* in which they were pushed, whatever is slept, cancelled and purged between take_due
\* and the resolutions (take_due, run_event_loop).  Only a call held up between the
\* clock and the lock until the other is due ends behind it (sleep_task).
THEOREM SleepsFireInOrder == TimerSpec => FiresInOrder
  <1>1. ASSUME TimerInv, [TimerNext]_tvars
        PROVE  [\A s, t \in Sleeps :
                   (s # t /\ outcome[s] = "pending" /\ outcome'[s] = "slept"
                        /\ outcome[t] = "pending")
                     => Before(entryOf[s], entryOf[t]) \/ Overtakes(entryOf[s], entryOf[t])]_tvars
    <2> SUFFICES ASSUME TimerNext, NEW s \in Sleeps, NEW t \in Sleeps, s # t,
                        outcome[s] = "pending", outcome'[s] = "slept", outcome[t] = "pending"
                 PROVE  Ahead(entryOf[s], entryOf[t])
      BY <1>1 DEF Ahead
    <2>1. due # <<>> /\ entryOf[s] = due[1]
      BY <1>1, FiringStep
    <2>2. Len(due) \in Nat /\ DOMAIN due = 1..Len(due) /\ 1 \in DOMAIN due
      BY <1>1, <2>1, TailParts DEF TimerInv, TimerTypeOK
    <2>3. entryOf[s] # entryOf[t]
      BY <1>1 DEF TimerInv, Numbered
    <2>4. entryOf[t] \in heap \/ \E k \in DOMAIN due : due[k] = entryOf[t] /\ 1 < k
      BY <1>1, <2>1, <2>2, <2>3 DEF TimerInv, Held
    <2> QED
      BY <1>1, <2>1, <2>2, <2>4 DEF TimerInv, Taken, Ahead
  <1> QED
    BY <1>1, TimerInvHolds, PTL DEF TimerSpec, FiresInOrder

=============================================================================
