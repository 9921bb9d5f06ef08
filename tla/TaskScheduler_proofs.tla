------------------------ MODULE TaskScheduler_proofs ------------------------
(***************************************************************************)
(* Theorems about the scheduler, for every set of cells and every value of *)
(* the other constants.                                                    *)
(***************************************************************************)
EXTENDS TaskScheduler, Counting

-----------------------------------------------------------------------------
(***************************************************************************)
(* Lemmas about the slab of parked tasks                                   *)
(***************************************************************************)

\* Generations stay below their bound when they wrap.
LEMMA GenerationWraps == \A g \in Nat : (g + 1) % Generations \in 0..(Generations - 1)
  BY GenerationsAssumption

\* SetToSeq lists the members of a finite set.
LEMMA SetToSeqType ==
  ASSUME NEW S, IsFiniteSet(S)
  PROVE  SetToSeq(S) \in Seq(S)
  <1> DEFINE n == Cardinality(S)
  <1>1. n \in Nat /\ ExistsBijection(1..n, S)
    BY FS_CardinalityType
  <1>2. \E f \in [1..n -> S] : IsInjective(f)
    BY <1>1 DEF ExistsBijection, Bijection, Injection
  <1>3. SetToSeq(S) \in [1..n -> S]
    BY <1>2 DEF SetToSeq
  <1> QED
    BY <1>1, <1>3, SeqDef

\* A slab whose free list names slots it has, and whose parked tasks each wait
\* for some cell.
GoodSlab(s) ==
    /\ s \in Slabs
    /\ \A k \in DOMAIN s.free : s.free[k] \in DOMAIN s.cells
    /\ \A i \in Occupied(s) : s.cells[i].on \in Cells

\* Every parked task of r was parked in s, in the same slot.
ParkedIn(r, s) == \A i \in Occupied(r) : i \in Occupied(s) /\ r.cells[i] = s.cells[i]

LEMMA VacantType ==
  ASSUME NEW cell \in Slot
  PROVE  Vacant(cell) \in Slot /\ Vacant(cell).out = None
  <1>1. cell.gen \in Nat
    BY GenerationsAssumption DEF Slot
  <1> QED
    BY <1>1, GenerationWraps DEF Slot, Vacant

\* A sweep keeps the slab good and moves no parked task.
LEMMA SweepKeeps ==
  ASSUME NEW s, GoodSlab(s)
  PROVE  GoodSlab(SweepAbandoned(s)) /\ ParkedIn(SweepAbandoned(s), s)
  <1> DEFINE gone == Abandoned(s)
             r == SweepAbandoned(s)
             cells == [i \in DOMAIN s.cells |->
                          IF i \in gone THEN Vacant(s.cells[i]) ELSE s.cells[i]]
             added == SetToSeq(gone)
  <1>1. /\ s.cells \in Seq(Slot) /\ s.free \in Seq(Nat \ {0}) /\ s.live \in Int
        /\ DOMAIN s.cells = 1..Len(s.cells) /\ Len(s.cells) \in Nat
        /\ \A i \in DOMAIN s.cells : s.cells[i] \in Slot
    BY DEF GoodSlab, Slabs
  <1>2. gone \subseteq 1..Len(s.cells) /\ IsFiniteSet(gone)
    <2>1. gone \subseteq 1..Len(s.cells)
      BY <1>1 DEF Abandoned, Occupied
    <2>2. IsFiniteSet(1..Len(s.cells))
      <3>1. Len(s.cells) \in Int
        BY <1>1
      <3> QED
        BY <3>1, FS_Interval
    <2> QED
      BY <2>1, <2>2, FS_Subset
  <1>3. Cardinality(gone) \in Nat
    BY <1>2, FS_CardinalityType
  <1>4. added \in Seq(gone)
    BY <1>2, SetToSeqType
  <1>5. cells \in Seq(Slot) /\ DOMAIN cells = DOMAIN s.cells
    <2>1. \A i \in 1..Len(s.cells) : cells[i] \in Slot
      BY <1>1, VacantType
    <2>2. cells \in [1..Len(s.cells) -> Slot]
      BY <1>1, <2>1
    <2> QED
      BY <1>1, <2>2, SeqDef
  <1>6. s.free \o added \in Seq(DOMAIN s.cells)
    <2>1. s.free \in Seq(DOMAIN s.cells)
      <3>1. s.free \in [1..Len(s.free) -> DOMAIN s.cells] /\ Len(s.free) \in Nat
        BY <1>1 DEF GoodSlab
      <3> QED
        BY <3>1, SeqDef
    <2>2. added \in Seq(DOMAIN s.cells)
      BY <1>1, <1>2, <1>4, SeqMonotonic
    <2> QED
      BY <2>1, <2>2, ConcatProperties
  <1>7. s.free \o added \in Seq(Nat \ {0})
    BY <1>1, <1>6, SeqMonotonic
  <1>8. /\ r.cells = cells /\ r.free = s.free \o added /\ r.live \in Int
        /\ r \in Slabs
    BY <1>1, <1>3, <1>5, <1>7, SweepFloorAssumption DEF SweepAbandoned, Slabs
  <1>9. \A i \in Occupied(r) : i \in Occupied(s) /\ r.cells[i] = s.cells[i]
    <2>1. \A i \in DOMAIN s.cells : i \in gone => cells[i].out = None
      BY <1>1, VacantType
    <2> QED
      BY <1>1, <1>5, <1>8, <2>1 DEF Occupied
  <1>10. \A k \in DOMAIN r.free : r.free[k] \in DOMAIN r.cells
    <2> DEFINE f == s.free \o added
    <2>1. \A k \in DOMAIN f : f[k] \in DOMAIN s.cells
      <3> HIDE DEF f, added
      <3> QED
        BY <1>6, LenProperties, ElementOfSeq DEF f
    <2> QED
      BY <1>5, <1>8, <2>1
  <1> QED
    BY <1>8, <1>9, <1>10 DEF GoodSlab, ParkedIn

LEMMA RoomyKeeps ==
  ASSUME NEW s, GoodSlab(s)
  PROVE  GoodSlab(Roomy(s)) /\ ParkedIn(Roomy(s), s)
  BY SweepKeeps DEF Roomy, ParkedIn

\* The token of the next task names its slot, and the slab with that task in it
\* is good, holds it there, and has moved no other.
LEMMA InsertKeeps ==
  ASSUME NEW s, GoodSlab(s), NEW t \in Cells, NEW c \in Cells
  PROVE  LET r == Insert(s, t, c)
             token == NextToken(s)
         IN  /\ GoodSlab(r)
             /\ token \in Tokens
             /\ \A i \in Occupied(r) :
                   \/ /\ i = token.slot
                      /\ r.cells[i] = [gen |-> token.gen, out |-> t, on |-> c]
                   \/ i \in Occupied(s) /\ r.cells[i] = s.cells[i]
  <1> DEFINE q == Roomy(s)
             r == Insert(s, t, c)
             token == NextToken(s)
             entry == [gen |-> token.gen, out |-> t, on |-> c]
  <1>1. /\ GoodSlab(q) /\ ParkedIn(q, s)
        /\ q \in Slabs
        /\ q.cells \in Seq(Slot) /\ q.free \in Seq(Nat \ {0}) /\ q.live \in Int
        /\ DOMAIN q.cells = 1..Len(q.cells) /\ Len(q.cells) \in Nat
        /\ \A i \in DOMAIN q.cells : q.cells[i] \in Slot
        /\ \A k \in DOMAIN q.free : q.free[k] \in DOMAIN q.cells
    BY RoomyKeeps DEF GoodSlab, Slabs
  <1>2. CASE q.free = <<>>
    <2>1. token = [slot |-> Len(q.cells) + 1, gen |-> 0]
      BY <1>2 DEF NextToken
    <2>2. r = [cells |-> Append(q.cells, entry), free |-> q.free,
               live |-> q.live + 1, sweepAt |-> q.sweepAt]
      BY <1>2 DEF Insert
    <2>3. token \in Tokens /\ entry \in Slot
      BY <1>1, <2>1, GenerationsAssumption DEF Tokens, Slot
    <2>4. /\ r.cells = Append(q.cells, entry) /\ r.free = q.free /\ r \in Slabs
      BY <1>1, <2>2, <2>3 DEF Slabs
    <2>5. /\ DOMAIN r.cells = 1..(Len(q.cells) + 1)
          /\ r.cells[Len(q.cells) + 1] = entry
          /\ \A i \in 1..Len(q.cells) : r.cells[i] = q.cells[i]
      BY <1>1, <2>3, <2>4
    <2>6. \A i \in Occupied(r) :
            \/ i = token.slot /\ r.cells[i] = entry
            \/ i \in Occupied(q) /\ r.cells[i] = q.cells[i]
      BY <1>1, <2>1, <2>5 DEF Occupied
    <2>7. GoodSlab(r)
      <3>1. \A k \in DOMAIN r.free : r.free[k] \in DOMAIN r.cells
        BY <1>2, <2>4
      <3>2. entry.on \in Cells
        OBVIOUS
      <3>3. \A i \in Occupied(q) : q.cells[i].on \in Cells
        BY <1>1 DEF GoodSlab
      <3>4. \A i \in Occupied(r) : r.cells[i].on \in Cells
        BY <2>6, <3>2, <3>3
      <3> QED
        BY <2>4, <3>1, <3>4 DEF GoodSlab
    <2> QED
      BY <1>1, <2>3, <2>6, <2>7 DEF ParkedIn
  <1>3. CASE q.free # <<>>
    <2> DEFINE i0 == Last(q.free)
    <2>1. token = [slot |-> i0, gen |-> q.cells[i0].gen]
      BY <1>3 DEF NextToken
    <2>2. r = [cells |-> [q.cells EXCEPT ![i0] = entry], free |-> Front(q.free),
               live |-> q.live + 1, sweepAt |-> q.sweepAt]
      BY <1>3, <2>1 DEF Insert
    <2>3. i0 \in DOMAIN q.cells /\ i0 \in Nat \ {0}
      BY <1>1, <1>3 DEF Last
    <2>4. token \in Tokens /\ entry \in Slot
      BY <1>1, <2>1, <2>3 DEF Tokens, Slot
    <2>5. Front(q.free) \in Seq(Nat \ {0})
          /\ \A k \in DOMAIN Front(q.free) : Front(q.free)[k] \in DOMAIN q.cells
      BY <1>1, <1>3 DEF Front
    <2>6. [q.cells EXCEPT ![i0] = entry] \in Seq(Slot)
      BY <1>1, <2>3, <2>4, ExceptSeq
    <2>7. /\ r.cells = [q.cells EXCEPT ![i0] = entry] /\ r.free = Front(q.free)
          /\ r \in Slabs
      BY <1>1, <2>2, <2>5, <2>6 DEF Slabs
    <2>8. /\ DOMAIN r.cells = DOMAIN q.cells
          /\ r.cells[i0] = entry
          /\ \A i \in DOMAIN q.cells : i # i0 => r.cells[i] = q.cells[i]
      BY <1>1, <2>3, <2>7
    <2>9. \A i \in Occupied(r) :
            \/ i = token.slot /\ r.cells[i] = entry
            \/ i \in Occupied(q) /\ r.cells[i] = q.cells[i]
      BY <1>1, <2>1, <2>8 DEF Occupied
    <2>10. GoodSlab(r)
      BY <1>1, <2>5, <2>7, <2>8, <2>9 DEF GoodSlab
    <2> QED
      BY <1>1, <2>4, <2>9, <2>10 DEF ParkedIn
  <1> QED
    BY <1>2, <1>3

\* Releasing a slot empties it and moves no other task.
LEMMA ReleaseKeeps ==
  ASSUME NEW s, GoodSlab(s), NEW i \in DOMAIN s.cells
  PROVE  LET r == Release(s, i)
         IN  GoodSlab(r) /\ ParkedIn(r, s) /\ i \notin Occupied(r)
  <1> DEFINE r == Release(s, i)
  <1>1. /\ s \in Slabs
        /\ s.cells \in Seq(Slot) /\ s.free \in Seq(Nat \ {0}) /\ s.live \in Int
        /\ DOMAIN s.cells = 1..Len(s.cells) /\ Len(s.cells) \in Nat
        /\ s.cells[i] \in Slot
        /\ \A k \in DOMAIN s.free : s.free[k] \in DOMAIN s.cells
    BY DEF GoodSlab, Slabs
  <1>2. Vacant(s.cells[i]) \in Slot /\ Vacant(s.cells[i]).out = None
    BY <1>1, VacantType
  <1>3. [s.cells EXCEPT ![i] = Vacant(s.cells[i])] \in Seq(Slot)
    BY <1>1, <1>2, ExceptSeq
  <1>4. /\ Append(s.free, i) \in Seq(Nat \ {0})
        /\ \A k \in DOMAIN Append(s.free, i) : Append(s.free, i)[k] \in DOMAIN s.cells
    BY <1>1
  <1>5. /\ r.cells = [s.cells EXCEPT ![i] = Vacant(s.cells[i])]
        /\ r.free = Append(s.free, i)
        /\ r \in Slabs
    BY <1>1, <1>3, <1>4 DEF Release, Slabs
  <1>6. /\ DOMAIN r.cells = DOMAIN s.cells
        /\ r.cells[i].out = None
        /\ \A j \in DOMAIN s.cells : j # i => r.cells[j] = s.cells[j]
    BY <1>1, <1>2, <1>5
  <1>7. ParkedIn(r, s) /\ i \notin Occupied(r)
    BY <1>6 DEF ParkedIn, Occupied
  <1> QED
    BY <1>4, <1>5, <1>6, <1>7 DEF GoodSlab, ParkedIn

-----------------------------------------------------------------------------
(***************************************************************************)
(* Lemmas about settling                                                   *)
(***************************************************************************)

LEMMA JobParts ==
  \A w, c, job : job = [waiter |-> w, from |-> c] => job.waiter = w /\ job.from = c
  OBVIOUS

LEMMA JobsType ==
  ASSUME CellTypes, NEW c \in Cells
  PROVE  /\ Jobs(c) \in Seq(Notifications)
         /\ Len(Jobs(c)) = Len(waiters[c])
         /\ \A i \in 1..Len(waiters[c]) : Jobs(c)[i] = [waiter |-> waiters[c][i], from |-> c]
  <1>1. Len(waiters[c]) \in Nat /\ \A i \in 1..Len(waiters[c]) : waiters[c][i] \in Waiters
    BY DEF CellTypes
  <1>2. Jobs(c) \in [1..Len(waiters[c]) -> Notifications]
    BY <1>1 DEF Jobs, Notifications
  <1>3. Jobs(c) \in Seq(Notifications)
    BY <1>1, <1>2, SeqDef
  <1> QED
    BY <1>1, <1>2, <1>3 DEF Jobs

LEMMA SettleType ==
  ASSUME CellTypes, NEW c \in Cells, NEW outcome \in Outcomes, NEW seen,
         NEW rest \in Seq(Notifications),
         Settle(c, outcome, seen, rest)
  PROVE  /\ status' \in [Cells -> {"pending"} \cup Outcomes]
         /\ waiters' \in [Cells -> Seq(Waiters)]
         /\ unobserved' \subseteq Cells
         /\ work' \in Seq(Notifications)
  <1>1. Jobs(c) \o rest \in Seq(Notifications)
    BY JobsType, ConcatProperties
  <1>2. <<>> \in Seq(Waiters)
    OBVIOUS
  <1>3. CASE status[c] # "pending"
    BY <1>3 DEF Settle, CellTypes
  <1>4. CASE status[c] = "pending"
    BY <1>1, <1>2, <1>4 DEF Settle, CellTypes
  <1> QED
    BY <1>3, <1>4

\* A call of settle changes no outcome, and no waiter, of a settled cell.
LEMMA SettleOnce ==
  ASSUME CellTypes, NEW c \in Cells, NEW outcome \in Outcomes, NEW seen, NEW rest,
         Settle(c, outcome, seen, rest),
         NEW d \in Cells, status[d] # "pending"
  PROVE  status'[d] = status[d] /\ waiters'[d] = waiters[d]
  BY DEF Settle, CellTypes

-----------------------------------------------------------------------------
(***************************************************************************)
(* Types                                                                   *)
(***************************************************************************)
\* A cell that has not been created yet is pending; what the queue holds and
\* what runs has been created.
KnownReady == \A k \in DOMAIN ready : kind[ready[k].output] # "unused"
KnownParked ==
    \A i \in Occupied(slab) :
        kind[slab.cells[i].out] # "unused" /\ kind[slab.cells[i].on] # "unused"
KnownRunning == pc = "task" => running \in Cells /\ kind[running] # "unused"
UnusedPending == \A c \in Cells : kind[c] = "unused" => status[c] = "pending"
KnownHeld == \A c \in held : promise[c] # "none" /\ kind[c] # "unused"
KnownWaiter(w) == w \in GatherWaiters => kind[w.parent] # "unused"
KnownParents ==
    /\ \A c \in Cells : \A k \in DOMAIN waiters[c] : KnownWaiter(waiters[c][k])
    /\ \A k \in DOMAIN work : KnownWaiter(work[k].waiter)

Created ==
    /\ GoodSlab(slab)
    /\ KnownReady /\ KnownParked /\ KnownRunning /\ KnownHeld /\ KnownParents
    /\ UnusedPending

TInv == TypeOK /\ Created

LEMMA InitTypes == Init => TInv
  <1> SUFFICES ASSUME Init PROVE TInv
    OBVIOUS
  <1>1. CellTypes
    BY DEF Init, CellTypes
  <1>2. HostTypes
    <2>1. news \in BOOLEAN
      BY ZenonT(10) DEF Init
    <2> QED
      BY <2>1 DEF Init, HostTypes
  <1>3. GatherTypes
    BY DEF Init, GatherTypes
  <1>4. slab \in Slabs /\ Occupied(slab) = {} /\ slab.free = <<>>
    BY SweepFloorAssumption DEF Init, EmptySlab, Slabs, Occupied
  <1>5. QueueTypes
    BY <1>4 DEF Init, QueueTypes
  <1>6. PumpTypes
    BY DEF Init, PumpTypes
  <1>7. Created
    BY <1>4 DEF Init, Created, GoodSlab, KnownReady, KnownParked, KnownRunning,
                UnusedPending, KnownHeld, KnownParents
  <1> QED
    BY <1>1, <1>2, <1>3, <1>5, <1>6, <1>7 DEF TInv, TypeOK

\* What an action leaves alone keeps its type.
LEMMA SameCells == CellTypes /\ UNCHANGED cellVars => CellTypes'
  BY DEF CellTypes, cellVars

LEMMA SameHosts == HostTypes /\ UNCHANGED hostVars => HostTypes'
  BY DEF HostTypes, hostVars

LEMMA SameGathers == GatherTypes /\ UNCHANGED gatherVars => GatherTypes'
  BY DEF GatherTypes, gatherVars

LEMMA SameQueues == QueueTypes /\ UNCHANGED queueVars => QueueTypes'
  BY DEF QueueTypes, queueVars

LEMMA SamePump == PumpTypes /\ UNCHANGED pumpVars => PumpTypes'
  BY DEF PumpTypes, pumpVars

\* No action makes a created cell unused.
Grows == \A c \in Cells : kind[c] # "unused" => kind'[c] # "unused"

LEMMA CreatesGrows ==
  ASSUME CellTypes, NEW what, NEW c \in Cells, Creates(what, c)
  PROVE  /\ kind' \in [Cells -> {"unused", "task", "settled", "host", "gather"}]
         /\ Grows
         /\ kind'[c] # "unused"
         /\ \A d \in Cells : kind'[d] = "unused" => kind[d] = "unused"
  BY KindsAssumption DEF CellTypes, Creates, Grows

\* What a ready task, and an occupied slot, is made of.
LEMMA ReadyParts ==
  ASSUME QueueTypes, NEW k \in DOMAIN ready
  PROVE  ready[k].output \in Cells /\ ready[k].on \in Cells \cup {None}
  <1>1. ready[k] \in ReadyTasks
    BY DEF QueueTypes
  <1> QED
    BY <1>1 DEF ReadyTasks

LEMMA SlotParts ==
  ASSUME NEW s, GoodSlab(s), NEW i \in Occupied(s)
  PROVE  /\ i \in DOMAIN s.cells /\ s.cells[i] \in Slot
         /\ s.cells[i].out \in Cells /\ s.cells[i].on \in Cells
  <1>1. i \in DOMAIN s.cells /\ s.cells[i].out # None /\ s.cells[i].on \in Cells
    BY DEF Occupied, GoodSlab
  <1>2. s.cells \in Seq(Slot)
    BY DEF GoodSlab, Slabs
  <1>3. s.cells[i] \in Slot
    BY <1>1, <1>2
  <1> QED
    BY <1>1, <1>3 DEF Slot

LEMMA SameSlab ==
  ASSUME TInv, slab' = slab, Grows
  PROVE  GoodSlab(slab)' /\ KnownParked'
  <1>1. GoodSlab(slab)'
    BY DEF TInv, Created, GoodSlab, Occupied
  <1>2. \A i \in Occupied(slab) : slab.cells[i].out \in Cells /\ slab.cells[i].on \in Cells
    BY SlotParts DEF TInv, Created
  <1> QED
    BY <1>1, <1>2 DEF TInv, Created, KnownParked, Occupied, Grows

LEMMA SameReady ==
  ASSUME TInv, ready' = ready, Grows
  PROVE  KnownReady'
  <1>1. \A k \in DOMAIN ready : ready[k].output \in Cells
    BY ReadyParts DEF TInv, TypeOK
  <1> QED
    BY <1>1 DEF TInv, Created, KnownReady, Grows

LEMMA PushedReady ==
  ASSUME TInv, NEW t \in Cells, NEW on \in Cells \cup {None}, PushReady(t, on),
         Grows, kind'[t] # "unused"
  PROVE  ready' \in Seq(ReadyTasks) /\ KnownReady'
  <1>1. [output |-> t, on |-> on] \in ReadyTasks
    BY DEF ReadyTasks
  <1>2. /\ ready \in Seq(ReadyTasks)
        /\ \A k \in DOMAIN ready : ready[k].output \in Cells
    BY ReadyParts DEF TInv, TypeOK, QueueTypes
  <1>3. \A k \in DOMAIN ready' :
           ready'[k] = [output |-> t, on |-> on] \/ (k \in DOMAIN ready /\ ready'[k] = ready[k])
    BY <1>1, <1>2 DEF PushReady
  <1> QED
    BY <1>1, <1>2, <1>3 DEF TInv, Created, KnownReady, Grows, PushReady

LEMMA SamePromises ==
  ASSUME TInv, UNCHANGED promise, held' \subseteq held, Grows
  PROVE  KnownHeld'
  BY DEF TInv, TypeOK, HostTypes, Created, KnownHeld, Grows

LEMMA SameParents ==
  ASSUME TInv, UNCHANGED <<waiters, work>>, Grows
  PROVE  KnownParents'
  BY DEF TInv, Created, KnownParents, KnownWaiter, GatherWaiters, Grows

\* settle takes the waiters of a cell along.
LEMMA SettleParents ==
  ASSUME TInv, Grows, NEW c \in Cells, NEW outcome \in Outcomes, NEW seen,
         NEW rest \in Seq(Notifications), Settle(c, outcome, seen, rest),
         \A k \in DOMAIN rest : KnownWaiter(rest[k].waiter)
  PROVE  KnownParents'
  <1> DEFINE Fine(w) == w \in GatherWaiters => kind'[w.parent] # "unused"
  <1>1. \A w : KnownWaiter(w) => Fine(w)
    BY DEF KnownWaiter, GatherWaiters, Grows
  <1>2. \A d \in Cells : \A k \in DOMAIN waiters[d] : Fine(waiters[d][k])
    BY <1>1 DEF TInv, Created, KnownParents
  <1>3. \A k \in DOMAIN rest : Fine(rest[k].waiter)
    BY <1>1
  <1>4. \A k \in DOMAIN Jobs(c) : Fine(Jobs(c)[k].waiter)
    <2>1. \A k \in 1..Len(waiters[c]) : Jobs(c)[k].waiter = waiters[c][k]
      <3> SUFFICES ASSUME NEW k \in 1..Len(waiters[c])
                   PROVE  Jobs(c)[k].waiter = waiters[c][k]
        OBVIOUS
      <3> HIDE DEF Fine
      <3>1. Jobs(c)[k] = [waiter |-> waiters[c][k], from |-> c]
        BY JobsType DEF TInv, TypeOK
      <3> QED
        BY ONLY <3>1, JobParts
    <2>2. DOMAIN Jobs(c) = 1..Len(waiters[c]) /\ DOMAIN waiters[c] = 1..Len(waiters[c])
      BY JobsType DEF TInv, TypeOK, CellTypes
    <2> HIDE DEF Fine
    <2> QED
      BY <1>2, <2>1, <2>2
  <1>5. \A k \in DOMAIN (Jobs(c) \o rest) : Fine((Jobs(c) \o rest)[k].waiter)
    <2>1. Jobs(c) \in Seq(Notifications)
      BY JobsType DEF TInv, TypeOK
    <2> DEFINE js == Jobs(c)
    <2> HIDE DEF Fine, js
    <2>2. /\ DOMAIN js = 1..Len(js) /\ DOMAIN rest = 1..Len(rest)
          /\ Len(js) \in Nat /\ Len(rest) \in Nat
      BY <2>1 DEF js
    <2>3. \A k \in DOMAIN (js \o rest) :
             (js \o rest)[k] = IF k <= Len(js) THEN js[k] ELSE rest[k - Len(js)]
      BY <2>1 DEF js
    <2>4. DOMAIN (js \o rest) = 1..(Len(js) + Len(rest))
      BY <2>1 DEF js
    <2>5. \A k \in DOMAIN js : Fine(js[k].waiter)
      BY <1>4 DEF js
    <2>6. ASSUME NEW k \in DOMAIN (js \o rest) PROVE Fine((js \o rest)[k].waiter)
      <3>1. CASE k <= Len(js)
        BY <2>2, <2>3, <2>4, <2>5, <3>1
      <3>2. CASE ~(k <= Len(js))
        <4>1. k - Len(js) \in DOMAIN rest
          BY <2>2, <2>4, <3>2
        <4> QED
          BY <1>3, <2>3, <3>2, <4>1
      <3> QED
        BY <3>1, <3>2
    <2> QED
      BY <2>6 DEF js
  <1>6. \A d \in Cells : waiters'[d] = waiters[d] \/ waiters'[d] = <<>>
    BY DEF Settle, TInv, TypeOK, CellTypes
  <1>7. work' = rest \/ work' = Jobs(c) \o rest
    BY DEF Settle
  <1>8. \A d \in Cells : \A k \in DOMAIN waiters'[d] : Fine(waiters'[d][k])
    BY <1>2, <1>6
  <1>9. \A k \in DOMAIN work' : Fine(work'[k].waiter)
    BY <1>3, <1>5, <1>7
  <1> QED
    BY <1>8, <1>9 DEF KnownParents, KnownWaiter

LEMMA SettleAloneParents ==
  ASSUME TInv, Grows, NEW c \in Cells, NEW outcome \in Outcomes, NEW seen,
         Settle(c, outcome, seen, <<>>)
  PROVE  KnownParents'
  <1>1. <<>> \in Seq(Notifications) /\ DOMAIN <<>> = {}
    OBVIOUS
  <1> QED
    BY <1>1, SettleParents

\* An action that leaves kinds, promises and the queue alone, and settles only
\* what has been created.
LEMMA SameRest ==
  ASSUME TInv, TypeOK', UNCHANGED <<slab, ready, kind, promise>>,
         held' \subseteq held,
         pc' = "task" => pc = "task" /\ running' = running,
         \A c \in Cells : status'[c] # status[c] => kind[c] # "unused",
         KnownParents'
  PROVE  TInv'
  <1>1. Grows
    BY DEF Grows
  <1>2. GoodSlab(slab)' /\ KnownParked' /\ KnownReady' /\ KnownHeld'
    BY <1>1, SameSlab, SameReady, SamePromises
  <1>3. UnusedPending' /\ KnownRunning'
    BY DEF TInv, Created, UnusedPending, KnownRunning
  <1> QED
    BY <1>2, <1>3 DEF TInv, Created

LEMMA SpawnTypes ==
  ASSUME TInv, NEW c \in Cells, Spawn(c)
  PROVE  TInv'
  <1>1. /\ CellTypes /\ Creates("task", c) /\ PushReady(c, None) /\ slab' = slab
        /\ UNCHANGED <<status, waiters, unobserved, work, inbox, promise, held, pc, running>>
    BY DEF TInv, TypeOK, Spawn, hostVars, pumpVars
  <1>2. /\ kind' \in [Cells -> {"unused", "task", "settled", "host", "gather"}]
        /\ Grows /\ kind'[c] # "unused"
        /\ \A d \in Cells : kind'[d] = "unused" => kind[d] = "unused"
    BY <1>1, CreatesGrows
  <1>3. CellTypes'
    BY <1>1, <1>2 DEF CellTypes
  <1>4. ready' \in Seq(ReadyTasks) /\ KnownReady'
    BY <1>1, <1>2, PushedReady
  <1>5. TypeOK'
    BY <1>1, <1>3, <1>4, SameHosts, SameGathers, SamePump
    DEF TInv, TypeOK, QueueTypes, Spawn
  <1>6. GoodSlab(slab)' /\ KnownParked' /\ KnownHeld' /\ KnownParents'
    BY <1>1, <1>2, SameSlab, SamePromises, SameParents
  <1>7. UnusedPending' /\ KnownRunning'
    BY <1>1, <1>2 DEF TInv, Created, UnusedPending, KnownRunning, Grows
  <1> QED
    BY <1>4, <1>5, <1>6, <1>7 DEF TInv, Created

LEMMA BornSettledTypes ==
  ASSUME TInv, NEW c \in Cells, NEW outcome \in Outcomes, BornSettled(c, outcome)
  PROVE  TInv'
  <1>1. /\ CellTypes /\ Creates("settled", c) /\ Settle(c, outcome, {}, <<>>)
        /\ <<>> \in Seq(Notifications)
        /\ UNCHANGED <<slab, ready, promise, held, pc, running>>
    BY DEF TInv, TypeOK, BornSettled, hostVars, queueVars, pumpVars
  <1>2. /\ kind' \in [Cells -> {"unused", "task", "settled", "host", "gather"}]
        /\ Grows /\ kind'[c] # "unused"
        /\ \A d \in Cells : kind'[d] = "unused" => kind[d] = "unused"
    BY <1>1, CreatesGrows
  <1>3. CellTypes'
    BY <1>1, <1>2, SettleType DEF CellTypes
  <1>4. TypeOK'
    BY <1>3, SameHosts, SameGathers, SameQueues, SamePump DEF TInv, TypeOK, BornSettled
  <1>5. GoodSlab(slab)' /\ KnownParked' /\ KnownReady' /\ KnownHeld' /\ KnownParents'
    BY <1>1, <1>2, SameSlab, SameReady, SamePromises, SettleAloneParents
  <1>6. \A d \in Cells : d # c => status'[d] = status[d]
    BY <1>1 DEF CellTypes, Settle
  <1>7. UnusedPending' /\ KnownRunning'
    BY <1>1, <1>2, <1>6 DEF TInv, Created, UnusedPending, KnownRunning, Grows
  <1> QED
    BY <1>4, <1>5, <1>7 DEF TInv, Created

LEMMA FromHostTypes ==
  ASSUME TInv, NEW c \in Cells, NEW state \in {"pending"} \cup Outcomes, FromHost(c, state)
  PROVE  TInv'
  <1>1. /\ CellTypes /\ Creates("host", c)
        /\ UNCHANGED <<status, waiters, unobserved, work, slab, ready, pc, running>>
    BY DEF TInv, TypeOK, FromHost, queueVars, pumpVars
  <1>2. /\ kind' \in [Cells -> {"unused", "task", "settled", "host", "gather"}]
        /\ Grows /\ kind'[c] # "unused"
        /\ \A d \in Cells : kind'[d] = "unused" => kind[d] = "unused"
    BY <1>1, CreatesGrows
  <1>3. CellTypes'
    BY <1>1, <1>2 DEF CellTypes
  <1>4. promise' \in [Cells -> {"none", "pending"} \cup Outcomes] /\ held' \subseteq Cells
    BY DEF TInv, TypeOK, HostTypes, FromHost
  <1>5. hostQ' \in Seq(Cells)
    BY DEF TInv, TypeOK, HostTypes, FromHost
  <1>6. news' \in BOOLEAN
    BY DEF TInv, TypeOK, HostTypes, FromHost
  <1>7. TypeOK'
    BY <1>3, <1>4, <1>5, <1>6, SameGathers, SameQueues, SamePump
    DEF TInv, TypeOK, HostTypes, FromHost
  <1>8. KnownHeld'
    BY <1>2 DEF TInv, TypeOK, HostTypes, Created, KnownHeld, FromHost, Outcomes, Grows
  <1>9. GoodSlab(slab)' /\ KnownParked' /\ KnownReady' /\ KnownParents'
    BY <1>1, <1>2, SameSlab, SameReady, SameParents
  <1>10. UnusedPending' /\ KnownRunning'
    BY <1>1, <1>2 DEF TInv, Created, UnusedPending, KnownRunning, Grows
  <1> QED
    BY <1>7, <1>8, <1>9, <1>10 DEF TInv, Created

\* The least member of a set of numbers.
LEMMA LeastExists ==
  ASSUME NEW S, S \subseteq Nat, S # {}
  PROVE  \E i \in S : \A j \in S : i <= j
  <1>1. PICK i \in S : \A j \in S : ~(<<j, i>> \in OpToRel(<, Nat))
    BY NatLessThanWellFounded, WFMin
  <1>2. \A j \in S : <<j, i>> \in OpToRel(<, Nat) <=> j < i
    BY DEF OpToRel
  <1>3. \A j \in S : ~(j < i)
    BY <1>1, <1>2, Zenon
  <1>4. i \in Nat /\ \A j \in S : j \in Nat
    OBVIOUS
  <1> QED
    BY <1>3, <1>4

LEMMA ParallelTypes ==
  ASSUME TInv, NEW p \in Cells, NEW children \in Children, Parallel(p, children)
  PROVE  TInv'
  <1> DEFINE Open == {i \in DOMAIN children : status[children[i]] = "pending"}
             Errs == {i \in DOMAIN children : status[children[i]] = "rejected"}
             least == CHOOSE i \in Errs : \A j \in Errs : i <= j
             error == IF Errs = {} THEN None ELSE children[least]
             mine(c) == {[parent |-> p, index |-> i] :
                            i \in {j \in DOMAIN children : children[j] = c}}
  <1>1. PICK n \in 0..MaxParallel : children \in [1..n -> Known]
    BY DEF Children
  <1>2. n \in Nat /\ children \in Seq(Cells) /\ DOMAIN children = 1..n
    <2>1. n \in Nat
      BY MaxParallelAssumption
    <2>2. children \in [1..n -> Cells]
      BY <1>1 DEF Known
    <2> QED
      BY <2>1, <2>2, SeqDef
  <1>3. IsFiniteSet(1..n)
    BY <1>2, FS_Interval
  <1>4. Cardinality(Open) \in Nat
    BY <1>2, <1>3, FS_Subset, FS_CardinalityType
  <1>5. error \in Cells \cup {None}
    <2>1. CASE Errs = {}
      BY <2>1
    <2>2. CASE Errs # {}
      <3>1. Errs \subseteq Nat
        BY <1>2
      <3>2. \E i \in Errs : \A j \in Errs : i <= j
        <4> HIDE DEF Errs
        <4> QED
          BY <2>2, <3>1, LeastExists
      <3>3. least \in Errs
        <4> HIDE DEF Errs
        <4> QED
          BY <3>2
      <3> QED
        BY <1>1, <2>2, <3>3 DEF Known
    <2> QED
      BY <2>1, <2>2
  <1>6. \A c \in Cells : SetToSeq(mine(c)) \in Seq(mine(c)) /\ SetToSeq(mine(c)) \in Seq(Waiters)
    <2> TAKE c \in Cells
    <2> DEFINE at == {j \in DOMAIN children : children[j] = c}
    <2>1. IsFiniteSet(at)
      BY <1>2, <1>3, FS_Subset
    <2>2. IsFiniteSet(mine(c))
      <3> DEFINE f == [j \in at |-> [parent |-> p, index |-> j]]
      <3>1. f \in Surjection(at, mine(c))
        BY DEF Surjection
      <3> QED
        BY <2>1, <3>1, FS_Surjection
    <2>3. mine(c) \subseteq Waiters
      BY <1>2 DEF Waiters, GatherWaiters
    <2> QED
      BY <2>2, <2>3, SetToSeqType, SeqMonotonic
  <1>7. waiters' \in [Cells -> Seq(Waiters)]
    <2>1. waiters' = [c \in Cells |-> IF status[c] = "pending" /\ c # p
                                     THEN waiters[c] \o SetToSeq(mine(c)) ELSE waiters[c]]
      BY DEF Parallel
    <2>2. \A c \in Cells : waiters[c] \in Seq(Waiters)
      BY DEF TInv, TypeOK, CellTypes
    <2>3. \A c \in Cells : waiters[c] \o SetToSeq(mine(c)) \in Seq(Waiters)
      BY <1>6, <2>2, ConcatProperties
    <2> QED
      BY <2>1, <2>2, <2>3
  <1>8. kind' \in [Cells -> {"unused", "task", "settled", "host", "gather"}]
    BY DEF TInv, TypeOK, CellTypes, Parallel, Creates
  <1>9. status' \in [Cells -> {"pending"} \cup Outcomes]
    BY DEF TInv, TypeOK, CellTypes, Parallel, Outcomes
  <1>10. unobserved' \subseteq Cells
    BY DEF TInv, TypeOK, CellTypes, Parallel
  <1>11. CellTypes'
    BY <1>7, <1>8, <1>9, <1>10 DEF TInv, TypeOK, CellTypes, Parallel
  <1>12. GatherTypes'
    <2>1. [i \in DOMAIN children |-> IF status[children[i]] = "resolved"
                                      THEN children[i] ELSE None] \in Seq(Cells \cup {None})
      <3>1. [i \in 1..n |-> IF status[children[i]] = "resolved" THEN children[i] ELSE None]
              \in [1..n -> Cells \cup {None}]
        BY <1>1 DEF Known
      <3> QED
        BY <1>2, <3>1, SeqDef
    <2>2. parts' = [parts EXCEPT ![p] = children]
      BY DEF Parallel
    <2>3. left' = [left EXCEPT ![p] = Cardinality(Open)]
      BY DEF Parallel
    <2>4. failed' = [failed EXCEPT ![p] = error]
      BY DEF Parallel
    <2>5. results' = [results EXCEPT ![p] =
                         [i \in DOMAIN children |-> IF status[children[i]] = "resolved"
                                                    THEN children[i] ELSE None]]
      BY DEF Parallel
    <2> HIDE DEF Open, error
    <2> QED
      BY <1>2, <1>4, <1>5, <2>1, <2>2, <2>3, <2>4, <2>5 DEF TInv, TypeOK, GatherTypes
  <1>13. TypeOK'
    BY <1>11, <1>12, SameHosts, SameQueues, SamePump DEF TInv, TypeOK, Parallel
  <1>14. /\ CellTypes /\ Creates("gather", p)
         /\ UNCHANGED <<slab, ready, promise, held, pc, running>>
    BY DEF TInv, TypeOK, Parallel, hostVars, queueVars, pumpVars
  <1>15. /\ Grows /\ kind'[p] # "unused"
         /\ \A d \in Cells : kind'[d] = "unused" => kind[d] = "unused"
    BY <1>14, CreatesGrows
  <1>16. GoodSlab(slab)' /\ KnownParked' /\ KnownReady' /\ KnownHeld'
    BY <1>14, <1>15, SameSlab, SameReady, SamePromises
  <1>17. \A d \in Cells : d # p => status'[d] = status[d]
    BY <1>14 DEF CellTypes, Parallel
  <1>18. UnusedPending' /\ KnownRunning'
    BY <1>14, <1>15, <1>17 DEF TInv, Created, UnusedPending, KnownRunning, Grows
  <1>19. KnownParents'
    <2> DEFINE Fine(w) == w \in GatherWaiters => kind'[w.parent] # "unused"
    <2>1. \A w : KnownWaiter(w) => Fine(w)
      BY <1>15 DEF KnownWaiter, GatherWaiters, Grows
    <2>2. \A d \in Cells : \A k \in DOMAIN waiters[d] : Fine(waiters[d][k])
      BY <2>1 DEF TInv, Created, KnownParents
    <2>3. \A k \in DOMAIN work : Fine(work[k].waiter)
      BY <2>1 DEF TInv, Created, KnownParents
    <2>4. \A d \in Cells : \A w \in mine(d) : Fine(w)
      BY <1>15
    <2>5. \A d \in Cells : /\ waiters[d] \in Seq(Waiters)
                           /\ waiters'[d] = waiters[d]
                              \/ waiters'[d] = waiters[d] \o SetToSeq(mine(d))
      BY DEF TInv, TypeOK, CellTypes, Parallel
    <2>6. ASSUME NEW d \in Cells, NEW k \in DOMAIN waiters'[d]
          PROVE  Fine(waiters'[d][k])
      <3> DEFINE added == SetToSeq(mine(d))
                 old == waiters[d]
      <3>1. \A i \in DOMAIN added : Fine(added[i])
        <4>1. added \in Seq(mine(d))
          BY <1>6
        <4> HIDE DEF added
        <4>2. \A i \in DOMAIN added : added[i] \in mine(d)
          BY <4>1
        <4> QED
          BY <2>4, <4>2
      <3>2. added \in Seq(Waiters) /\ old \in Seq(Waiters)
        BY <1>6, <2>5
      <3>3. \A i \in DOMAIN old : Fine(old[i])
        BY <2>2
      <3>4. waiters'[d] = old \/ waiters'[d] = old \o added
        BY <2>5
      <3> HIDE DEF Fine, old, added
      <3>5. CASE waiters'[d] = old
        BY <3>3, <3>5
      <3>6. CASE waiters'[d] = old \o added
        <4>1. /\ DOMAIN (old \o added) = 1..(Len(old) + Len(added))
              /\ DOMAIN old = 1..Len(old) /\ DOMAIN added = 1..Len(added)
              /\ Len(old) \in Nat /\ Len(added) \in Nat
          BY <3>2
        <4>2. (old \o added)[k] = IF k <= Len(old) THEN old[k] ELSE added[k - Len(old)]
          BY <3>2, <3>6
        <4>3. CASE k <= Len(old)
          BY <3>3, <3>6, <4>1, <4>2, <4>3
        <4>4. CASE ~(k <= Len(old))
          <5>1. k - Len(old) \in DOMAIN added
            BY <3>6, <4>1, <4>4
          <5> QED
            BY <3>1, <3>6, <4>2, <4>4, <5>1
        <4> QED
          BY <4>3, <4>4
      <3> QED
        BY <3>4, <3>5, <3>6
    <2>7. \A k \in DOMAIN work' : Fine(work'[k].waiter)
      BY <2>3 DEF Parallel
    <2> QED
      BY <2>6, <2>7 DEF KnownParents, KnownWaiter
  <1> QED
    BY <1>13, <1>16, <1>18, <1>19 DEF TInv, Created

LEMMA CancelTypes ==
  ASSUME TInv, NEW c \in Cells, Cancel(c)
  PROVE  TInv'
  <1>1. Settle(c, "rejected", {c}, <<>>) /\ CellTypes /\ <<>> \in Seq(Notifications)
        /\ "rejected" \in Outcomes /\ kind' = kind
    BY DEF TInv, TypeOK, Cancel, Outcomes
  <1>2. CellTypes'
    BY <1>1, SettleType DEF CellTypes
  <1>3. promise' \in [Cells -> {"none", "pending"} \cup Outcomes] /\ held' \subseteq Cells
    BY DEF TInv, TypeOK, HostTypes, Cancel, Outcomes
  <1>4. hostQ' \in Seq(Cells)
    BY DEF TInv, TypeOK, HostTypes, Cancel
  <1>5. news' \in BOOLEAN
    BY DEF TInv, TypeOK, HostTypes, Cancel
  <1>6. TypeOK'
    BY <1>2, <1>3, <1>4, <1>5, SameGathers, SameQueues, SamePump
    DEF TInv, TypeOK, HostTypes, Cancel
  <1>7. KnownHeld'
    BY <1>1 DEF TInv, TypeOK, HostTypes, Created, KnownHeld, Cancel
  <1>8. \A d \in Cells : d # c => status'[d] = status[d]
    BY <1>1 DEF Settle, CellTypes
  <1>9. /\ kind[c] # "unused" /\ Grows
        /\ UNCHANGED <<slab, ready, pc, running>>
    BY <1>1 DEF Cancel, Known, Unused, Grows, queueVars, pumpVars
  <1>10. GoodSlab(slab)' /\ KnownParked' /\ KnownReady' /\ KnownParents'
    BY <1>1, <1>9, SameSlab, SameReady, SettleAloneParents
  <1>11. UnusedPending' /\ KnownRunning'
    BY <1>1, <1>8, <1>9 DEF TInv, Created, UnusedPending, KnownRunning
  <1> QED
    BY <1>6, <1>7, <1>10, <1>11 DEF TInv, Created

LEMMA AwaitSettledTypes ==
  ASSUME TInv, NEW c \in Cells, AwaitSettled(c)
  PROVE  TInv'
  <1>1. CellTypes'
    BY DEF TInv, TypeOK, CellTypes, AwaitSettled
  <1>2. TypeOK'
    BY <1>1, SameHosts, SameGathers, SameQueues, SamePump DEF TInv, TypeOK, AwaitSettled
  <1> QED
    BY <1>2, SameRest, SameParents DEF AwaitSettled, Grows, hostVars, queueVars, pumpVars

\* A slab into which a known task has been put that awaits a known cell.
LEMMA InsertKnown ==
  ASSUME TInv, NEW s, GoodSlab(s), ParkedIn(s, slab),
         NEW t \in Cells, kind[t] # "unused", NEW c \in Cells, kind[c] # "unused",
         slab' = Insert(s, t, c), kind' = kind
  PROVE  GoodSlab(slab)' /\ KnownParked'
  <1> DEFINE r == Insert(s, t, c)
  <1>1. GoodSlab(r)
    BY InsertKeeps
  <1>2. GoodSlab(slab)'
    <2>1. GoodSlab(slab')
      BY <1>1
    <2> QED
      BY <2>1 DEF GoodSlab, Occupied
  <1>3. \A i \in Occupied(r) :
           \/ r.cells[i] = [gen |-> NextToken(s).gen, out |-> t, on |-> c]
           \/ i \in Occupied(s) /\ r.cells[i] = s.cells[i]
    BY InsertKeeps
  <1>4. \A i \in Occupied(s) : kind[s.cells[i].out] # "unused" /\ kind[s.cells[i].on] # "unused"
    BY DEF ParkedIn, TInv, Created, KnownParked
  <1>5. \A i \in Occupied(r) : kind[r.cells[i].out] # "unused" /\ kind[r.cells[i].on] # "unused"
    <2> HIDE DEF r
    <2> QED
      BY <1>3, <1>4
  <1> QED
    BY <1>2, <1>5 DEF KnownParked, Occupied

\* A token is no waiter of a parallel.
LEMMA TokenIsNoGather ==
  ASSUME NEW token
  PROVE  [token |-> token] \notin GatherWaiters
  BY DEF GatherWaiters

LEMMA WatchedParents ==
  ASSUME TInv, NEW c \in Cells, NEW token, UNCHANGED <<kind, work>>,
         waiters' = [waiters EXCEPT ![c] = Append(@, [token |-> token])]
  PROVE  KnownParents'
  <1>1. waiters[c] \in Seq(Waiters)
    BY DEF TInv, TypeOK, CellTypes
  <1>2. \A k \in DOMAIN waiters'[c] :
           \/ k \in DOMAIN waiters[c] /\ waiters'[c][k] = waiters[c][k]
           \/ waiters'[c][k] = [token |-> token]
    BY <1>1 DEF TInv, TypeOK, CellTypes
  <1>3. \A d \in Cells : d # c => waiters'[d] = waiters[d]
    BY DEF TInv, TypeOK, CellTypes
  <1>4. KnownWaiter([token |-> token])
    BY TokenIsNoGather DEF KnownWaiter
  <1>5. \A d \in Cells : \A k \in DOMAIN waiters'[d] : KnownWaiter(waiters'[d][k])
    BY <1>2, <1>3, <1>4 DEF TInv, Created, KnownParents
  <1> QED
    BY <1>5 DEF TInv, Created, KnownParents, KnownWaiter

LEMMA TaskAwaitTypes ==
  ASSUME TInv, NEW c \in Cells, TaskAwait(c)
  PROVE  TInv'
  <1>1. /\ running \in Cells /\ GoodSlab(slab) /\ status[c] = "pending"
        /\ kind[running] # "unused" /\ kind[c] # "unused"
    BY DEF TInv, Created, KnownRunning, TaskAwait, Pending, Known, Unused
  <1>2. GoodSlab(Insert(slab, running, c)) /\ NextToken(slab) \in Tokens
    BY <1>1, InsertKeeps
  <1>3. /\ slab' = Insert(slab, running, c) /\ inbox' = inbox
        /\ waiters' = [waiters EXCEPT ![c] = Append(@, [token |-> NextToken(slab)])]
    BY <1>1 DEF TaskAwait, Park, Watch
  <1>4. CellTypes'
    <2>1. [token |-> NextToken(slab)] \in Waiters
      BY <1>2 DEF Waiters, ResumeWaiters
    <2>2. waiters' \in [Cells -> Seq(Waiters)]
      BY <1>3, <2>1 DEF TInv, TypeOK, CellTypes
    <2> QED
      BY <2>2 DEF TInv, TypeOK, CellTypes, TaskAwait
  <1>5. QueueTypes'
    BY <1>2, <1>3 DEF TInv, TypeOK, QueueTypes, TaskAwait, GoodSlab
  <1>6. PumpTypes'
    BY DEF TInv, TypeOK, PumpTypes, TaskAwait
  <1>7. TypeOK'
    BY <1>4, <1>5, <1>6, SameHosts, SameGathers DEF TInv, TypeOK, TaskAwait
  <1>8. ParkedIn(slab, slab)
    BY DEF ParkedIn
  <1>9. UNCHANGED <<kind, status, promise, held, ready>> /\ pc' # "task"
    BY DEF TaskAwait, hostVars
  <1>10. GoodSlab(slab)' /\ KnownParked'
    BY <1>1, <1>3, <1>8, <1>9, InsertKnown
  <1>11. KnownReady' /\ KnownHeld' /\ UnusedPending' /\ KnownRunning'
    BY <1>9 DEF TInv, Created, KnownReady, KnownHeld, UnusedPending, KnownRunning
  <1>12. KnownParents'
    BY <1>3, <1>9, WatchedParents DEF TaskAwait
  <1> QED
    BY <1>7, <1>10, <1>11, <1>12 DEF TInv, Created

LEMMA TaskYieldTypes ==
  ASSUME TInv, TaskYield
  PROVE  TInv'
  <1>1. /\ running \in Cells /\ kind[running] # "unused" /\ PushReady(running, None)
        /\ Grows /\ pc' # "task"
        /\ UNCHANGED <<kind, status, waiters, work, slab, inbox, promise, held>>
    BY DEF TInv, Created, KnownRunning, TaskYield, Grows, cellVars, hostVars
  <1>2. ready' \in Seq(ReadyTasks) /\ KnownReady'
    BY <1>1, PushedReady
  <1>3. PumpTypes'
    BY DEF TInv, TypeOK, PumpTypes, TaskYield
  <1>4. TypeOK'
    BY <1>1, <1>2, <1>3, SameCells, SameHosts, SameGathers
    DEF TInv, TypeOK, QueueTypes, TaskYield
  <1>5. GoodSlab(slab)' /\ KnownParked' /\ KnownHeld' /\ KnownParents'
    BY <1>1, SameSlab, SamePromises, SameParents
  <1>6. UnusedPending' /\ KnownRunning'
    BY <1>1 DEF TInv, Created, UnusedPending, KnownRunning
  <1> QED
    BY <1>2, <1>4, <1>5, <1>6 DEF TInv, Created

LEMMA FinishTypes ==
  ASSUME TInv, NEW outcome \in Outcomes, Finish(outcome)
  PROVE  TInv'
  <1>1. /\ running \in Cells /\ kind[running] # "unused"
        /\ CellTypes /\ <<>> \in Seq(Notifications)
        /\ Settle(running, outcome, {}, <<>>) /\ kind' = kind /\ pc' # "task"
        /\ UNCHANGED <<slab, ready, promise, held>>
    BY DEF TInv, TypeOK, Created, KnownRunning, Finish, hostVars, queueVars
  <1>2. CellTypes'
    BY <1>1, SettleType DEF CellTypes
  <1>3. PumpTypes'
    BY DEF TInv, TypeOK, PumpTypes, Finish
  <1>4. TypeOK'
    BY <1>2, <1>3, SameHosts, SameGathers, SameQueues DEF TInv, TypeOK, Finish
  <1>5. \A d \in Cells : d # running => status'[d] = status[d]
    BY <1>1 DEF Settle, CellTypes
  <1>6. KnownParents'
    BY <1>1, SettleAloneParents DEF Grows
  <1> QED
    BY <1>1, <1>4, <1>5, <1>6, SameRest

LEMMA MainAwaitTypes ==
  ASSUME TInv, NEW c \in Cells, MainAwait(c)
  PROVE  TInv'
  <1>1. PumpTypes'
    BY DEF TInv, TypeOK, PumpTypes, MainAwait
  <1>2. TypeOK'
    BY <1>1, SameCells, SameHosts, SameGathers, SameQueues DEF TInv, TypeOK, MainAwait
  <1> QED
    BY <1>2, SameRest, SameParents DEF MainAwait, Grows, cellVars, hostVars, queueVars

LEMMA MainEndTypes ==
  ASSUME TInv, MainEnd
  PROVE  TInv'
  <1>1. PumpTypes'
    BY DEF TInv, TypeOK, PumpTypes, MainEnd
  <1>2. TypeOK'
    BY <1>1, SameCells, SameHosts, SameGathers, SameQueues DEF TInv, TypeOK, MainEnd
  <1> QED
    BY <1>2, SameRest, SameParents DEF MainEnd, Grows, cellVars, hostVars, queueVars

LEMMA CallMainTypes ==
  ASSUME TInv, NEW c \in Cells, CallMain(c)
  PROVE  TInv'
  <1>1. PumpTypes'
    BY DEF TInv, TypeOK, PumpTypes, CallMain
  <1>2. CASE Entry = "test" /\ Unhandled
    <2>1. UNCHANGED <<cellVars, hostVars, gatherVars, queueVars>> /\ pc' # "task"
      BY <1>2 DEF CallMain, cellVars, queueVars
    <2>2. TypeOK'
      BY <1>1, <2>1, SameCells, SameHosts, SameGathers, SameQueues DEF TInv, TypeOK
    <2> QED
      BY <2>1, <2>2, SameRest, SameParents DEF Grows, cellVars, hostVars, queueVars
  <1>3. CASE ~(Entry = "test" /\ Unhandled)
    <2>1. /\ kind[c] = "unused" /\ kind' = [kind EXCEPT ![c] = "task"]
          /\ PushReady(c, None) /\ pc' # "task"
          /\ UNCHANGED <<status, waiters, unobserved, work, slab, inbox, promise, held>>
      BY <1>3 DEF CallMain, Unused, hostVars
    <2>2. CellTypes'
      BY <2>1 DEF TInv, TypeOK, CellTypes
    <2>3. Grows /\ kind'[c] # "unused"
      BY <2>1 DEF TInv, TypeOK, CellTypes, Grows
    <2>4. ready' \in Seq(ReadyTasks) /\ KnownReady'
      BY <2>1, <2>3, PushedReady
    <2>5. TypeOK'
      BY <1>1, <2>1, <2>2, <2>4, SameHosts, SameGathers
      DEF TInv, TypeOK, QueueTypes, CallMain
    <2>6. GoodSlab(slab)' /\ KnownParked' /\ KnownHeld' /\ KnownParents'
      BY <2>1, <2>3, SameSlab, SamePromises, SameParents
    <2>7. UnusedPending' /\ KnownRunning'
      BY <2>1, <2>3 DEF TInv, Created, UnusedPending, KnownRunning, Grows
    <2> QED
      BY <2>4, <2>5, <2>6, <2>7 DEF TInv, Created
  <1> QED
    BY <1>2, <1>3

\* The steps of the pump that only move the VM thread.
LEMMA PumpReturnTypes ==
  ASSUME TInv, PumpReturn
  PROVE  TInv'
  <1>1. pc' \in {"main", "done", "failed"}
    BY DEF TInv, TypeOK, PumpTypes, PumpReturn, Settled, Outcomes
  <1>2. CellTypes' /\ PumpTypes'
    BY <1>1 DEF TInv, TypeOK, CellTypes, PumpTypes, PumpReturn
  <1>3. TypeOK'
    BY <1>2, SameHosts, SameGathers, SameQueues DEF TInv, TypeOK, PumpReturn
  <1> QED
    BY <1>1, <1>3, SameRest, SameParents DEF PumpReturn, Grows, hostVars, queueVars

LEMMA PumpTopTypes ==
  ASSUME TInv, PumpTop
  PROVE  TInv'
  <1>1. news' \in BOOLEAN
    BY DEF PumpTop
  <1>2. HostTypes'
    BY <1>1 DEF TInv, TypeOK, HostTypes, PumpTop
  <1>3. PumpTypes'
    BY DEF TInv, TypeOK, PumpTypes, PumpTop
  <1>4. TypeOK'
    BY <1>2, <1>3, SameCells, SameGathers, SameQueues DEF TInv, TypeOK, PumpTop
  <1> QED
    BY <1>4, SameRest, SameParents DEF PumpTop, Grows, cellVars, queueVars

LEMMA DrainHostsTypes ==
  ASSUME TInv, DrainHosts
  PROVE  TInv'
  <1>1. HostTypes' /\ PumpTypes'
    BY DEF TInv, TypeOK, HostTypes, PumpTypes, DrainHosts
  <1>2. TypeOK'
    BY <1>1, SameCells, SameGathers, SameQueues DEF TInv, TypeOK, DrainHosts
  <1> QED
    BY <1>2, SameRest, SameParents DEF DrainHosts, Grows, cellVars, queueVars

LEMMA CompleteHostTypes ==
  ASSUME TInv, CompleteHost
  PROVE  TInv'
  <1> DEFINE c == Head(batch)
  <1>1. c \in Cells /\ Tail(batch) \in Seq(Cells)
    BY DEF TInv, TypeOK, PumpTypes, CompleteHost
  <1>2. c \in held /\ promise[c] # "pending" => promise[c] \in Outcomes
    BY <1>1 DEF TInv, TypeOK, HostTypes, Created, KnownHeld
  <1>3. CellTypes'
    <2>1. CASE c \in held /\ promise[c] # "pending"
      <3>1. /\ Settle(c, promise[c], {}, <<>>) /\ CellTypes /\ kind' = kind
            /\ <<>> \in Seq(Notifications)
        BY <2>1 DEF TInv, TypeOK, CompleteHost
      <3> QED
        BY <1>1, <1>2, <2>1, <3>1, SettleType DEF CellTypes
    <2>2. CASE ~(c \in held /\ promise[c] # "pending")
      <3>1. Pumping("hosts") /\ UNCHANGED <<kind, status, waiters, unobserved>> /\ work' = work
        BY <2>2 DEF CompleteHost
      <3> QED
        BY <3>1 DEF TInv, TypeOK, CellTypes
    <2> QED
      BY <2>1, <2>2
  <1>4. HostTypes' /\ PumpTypes'
    BY <1>1 DEF TInv, TypeOK, HostTypes, PumpTypes, CompleteHost
  <1>5. TypeOK'
    BY <1>3, <1>4, SameGathers, SameQueues DEF TInv, TypeOK, CompleteHost
  <1>6. \A d \in Cells : status'[d] # status[d] => kind[d] # "unused"
    <2>1. \A d \in Cells : status'[d] # status[d] => d = c /\ c \in held
      BY <1>1 DEF TInv, TypeOK, CellTypes, CompleteHost, Settle
    <2> QED
      BY <2>1 DEF TInv, Created, KnownHeld
  <1>7. KnownParents'
    <2>1. CASE c \in held /\ promise[c] # "pending"
      <3>1. /\ Settle(c, promise[c], {}, <<>>) /\ Grows
            /\ <<>> \in Seq(Notifications)
        BY <2>1 DEF CompleteHost, Grows
      <3> QED
        BY <1>1, <1>2, <2>1, <3>1, SettleAloneParents
    <2>2. CASE ~(c \in held /\ promise[c] # "pending")
      <3>1. UNCHANGED <<kind, waiters, work>>
        BY <2>2 DEF CompleteHost
      <3> QED
        BY <3>1, SameParents DEF Grows
    <2> QED
      BY <2>1, <2>2
  <1>8. UNCHANGED <<slab, ready, kind, promise, pc, running>> /\ held' \subseteq held
    BY DEF CompleteHost, queueVars
  <1> QED
    BY <1>5, <1>6, <1>7, <1>8, SameRest

LEMMA HostsDoneTypes ==
  ASSUME TInv, HostsDone
  PROVE  TInv'
  <1>1. PumpTypes'
    BY DEF TInv, TypeOK, PumpTypes, HostsDone
  <1>2. TypeOK'
    BY <1>1, SameCells, SameHosts, SameGathers, SameQueues DEF TInv, TypeOK, HostsDone
  <1> QED
    BY <1>2, SameRest, SameParents DEF HostsDone, Grows, cellVars, hostVars, queueVars

LEMMA CollectDoneTypes ==
  ASSUME TInv, CollectDone
  PROVE  TInv'
  <1>1. PumpTypes'
    BY DEF TInv, TypeOK, PumpTypes, CollectDone
  <1>2. TypeOK'
    BY <1>1, SameCells, SameHosts, SameGathers, SameQueues DEF TInv, TypeOK, CollectDone
  <1> QED
    BY <1>2, SameRest, SameParents DEF CollectDone, Grows, cellVars, hostVars, queueVars

LEMMA GoToSleepTypes ==
  ASSUME TInv, GoToSleep
  PROVE  TInv'
  <1>1. PumpTypes'
    BY DEF TInv, TypeOK, PumpTypes, GoToSleep
  <1>2. TypeOK'
    BY <1>1, SameCells, SameHosts, SameGathers, SameQueues DEF TInv, TypeOK, GoToSleep
  <1> QED
    BY <1>2, SameRest, SameParents DEF GoToSleep, Grows, cellVars, hostVars, queueVars

LEMMA WakeUpTypes ==
  ASSUME TInv, WakeUp
  PROVE  TInv'
  <1>1. PumpTypes'
    BY DEF TInv, TypeOK, PumpTypes, WakeUp
  <1>2. TypeOK'
    BY <1>1, SameCells, SameHosts, SameGathers, SameQueues DEF TInv, TypeOK, WakeUp
  <1> QED
    BY <1>2, SameRest, SameParents DEF WakeUp, Grows, cellVars, hostVars, queueVars

\* collect_resumes takes a task out of its slot.
LEMMA HeldSlot ==
  ASSUME TInv, Collecting, Holds(slab, Head(inbox))
  PROVE  LET i == Head(inbox).slot
         IN  /\ i \in Occupied(slab) /\ i \in DOMAIN slab.cells
             /\ slab.cells[i].out \in Cells /\ slab.cells[i].on \in Cells
             /\ kind[slab.cells[i].out] # "unused" /\ kind[slab.cells[i].on] # "unused"
             /\ GoodSlab(Release(slab, i)) /\ ParkedIn(Release(slab, i), slab)
             /\ i \notin Occupied(Release(slab, i))
  <1> DEFINE i == Head(inbox).slot
  <1>1. i \in Occupied(slab) /\ GoodSlab(slab)
    BY DEF Holds, TInv, Created
  <1>2. i \in DOMAIN slab.cells /\ slab.cells[i].out \in Cells /\ slab.cells[i].on \in Cells
    BY <1>1, SlotParts
  <1>3. kind[slab.cells[i].out] # "unused" /\ kind[slab.cells[i].on] # "unused"
    BY <1>1 DEF TInv, Created, KnownParked
  <1> QED
    BY <1>1, <1>2, <1>3, ReleaseKeeps

LEMMA ReleaseKnown ==
  ASSUME TInv, NEW r, GoodSlab(r), ParkedIn(r, slab), slab' = r, kind' = kind
  PROVE  GoodSlab(slab)' /\ KnownParked' /\ slab' \in Slabs
  <1>1. GoodSlab(slab')
    OBVIOUS
  <1>2. GoodSlab(slab)' /\ slab' \in Slabs
    BY <1>1 DEF GoodSlab, Occupied
  <1>3. \A i \in Occupied(r) : kind[r.cells[i].out] # "unused" /\ kind[r.cells[i].on] # "unused"
    BY DEF ParkedIn, TInv, Created, KnownParked
  <1> QED
    BY <1>2, <1>3 DEF KnownParked, Occupied

LEMMA CollectStaleTypes ==
  ASSUME TInv, CollectStale
  PROVE  TInv'
  <1>1. Tail(inbox) \in Seq(Tokens) /\ GoodSlab(slab) /\ ParkedIn(slab, slab)
    BY DEF TInv, TypeOK, QueueTypes, CollectStale, Collecting, Created, ParkedIn
  <1>2. \E r : GoodSlab(r) /\ ParkedIn(r, slab) /\ slab' = r
    <2>1. CASE UNCHANGED slab
      BY <1>1, <2>1
    <2>2. CASE Holds(slab, Head(inbox)) /\ slab' = Release(slab, Head(inbox).slot)
      BY <2>2, HeldSlot DEF CollectStale
    <2> QED
      BY <2>1, <2>2 DEF CollectStale
  <1>3. UNCHANGED <<kind, status, waiters, work, promise, held, ready, pc, running>>
    BY DEF CollectStale, cellVars, hostVars, pumpVars
  <1>4. GoodSlab(slab)' /\ KnownParked' /\ slab' \in Slabs
    BY <1>2, <1>3, ReleaseKnown
  <1>5. QueueTypes'
    BY <1>1, <1>4 DEF TInv, TypeOK, QueueTypes, CollectStale
  <1>6. TypeOK'
    BY <1>5, SameCells, SameHosts, SameGathers, SamePump DEF TInv, TypeOK, CollectStale
  <1>7. KnownReady' /\ KnownHeld' /\ KnownParents' /\ UnusedPending' /\ KnownRunning'
    BY <1>3, SameReady, SamePromises, SameParents
    DEF TInv, Created, UnusedPending, KnownRunning, Grows
  <1> QED
    BY <1>4, <1>6, <1>7 DEF TInv, Created

LEMMA CollectReparksTypes ==
  ASSUME TInv, CollectReparks
  PROVE  TInv'
  <1> DEFINE i == Head(inbox).slot
             parked == slab.cells[i]
             s == Release(slab, i)
  <1>1. /\ Collecting /\ Holds(slab, Head(inbox))
        /\ slab' = Insert(s, parked.out, parked.on)
        /\ waiters' = [waiters EXCEPT ![parked.on] = Append(@, [token |-> NextToken(s)])]
    BY DEF CollectReparks
  <1>2. /\ parked.out \in Cells /\ parked.on \in Cells
        /\ kind[parked.out] # "unused" /\ kind[parked.on] # "unused"
        /\ GoodSlab(s) /\ ParkedIn(s, slab)
    BY <1>1, HeldSlot
  <1>3. UNCHANGED <<kind, status, work, promise, held, ready, pc, running>>
    BY DEF CollectReparks, hostVars, pumpVars
  <1> HIDE DEF i, parked, s
  <1>4. NextToken(s) \in Tokens /\ GoodSlab(Insert(s, parked.out, parked.on))
    BY <1>2, InsertKeeps
  <1>5. GoodSlab(slab)' /\ KnownParked'
    BY <1>1, <1>2, <1>3, InsertKnown
  <1>6. slab' \in Slabs
    BY <1>1, <1>4 DEF GoodSlab
  <1>7. Tail(inbox) \in Seq(Tokens)
    BY <1>1 DEF TInv, TypeOK, QueueTypes, Collecting
  <1>8. QueueTypes'
    BY <1>6, <1>7 DEF TInv, TypeOK, QueueTypes, CollectReparks
  <1>9. CellTypes'
    <2>1. [token |-> NextToken(s)] \in Waiters
      BY <1>4 DEF Waiters, ResumeWaiters
    <2>2. waiters' \in [Cells -> Seq(Waiters)]
      BY <1>1, <1>2, <2>1 DEF TInv, TypeOK, CellTypes
    <2> QED
      BY <2>2 DEF TInv, TypeOK, CellTypes, CollectReparks
  <1>10. TypeOK'
    BY <1>8, <1>9, SameHosts, SameGathers, SamePump DEF TInv, TypeOK, CollectReparks
  <1>11. KnownParents'
    BY <1>1, <1>2, <1>3, WatchedParents
  <1>12. KnownReady' /\ KnownHeld' /\ UnusedPending' /\ KnownRunning'
    BY <1>3, SameReady, SamePromises
    DEF TInv, Created, UnusedPending, KnownRunning, Grows
  <1> QED
    BY <1>5, <1>10, <1>11, <1>12 DEF TInv, Created

LEMMA CollectResumesTypes ==
  ASSUME TInv, CollectResumes
  PROVE  TInv'
  <1> DEFINE i == Head(inbox).slot
             parked == slab.cells[i]
             s == Release(slab, i)
  <1>1. /\ Collecting /\ Holds(slab, Head(inbox))
        /\ slab' = s /\ PushReady(parked.out, parked.on)
    BY DEF CollectResumes
  <1>2. /\ parked.out \in Cells /\ parked.on \in Cells
        /\ kind[parked.out] # "unused" /\ kind[parked.on] # "unused"
        /\ GoodSlab(s) /\ ParkedIn(s, slab)
    BY <1>1, HeldSlot
  <1>3. UNCHANGED <<kind, status, waiters, work, promise, held, pc, running>> /\ Grows
    BY DEF CollectResumes, cellVars, hostVars, pumpVars, Grows
  <1> HIDE DEF i, parked, s
  <1>4. GoodSlab(slab)' /\ KnownParked' /\ slab' \in Slabs
    BY <1>1, <1>2, <1>3, ReleaseKnown
  <1>5. ready' \in Seq(ReadyTasks) /\ KnownReady'
    BY <1>1, <1>2, <1>3, PushedReady
  <1>6. Tail(inbox) \in Seq(Tokens)
    BY <1>1 DEF TInv, TypeOK, QueueTypes, Collecting
  <1>7. QueueTypes'
    BY <1>4, <1>5, <1>6 DEF QueueTypes, CollectResumes
  <1>8. TypeOK'
    BY <1>7, SameCells, SameHosts, SameGathers, SamePump DEF TInv, TypeOK, CollectResumes
  <1>9. KnownHeld' /\ KnownParents' /\ UnusedPending' /\ KnownRunning'
    BY <1>3, SamePromises, SameParents
    DEF TInv, Created, UnusedPending, KnownRunning
  <1> QED
    BY <1>4, <1>5, <1>8, <1>9 DEF TInv, Created

LEMMA RunTaskTypes ==
  ASSUME TInv, RunTask
  PROVE  TInv'
  <1>1. /\ ready \in Seq(ReadyTasks) /\ ready # <<>> /\ ready' = Tail(ready)
        /\ Tail(ready) \in Seq(ReadyTasks)
        /\ 1 \in DOMAIN ready /\ Head(ready) = ready[1]
        /\ \A k \in DOMAIN Tail(ready) : k + 1 \in DOMAIN ready /\ Tail(ready)[k] = ready[k + 1]
    BY DEF TInv, TypeOK, QueueTypes, RunTask
  <1>2. Head(ready).output \in Cells /\ kind[Head(ready).output] # "unused"
    BY <1>1, ReadyParts DEF TInv, TypeOK, Created, KnownReady
  <1>3. UNCHANGED <<kind, status, waiters, work, slab, inbox, promise, held>> /\ Grows
    BY DEF RunTask, hostVars, Grows
  <1>4. KnownReady'
    BY <1>1, <1>3 DEF TInv, Created, KnownReady
  <1>5. CellTypes' /\ QueueTypes'
    BY <1>1, <1>3 DEF TInv, TypeOK, CellTypes, QueueTypes, RunTask
  <1>6. PumpTypes'
    BY <1>2 DEF TInv, TypeOK, PumpTypes, RunTask
  <1>7. TypeOK'
    BY <1>5, <1>6, SameHosts, SameGathers DEF TInv, TypeOK, RunTask
  <1>8. KnownRunning'
    BY <1>2, <1>3 DEF KnownRunning, RunTask
  <1>9. GoodSlab(slab)' /\ KnownParked' /\ KnownHeld' /\ KnownParents' /\ UnusedPending'
    BY <1>3, SameSlab, SamePromises, SameParents DEF TInv, Created, UnusedPending
  <1> QED
    BY <1>4, <1>7, <1>8, <1>9 DEF TInv, Created

\* The waiter settle notifies next, and those that remain.
LEMMA NextWaiter ==
  ASSUME TInv, work # <<>>
  PROVE  /\ Head(work) \in Notifications
         /\ Head(work).waiter \in Waiters /\ Head(work).from \in Cells
         /\ KnownWaiter(Head(work).waiter)
         /\ Tail(work) \in Seq(Notifications)
         /\ \A k \in DOMAIN Tail(work) : KnownWaiter(Tail(work)[k].waiter)
  <1>1. /\ work \in Seq(Notifications)
        /\ Head(work) \in Notifications /\ Tail(work) \in Seq(Notifications)
        /\ 1 \in DOMAIN work /\ Head(work) = work[1]
        /\ \A k \in DOMAIN Tail(work) : k + 1 \in DOMAIN work /\ Tail(work)[k] = work[k + 1]
    BY DEF TInv, TypeOK, CellTypes
  <1>2. Head(work).waiter \in Waiters /\ Head(work).from \in Cells
    BY <1>1 DEF Notifications
  <1>3. \A k \in DOMAIN work : KnownWaiter(work[k].waiter)
    BY DEF TInv, Created, KnownParents
  <1> QED
    BY <1>1, <1>2, <1>3

LEMMA NotifyAwaiterTypes ==
  ASSUME TInv, NotifyAwaiter
  PROVE  TInv'
  <1>1. work # <<>>
    BY DEF NotifyAwaiter
  <1>2. Head(work).waiter \in ResumeWaiters
    <2>1. Head(work).waiter \in Waiters
      BY <1>1, NextWaiter
    <2>2. IsResume(Head(work).waiter)
      BY DEF NotifyAwaiter
    <2>3. \A w \in GatherWaiters : ~IsResume(w)
      BY DEF GatherWaiters, IsResume
    <2> QED
      BY <2>1, <2>2, <2>3 DEF Waiters
  <1>3. Head(work).waiter.token \in Tokens
    BY <1>2 DEF ResumeWaiters
  <1>4. Tail(work) \in Seq(Notifications)
    BY <1>1, NextWaiter
  <1>5. UNCHANGED <<kind, status, waiters, unobserved, ready, slab, promise, held, pc, running>>
        /\ work' = Tail(work) /\ Grows
    BY DEF NotifyAwaiter, hostVars, pumpVars, Grows
  <1>6. CellTypes' /\ QueueTypes'
    BY <1>3, <1>4, <1>5 DEF TInv, TypeOK, CellTypes, QueueTypes, NotifyAwaiter
  <1>7. TypeOK'
    BY <1>6, SameHosts, SameGathers, SamePump DEF TInv, TypeOK, NotifyAwaiter
  <1>8. KnownParents'
    <2>1. \A k \in DOMAIN Tail(work) : KnownWaiter(Tail(work)[k].waiter)
      BY <1>1, NextWaiter
    <2> QED
      BY <1>5, <2>1 DEF TInv, Created, KnownParents, KnownWaiter
  <1> QED
    BY <1>5, <1>7, <1>8, SameRest

LEMMA GatherOneTypes ==
  ASSUME TInv, GatherOne
  PROVE  TInv'
  <1> DEFINE child == Head(work).from
             w == Head(work).waiter
             p == w.parent
             i == w.index
             verdict == IF failed'[p] = None THEN "resolved" ELSE "rejected"
             rest == Tail(work)
  <1>1. work # <<>> /\ ~IsResume(w)
    BY DEF GatherOne
  <1>2. /\ w \in Waiters /\ child \in Cells /\ KnownWaiter(w)
        /\ rest \in Seq(Notifications)
        /\ \A k \in DOMAIN rest : KnownWaiter(rest[k].waiter)
    BY <1>1, NextWaiter
  <1>3. w \in GatherWaiters
    BY <1>1, <1>2 DEF Waiters, ResumeWaiters, IsResume
  <1>4. p \in Cells /\ i \in Nat \ {0} /\ kind[p] # "unused"
    BY <1>2, <1>3 DEF GatherWaiters, KnownWaiter
  <1>5. verdict \in Outcomes
    BY DEF Outcomes
  <1>6. GatherTypes'
    <2>1. failed' \in [Cells -> Cells \cup {None}]
      BY <1>2, <1>4 DEF TInv, TypeOK, GatherTypes, GatherOne
    <2>2. left' \in [Cells -> Nat]
      BY <1>4 DEF TInv, TypeOK, GatherTypes, GatherOne
    <2>3. results' \in [Cells -> Seq(Cells \cup {None})]
      <3>1. \A r \in Seq(Cells \cup {None}) : [r EXCEPT ![i] = child] \in Seq(Cells \cup {None})
        <4> TAKE r \in Seq(Cells \cup {None})
        <4>1. r \in [1..Len(r) -> Cells \cup {None}] /\ Len(r) \in Nat
          OBVIOUS
        <4> HIDE DEF child, i
        <4>2. [r EXCEPT ![i] = child] \in [1..Len(r) -> Cells \cup {None}]
          BY <1>2, <4>1
        <4> QED
          BY <4>1, <4>2, SeqDef
      <3>2. results \in [Cells -> Seq(Cells \cup {None})]
        BY DEF TInv, TypeOK, GatherTypes
      <3>3. results' = results \/ results' = [results EXCEPT ![p] = [@ EXCEPT ![i] = child]]
        BY DEF GatherOne
      <3> HIDE DEF child, p, i
      <3> QED
        BY <1>4, <3>1, <3>2, <3>3
    <2> QED
      BY <2>1, <2>2, <2>3 DEF TInv, TypeOK, GatherTypes, GatherOne
  <1>7. /\ CellTypes /\ kind' = kind /\ Grows
        /\ UNCHANGED <<slab, ready, promise, held, pc, running>>
    BY DEF TInv, TypeOK, GatherOne, hostVars, queueVars, pumpVars, Grows
  <1>8. CASE left'[p] = 0
    <2>1. Settle(p, verdict, {child}, rest)
      BY <1>8 DEF GatherOne
    <2> HIDE DEF child, p, verdict, rest
    <2>2. CellTypes'
      BY <1>2, <1>4, <1>5, <1>7, <2>1, SettleType DEF CellTypes
    <2>3. TypeOK'
      BY <1>6, <2>2, SameHosts, SameQueues, SamePump DEF TInv, TypeOK, GatherOne
    <2>4. KnownParents'
      BY <1>2, <1>4, <1>5, <1>7, <2>1, SettleParents
    <2>5. \A d \in Cells : d # p => status'[d] = status[d]
      BY <1>7, <2>1 DEF Settle, CellTypes
    <2> QED
      BY <1>4, <1>7, <2>3, <2>4, <2>5, SameRest
  <1>9. CASE left'[p] # 0
    <2>1. /\ work' = rest /\ unobserved' = unobserved \ {child}
          /\ UNCHANGED <<status, waiters>>
      BY <1>9 DEF GatherOne
    <2> HIDE DEF child, p, verdict, rest
    <2>2. CellTypes'
      BY <1>2, <1>7, <2>1 DEF CellTypes
    <2>3. TypeOK'
      BY <1>6, <2>2, SameHosts, SameQueues, SamePump DEF TInv, TypeOK, GatherOne
    <2>4. KnownParents'
      BY <1>2, <1>7, <2>1 DEF TInv, Created, KnownParents, KnownWaiter
    <2> QED
      BY <1>7, <2>1, <2>3, <2>4, SameRest
  <1> QED
    BY <1>8, <1>9

LEMMA HostCompleteTypes ==
  ASSUME TInv, NEW c \in Cells, NEW outcome \in Outcomes, HostComplete(c, outcome)
  PROVE  TInv'
  <1>1. /\ promise' \in [Cells -> {"none", "pending"} \cup Outcomes]
        /\ hostQ' \in Seq(Cells) /\ held' = held
    BY DEF TInv, TypeOK, HostTypes, HostComplete
  <1>2. news' \in BOOLEAN
    BY DEF HostComplete
  <1>3. TypeOK'
    BY <1>1, <1>2, SameCells, SameGathers, SameQueues, SamePump
    DEF TInv, TypeOK, HostTypes, HostComplete
  <1>4. UNCHANGED <<kind, status, waiters, work, slab, ready, pc, running>> /\ Grows
    BY DEF HostComplete, cellVars, queueVars, pumpVars, Grows
  <1>5. KnownHeld'
    BY <1>4 DEF TInv, TypeOK, HostTypes, Created, KnownHeld, HostComplete, Outcomes
  <1>6. /\ GoodSlab(slab)' /\ KnownParked' /\ KnownReady' /\ KnownParents'
        /\ UnusedPending' /\ KnownRunning'
    BY <1>4, SameSlab, SameReady, SameParents DEF TInv, Created, UnusedPending, KnownRunning
  <1> QED
    BY <1>3, <1>5, <1>6 DEF TInv, Created

LEMMA StutterTypes ==
  ASSUME TInv, UNCHANGED vars
  PROVE  TInv'
  <1>1. UNCHANGED <<cellVars, hostVars, gatherVars, queueVars, pumpVars>>
    BY DEF vars
  <1>2. TypeOK'
    BY <1>1, SameCells, SameHosts, SameGathers, SameQueues, SamePump DEF TInv, TypeOK
  <1> QED
    BY <1>1, <1>2, SameRest, SameParents
    DEF Grows, cellVars, hostVars, queueVars, pumpVars

LEMMA TypesKept == TInv /\ [Next]_vars => TInv'
  <1> SUFFICES ASSUME TInv, [Next]_vars PROVE TInv'
    OBVIOUS
  <1>1. CASE UserCode
    <2>1. ASSUME NEW c \in Cells, Spawn(c) PROVE TInv'
      BY <2>1, SpawnTypes
    <2>2. ASSUME NEW c \in Cells, Cancel(c) PROVE TInv'
      BY <2>2, CancelTypes
    <2>3. ASSUME NEW c \in Cells, AwaitSettled(c) PROVE TInv'
      BY <2>3, AwaitSettledTypes
    <2>4. ASSUME NEW c \in Cells, TaskAwait(c) PROVE TInv'
      BY <2>4, TaskAwaitTypes
    <2>5. ASSUME NEW c \in Cells, NEW o \in Outcomes, BornSettled(c, o) PROVE TInv'
      BY <2>5, BornSettledTypes
    <2>6. ASSUME NEW c \in Cells, NEW s \in {"pending"} \cup Outcomes, FromHost(c, s)
          PROVE  TInv'
      BY <2>6, FromHostTypes
    <2>7. ASSUME NEW p \in Cells, NEW children \in Children, Parallel(p, children)
          PROVE  TInv'
      BY <2>7, ParallelTypes
    <2>8. ASSUME NEW o \in Outcomes, Finish(o) PROVE TInv'
      BY <2>8, FinishTypes
    <2>9. CASE TaskYield
      BY <2>9, TaskYieldTypes
    <2> QED
      BY <1>1, <2>1, <2>2, <2>3, <2>4, <2>5, <2>6, <2>7, <2>8, <2>9 DEF UserCode
  <1>2. CASE EntryPoint
    BY <1>2, MainAwaitTypes, CallMainTypes, MainEndTypes DEF EntryPoint
  <1>3. CASE Pump
    BY <1>3, NotifyAwaiterTypes, GatherOneTypes, PumpReturnTypes, PumpTopTypes,
       DrainHostsTypes, CompleteHostTypes, HostsDoneTypes, CollectStaleTypes,
       CollectReparksTypes, CollectResumesTypes, CollectDoneTypes, RunTaskTypes,
       GoToSleepTypes, WakeUpTypes DEF Pump
  <1>4. CASE HostThreads
    BY <1>4, HostCompleteTypes DEF HostThreads
  <1>5. CASE UNCHANGED vars
    BY <1>5, StutterTypes
  <1> QED
    BY <1>1, <1>2, <1>3, <1>4, <1>5 DEF Next, VmThread

LEMMA TypesAlways == Spec => []TInv
  BY InitTypes, TypesKept, PTL DEF Spec

\* Every variable keeps its type, whatever the program does with its handles
\* and whenever host threads complete their promises.
THEOREM TypeCorrect == Spec => []TypeOK
  <1>1. TInv => TypeOK
    BY DEF TInv
  <1> QED
    BY <1>1, TypesAlways, PTL

-----------------------------------------------------------------------------
(***************************************************************************)
(* Outcomes are final                                                      *)
(***************************************************************************)
SettledStay ==
    \A c \in Cells : status[c] # "pending" =>
        status'[c] = status[c] /\ waiters'[c] = waiters[c]

LEMMA QuietStay ==
  ASSUME UNCHANGED <<status, waiters>>
  PROVE  SettledStay
  BY DEF SettledStay

LEMMA SettleStays ==
  ASSUME TInv, NEW c \in Cells, NEW outcome \in Outcomes, NEW seen, NEW rest,
         Settle(c, outcome, seen, rest)
  PROVE  SettledStay
  BY SettleOnce DEF SettledStay, TInv, TypeOK

\* A waiter is only added to a cell that is pending.
LEMMA WatchStays ==
  ASSUME TInv, NEW c \in Cells, status[c] = "pending", status' = status, NEW w,
         waiters' = [waiters EXCEPT ![c] = w]
  PROVE  SettledStay
  BY DEF SettledStay, TInv, TypeOK, CellTypes

LEMMA ParallelStays ==
  ASSUME TInv, NEW p \in Cells, NEW children, Parallel(p, children)
  PROVE  SettledStay
  <1>1. status[p] = "pending"
    BY DEF Parallel, Creates, TInv, Created, UnusedPending
  <1>2. \A c \in Cells : c # p => status'[c] = status[c]
    BY DEF Parallel, TInv, TypeOK, CellTypes
  <1>3. \A c \in Cells : status[c] # "pending" => waiters'[c] = waiters[c]
    BY DEF Parallel
  <1> QED
    BY <1>1, <1>2, <1>3 DEF SettledStay

LEMMA UserCodeStays ==
  ASSUME TInv, UserCode
  PROVE  SettledStay
  <1>1. ASSUME NEW c \in Cells, Spawn(c) \/ AwaitSettled(c) PROVE SettledStay
    BY <1>1, QuietStay DEF Spawn, AwaitSettled
  <1>2. ASSUME NEW c \in Cells, Cancel(c) PROVE SettledStay
    BY <1>2, SettleStays DEF Cancel, Outcomes
  <1>3. ASSUME NEW c \in Cells, TaskAwait(c) PROVE SettledStay
    BY <1>3, WatchStays DEF TaskAwait, Park, Watch, Pending
  <1>4. ASSUME NEW c \in Cells, NEW o \in Outcomes, BornSettled(c, o) PROVE SettledStay
    BY <1>4, SettleStays DEF BornSettled
  <1>5. ASSUME NEW c \in Cells, NEW s, FromHost(c, s) PROVE SettledStay
    BY <1>5, QuietStay DEF FromHost
  <1>6. ASSUME NEW p \in Cells, NEW children, Parallel(p, children) PROVE SettledStay
    BY <1>6, ParallelStays
  <1>7. ASSUME NEW o \in Outcomes, Finish(o) PROVE SettledStay
    <2>1. running \in Cells
      BY <1>7 DEF TInv, Created, KnownRunning, Finish
    <2> QED
      BY <1>7, <2>1, SettleStays DEF Finish
  <1>8. CASE TaskYield
    BY <1>8, QuietStay DEF TaskYield, cellVars
  <1> QED
    BY <1>1, <1>2, <1>3, <1>4, <1>5, <1>6, <1>7, <1>8 DEF UserCode

LEMMA PumpStays ==
  ASSUME TInv, Pump
  PROVE  SettledStay
  <1>1. CASE \/ NotifyAwaiter \/ PumpReturn \/ PumpTop \/ DrainHosts \/ HostsDone
             \/ CollectStale \/ CollectResumes \/ CollectDone \/ RunTask
             \/ GoToSleep \/ WakeUp
    <2>1. UNCHANGED <<status, waiters>>
      BY <1>1 DEF NotifyAwaiter, PumpReturn, PumpTop, DrainHosts, HostsDone,
         CollectStale, CollectResumes, CollectDone, RunTask, GoToSleep, WakeUp, cellVars
    <2> QED
      BY <2>1, QuietStay
  <1>2. CASE GatherOne
    <2> DEFINE p == Head(work).waiter.parent
               verdict == IF failed'[p] = None THEN "resolved" ELSE "rejected"
    <2>1. Head(work).waiter \in Waiters /\ ~IsResume(Head(work).waiter)
      BY <1>2, NextWaiter DEF GatherOne
    <2>2. p \in Cells
      BY <2>1 DEF Waiters, ResumeWaiters, GatherWaiters, IsResume
    <2>3. verdict \in Outcomes
      BY DEF Outcomes
    <2>4. \/ Settle(p, verdict, {Head(work).from}, Tail(work))
          \/ UNCHANGED <<status, waiters>>
      BY <1>2 DEF GatherOne
    <2> HIDE DEF p, verdict
    <2> QED
      BY <2>2, <2>3, <2>4, SettleStays, QuietStay
  <1>3. CASE CompleteHost
    <2> DEFINE c == Head(batch)
    <2>1. c \in Cells
      BY <1>3 DEF TInv, TypeOK, PumpTypes, CompleteHost
    <2>2. c \in held /\ promise[c] # "pending" => promise[c] \in Outcomes
      BY <2>1 DEF TInv, TypeOK, HostTypes, Created, KnownHeld
    <2>3. \/ c \in held /\ promise[c] # "pending" /\ Settle(c, promise[c], {}, <<>>)
          \/ UNCHANGED <<status, waiters>>
      BY <1>3 DEF CompleteHost
    <2> HIDE DEF c
    <2> QED
      BY <2>1, <2>2, <2>3, SettleStays, QuietStay
  <1>4. CASE CollectReparks
    <2> DEFINE parked == slab.cells[Head(inbox).slot]
    <2>1. parked.on \in Cells
      BY <1>4, HeldSlot DEF CollectReparks
    <2>2. /\ status[parked.on] = "pending" /\ status' = status
          /\ waiters' = [waiters EXCEPT ![parked.on] =
                Append(@, [token |-> NextToken(Release(slab, Head(inbox).slot))])]
      BY <1>4 DEF CollectReparks
    <2> HIDE DEF parked
    <2> QED
      BY <2>1, <2>2, WatchStays
  <1> QED
    BY <1>1, <1>2, <1>3, <1>4 DEF Pump

\* A handle settles once: nothing that happens to it afterwards, neither a
\* cancel, a late completion of its promise nor the last child of a parallel,
\* changes its outcome.
THEOREM OutcomeFinal == Spec => OutcomeIsFinal
  <1>1. TInv /\ [Next]_vars => SettledStay
    <2> SUFFICES ASSUME TInv, [Next]_vars PROVE SettledStay
      OBVIOUS
    <2>1. CASE UserCode
      BY <2>1, UserCodeStays
    <2>2. CASE EntryPoint
      BY <2>2, QuietStay DEF EntryPoint, MainAwait, CallMain, MainEnd, cellVars
    <2>3. CASE Pump
      BY <2>3, PumpStays
    <2>4. CASE HostThreads
      BY <2>4, QuietStay DEF HostThreads, HostComplete, cellVars
    <2>5. CASE UNCHANGED vars
      BY <2>5, QuietStay DEF vars, cellVars
    <2> QED
      BY <2>1, <2>2, <2>3, <2>4, <2>5 DEF Next, VmThread
  <1>2. TInv /\ [Next]_vars =>
          [\A c \in Cells : status[c] # "pending" =>
              /\ status'[c] = status[c]
              /\ waiters'[c] = waiters[c]]_vars
    BY <1>1 DEF SettledStay
  <1>3. Spec => [][Next]_vars
    BY PTL DEF Spec
  <1> QED
    BY <1>2, <1>3, TypesAlways, PTL DEF OutcomeIsFinal

-----------------------------------------------------------------------------
(***************************************************************************)
(* No wake-up of a parked task is lost                                     *)
(***************************************************************************)
\* The token k will reach, or has reached, the inbox once c has settled.
Due(c, k) ==
    IF status[c] = "pending"
    THEN \E j \in DOMAIN waiters[c] : waiters[c][j] = [token |-> k]
    ELSE Delivered(k)

\* A step loses no token, except those of `dead`.
KeepsDue(dead) ==
    \A c \in Cells : \A k :
        kind[c] # "unused" /\ k \notin dead /\ Due(c, k) => Due(c, k)'

\* A step that settles no created cell, takes no waiter away, leaves settle's
\* work alone, and takes only dead tokens out of the inbox.
LEMMA PassDue ==
  ASSUME NEW dead, work' = work,
         \A c \in Cells : kind[c] # "unused" => status'[c] = status[c],
         \A c \in Cells : \A j \in DOMAIN waiters[c] :
            j \in DOMAIN waiters'[c] /\ waiters'[c][j] = waiters[c][j],
         \A m \in DOMAIN inbox : inbox[m] \notin dead =>
            \E n \in DOMAIN inbox' : inbox'[n] = inbox[m]
  PROVE  KeepsDue(dead)
  <1> SUFFICES ASSUME NEW c \in Cells, NEW k, kind[c] # "unused", k \notin dead, Due(c, k)
               PROVE  Due(c, k)'
    BY DEF KeepsDue
  <1>1. status'[c] = status[c]
    OBVIOUS
  <1>2. CASE status[c] = "pending"
    <2>1. PICK j \in DOMAIN waiters[c] : waiters[c][j] = [token |-> k]
      BY <1>2 DEF Due
    <2>2. j \in DOMAIN waiters'[c] /\ waiters'[c][j] = [token |-> k]
      BY <2>1
    <2> QED
      BY <1>1, <1>2, <2>2 DEF Due
  <1>3. CASE status[c] # "pending"
    <2>1. Delivered(k)
      BY <1>3 DEF Due
    <2>2. Delivered(k)'
      BY <2>1 DEF Delivered
    <2> QED
      BY <1>1, <1>3, <2>2 DEF Due
  <1> QED
    BY <1>2, <1>3

\* settle hands the waiters of the cell on.
LEMMA SettleDue ==
  ASSUME CellTypes, NEW c \in Cells, NEW outcome \in Outcomes, NEW seen,
         NEW rest \in Seq(Notifications), Settle(c, outcome, seen, rest), inbox' = inbox,
         \A m \in DOMAIN work : IsResume(work[m].waiter) =>
            \E n \in DOMAIN rest : rest[n].waiter = work[m].waiter
  PROVE  KeepsDue({})
  <1> SUFFICES ASSUME NEW d \in Cells, NEW k, Due(d, k)
               PROVE  Due(d, k)'
    BY DEF KeepsDue
  <1> DEFINE js == Jobs(c)
             w == [token |-> k]
  <1>1. /\ js \in Seq(Notifications) /\ Len(js) = Len(waiters[c])
        /\ DOMAIN js = 1..Len(js) /\ DOMAIN rest = 1..Len(rest)
        /\ Len(js) \in Nat /\ Len(rest) \in Nat
        /\ DOMAIN waiters[c] = 1..Len(waiters[c])
    BY JobsType DEF CellTypes
  <1>2. work' = rest \/ work' = js \o rest
    BY DEF Settle
  <1>3. \A n \in DOMAIN rest : \E m \in DOMAIN work' : work'[m] = rest[n]
    <2> SUFFICES ASSUME NEW n \in DOMAIN rest
                 PROVE  \E m \in DOMAIN work' : work'[m] = rest[n]
      OBVIOUS
    <2>1. CASE work' = rest
      BY <2>1
    <2>2. CASE work' = js \o rest
      <3> HIDE DEF js
      <3>1. Len(js) + n \in DOMAIN work' /\ work'[Len(js) + n] = rest[n]
        BY <1>1, <2>2
      <3> QED
        BY <3>1
    <2> QED
      BY <1>2, <2>1, <2>2
  <1>4. Delivered(k) => Delivered(k)'
    <2>1. IsResume(w)
      BY DEF IsResume
    <2>2. ASSUME NEW m \in DOMAIN work, work[m].waiter = w
          PROVE  Delivered(k)'
      <3>1. PICK n \in DOMAIN rest : rest[n].waiter = w
        BY <2>1, <2>2
      <3>2. PICK l \in DOMAIN work' : work'[l] = rest[n]
        BY <1>3
      <3>3. work'[l].waiter = w
        BY <3>1, <3>2
      <3> QED
        BY <3>3 DEF Delivered
    <2> QED
      BY <2>2 DEF Delivered
  <1>5. CASE d = c /\ status[c] = "pending"
    <2>1. PICK j \in DOMAIN waiters[c] : waiters[c][j] = w
      BY <1>5 DEF Due
    <2>2. js[j] = [waiter |-> waiters[c][j], from |-> c]
      BY <1>1, JobsType
    <2>3. js[j].waiter = w
      BY <2>1, <2>2, JobParts
    <2>4. work' = js \o rest /\ status'[c] # "pending"
      BY <1>5 DEF Settle, CellTypes, Outcomes
    <2>5. j \in DOMAIN work' /\ work'[j] = js[j]
      <3> HIDE DEF js
      <3> QED
        BY <1>1, <2>4
    <2>6. work'[j].waiter = w
      BY <2>3, <2>5
    <2>7. Delivered(k)'
      BY <2>5, <2>6 DEF Delivered
    <2> QED
      BY <1>5, <2>4, <2>7 DEF Due
  <1>6. CASE ~(d = c /\ status[c] = "pending")
    <2>1. status'[d] = status[d] /\ waiters'[d] = waiters[d]
      BY <1>6 DEF Settle, CellTypes
    <2> QED
      BY <1>4, <2>1 DEF Due
  <1> QED
    BY <1>5, <1>6

\* Every task still parked was parked before, under a token that is not dead,
\* or is watched by the cell it awaits.
LEMMA StillWatched ==
  ASSUME TInv, ParkedIsWatched, NEW dead, KeepsDue(dead),
         \A i \in Occupied(slab') :
            \/ /\ i \in Occupied(slab) /\ slab'.cells[i] = slab.cells[i]
               /\ TokenOf(i) \notin dead
            \/ /\ status'[slab'.cells[i].on] = "pending"
               /\ \E j \in DOMAIN waiters'[slab'.cells[i].on] :
                     waiters'[slab'.cells[i].on][j] =
                        [token |-> [slot |-> i, gen |-> slab'.cells[i].gen]]
  PROVE  ParkedIsWatched'
  <1> SUFFICES ASSUME NEW i \in Occupied(slab'), NEW c, c = slab'.cells[i].on,
                      NEW k, k = [slot |-> i, gen |-> slab'.cells[i].gen]
               PROVE  Due(c, k)'
    BY DEF ParkedIsWatched, TokenOf, Due, Occupied
  <1>1. CASE /\ i \in Occupied(slab) /\ slab'.cells[i] = slab.cells[i]
             /\ TokenOf(i) \notin dead
    <2>1. c = slab.cells[i].on /\ k = TokenOf(i)
      BY <1>1 DEF TokenOf
    <2>2. c \in Cells /\ kind[c] # "unused"
      BY <1>1, <2>1, SlotParts DEF TInv, Created, KnownParked
    <2>3. Due(c, k) /\ k \notin dead
      BY <1>1, <2>1 DEF ParkedIsWatched, Due
    <2> QED
      BY <2>2, <2>3 DEF KeepsDue
  <1>2. CASE /\ status'[c] = "pending"
             /\ \E j \in DOMAIN waiters'[c] : waiters'[c][j] = [token |-> k]
    BY <1>2 DEF Due
  <1> QED
    BY <1>1, <1>2

LEMMA QuietWatched ==
  ASSUME TInv, ParkedIsWatched, UNCHANGED <<slab, status, waiters, work, inbox>>
  PROVE  ParkedIsWatched'
  BY DEF ParkedIsWatched, TokenOf, Delivered, Occupied

\* Settling, with no other work about.
LEMMA SettleWatched ==
  ASSUME TInv, ParkedIsWatched, work = <<>>, NEW c \in Cells, NEW outcome \in Outcomes,
         NEW seen, Settle(c, outcome, seen, <<>>), UNCHANGED <<slab, inbox>>
  PROVE  ParkedIsWatched'
  <1>1. <<>> \in Seq(Notifications) /\ DOMAIN work = {}
    OBVIOUS
  <1>2. KeepsDue({})
    BY <1>1, SettleDue DEF TInv, TypeOK
  <1> QED
    BY <1>2, StillWatched

\* Parking t on the pending cell c, in a slab s that has moved no other task.
LEMMA ParkWatched ==
  ASSUME TInv, ParkedIsWatched, NEW s, GoodSlab(s), ParkedIn(s, slab),
         NEW t \in Cells, NEW c \in Cells, status[c] = "pending",
         slab' = Insert(s, t, c), UNCHANGED <<status, work>>,
         waiters' = [waiters EXCEPT ![c] = Append(@, [token |-> NextToken(s)])],
         NEW dead, \A i \in Occupied(s) : TokenOf(i) \notin dead,
         \A m \in DOMAIN inbox : inbox[m] \notin dead =>
            \E n \in DOMAIN inbox' : inbox'[n] = inbox[m]
  PROVE  ParkedIsWatched'
  <1> DEFINE r == Insert(s, t, c)
             token == NextToken(s)
  <1>1. /\ token \in Tokens
        /\ \A i \in Occupied(r) :
              \/ i = token.slot /\ r.cells[i] = [gen |-> token.gen, out |-> t, on |-> c]
              \/ i \in Occupied(s) /\ r.cells[i] = s.cells[i]
    BY InsertKeeps
  <1>2. token = [slot |-> token.slot, gen |-> token.gen]
    BY <1>1 DEF Tokens
  <1>3. waiters \in [Cells -> Seq(Waiters)]
    BY DEF TInv, TypeOK, CellTypes
  <1>4. waiters[c] \in Seq(Waiters) /\ waiters'[c] = Append(waiters[c], [token |-> token])
    BY <1>3
  <1>5. \A d \in Cells : d # c => waiters'[d] = waiters[d]
    BY <1>3
  <1> HIDE DEF r, token
  <1>6. /\ Len(waiters[c]) + 1 \in DOMAIN waiters'[c]
        /\ waiters'[c][Len(waiters[c]) + 1] = [token |-> token]
        /\ \A j \in DOMAIN waiters[c] :
              j \in DOMAIN waiters'[c] /\ waiters'[c][j] = waiters[c][j]
    BY <1>4
  <1>7. \A d \in Cells : \A j \in DOMAIN waiters[d] :
           j \in DOMAIN waiters'[d] /\ waiters'[d][j] = waiters[d][j]
    BY <1>5, <1>6
  <1>8. KeepsDue(dead)
    BY <1>7, PassDue
  <1>9. ASSUME NEW i \in Occupied(slab')
        PROVE  \/ /\ i \in Occupied(slab) /\ slab'.cells[i] = slab.cells[i]
                  /\ TokenOf(i) \notin dead
               \/ /\ status'[slab'.cells[i].on] = "pending"
                  /\ \E j \in DOMAIN waiters'[slab'.cells[i].on] :
                        waiters'[slab'.cells[i].on][j] =
                           [token |-> [slot |-> i, gen |-> slab'.cells[i].gen]]
    <2>1. slab' = r /\ i \in Occupied(r)
      BY DEF r
    <2>2. CASE i = token.slot /\ r.cells[i] = [gen |-> token.gen, out |-> t, on |-> c]
      <3>1. r.cells[i].on = c /\ r.cells[i].gen = token.gen
        BY <2>2
      <3>2. token = [slot |-> i, gen |-> r.cells[i].gen]
        BY <1>2, <2>2, <3>1
      <3> QED
        BY <1>6, <2>1, <3>1, <3>2
    <2>3. CASE i \in Occupied(s) /\ r.cells[i] = s.cells[i]
      BY <2>1, <2>3 DEF ParkedIn
    <2> QED
      BY <1>1, <2>1, <2>2, <2>3
  <1> QED
    BY <1>8, <1>9, StillWatched

LEMMA TaskAwaitWatched ==
  ASSUME TInv, ParkedIsWatched, NEW c \in Cells, TaskAwait(c)
  PROVE  ParkedIsWatched'
  <1>1. /\ running \in Cells /\ GoodSlab(slab) /\ status[c] = "pending"
        /\ ParkedIn(slab, slab)
    BY DEF TInv, Created, KnownRunning, TaskAwait, Pending, ParkedIn
  <1>2. /\ slab' = Insert(slab, running, c) /\ inbox' = inbox
        /\ waiters' = [waiters EXCEPT ![c] = Append(@, [token |-> NextToken(slab)])]
        /\ UNCHANGED <<status, work>>
    BY <1>1 DEF TaskAwait, Park, Watch
  <1> DEFINE dead == {}
  <1>3. /\ \A i \in Occupied(slab) : TokenOf(i) \notin dead
        /\ \A m \in DOMAIN inbox : inbox[m] \notin dead =>
              \E n \in DOMAIN inbox' : inbox'[n] = inbox[m]
    BY <1>2
  <1> HIDE DEF dead
  <1> QED
    BY <1>1, <1>2, <1>3, ParkWatched

\* The cells a parallel is created over keep their waiters, and its own cell is
\* not yet awaited.
LEMMA ParallelWatched ==
  ASSUME TInv, ParkedIsWatched, NEW p \in Cells, NEW children \in Children,
         Parallel(p, children)
  PROVE  ParkedIsWatched'
  <1> DEFINE added(c) == SetToSeq({[parent |-> p, index |-> i] :
                                     i \in {j \in DOMAIN children : children[j] = c}})
  <1>1. /\ UNCHANGED <<slab, inbox, work>> /\ kind[p] = "unused"
        /\ \A c \in Cells : c # p => status'[c] = status[c]
    BY DEF Parallel, Creates, queueVars, TInv, TypeOK, CellTypes
  <1>2. \A c \in Cells : /\ waiters[c] \in Seq(Waiters)
                         /\ \/ waiters'[c] = waiters[c]
                            \/ waiters'[c] = waiters[c] \o added(c)
    BY DEF Parallel, TInv, TypeOK, CellTypes
  <1>3. waiters' \in [Cells -> Seq(Waiters)]
    BY ParallelTypes DEF TInv, TypeOK, CellTypes
  <1>4. ASSUME NEW c \in Cells, NEW j \in DOMAIN waiters[c]
        PROVE  j \in DOMAIN waiters'[c] /\ waiters'[c][j] = waiters[c][j]
    <2>1. \E n \in [Cells -> Seq(Waiters)] : n = waiters'
      BY <1>3
    <2>2. CASE waiters'[c] = waiters[c]
      BY <2>2
    <2>3. CASE waiters'[c] = waiters[c] \o added(c)
      <3>1. IsFiniteSet({j2 \in DOMAIN children : children[j2] = c})
        <4>1. PICK n \in 0..MaxParallel : children \in [1..n -> Known]
          BY DEF Children
        <4>2. IsFiniteSet(1..n) /\ DOMAIN children = 1..n
          BY <4>1, FS_Interval, MaxParallelAssumption
        <4> QED
          BY <4>2, FS_Subset
      <3>2. added(c) \in Seq({[parent |-> p, index |-> i] :
                                i \in {j2 \in DOMAIN children : children[j2] = c}})
        <4> DEFINE at == {j2 \in DOMAIN children : children[j2] = c}
                   ws == {[parent |-> p, index |-> i] : i \in at}
                   f == [i \in at |-> [parent |-> p, index |-> i]]
        <4>1. f \in Surjection(at, ws)
          BY DEF Surjection
        <4>2. IsFiniteSet(ws)
          BY <3>1, <4>1, FS_Surjection
        <4> QED
          BY <4>2, SetToSeqType
      <3> HIDE DEF added
      <3>3. Len(added(c)) \in Nat
        BY <3>2
      <3>4. DOMAIN waiters[c] = 1..Len(waiters[c]) /\ Len(waiters[c]) \in Nat
        BY <1>2
      <3> QED
        BY <1>2, <2>3, <3>2, <3>3, <3>4
    <2> QED
      BY <1>2, <2>2, <2>3
  <1>5. KeepsDue({})
    BY <1>1, <1>4, PassDue
  <1> QED
    BY <1>1, <1>5, StillWatched

\* settle's loop: a token goes from the work to the inbox.
LEMMA NotifyAwaiterWatched ==
  ASSUME TInv, ParkedIsWatched, NotifyAwaiter
  PROVE  ParkedIsWatched'
  <1>1. /\ work # <<>> /\ IsResume(Head(work).waiter)
        /\ inbox' = Append(inbox, Head(work).waiter.token) /\ work' = Tail(work)
        /\ UNCHANGED <<slab, status, waiters>>
    BY DEF NotifyAwaiter
  <1>2. /\ work \in Seq(Notifications) /\ inbox \in Seq(Tokens) /\ inbox' \in Seq(Tokens)
    BY NotifyAwaiterTypes DEF TInv, TypeOK, CellTypes, QueueTypes
  <1>3. \A k : Delivered(k) => Delivered(k)'
    <2> SUFFICES ASSUME NEW k, Delivered(k) PROVE Delivered(k)'
      OBVIOUS
    <2>1. \A m \in DOMAIN inbox : m \in DOMAIN inbox' /\ inbox'[m] = inbox[m]
      BY <1>1, <1>2
    <2>2. CASE \E m \in DOMAIN inbox : inbox[m] = k
      BY <2>1, <2>2 DEF Delivered
    <2>3. ASSUME NEW m \in DOMAIN work, work[m].waiter = [token |-> k]
          PROVE  Delivered(k)'
      <3>1. CASE m = 1
        <4>1. Head(work) = work[1]
          BY <1>1, <1>2
        <4>2. Head(work).waiter.token = k
          BY <2>3, <3>1, <4>1
        <4>3. Len(inbox) + 1 \in DOMAIN inbox' /\ inbox'[Len(inbox) + 1] = k
          BY <1>1, <1>2, <4>2
        <4> QED
          BY <4>3 DEF Delivered
      <3>2. CASE m # 1
        <4>1. m - 1 \in DOMAIN work' /\ work'[m - 1] = work[m]
          BY <1>1, <1>2, <3>2
        <4> QED
          BY <2>3, <4>1 DEF Delivered
      <3> QED
        BY <3>1, <3>2
    <2> QED
      BY <2>2, <2>3 DEF Delivered
  <1>4. KeepsDue({})
    BY <1>1, <1>3 DEF KeepsDue, Due
  <1> QED
    BY <1>1, <1>4, StillWatched

LEMMA GatherOneWatched ==
  ASSUME TInv, ParkedIsWatched, GatherOne
  PROVE  ParkedIsWatched'
  <1> DEFINE p == Head(work).waiter.parent
             verdict == IF failed'[p] = None THEN "resolved" ELSE "rejected"
             rest == Tail(work)
  <1>1. /\ work # <<>> /\ ~IsResume(Head(work).waiter) /\ UNCHANGED <<slab, inbox>>
    BY DEF GatherOne, queueVars
  <1>2. /\ Head(work).waiter \in Waiters /\ rest \in Seq(Notifications)
    BY <1>1, NextWaiter
  <1>3. p \in Cells /\ verdict \in Outcomes
    BY <1>1, <1>2 DEF Waiters, ResumeWaiters, GatherWaiters, IsResume, Outcomes
  <1>4. \A m \in DOMAIN work : IsResume(work[m].waiter) =>
           \E n \in DOMAIN rest : rest[n] = work[m]
    <2>1. work \in Seq(Notifications) /\ Head(work) = work[1]
      BY <1>1 DEF TInv, TypeOK, CellTypes
    <2> SUFFICES ASSUME NEW m \in DOMAIN work, IsResume(work[m].waiter)
                 PROVE  \E n \in DOMAIN rest : rest[n] = work[m]
      OBVIOUS
    <2>2. m # 1
      BY <1>1, <2>1
    <2>3. m - 1 \in DOMAIN rest /\ rest[m - 1] = work[m]
      BY <1>1, <2>1, <2>2
    <2> QED
      BY <2>3
  <1>5. KeepsDue({})
    <2>1. CASE Settle(p, verdict, {Head(work).from}, rest)
      <3> HIDE DEF p, verdict, rest
      <3> QED
        BY <1>1, <1>2, <1>3, <1>4, <2>1, SettleDue DEF TInv, TypeOK
    <2>2. CASE work' = rest /\ UNCHANGED <<status, waiters>>
      <3>1. \A k : Delivered(k) => Delivered(k)'
        <4> SUFFICES ASSUME NEW k, Delivered(k) PROVE Delivered(k)'
          OBVIOUS
        <4>1. IsResume([token |-> k])
          BY DEF IsResume
        <4>2. ASSUME NEW m \in DOMAIN work, work[m].waiter = [token |-> k]
              PROVE  Delivered(k)'
          <5>1. PICK n \in DOMAIN rest : rest[n] = work[m]
            BY <1>4, <4>1, <4>2
          <5> HIDE DEF rest
          <5> QED
            BY <2>2, <4>2, <5>1 DEF Delivered
        <4> QED
          BY <1>1, <4>2 DEF Delivered
      <3> QED
        BY <2>2, <3>1 DEF KeepsDue, Due
    <2> QED
      BY <2>1, <2>2 DEF GatherOne
  <1> QED
    BY <1>1, <1>5, StillWatched

LEMMA CompleteHostWatched ==
  ASSUME TInv, ParkedIsWatched, CompleteHost
  PROVE  ParkedIsWatched'
  <1> DEFINE c == Head(batch)
  <1>1. c \in Cells /\ work = <<>> /\ UNCHANGED <<slab, inbox>>
    BY DEF TInv, TypeOK, PumpTypes, CompleteHost, Pumping, queueVars
  <1>2. CASE c \in held /\ promise[c] # "pending"
    <2>1. promise[c] \in Outcomes /\ Settle(c, promise[c], {}, <<>>)
      BY <1>1, <1>2 DEF TInv, TypeOK, HostTypes, Created, KnownHeld, CompleteHost
    <2> HIDE DEF c
    <2> QED
      BY <1>1, <2>1, SettleWatched
  <1>3. CASE ~(c \in held /\ promise[c] # "pending")
    <2>1. UNCHANGED <<status, waiters, work>>
      BY <1>3 DEF CompleteHost
    <2> QED
      BY <1>1, <2>1, QuietWatched
  <1> QED
    BY <1>2, <1>3

\* The token collect_resumes consumes is dead: no other slot has it.
LEMMA Consumed ==
  ASSUME TInv, Collecting, inbox' = Tail(inbox)
  PROVE  /\ \A i \in Occupied(slab) : i # Head(inbox).slot => TokenOf(i) \notin {Head(inbox)}
         /\ \A i \in Occupied(slab) :
               ~Holds(slab, Head(inbox)) => TokenOf(i) \notin {Head(inbox)}
         /\ \A m \in DOMAIN inbox : inbox[m] \notin {Head(inbox)} =>
               \E n \in DOMAIN inbox' : inbox'[n] = inbox[m]
  <1>1. inbox \in Seq(Tokens) /\ inbox # <<>> /\ Head(inbox) = inbox[1]
    BY DEF TInv, TypeOK, QueueTypes, Collecting
  <1>2. \A m \in DOMAIN inbox : inbox[m] \notin {Head(inbox)} =>
           m - 1 \in DOMAIN inbox' /\ inbox'[m - 1] = inbox[m]
    BY <1>1
  <1>3. \A i \in Occupied(slab) : TokenOf(i) = Head(inbox) =>
           i = Head(inbox).slot /\ slab.cells[i].gen = Head(inbox).gen
    BY DEF TokenOf
  <1> QED
    BY <1>2, <1>3 DEF Holds

\* Taking a task out of the slot its token names, or dropping a stale token.
LEMMA ReleaseWatched ==
  ASSUME TInv, ParkedIsWatched, Collecting, inbox' = Tail(inbox),
         UNCHANGED <<status, waiters, work>>,
         \/ UNCHANGED slab /\ ~Holds(slab, Head(inbox))
         \/ Holds(slab, Head(inbox)) /\ slab' = Release(slab, Head(inbox).slot)
  PROVE  ParkedIsWatched'
  <1> DEFINE dead == {Head(inbox)}
  <1>1. KeepsDue(dead)
    <2>1. \A m \in DOMAIN inbox : inbox[m] \notin dead =>
             \E n \in DOMAIN inbox' : inbox'[n] = inbox[m]
      BY Consumed
    <2> HIDE DEF dead
    <2> QED
      BY <2>1, PassDue
  <1>2. \A i \in Occupied(slab') :
           /\ i \in Occupied(slab) /\ slab'.cells[i] = slab.cells[i]
           /\ TokenOf(i) \notin dead
    <2>1. CASE UNCHANGED slab /\ ~Holds(slab, Head(inbox))
      BY <2>1, Consumed
    <2>2. CASE Holds(slab, Head(inbox)) /\ slab' = Release(slab, Head(inbox).slot)
      <3> DEFINE i0 == Head(inbox).slot
      <3>1. ParkedIn(Release(slab, i0), slab) /\ i0 \notin Occupied(Release(slab, i0))
        BY <2>2, HeldSlot
      <3>2. ParkedIn(slab', slab) /\ i0 \notin Occupied(slab')
        BY <2>2, <3>1
      <3> QED
        BY <3>2, Consumed DEF ParkedIn
    <2> QED
      BY <2>1, <2>2
  <1> HIDE DEF dead
  <1> QED
    BY <1>1, <1>2, StillWatched

LEMMA CollectReparksWatched ==
  ASSUME TInv, ParkedIsWatched, CollectReparks
  PROVE  ParkedIsWatched'
  <1> DEFINE i == Head(inbox).slot
             parked == slab.cells[i]
             s == Release(slab, i)
             dead == {Head(inbox)}
  <1>1. /\ Collecting /\ Holds(slab, Head(inbox)) /\ inbox' = Tail(inbox)
        /\ status[parked.on] = "pending"
        /\ slab' = Insert(s, parked.out, parked.on) /\ UNCHANGED <<status, work>>
        /\ waiters' = [waiters EXCEPT ![parked.on] = Append(@, [token |-> NextToken(s)])]
    BY DEF CollectReparks
  <1>2. /\ parked.out \in Cells /\ parked.on \in Cells
        /\ GoodSlab(s) /\ ParkedIn(s, slab) /\ i \notin Occupied(s)
    BY <1>1, HeldSlot
  <1>3. /\ \A j \in Occupied(s) : TokenOf(j) \notin dead
        /\ \A m \in DOMAIN inbox : inbox[m] \notin dead =>
              \E n \in DOMAIN inbox' : inbox'[n] = inbox[m]
    BY <1>1, <1>2, Consumed DEF ParkedIn
  <1> HIDE DEF i, parked, s, dead
  <1> QED
    BY <1>1, <1>2, <1>3, ParkWatched

LEMMA WatchedKept == TInv /\ ParkedIsWatched /\ [Next]_vars => ParkedIsWatched'
  <1> SUFFICES ASSUME TInv, ParkedIsWatched, [Next]_vars PROVE ParkedIsWatched'
    OBVIOUS
  <1>1. CASE UserCode
    <2>1. ASSUME NEW c \in Cells, Spawn(c) \/ AwaitSettled(c) PROVE ParkedIsWatched'
      BY <2>1, QuietWatched DEF Spawn, AwaitSettled, queueVars
    <2>2. ASSUME NEW c \in Cells, Cancel(c) PROVE ParkedIsWatched'
      BY <2>2, SettleWatched DEF Cancel, InUserCode, Outcomes, queueVars
    <2>3. ASSUME NEW c \in Cells, TaskAwait(c) PROVE ParkedIsWatched'
      BY <2>3, TaskAwaitWatched
    <2>4. ASSUME NEW c \in Cells, NEW o \in Outcomes, BornSettled(c, o)
          PROVE  ParkedIsWatched'
      BY <2>4, SettleWatched DEF BornSettled, InUserCode, queueVars
    <2>5. ASSUME NEW c \in Cells, NEW s, FromHost(c, s) PROVE ParkedIsWatched'
      BY <2>5, QuietWatched DEF FromHost, queueVars
    <2>6. ASSUME NEW p \in Cells, NEW children \in Children, Parallel(p, children)
          PROVE  ParkedIsWatched'
      BY <2>6, ParallelWatched
    <2>7. ASSUME NEW o \in Outcomes, Finish(o) PROVE ParkedIsWatched'
      <3>1. running \in Cells
        BY <2>7 DEF TInv, Created, KnownRunning, Finish
      <3> QED
        BY <2>7, <3>1, SettleWatched DEF Finish, InUserCode, queueVars
    <2>8. CASE TaskYield
      BY <2>8, QuietWatched DEF TaskYield, cellVars
    <2> QED
      BY <1>1, <2>1, <2>2, <2>3, <2>4, <2>5, <2>6, <2>7, <2>8 DEF UserCode
  <1>2. CASE EntryPoint
    BY <1>2, QuietWatched DEF EntryPoint, MainAwait, CallMain, MainEnd, cellVars, queueVars
  <1>3. CASE Pump
    <2>1. CASE \/ PumpReturn \/ PumpTop \/ DrainHosts \/ HostsDone \/ CollectDone
               \/ RunTask \/ GoToSleep \/ WakeUp
      <3>1. UNCHANGED <<slab, status, waiters, work, inbox>>
        BY <2>1 DEF PumpReturn, PumpTop, DrainHosts, HostsDone, CollectDone, RunTask,
           GoToSleep, WakeUp, cellVars, queueVars
      <3> QED
        BY <3>1, QuietWatched
    <2>2. CASE NotifyAwaiter \/ GatherOne \/ CompleteHost \/ CollectReparks
      BY <2>2, NotifyAwaiterWatched, GatherOneWatched, CompleteHostWatched,
         CollectReparksWatched
    <2>3. CASE CollectStale \/ CollectResumes
      BY <2>3, ReleaseWatched DEF CollectStale, CollectResumes, cellVars
    <2> QED
      BY <1>3, <2>1, <2>2, <2>3 DEF Pump
  <1>4. CASE HostThreads
    BY <1>4, QuietWatched DEF HostThreads, HostComplete, cellVars, queueVars
  <1>5. CASE UNCHANGED vars
    BY <1>5, QuietWatched DEF vars, cellVars, queueVars
  <1> QED
    BY <1>1, <1>2, <1>3, <1>4, <1>5 DEF Next, VmThread

\* No wake-up of a parked task is lost, whatever sweeps, reused generations,
\* cancels and stale tokens come between its parking and its resumption.
THEOREM WakeUpsKept == Spec => []ParkedIsWatched
  <1>1. Init => ParkedIsWatched
    BY DEF Init, EmptySlab, ParkedIsWatched, Occupied
  <1>2. TInv /\ ParkedIsWatched /\ [Next]_vars => ParkedIsWatched'
    BY WatchedKept
  <1> QED
    BY <1>1, <1>2, TypesAlways, PTL DEF Spec

-----------------------------------------------------------------------------
(***************************************************************************)
(* The books of the slab                                                   *)
(***************************************************************************)
\* SetToSeq lists each member once.
LEMMA SetToSeqParts ==
  ASSUME NEW S, IsFiniteSet(S)
  PROVE  /\ SetToSeq(S) \in Seq(S) /\ Cardinality(S) \in Nat
         /\ DOMAIN SetToSeq(S) = 1..Cardinality(S)
         /\ IsInjective(SetToSeq(S))
         /\ \A x \in S : \E k \in DOMAIN SetToSeq(S) : SetToSeq(S)[k] = x
  <1> DEFINE n == Cardinality(S)
             q == SetToSeq(S)
  <1>1. n \in Nat /\ ExistsBijection(1..n, S)
    BY FS_CardinalityType
  <1>2. \E f \in [1..n -> S] : IsInjective(f)
    BY <1>1 DEF ExistsBijection, Bijection, Injection, IsInjective
  <1>3. q \in [1..n -> S] /\ IsInjective(q)
    BY <1>2 DEF SetToSeq
  <1> HIDE DEF q
  <1>4. q \in Injection(1..n, S)
    BY <1>3 DEF Injection, IsInjective
  <1>5. IsFiniteSet(1..n) /\ Cardinality(1..n) = n
    BY <1>1, FS_Interval
  <1>6. q \in Surjection(1..n, S)
    BY <1>4, <1>5, FS_Injection
  <1>7. \A x \in S : \E k \in DOMAIN q : q[k] = x
    BY <1>3, <1>6 DEF Surjection
  <1>8. q \in Seq(S)
    BY <1>1, <1>3, SeqDef
  <1> QED
    BY <1>1, <1>3, <1>7, <1>8 DEF q

\* SlabAccounting, of any slab.
Books(s) ==
    /\ IsInjective(s.free)
    /\ \A i \in DOMAIN s.cells :
          i \notin Occupied(s) => \E k \in DOMAIN s.free : s.free[k] = i
    /\ \A k \in DOMAIN s.free : s.free[k] \notin Occupied(s)
    /\ s.live = Cardinality(Occupied(s))

LEMMA OccupiedFinite ==
  ASSUME NEW s, GoodSlab(s)
  PROVE  /\ IsFiniteSet(Occupied(s)) /\ Cardinality(Occupied(s)) \in Nat
         /\ Occupied(s) \subseteq DOMAIN s.cells
         /\ DOMAIN s.cells = 1..Len(s.cells) /\ Len(s.cells) \in Nat
  <1>1. DOMAIN s.cells = 1..Len(s.cells) /\ Len(s.cells) \in Nat
    BY DEF GoodSlab, Slabs
  <1>2. IsFiniteSet(1..Len(s.cells))
    BY <1>1, FS_Interval
  <1>3. Occupied(s) \subseteq 1..Len(s.cells)
    BY <1>1 DEF Occupied
  <1>4. IsFiniteSet(Occupied(s))
    BY <1>2, <1>3, FS_Subset
  <1> QED
    BY <1>1, <1>3, <1>4, FS_CardinalityType

\* A sweep frees the slots of the abandoned tasks.
LEMMA SweepBooks ==
  ASSUME NEW s, GoodSlab(s), Books(s)
  PROVE  LET r == SweepAbandoned(s)
         IN  /\ Books(r) /\ Occupied(r) = Occupied(s) \ Abandoned(s)
             /\ \A i \in Occupied(r) : r.cells[i] = s.cells[i]
  <1> DEFINE gone == Abandoned(s)
             r == SweepAbandoned(s)
             added == SetToSeq(gone)
             f == s.free \o added
  <1>1. /\ IsFiniteSet(Occupied(s)) /\ Cardinality(Occupied(s)) \in Nat
        /\ Occupied(s) \subseteq DOMAIN s.cells
    BY OccupiedFinite
  <1>2. gone \subseteq Occupied(s) /\ IsFiniteSet(gone)
    BY <1>1, FS_Subset DEF Abandoned
  <1>3. /\ added \in Seq(gone) /\ DOMAIN added = 1..Cardinality(gone)
        /\ Cardinality(gone) \in Nat /\ IsInjective(added)
        /\ \A x \in gone : \E k \in DOMAIN added : added[k] = x
    BY <1>2, SetToSeqParts
  <1>4. /\ s.free \in Seq(Nat \ {0}) /\ DOMAIN s.free = 1..Len(s.free) /\ Len(s.free) \in Nat
        /\ s.cells \in Seq(Slot) /\ \A i \in DOMAIN s.cells : s.cells[i] \in Slot
    BY DEF GoodSlab, Slabs
  <1>5. /\ r.free = f /\ r.live = s.live - Cardinality(gone)
        /\ DOMAIN r.cells = DOMAIN s.cells
        /\ \A i \in DOMAIN s.cells :
              r.cells[i] = IF i \in gone THEN Vacant(s.cells[i]) ELSE s.cells[i]
    BY DEF SweepAbandoned
  <1>6. Occupied(r) = Occupied(s) \ gone /\ \A i \in Occupied(r) : r.cells[i] = s.cells[i]
    <2>1. \A i \in gone : r.cells[i].out = None
      BY <1>1, <1>2, <1>4, <1>5, VacantType
    <2> HIDE DEF r, gone
    <2> QED
      BY <1>1, <1>2, <1>5, <2>1 DEF Occupied
  <1> HIDE DEF r, added, gone
  <1>7. /\ DOMAIN f = 1..(Len(s.free) + Cardinality(gone))
        /\ \A k \in 1..Len(s.free) : f[k] = s.free[k]
        /\ \A k \in 1..Cardinality(gone) :
              Len(s.free) + k \in DOMAIN f /\ f[Len(s.free) + k] = added[k]
    <2>1. s.free \in Seq(Nat \cup gone) /\ added \in Seq(Nat \cup gone)
      BY <1>3, <1>4, SeqMonotonic
    <2>2. Len(added) = Cardinality(gone)
      BY <1>3, <2>1, LenProperties
    <2>3. /\ Len(f) = Len(s.free) + Len(added) /\ f \in Seq(Nat \cup gone)
          /\ \A k \in 1..Len(f) :
                f[k] = IF k <= Len(s.free) THEN s.free[k] ELSE added[k - Len(s.free)]
      BY <2>1, ConcatProperties
    <2>4. DOMAIN f = 1..Len(f)
      BY <2>3, LenProperties
    <2>5. \A k \in 1..Cardinality(gone) :
             /\ Len(s.free) + k \in 1..Len(f) /\ ~(Len(s.free) + k <= Len(s.free))
             /\ Len(s.free) + k - Len(s.free) = k
      BY <1>3, <1>4, <2>2, <2>3
    <2> HIDE DEF f
    <2>6. Len(f) = Len(s.free) + Cardinality(gone)
      BY <2>2, <2>3
    <2>7. \A k \in 1..Len(s.free) : k \in 1..Len(f) /\ k <= Len(s.free)
      BY <1>3, <1>4, <2>6
    <2>8. \A k \in 1..Len(s.free) : f[k] = s.free[k]
      BY <2>3, <2>7
    <2>9. ASSUME NEW m \in 1..Len(f), ~(m <= Len(s.free)) PROVE f[m] = added[m - Len(s.free)]
      BY <2>3, <2>9
    <2>10. \A k \in 1..Cardinality(gone) : Len(s.free) + k \in DOMAIN f /\ f[Len(s.free) + k] = added[k]
      <3> SUFFICES ASSUME NEW k \in 1..Cardinality(gone)
                   PROVE  Len(s.free) + k \in DOMAIN f /\ f[Len(s.free) + k] = added[k]
        OBVIOUS
      <3> DEFINE m == Len(s.free) + k
      <3>1. m - Len(s.free) = k /\ m \in 1..Len(f) /\ ~(m <= Len(s.free))
        BY <2>5
      <3> HIDE DEF m
      <3> QED
        BY <2>4, <2>9, <3>1 DEF m
    <2> QED
      BY <2>4, <2>6, <2>8, <2>10
  <1>8. \A k \in DOMAIN f :
           \/ k \in DOMAIN s.free /\ f[k] = s.free[k] /\ f[k] \notin Occupied(s)
           \/ /\ k - Len(s.free) \in DOMAIN added /\ f[k] = added[k - Len(s.free)]
              /\ f[k] \in gone
    <2> SUFFICES ASSUME NEW k \in DOMAIN f, k \notin DOMAIN s.free
                 PROVE  /\ k - Len(s.free) \in DOMAIN added /\ f[k] = added[k - Len(s.free)]
                        /\ f[k] \in gone
      BY <1>4, <1>7 DEF Books
    <2>1. /\ k - Len(s.free) \in 1..Cardinality(gone)
          /\ Len(s.free) + (k - Len(s.free)) = k
      BY <1>3, <1>4, <1>7
    <2>2. f[k] = added[k - Len(s.free)]
      BY <1>7, <2>1
    <2>3. \A m \in DOMAIN added : added[m] \in gone
      BY <1>3
    <2> QED
      BY <1>3, <2>1, <2>2, <2>3
  <1>9. IsInjective(f)
    <2> SUFFICES ASSUME NEW j \in DOMAIN f, NEW k \in DOMAIN f, f[j] = f[k] PROVE j = k
      BY DEF IsInjective
    <2>1. j \in Int /\ k \in Int /\ Len(s.free) \in Int
      BY <1>3, <1>4, <1>7
    <2>2. CASE j \in DOMAIN s.free /\ k \in DOMAIN s.free
      BY <1>4, <1>7, <2>2 DEF Books, IsInjective
    <2>3. CASE j \notin DOMAIN s.free /\ k \notin DOMAIN s.free
      <3>1. j - Len(s.free) = k - Len(s.free)
        BY <1>3, <1>8, <2>3 DEF IsInjective
      <3> QED
        BY <2>1, <3>1
    <2>4. CASE ~(j \in DOMAIN s.free <=> k \in DOMAIN s.free)
      BY <1>2, <1>8, <2>4
    <2> QED
      BY <2>2, <2>3, <2>4
  <1>10. \A k \in DOMAIN f : f[k] \notin Occupied(r)
    BY <1>6, <1>8
  <1>11. \A i \in DOMAIN s.cells : i \notin Occupied(r) => \E k \in DOMAIN f : f[k] = i
    <2> SUFFICES ASSUME NEW i \in DOMAIN s.cells, i \notin Occupied(r)
                 PROVE  \E k \in DOMAIN f : f[k] = i
      OBVIOUS
    <2>1. CASE i \in gone
      <3>1. PICK k \in DOMAIN added : added[k] = i
        BY <1>3, <2>1
      <3> QED
        BY <1>3, <1>7, <3>1
    <2>2. CASE i \notin Occupied(s)
      <3>1. PICK k \in DOMAIN s.free : s.free[k] = i
        BY <2>2 DEF Books
      <3>2. k \in DOMAIN f /\ f[k] = i
        BY <1>3, <1>4, <1>7, <3>1
      <3> QED
        BY <3>2
    <2> QED
      BY <1>6, <2>1, <2>2
  <1>12. r.live = Cardinality(Occupied(r))
    <2>1. /\ Cardinality(Occupied(s) \ gone)
               = Cardinality(Occupied(s)) - Cardinality(Occupied(s) \cap gone)
      BY <1>1, FS_Difference
    <2>2. Occupied(s) \cap gone = gone
      BY <1>2
    <2> QED
      BY <1>5, <1>6, <2>1, <2>2 DEF Books
  <1> HIDE DEF f
  <1>13. Books(r)
    BY <1>5, <1>9, <1>10, <1>11, <1>12 DEF Books
  <1> QED
    BY <1>6, <1>13 DEF r, gone



LEMMA RoomyBooks ==
  ASSUME NEW s, GoodSlab(s), Books(s)
  PROVE  LET r == Roomy(s)
         IN  /\ Books(r) /\ GoodSlab(r) /\ Occupied(r) \subseteq Occupied(s)
             /\ \A i \in Occupied(r) : r.cells[i] = s.cells[i]
             /\ \A i \in Occupied(s) : status[s.cells[i].out] = "pending" => i \in Occupied(r)
  <1>1. CASE Roomy(s) = s
    BY <1>1
  <1>2. CASE Roomy(s) = SweepAbandoned(s)
    BY <1>2, SweepBooks, SweepKeeps DEF Abandoned
  <1> QED
    BY <1>1, <1>2 DEF Roomy

\* A task is parked in a slot that was vacant.
LEMMA InsertBooks ==
  ASSUME NEW s, GoodSlab(s), Books(s), NEW t \in Cells, NEW c \in Cells
  PROVE  LET r == Insert(s, t, c)
             i == NextToken(s).slot
         IN  /\ Books(r) /\ i \notin Occupied(Roomy(s))
             /\ Occupied(r) = Occupied(Roomy(s)) \cup {i}
             /\ r.cells[i].out = t /\ r.cells[i].on = c
             /\ \A j \in Occupied(Roomy(s)) : r.cells[j] = s.cells[j]
  <1> DEFINE q == Roomy(s)
             r == Insert(s, t, c)
             token == NextToken(s)
             i == token.slot
             entry == [gen |-> token.gen, out |-> t, on |-> c]
  <1>1. /\ GoodSlab(q) /\ Books(q)
        /\ q.cells \in Seq(Slot) /\ q.free \in Seq(Nat \ {0}) /\ q.live \in Int
        /\ DOMAIN q.cells = 1..Len(q.cells) /\ Len(q.cells) \in Nat
        /\ DOMAIN q.free = 1..Len(q.free) /\ Len(q.free) \in Nat
        /\ \A k \in DOMAIN q.free : q.free[k] \in DOMAIN q.cells
        /\ \A j \in Occupied(q) : q.cells[j] = s.cells[j]
    BY RoomyBooks DEF GoodSlab, Slabs
  <1>2. /\ IsFiniteSet(Occupied(q)) /\ Cardinality(Occupied(q)) \in Nat
        /\ Occupied(q) \subseteq DOMAIN q.cells
    BY <1>1, OccupiedFinite
  <1>3. entry.out = t /\ entry.on = c /\ t # None
    BY NoneAssumption
  <1>4. CASE q.free = <<>>
    <2>1. token = [slot |-> Len(q.cells) + 1, gen |-> 0]
      BY <1>4 DEF NextToken
    <2>2. /\ r.cells = Append(q.cells, entry) /\ r.free = q.free /\ r.live = q.live + 1
      BY <1>4 DEF Insert
    <2>3. entry \in Slot
      BY <2>1, GenerationsAssumption DEF Slot
    <2>4. /\ i = Len(q.cells) + 1
          /\ DOMAIN r.cells = 1..(Len(q.cells) + 1)
          /\ r.cells[Len(q.cells) + 1] = entry
          /\ \A j \in 1..Len(q.cells) : r.cells[j] = q.cells[j]
      BY <1>1, <2>1, <2>2, <2>3
    <2>5. i \notin Occupied(q) /\ i \in DOMAIN r.cells
      BY <1>1, <1>2, <2>4
    <2>6. Occupied(r) = Occupied(q) \cup {i}
      BY <1>1, <1>3, <2>4 DEF Occupied
    <2>7. Books(r)
      <3>1. q.live = Cardinality(Occupied(q)) /\ \A j \in DOMAIN q.cells : j \in Occupied(q)
        BY <1>1, <1>4 DEF Books
      <3>2. r.live = Cardinality(Occupied(r))
        <4>1. Cardinality(Occupied(q) \cup {i}) = Cardinality(Occupied(q)) + 1
          BY <1>2, <2>5, FS_AddElement
        <4> QED
          BY <2>2, <2>6, <3>1, <4>1
      <3>3. \A j \in DOMAIN r.cells : j \in Occupied(r)
        BY <1>1, <2>4, <2>6, <3>1
      <3> QED
        BY <1>4, <2>2, <3>2, <3>3 DEF Books, IsInjective
    <2> QED
      BY <1>1, <1>2, <1>3, <2>4, <2>5, <2>6, <2>7
  <1>5. CASE q.free # <<>>
    <2>1. token = [slot |-> Last(q.free), gen |-> q.cells[Last(q.free)].gen]
      BY <1>5 DEF NextToken
    <2>2. /\ r.cells = [q.cells EXCEPT ![i] = entry] /\ r.free = Front(q.free)
          /\ r.live = q.live + 1
      BY <1>5 DEF Insert
    <2> DEFINE n == Len(q.free)
    <2>3. n \in Nat \ {0} /\ n \in DOMAIN q.free /\ i = q.free[n]
      BY <1>1, <1>5, <2>1, EmptySeq DEF Last
    <2>4. /\ DOMAIN Front(q.free) = 1..(n - 1)
          /\ \A k \in 1..(n - 1) : Front(q.free)[k] = q.free[k] /\ k \in DOMAIN q.free /\ k # n
      BY <1>1, <1>5, FrontParts DEF Front
    <2>5. i \in DOMAIN q.cells /\ i \notin Occupied(q)
      BY <1>1, <2>3 DEF Books
    <2>6. /\ DOMAIN r.cells = DOMAIN q.cells /\ r.cells[i] = entry
          /\ \A j \in DOMAIN q.cells : j # i => r.cells[j] = q.cells[j]
      BY <1>1, <2>2, <2>5
    <2>7. Occupied(r) = Occupied(q) \cup {i}
      BY <1>3, <2>5, <2>6 DEF Occupied
    <2>8. Books(r)
      <3>1. r.live = Cardinality(Occupied(r))
        <4>1. q.live = Cardinality(Occupied(q))
          BY <1>1 DEF Books
        <4>2. Cardinality(Occupied(q) \cup {i}) = Cardinality(Occupied(q)) + 1
          BY <1>2, <2>5, FS_AddElement
        <4> QED
          BY <2>2, <2>7, <4>1, <4>2
      <3>2. IsInjective(r.free)
        <4> SUFFICES ASSUME NEW j \in 1..(n - 1), NEW k \in 1..(n - 1), q.free[j] = q.free[k]
                     PROVE  j = k
          BY <2>2, <2>4 DEF IsInjective
        <4>1. IsInjective(q.free)
          BY <1>1 DEF Books
        <4> QED
          BY <2>4, <4>1 DEF IsInjective
      <3>3. \A k \in DOMAIN r.free : r.free[k] \notin Occupied(r)
        <4>1. \A k \in 1..(n - 1) : q.free[k] # i
          <5>1. IsInjective(q.free)
            BY <1>1 DEF Books
          <5> QED
            BY ONLY <2>3, <2>4, <5>1 DEF IsInjective
        <4>2. \A k \in DOMAIN q.free : q.free[k] \notin Occupied(q)
          BY <1>1 DEF Books
        <4>3. DOMAIN r.free = 1..(n - 1) /\ \A k \in 1..(n - 1) : k \in DOMAIN q.free /\ r.free[k] = q.free[k]
          BY <2>2, <2>4
        <4> QED
          BY ONLY <2>7, <4>1, <4>2, <4>3
      <3>4. \A j \in DOMAIN r.cells : j \notin Occupied(r) => \E k \in DOMAIN r.free : r.free[k] = j
        <4> SUFFICES ASSUME NEW j \in DOMAIN q.cells, j \notin Occupied(q), j # i
                     PROVE  \E k \in DOMAIN r.free : r.free[k] = j
          BY <2>6, <2>7
        <4>1. PICK k \in DOMAIN q.free : q.free[k] = j
          BY <1>1 DEF Books
        <4>2. k \in 1..(n - 1)
          <5>1. DOMAIN q.free = 1..n
            BY <1>1, LenProperties
          <5>2. k # n
            BY <2>3, <4>1
          <5> QED
            BY ONLY <2>3, <4>1, <5>1, <5>2
        <4> QED
          BY <2>2, <2>4, <4>1, <4>2
      <3> QED
        BY <3>1, <3>2, <3>3, <3>4 DEF Books
    <2> QED
      BY <1>1, <1>2, <1>3, <2>5, <2>6, <2>7, <2>8
  <1> QED
    BY <1>4, <1>5

\* A task that is taken out leaves its slot vacant.
LEMMA ReleaseBooks ==
  ASSUME NEW s, GoodSlab(s), Books(s), NEW i \in Occupied(s)
  PROVE  LET r == Release(s, i)
         IN  /\ Books(r) /\ Occupied(r) = Occupied(s) \ {i}
             /\ \A j \in Occupied(r) : r.cells[j] = s.cells[j]
  <1> DEFINE r == Release(s, i)
             n == Len(s.free)
  <1>1. /\ s.cells \in Seq(Slot) /\ s.free \in Seq(Nat \ {0})
        /\ IsFiniteSet(Occupied(s)) /\ Cardinality(Occupied(s)) \in Nat
        /\ i \in DOMAIN s.cells /\ s.cells[i] \in Slot /\ i \in Nat \ {0}
    BY OccupiedFinite DEF GoodSlab, Slabs
  <1>2. Vacant(s.cells[i]).out = None
    BY <1>1, VacantType
  <1>3. /\ r.cells = [s.cells EXCEPT ![i] = Vacant(s.cells[i])]
        /\ r.free = Append(s.free, i) /\ r.live = s.live - 1
    BY DEF Release
  <1>4. /\ DOMAIN r.cells = DOMAIN s.cells /\ r.cells[i].out = None
        /\ \A j \in DOMAIN s.cells : j # i => r.cells[j] = s.cells[j]
    BY <1>1, <1>2, <1>3
  <1>5. Occupied(r) = Occupied(s) \ {i}
    BY <1>4 DEF Occupied
  <1>6. /\ \A k \in DOMAIN s.free : k \in DOMAIN r.free /\ r.free[k] = s.free[k]
        /\ n + 1 \in DOMAIN r.free /\ r.free[n + 1] = i
        /\ \A k \in DOMAIN r.free :
              \/ k \in DOMAIN s.free /\ r.free[k] = s.free[k]
              \/ k = n + 1 /\ r.free[k] = i
    <2>1. /\ n \in Nat /\ DOMAIN Append(s.free, i) = 1..(n + 1)
          /\ Append(s.free, i)[n + 1] = i
          /\ \A k \in DOMAIN s.free : k \in DOMAIN Append(s.free, i) /\ Append(s.free, i)[k] = s.free[k]
          /\ \A k \in DOMAIN Append(s.free, i) :
                (k \in DOMAIN s.free /\ Append(s.free, i)[k] = s.free[k])
                \/ (k = n + 1 /\ Append(s.free, i)[k] = i)
      BY <1>1, AppendParts
    <2> HIDE DEF n, r
    <2> QED
      BY <1>3, <2>1
  <1> HIDE DEF r, n
  <1>7. \A k \in DOMAIN s.free : s.free[k] # i
    BY DEF Books
  <1>8. IsInjective(r.free)
    <2>1. \A j, k \in DOMAIN r.free : r.free[j] = r.free[k] => j = k
      BY <1>6, <1>7 DEF Books, IsInjective
    <2> QED
      BY <2>1 DEF IsInjective
  <1>9. \A k \in DOMAIN r.free : r.free[k] \notin Occupied(r)
    BY <1>5, <1>6 DEF Books
  <1>10. \A j \in DOMAIN r.cells : j \notin Occupied(r) => \E k \in DOMAIN r.free : r.free[k] = j
    <2> SUFFICES ASSUME NEW j \in DOMAIN s.cells, j \notin Occupied(s) \/ j = i
                 PROVE  \E k \in DOMAIN r.free : r.free[k] = j
      BY <1>4, <1>5
    <2>1. CASE j = i
      BY <1>6, <2>1
    <2>2. CASE j \notin Occupied(s)
      <3>1. PICK k \in DOMAIN s.free : s.free[k] = j
        BY <2>2 DEF Books
      <3> QED
        BY <1>6, <3>1
    <2> QED
      BY <2>1, <2>2
  <1>11. r.live = Cardinality(Occupied(r))
    <2>1. s.live = Cardinality(Occupied(s))
      BY DEF Books
    <2> QED
      BY <1>1, <1>3, <1>5, <2>1, FS_RemoveElement
  <1>12. Books(r)
    BY <1>8, <1>9, <1>10, <1>11 DEF Books
  <1>13. \A j \in Occupied(r) : r.cells[j] = s.cells[j]
    BY <1>1, <1>4, <1>5 DEF Occupied
  <1> QED
    BY <1>5, <1>12, <1>13 DEF r

-----------------------------------------------------------------------------
(***************************************************************************)
(* Every live task has one home                                            *)
(***************************************************************************)
InSlab(t) == \E i \in Occupied(slab) : slab.cells[i].out = t
AtHome(t) == InReady(t) \/ InSlab(t) \/ running = t

ReadyOnce == \A j, k \in DOMAIN ready : ready[j].output = ready[k].output => j = k
ParkedOnce == \A i, j \in Occupied(slab) : slab.cells[i].out = slab.cells[j].out => i = j

HomeParts ==
    /\ Books(slab) /\ ReadyOnce /\ ParkedOnce
    /\ \A t \in Cells : ~(InReady(t) /\ InSlab(t))
    /\ running # None => pc = "task" /\ ~InReady(running) /\ ~InSlab(running)
    /\ \A t \in Cells : AtHome(t) => kind[t] = "task"
    /\ \A t \in Cells : kind[t] = "task" /\ status[t] = "pending" => AtHome(t)

HomeInv == TInv /\ HomeParts

LEMMA InitHomes == Init => HomeParts
  <1> SUFFICES ASSUME Init PROVE HomeParts
    OBVIOUS
  <1>1. /\ slab.cells = <<>> /\ slab.free = <<>> /\ slab.live = 0
        /\ ready = <<>> /\ running = None /\ \A t \in Cells : kind[t] = "unused"
    BY DEF Init, EmptySlab
  <1>2. Occupied(slab) = {} /\ DOMAIN ready = {} /\ DOMAIN slab.cells = {} /\ DOMAIN slab.free = {}
    BY <1>1 DEF Occupied
  <1>3. Books(slab)
    BY <1>1, <1>2, FS_EmptySet DEF Books, IsInjective
  <1>4. \A t \in Cells : ~AtHome(t)
    BY <1>1, <1>2, NoneAssumption DEF AtHome, InReady, InSlab
  <1> QED
    BY <1>1, <1>2, <1>3, <1>4 DEF HomeParts, ReadyOnce, ParkedOnce, AtHome

\* The ready queue, when a task that is not in it joins it.
LEMMA PushHomes ==
  ASSUME TInv, ReadyOnce, NEW t \in Cells, NEW on \in Cells \cup {None}, PushReady(t, on), ~InReady(t)
  PROVE  ReadyOnce' /\ \A u : InReady(u)' <=> InReady(u) \/ u = t
  <1> DEFINE e == [output |-> t, on |-> on]
             n == Len(ready)
  <1>1. ready \in Seq(ReadyTasks) /\ e \in ReadyTasks /\ ready' = Append(ready, e)
    BY DEF TInv, TypeOK, QueueTypes, ReadyTasks, PushReady
  <1> HIDE DEF e
  <1>2. /\ n \in Nat /\ DOMAIN ready = 1..n /\ DOMAIN ready' = 1..(n + 1)
        /\ ready'[n + 1] = e
        /\ \A k \in DOMAIN ready : k \in DOMAIN ready' /\ ready'[k] = ready[k]
        /\ \A k \in DOMAIN ready' :
              (k \in DOMAIN ready /\ ready'[k] = ready[k]) \/ (k = n + 1 /\ ready'[k] = e)
    BY <1>1, AppendParts
  <1>3. e.output = t /\ n + 1 \in DOMAIN ready'
    BY <1>2 DEF e
  <1> HIDE DEF n
  <1>4. \A k \in DOMAIN ready : ready[k].output # t
    BY DEF InReady
  <1>5. ReadyOnce'
    <2> SUFFICES ASSUME NEW j \in DOMAIN ready', NEW k \in DOMAIN ready',
                        ready'[j].output = ready'[k].output
                 PROVE  j = k
      BY DEF ReadyOnce
    <2> QED
      BY <1>2, <1>3, <1>4 DEF ReadyOnce
  <1> QED
    BY <1>2, <1>3, <1>5 DEF InReady

\* And when its first leaves it.
LEMMA PopHomes ==
  ASSUME TInv, ReadyOnce, ready # <<>>, ready' = Tail(ready)
  PROVE  ReadyOnce' /\ \A u : InReady(u)' <=> InReady(u) /\ u # Head(ready).output
  <1>1. ready \in Seq(ReadyTasks)
    BY DEF TInv, TypeOK, QueueTypes
  <1>2. /\ 1 \in DOMAIN ready /\ Head(ready) = ready[1]
        /\ Len(ready) \in Nat /\ DOMAIN ready = 1..Len(ready)
        /\ DOMAIN ready' = 1..(Len(ready) - 1)
        /\ \A k \in DOMAIN ready' : k + 1 \in DOMAIN ready /\ ready'[k] = ready[k + 1]
        /\ \A k \in DOMAIN ready : k = 1 \/ (k - 1 \in DOMAIN ready' /\ ready'[k - 1] = ready[k])
    BY <1>1, TailParts
  <1>3. ReadyOnce'
    <2> SUFFICES ASSUME NEW j \in DOMAIN ready', NEW k \in DOMAIN ready',
                        ready'[j].output = ready'[k].output
                 PROVE  j = k
      BY DEF ReadyOnce
    <2>1. j + 1 = k + 1
      BY <1>2 DEF ReadyOnce
    <2> QED
      BY <1>2, <2>1
  <1>4. ASSUME NEW u, InReady(u)' PROVE InReady(u) /\ u # Head(ready).output
    <2>1. PICK k \in DOMAIN ready' : ready'[k].output = u
      BY <1>4 DEF InReady
    <2>2. k + 1 \in DOMAIN ready /\ ready[k + 1].output = u /\ k + 1 # 1
      BY <1>2, <2>1
    <2> QED
      BY <1>2, <2>2 DEF InReady, ReadyOnce
  <1>5. ASSUME NEW u, InReady(u), u # Head(ready).output PROVE InReady(u)'
    <2>1. PICK k \in DOMAIN ready : ready[k].output = u
      BY <1>5 DEF InReady
    <2>2. k - 1 \in DOMAIN ready' /\ ready'[k - 1].output = u
      BY <1>2, <1>5, <2>1
    <2> QED
      BY <2>2 DEF InReady
  <1> QED
    BY <1>3, <1>4, <1>5

\* The slab, when a task leaves it.
LEMMA ReleaseHomes ==
  ASSUME TInv, Books(slab), ParkedOnce, NEW i \in Occupied(slab), slab' = Release(slab, i)
  PROVE  Books(slab)' /\ ParkedOnce' /\ \A u : InSlab(u)' <=> InSlab(u) /\ u # slab.cells[i].out
  <1>1. GoodSlab(slab)
    BY DEF TInv, Created
  <1>2. /\ Books(slab') /\ Occupied(slab') = Occupied(slab) \ {i}
        /\ \A j \in Occupied(slab') : slab'.cells[j] = slab.cells[j]
    BY <1>1, ReleaseBooks
  <1>3. Books(slab)'
    BY <1>2 DEF Books, Occupied
  <1>4. Occupied(slab)' = Occupied(slab')
    BY DEF Occupied
  <1> QED
    BY <1>2, <1>3, <1>4 DEF ParkedOnce, InSlab

\* And when t is parked, in a slab that has lost no other.
LEMMA ParkHomes ==
  ASSUME TInv, ParkedOnce, NEW t \in Cells, NEW c \in Cells,
         NEW s, GoodSlab(s), Books(s), slab' = Insert(s, t, c),
         \A i \in Occupied(s) : i \in Occupied(slab) /\ s.cells[i] = slab.cells[i],
         \A i \in Occupied(s) : s.cells[i].out # t,
         \A i \in Occupied(slab) : i \in Occupied(s) \/ slab.cells[i].out = t
  PROVE  /\ Books(slab)' /\ ParkedOnce' /\ InSlab(t)'
         /\ \A u : InSlab(u)' => InSlab(u) \/ u = t
         /\ \A u : InSlab(u) /\ status[u] = "pending" => InSlab(u)'
  <1> DEFINE q == Roomy(s)
             n == NextToken(s).slot
  <1>1. /\ Books(slab') /\ n \notin Occupied(q) /\ Occupied(slab') = Occupied(q) \cup {n}
        /\ slab'.cells[n].out = t
        /\ \A j \in Occupied(q) : slab'.cells[j] = s.cells[j]
    BY InsertBooks
  <1>2. /\ Occupied(q) \subseteq Occupied(s)
        /\ \A i \in Occupied(s) : status[s.cells[i].out] = "pending" => i \in Occupied(q)
    BY RoomyBooks
  <1> HIDE DEF q, n
  <1>3. Occupied(slab)' = Occupied(slab') /\ Books(slab)'
    BY <1>1 DEF Occupied, Books
  <1>4. \A j \in Occupied(q) : slab'.cells[j] = slab.cells[j] /\ j \in Occupied(slab) /\ slab.cells[j].out # t
    BY <1>1, <1>2
  <1>5. ParkedOnce'
    BY <1>1, <1>3, <1>4 DEF ParkedOnce
  <1>6. InSlab(t)' /\ \A u : InSlab(u)' => InSlab(u) \/ u = t
    BY <1>1, <1>3, <1>4 DEF InSlab
  <1>7. ASSUME NEW u, InSlab(u), status[u] = "pending", u # t PROVE InSlab(u)'
    <2>1. PICK i \in Occupied(slab) : slab.cells[i].out = u
      BY <1>7 DEF InSlab
    <2>2. i \in Occupied(q)
      BY <1>2, <1>7, <2>1
    <2> QED
      BY <1>1, <1>3, <1>4, <2>1, <2>2 DEF InSlab
  <1> QED
    BY <1>3, <1>5, <1>6, <1>7

\* Where a step leaves a task, as the lemmas above give it.
LEMMA SettleEnds ==
  ASSUME TInv, NEW c \in Cells, NEW o \in Outcomes, NEW seen, NEW rest, Settle(c, o, seen, rest)
  PROVE  /\ status'[c] # "pending"
         /\ \A t \in Cells : status'[t] = "pending" => status[t] = "pending"
         /\ \A t \in Cells : t # c => status'[t] = status[t]
  BY DEF Settle, Outcomes, TInv, TypeOK, CellTypes

LEMMA QuietHomes ==
  ASSUME HomeInv, UNCHANGED <<ready, slab, running>>, pc = "task" => pc' = "task",
         \A t \in Cells : kind'[t] = "task" <=> kind[t] = "task",
         \A t \in Cells : status'[t] = "pending" => status[t] = "pending"
  PROVE  HomeParts'
  <1>1. \A t : /\ InReady(t)' <=> InReady(t)
               /\ InSlab(t)' <=> InSlab(t)
               /\ AtHome(t)' <=> AtHome(t)
    BY DEF InReady, InSlab, AtHome, Occupied
  <1>2. Books(slab)' /\ ReadyOnce' /\ ParkedOnce'
    BY DEF HomeInv, HomeParts, Books, ReadyOnce, ParkedOnce, Occupied
  <1> QED
    BY <1>1, <1>2 DEF HomeInv, HomeParts

\* A fresh task joins the ready queue.
LEMMA FreshHomes ==
  ASSUME HomeInv, NEW c \in Cells, kind[c] = "unused", kind' = [kind EXCEPT ![c] = "task"],
         PushReady(c, None), UNCHANGED <<slab, running, status>>, pc = "task" => pc' = "task"
  PROVE  HomeParts'
  <1>1. ~AtHome(c)
    BY DEF HomeInv, HomeParts
  <1>2. ReadyOnce' /\ \A u : InReady(u)' <=> InReady(u) \/ u = c
    BY <1>1, PushHomes DEF HomeInv, HomeParts, AtHome
  <1>3. Books(slab)' /\ ParkedOnce' /\ \A u : InSlab(u)' <=> InSlab(u)
    BY DEF HomeInv, HomeParts, Books, ParkedOnce, Occupied, InSlab
  <1>4. \A t \in Cells : kind'[t] = IF t = c THEN "task" ELSE kind[t]
    BY DEF HomeInv, TInv, TypeOK, CellTypes
  <1>5. \A t \in Cells : AtHome(t)' <=> AtHome(t) \/ t = c
    BY <1>2, <1>3 DEF AtHome
  <1> QED
    BY <1>1, <1>2, <1>3, <1>4, <1>5, NoneAssumption DEF HomeInv, HomeParts, AtHome

LEMMA CallMainHomes ==
  ASSUME HomeInv, NEW c \in Cells, CallMain(c)
  PROVE  HomeParts'
  <1>1. pc # "task" /\ kind[c] = "unused" /\ UNCHANGED <<slab, running, status>>
    BY DEF CallMain, Unused
  <1>2. CASE UNCHANGED <<kind, ready>>
    BY <1>1, <1>2, QuietHomes
  <1>3. CASE kind' = [kind EXCEPT ![c] = "task"] /\ PushReady(c, None)
    BY <1>1, <1>3, FreshHomes
  <1> QED
    BY <1>2, <1>3 DEF CallMain

LEMMA TaskAwaitHomes ==
  ASSUME HomeInv, NEW c \in Cells, TaskAwait(c)
  PROVE  HomeParts'
  <1> DEFINE t == running
  <1>1. /\ t \in Cells /\ pc = "task" /\ t # None
        /\ slab' = Insert(slab, t, c) /\ running' = None /\ UNCHANGED <<kind, status, ready>>
    BY NoneAssumption DEF TaskAwait, Park, HomeInv, TInv, Created, KnownRunning
  <1>2. ~InReady(t) /\ ~InSlab(t) /\ kind[t] = "task"
    BY <1>1 DEF HomeInv, HomeParts, AtHome
  <1> SUFFICES ASSUME NEW u \in Cells, u = running PROVE HomeParts'
    BY <1>1
  <1> HIDE DEF t
  <1>3. \A i \in Occupied(slab) : slab.cells[i].out # u
    BY <1>2 DEF InSlab, t
  <1>4. /\ Books(slab)' /\ ParkedOnce' /\ InSlab(u)'
        /\ \A v : InSlab(v)' => InSlab(v) \/ v = u
        /\ \A v : InSlab(v) /\ status[v] = "pending" => InSlab(v)'
    BY <1>1, <1>3, ParkHomes DEF HomeInv, HomeParts, TInv, Created, t
  <1>5. ReadyOnce' /\ \A v : InReady(v)' <=> InReady(v)
    BY <1>1 DEF ReadyOnce, InReady, HomeInv, HomeParts
  <1>6. \A v \in Cells : AtHome(v)' => AtHome(v)
    BY <1>1, <1>4, <1>5, NoneAssumption DEF AtHome
  <1>7. \A v \in Cells : AtHome(v) /\ status[v] = "pending" => AtHome(v)'
    BY <1>4, <1>5 DEF AtHome
  <1> QED
    BY <1>1, <1>2, <1>4, <1>5, <1>6, <1>7 DEF HomeInv, HomeParts, t

LEMMA TaskYieldHomes ==
  ASSUME HomeInv, TaskYield
  PROVE  HomeParts'
  <1>1. /\ running \in Cells /\ pc = "task" /\ PushReady(running, None)
        /\ running' = None /\ UNCHANGED <<kind, status, slab>>
    BY DEF TaskYield, HomeInv, TInv, Created, KnownRunning, cellVars
  <1>2. ~InReady(running) /\ ~InSlab(running) /\ running # None
    BY <1>1, NoneAssumption DEF HomeInv, HomeParts
  <1>3. ReadyOnce' /\ \A u : InReady(u)' <=> InReady(u) \/ u = running
    BY <1>1, <1>2, PushHomes DEF HomeInv, HomeParts
  <1>4. Books(slab)' /\ ParkedOnce' /\ \A u : InSlab(u)' <=> InSlab(u)
    BY <1>1 DEF HomeInv, HomeParts, Books, ParkedOnce, Occupied, InSlab
  <1>5. \A v \in Cells : AtHome(v)' <=> AtHome(v)
    BY <1>1, <1>3, <1>4, NoneAssumption DEF AtHome
  <1> QED
    BY <1>1, <1>2, <1>3, <1>4, <1>5 DEF HomeInv, HomeParts

LEMMA FinishHomes ==
  ASSUME HomeInv, NEW o \in Outcomes, Finish(o)
  PROVE  HomeParts'
  <1>1. /\ running \in Cells /\ Settle(running, o, {}, <<>>)
        /\ running' = None /\ UNCHANGED <<kind, slab, ready>>
    BY DEF Finish, HomeInv, TInv, Created, KnownRunning, queueVars
  <1>2. /\ status'[running] # "pending"
        /\ \A t \in Cells : status'[t] = "pending" => status[t] = "pending"
    BY <1>1, SettleEnds DEF HomeInv
  <1>3. ReadyOnce' /\ \A u : InReady(u)' <=> InReady(u)
    BY <1>1 DEF ReadyOnce, InReady, HomeInv, HomeParts
  <1>4. Books(slab)' /\ ParkedOnce' /\ \A u : InSlab(u)' <=> InSlab(u)
    BY <1>1 DEF HomeInv, HomeParts, Books, ParkedOnce, Occupied, InSlab
  <1>5. \A v \in Cells : AtHome(v)' => AtHome(v)
    BY <1>1, <1>3, <1>4, NoneAssumption DEF AtHome
  <1>6. \A v \in Cells : AtHome(v) /\ v # running => AtHome(v)'
    BY <1>3, <1>4 DEF AtHome
  <1> QED
    BY <1>1, <1>2, <1>3, <1>4, <1>5, <1>6 DEF HomeInv, HomeParts

LEMMA RunTaskHomes ==
  ASSUME HomeInv, RunTask
  PROVE  HomeParts'
  <1> SUFFICES ASSUME NEW t \in Cells, t = Head(ready).output PROVE HomeParts'
    <2>1. 1 \in DOMAIN ready /\ Head(ready) = ready[1]
      BY DEF RunTask, HomeInv, TInv, TypeOK, QueueTypes
    <2>2. Head(ready).output \in Cells
      BY <2>1, ReadyParts DEF HomeInv, TInv, TypeOK
    <2> QED
      BY <2>2
  <1>1. /\ ready # <<>> /\ ready' = Tail(ready) /\ UNCHANGED <<kind, status, slab>>
        /\ pc = "ready" /\ running = None
        /\ IF status[t] # "pending" THEN running' = running ELSE running' = t /\ pc' = "task"
    BY DEF RunTask, Pumping, HomeInv, HomeParts
  <1>2. InReady(t)
    <2>1. 1 \in DOMAIN ready /\ Head(ready) = ready[1]
      BY <1>1 DEF HomeInv, TInv, TypeOK, QueueTypes
    <2> QED
      BY <2>1 DEF InReady
  <1>3. ReadyOnce' /\ \A u : InReady(u)' <=> InReady(u) /\ u # t
    BY <1>1, PopHomes DEF HomeInv, HomeParts
  <1>4. Books(slab)' /\ ParkedOnce' /\ \A u : InSlab(u)' <=> InSlab(u)
    BY <1>1 DEF HomeInv, HomeParts, Books, ParkedOnce, Occupied, InSlab
  <1>5. \A v \in Cells : AtHome(v)' => AtHome(v)
    BY <1>1, <1>2, <1>3, <1>4, NoneAssumption DEF AtHome
  <1>6. \A v \in Cells : AtHome(v) /\ status[v] = "pending" => AtHome(v)'
    BY <1>1, <1>3, <1>4, NoneAssumption DEF AtHome
  <1> QED
    BY <1>1, <1>2, <1>3, <1>4, <1>5, <1>6 DEF HomeInv, HomeParts

LEMMA CollectStaleHomes ==
  ASSUME HomeInv, CollectStale
  PROVE  HomeParts'
  <1>1. UNCHANGED <<kind, status, ready, running, pc>>
    BY DEF CollectStale, cellVars, pumpVars
  <1>2. CASE UNCHANGED slab
    BY <1>1, <1>2, QuietHomes
  <1>3. CASE /\ Holds(slab, Head(inbox)) /\ slab' = Release(slab, Head(inbox).slot)
             /\ status[slab.cells[Head(inbox).slot].out] # "pending"
    <2>1. PICK i \in Occupied(slab) : slab' = Release(slab, i) /\ status[slab.cells[i].out] # "pending"
      BY <1>3 DEF Holds
    <2>2. Books(slab)' /\ ParkedOnce' /\ \A u : InSlab(u)' <=> InSlab(u) /\ u # slab.cells[i].out
      BY <2>1, ReleaseHomes DEF HomeInv, HomeParts
    <2>3. ReadyOnce' /\ \A u : InReady(u)' <=> InReady(u)
      BY <1>1 DEF ReadyOnce, InReady, HomeInv, HomeParts
    <2>4. \A v \in Cells : AtHome(v)' => AtHome(v)
      BY <1>1, <2>2, <2>3 DEF AtHome
    <2>5. \A v \in Cells : AtHome(v) /\ status[v] = "pending" => AtHome(v)'
      BY <1>1, <2>1, <2>2, <2>3 DEF AtHome
    <2> QED
      BY <1>1, <2>2, <2>3, <2>4, <2>5 DEF HomeInv, HomeParts
  <1> QED
    BY <1>2, <1>3 DEF CollectStale

LEMMA CollectResumesHomes ==
  ASSUME HomeInv, CollectResumes
  PROVE  HomeParts'
  <1>1. PICK i \in Occupied(slab) : i = Head(inbox).slot
    BY DEF CollectResumes, Holds
  <1>2. /\ slab' = Release(slab, i) /\ PushReady(slab.cells[i].out, slab.cells[i].on)
        /\ UNCHANGED <<kind, status, running, pc>> /\ pc = "collect"
    BY <1>1 DEF CollectResumes, Collecting, Pumping, cellVars, pumpVars
  <1>3. slab.cells[i].out \in Cells /\ slab.cells[i].on \in Cells
    BY SlotParts DEF HomeInv, TInv, Created
  <1> SUFFICES ASSUME NEW t \in Cells, t = slab.cells[i].out PROVE HomeParts'
    BY <1>3
  <1>4. InSlab(t) /\ ~InReady(t) /\ kind[t] = "task" /\ running = None
    BY <1>2 DEF InSlab, HomeInv, HomeParts, AtHome
  <1>5. Books(slab)' /\ ParkedOnce' /\ \A u : InSlab(u)' <=> InSlab(u) /\ u # t
    BY <1>2, ReleaseHomes DEF HomeInv, HomeParts
  <1>6. ReadyOnce' /\ \A u : InReady(u)' <=> InReady(u) \/ u = t
    BY <1>2, <1>3, <1>4, PushHomes DEF HomeInv, HomeParts
  <1>7. \A v \in Cells : AtHome(v)' <=> AtHome(v)
    BY <1>2, <1>4, <1>5, <1>6 DEF AtHome
  <1> QED
    BY <1>2, <1>4, <1>5, <1>6, <1>7 DEF HomeInv, HomeParts

LEMMA CollectReparksHomes ==
  ASSUME HomeInv, CollectReparks
  PROVE  HomeParts'
  <1>1. PICK i \in Occupied(slab) : i = Head(inbox).slot
    BY DEF CollectReparks, Holds
  <1>2. slab.cells[i].out \in Cells /\ slab.cells[i].on \in Cells /\ GoodSlab(slab) /\ i \in DOMAIN slab.cells
    BY SlotParts DEF HomeInv, TInv, Created
  <1> SUFFICES ASSUME NEW t \in Cells, t = slab.cells[i].out, NEW c \in Cells, c = slab.cells[i].on,
                      NEW s, s = Release(slab, i)
               PROVE  HomeParts'
    BY <1>2
  <1>3. slab' = Insert(s, t, c) /\ UNCHANGED <<kind, status, ready, running, pc>>
    BY <1>1 DEF CollectReparks, pumpVars
  <1>4. GoodSlab(s)
    BY <1>2, ReleaseKeeps
  <1>5. /\ Books(s) /\ Occupied(s) = Occupied(slab) \ {i}
        /\ \A j \in Occupied(s) : s.cells[j] = slab.cells[j]
    BY <1>2, ReleaseBooks DEF HomeInv, HomeParts
  <1>6. \A j \in Occupied(s) : s.cells[j].out # t
    BY <1>5 DEF HomeInv, HomeParts, ParkedOnce
  <1>7. InSlab(t) /\ ~InReady(t) /\ kind[t] = "task"
    BY DEF InSlab, HomeInv, HomeParts, AtHome
  <1>8. /\ Books(slab)' /\ ParkedOnce' /\ InSlab(t)'
        /\ \A u : InSlab(u)' => InSlab(u) \/ u = t
        /\ \A u : InSlab(u) /\ status[u] = "pending" => InSlab(u)'
    <2>1. \A j \in Occupied(slab) : j \in Occupied(s) \/ slab.cells[j].out = t
      BY <1>5
    <2> QED
      BY <1>3, <1>4, <1>5, <1>6, <2>1, ParkHomes DEF HomeInv, HomeParts
  <1>9. ReadyOnce' /\ \A u : InReady(u)' <=> InReady(u)
    BY <1>3 DEF ReadyOnce, InReady, HomeInv, HomeParts
  <1>10. \A v \in Cells : AtHome(v)' => AtHome(v)
    BY <1>3, <1>7, <1>8, <1>9 DEF AtHome
  <1>11. \A v \in Cells : AtHome(v) /\ status[v] = "pending" => AtHome(v)'
    BY <1>3, <1>8, <1>9 DEF AtHome
  <1> QED
    BY <1>3, <1>7, <1>8, <1>9, <1>10, <1>11 DEF HomeInv, HomeParts

\* Settling ends no task's run and no cell comes back.
LEMMA QuietStepHomes ==
  ASSUME HomeInv, SettledStay, UNCHANGED <<ready, slab, running>>, pc = "task" => pc' = "task",
         \/ kind' = kind
         \/ \E c \in Cells, what \in {"settled", "host", "gather"} : Creates(what, c)
  PROVE  HomeParts'
  <1>1. \A t \in Cells : kind'[t] = "task" <=> kind[t] = "task"
    BY DEF Creates, HomeInv, TInv, TypeOK, CellTypes
  <1>2. \A t \in Cells : status'[t] = "pending" => status[t] = "pending"
    BY DEF SettledStay
  <1> QED
    BY <1>1, <1>2, QuietHomes

LEMMA UserCodeHomes ==
  ASSUME HomeInv, SettledStay, UserCode
  PROVE  HomeParts'
  <1>1. ASSUME NEW c \in Cells, Spawn(c) PROVE HomeParts'
    BY <1>1, FreshHomes DEF Spawn, Creates, pumpVars
  <1>2. ASSUME NEW c \in Cells, Cancel(c) \/ AwaitSettled(c) PROVE HomeParts'
    BY <1>2, QuietStepHomes DEF Cancel, AwaitSettled, queueVars, pumpVars
  <1>3. ASSUME NEW c \in Cells, TaskAwait(c) PROVE HomeParts'
    BY <1>3, TaskAwaitHomes
  <1>4. ASSUME NEW c \in Cells, NEW o, BornSettled(c, o) PROVE HomeParts'
    BY <1>4, QuietStepHomes DEF BornSettled, queueVars, pumpVars
  <1>5. ASSUME NEW c \in Cells, NEW s, FromHost(c, s) PROVE HomeParts'
    BY <1>5, QuietStepHomes DEF FromHost, queueVars, pumpVars
  <1>6. ASSUME NEW p \in Cells, NEW children, Parallel(p, children) PROVE HomeParts'
    BY <1>6, QuietStepHomes DEF Parallel, queueVars, pumpVars
  <1> QED
    BY <1>1, <1>2, <1>3, <1>4, <1>5, <1>6, FinishHomes, TaskYieldHomes DEF UserCode

LEMMA PumpHomes ==
  ASSUME HomeInv, SettledStay, Pump
  PROVE  HomeParts'
  <1>1. CASE NotifyAwaiter \/ GatherOne
    BY <1>1, QuietStepHomes DEF NotifyAwaiter, GatherOne, queueVars, pumpVars
  <1>2. CASE PumpReturn \/ PumpTop \/ DrainHosts \/ CompleteHost \/ HostsDone \/ CollectDone
             \/ GoToSleep \/ WakeUp
    <2>1. /\ UNCHANGED <<kind, ready, slab, running>> /\ pc # "task"
      BY <1>2 DEF PumpReturn, PumpTop, DrainHosts, CompleteHost, HostsDone, CollectDone,
         GoToSleep, WakeUp, Pumping, queueVars, cellVars
    <2> QED
      BY <2>1, QuietStepHomes
  <1> QED
    BY <1>1, <1>2, CollectStaleHomes, CollectReparksHomes, CollectResumesHomes, RunTaskHomes
    DEF Pump

LEMMA HomesKept == HomeInv /\ [Next]_vars => HomeInv'
  <1> SUFFICES ASSUME HomeInv, [Next]_vars PROVE HomeInv'
    OBVIOUS
  <1>1. TInv /\ TInv'
    BY TypesKept DEF HomeInv
  <1>2. CASE UserCode
    BY <1>1, <1>2, UserCodeStays, UserCodeHomes DEF HomeInv
  <1>3. CASE Pump
    BY <1>1, <1>3, PumpStays, PumpHomes DEF HomeInv
  <1>4. CASE EntryPoint
    <2>1. ASSUME NEW c \in Cells, MainAwait(c) PROVE HomeParts'
      BY <2>1, QuietHomes DEF MainAwait, cellVars, queueVars
    <2>2. ASSUME MainEnd PROVE HomeParts'
      BY <2>2, QuietHomes DEF MainEnd, cellVars, queueVars
    <2> QED
      BY <1>1, <1>4, <2>1, <2>2, CallMainHomes DEF EntryPoint, HomeInv
  <1>5. CASE HostThreads \/ UNCHANGED vars
    BY <1>1, <1>5, QuietHomes
    DEF HostThreads, HostComplete, vars, cellVars, queueVars, pumpVars, HomeInv
  <1> QED
    BY <1>2, <1>3, <1>4, <1>5 DEF Next, VmThread

LEMMA HomesAlways == Spec => []HomeInv
  <1>1. Init => HomeInv
    BY InitTypes, InitHomes DEF HomeInv
  <1> QED
    BY <1>1, HomesKept, PTL DEF Spec

\* A live task has one home and a settled one at most one.
LEMMA HomesCounted == HomeInv => OneHome
  <1> SUFFICES ASSUME HomeInv, NEW t \in Cells
               PROVE  /\ Homes(t) <= 1
                      /\ AtHome(t) => Homes(t) = 1
                      /\ ~AtHome(t) => Homes(t) = 0
    BY DEF OneHome, HomeInv, HomeParts, TInv
  <1> DEFINE R == {k \in DOMAIN ready : ready[k].output = t}
             P == {i \in DOMAIN slab.cells : slab.cells[i].out = t}
  <1>1. P = {i \in Occupied(slab) : slab.cells[i].out = t}
    BY NoneAssumption DEF Occupied
  <1>2. /\ \A j, k \in R : j = k
        /\ \A j, k \in P : j = k
    BY <1>1 DEF HomeInv, HomeParts, ReadyOnce, ParkedOnce
  <1>3. /\ Cardinality(R) = IF R = {} THEN 0 ELSE 1
        /\ Cardinality(P) = IF P = {} THEN 0 ELSE 1
    <2> HIDE DEF R, P
    <2> QED
      BY <1>2, Lone
  <1>4. /\ R # {} <=> InReady(t)
        /\ P # {} <=> InSlab(t)
    BY <1>1 DEF InReady, InSlab
  <1>5. /\ ~(InReady(t) /\ InSlab(t))
        /\ running = t => ~InReady(t) /\ ~InSlab(t)
    BY NoneAssumption DEF HomeInv, HomeParts
  <1>6. Homes(t) = Cardinality(R) + Cardinality(P) + (IF running = t THEN 1 ELSE 0)
    BY DEF Homes
  <1> HIDE DEF R, P
  <1> QED
    BY <1>3, <1>4, <1>5, <1>6 DEF AtHome

\* The seed of a task is never lost and never duplicated, whatever spawns,
\* yields, awaits, cancels, sweeps and stale tokens do: run_task, park,
\* collect_resumes and sweep_abandoned move it or drop it with its handle.
THEOREM SeedsKept == Spec => []OneHome
  BY HomesAlways, HomesCounted, PTL

\* The free list and `live` agree with the slots of the slab.
THEOREM SlabBalances == Spec => []SlabAccounting
  <1>1. HomeInv => SlabAccounting
    <2> SUFFICES ASSUME HomeInv PROVE SlabAccounting
      OBVIOUS
    <2>1. Books(slab) /\ GoodSlab(slab)
      BY DEF HomeInv, HomeParts, TInv, Created
    <2>2. IsInjective(slab.free) /\ slab.live = Cardinality(Occupied(slab))
      BY <2>1 DEF Books
    <2>3. {slab.free[k] : k \in DOMAIN slab.free} \subseteq DOMAIN slab.cells \ Occupied(slab)
      BY <2>1 DEF Books, GoodSlab
    <2>4. DOMAIN slab.cells \ Occupied(slab) \subseteq {slab.free[k] : k \in DOMAIN slab.free}
      BY <2>1 DEF Books
    <2> QED
      BY <2>2, <2>3, <2>4 DEF SlabAccounting
  <1> QED
    BY <1>1, HomesAlways, PTL

-----------------------------------------------------------------------------
(***************************************************************************)
(* A completed host operation has one token on its way                     *)
(***************************************************************************)
Among(x, s) == \E k \in DOMAIN s : s[k] = x
Once(s) == \A j, k \in DOMAIN s : s[j] = s[k] => j = k

LEMMA AppendOnce ==
  ASSUME NEW S, NEW s \in Seq(S), NEW e \in S
  PROVE  /\ \A x : Among(x, Append(s, e)) <=> Among(x, s) \/ x = e
         /\ Once(s) /\ ~Among(e, s) => Once(Append(s, e))
  <1> DEFINE r == Append(s, e)
             n == Len(s)
  <1>1. /\ n \in Nat /\ DOMAIN s = 1..n /\ DOMAIN r = 1..(n + 1)
        /\ r[n + 1] = e
        /\ \A k \in DOMAIN s : k \in DOMAIN r /\ r[k] = s[k]
        /\ \A k \in DOMAIN r :
              (k \in DOMAIN s /\ r[k] = s[k]) \/ (k = n + 1 /\ r[k] = e)
    BY AppendParts
  <1>2. n + 1 \in DOMAIN r
    BY <1>1
  <1> HIDE DEF n, r
  <1>3. \A x : Among(x, r) <=> Among(x, s) \/ x = e
    BY <1>1, <1>2 DEF Among
  <1>4. ASSUME Once(s), ~Among(e, s) PROVE Once(r)
    BY <1>1, <1>4 DEF Among, Once
  <1> QED
    BY <1>3, <1>4 DEF r

LEMMA TailOnce ==
  ASSUME NEW S, NEW s \in Seq(S), s # <<>>, Once(s)
  PROVE  /\ Once(Tail(s)) /\ Head(s) \in S /\ Among(Head(s), s)
         /\ \A x : Among(x, Tail(s)) <=> Among(x, s) /\ x # Head(s)
  <1> DEFINE r == Tail(s)
  <1>1. /\ 1 \in DOMAIN s /\ Head(s) = s[1] /\ Head(s) \in S
        /\ Len(s) \in Nat /\ DOMAIN s = 1..Len(s) /\ DOMAIN r = 1..(Len(s) - 1)
        /\ \A k \in DOMAIN r : k + 1 \in DOMAIN s /\ r[k] = s[k + 1]
        /\ \A k \in DOMAIN s : k = 1 \/ (k - 1 \in DOMAIN r /\ r[k - 1] = s[k])
    BY TailParts
  <1> HIDE DEF r
  <1>2. Once(r)
    <2> SUFFICES ASSUME NEW j \in DOMAIN r, NEW k \in DOMAIN r, r[j] = r[k] PROVE j = k
      BY DEF Once
    <2>1. j + 1 = k + 1
      BY <1>1 DEF Once
    <2> QED
      BY <1>1, <2>1
  <1>3. ASSUME NEW x, Among(x, r) PROVE Among(x, s) /\ x # Head(s)
    <2>1. PICK k \in DOMAIN r : r[k] = x
      BY <1>3 DEF Among
    <2>2. k + 1 \in DOMAIN s /\ s[k + 1] = x /\ k + 1 # 1
      BY <1>1, <2>1
    <2> QED
      BY <1>1, <2>2 DEF Among, Once
  <1>4. ASSUME NEW x, Among(x, s), x # Head(s) PROVE Among(x, r)
    <2>1. PICK k \in DOMAIN s : s[k] = x
      BY <1>4 DEF Among
    <2>2. k - 1 \in DOMAIN r /\ r[k - 1] = x
      BY <1>1, <1>4, <2>1
    <2> QED
      BY <2>2 DEF Among
  <1> QED
    BY <1>1, <1>2, <1>3, <1>4 DEF Among, r

HostParts ==
    /\ Once(hostQ) /\ Once(batch)
    /\ \A c : ~(Among(c, hostQ) /\ Among(c, batch))
    /\ \A c \in Cells : (Among(c, hostQ) \/ Among(c, batch)) <=> (c \in held /\ promise[c] # "pending")
    /\ \A c \in Cells : promise[c] = "pending" => c \in held
    /\ \A c \in Cells : c \in held => kind[c] = "host"
    /\ \A c \in Cells : kind[c] = "host" /\ status[c] = "pending" => c \in held
    /\ batch # <<>> => pc = "hosts"

HostInv == TInv /\ HostParts

LEMMA InitHosts == Init => HostParts
  <1>1. DOMAIN <<>> = {}
    OBVIOUS
  <1> QED
    BY <1>1 DEF Init, HostParts, Once, Among

\* A step that leaves the promises and the wake queue alone.
LEMMA QuietHosts ==
  ASSUME HostInv, SettledStay, UNCHANGED <<promise, held, hostQ, batch>>,
         batch = <<>> \/ pc' = pc,
         \A c \in Cells : kind'[c] = "host" <=> kind[c] = "host"
  PROVE  HostParts'
  BY DEF HostInv, HostParts, SettledStay, Once, Among

\* The promise of c is completed, and its token put into the wake queue.
LEMMA PushHosts ==
  ASSUME HostInv, SettledStay, NEW c \in Cells, NEW o \in Outcomes, promise[c] = "pending",
         promise' = [promise EXCEPT ![c] = o], hostQ' = Append(hostQ, c),
         UNCHANGED <<held, batch, kind, pc>>
  PROVE  HostParts'
  <1>1. hostQ \in Seq(Cells) /\ promise \in [Cells -> {"none", "pending"} \cup Outcomes]
    BY DEF HostInv, TInv, TypeOK, HostTypes
  <1>2. ~Among(c, hostQ) /\ ~Among(c, batch) /\ c \in held /\ o # "pending"
    BY DEF HostInv, HostParts, Outcomes
  <1>3. /\ Once(hostQ') /\ \A x : Among(x, hostQ') <=> Among(x, hostQ) \/ x = c
    BY <1>1, <1>2, AppendOnce DEF HostInv, HostParts
  <1>4. \A d \in Cells : promise'[d] = IF d = c THEN o ELSE promise[d]
    BY <1>1
  <1>5. Once(hostQ)' /\ \A x : Among(x, hostQ)' <=> Among(x, hostQ) \/ x = c
    BY <1>3 DEF Once, Among
  <1>6. Once(batch)' /\ \A x : Among(x, batch)' <=> Among(x, batch)
    BY DEF Once, Among, HostInv, HostParts
  <1> QED
    BY <1>1, <1>2, <1>4, <1>5, <1>6 DEF HostInv, HostParts, SettledStay

LEMMA FromHostHosts ==
  ASSUME HostInv, SettledStay, NEW c \in Cells, NEW s \in {"pending"} \cup Outcomes, FromHost(c, s)
  PROVE  HostParts'
  <1>1. /\ hostQ \in Seq(Cells) /\ promise \in [Cells -> {"none", "pending"} \cup Outcomes]
        /\ kind \in [Cells -> {"unused", "task", "settled", "host", "gather"}]
    BY DEF HostInv, TInv, TypeOK, HostTypes, CellTypes
  <1>2. /\ kind[c] = "unused" /\ kind' = [kind EXCEPT ![c] = "host"]
        /\ promise' = [promise EXCEPT ![c] = s] /\ held' = held \cup {c}
        /\ IF s = "pending" THEN hostQ' = hostQ ELSE hostQ' = Append(hostQ, c)
        /\ UNCHANGED <<status, batch, pc>>
    BY DEF FromHost, Creates, pumpVars
  <1>3. c \notin held /\ ~Among(c, hostQ) /\ ~Among(c, batch)
    BY <1>2 DEF HostInv, HostParts
  <1>4. Once(hostQ)' /\ \A x : Among(x, hostQ)' <=> Among(x, hostQ) \/ (x = c /\ s # "pending")
    <2>1. CASE s = "pending"
      BY <1>2, <2>1 DEF Once, Among, HostInv, HostParts
    <2>2. CASE s # "pending"
      <3>1. hostQ' = Append(hostQ, c) /\ Once(hostQ)
        BY <1>2, <2>2 DEF HostInv, HostParts
      <3>2. /\ Once(Append(hostQ, c))
            /\ \A x : Among(x, Append(hostQ, c)) <=> Among(x, hostQ) \/ x = c
        BY <1>1, <1>3, <3>1, AppendOnce
      <3> QED
        BY <2>2, <3>1, <3>2 DEF Once, Among
    <2> QED
      BY <2>1, <2>2
  <1>5. Once(batch)' /\ \A x : Among(x, batch)' <=> Among(x, batch)
    BY <1>2 DEF Once, Among, HostInv, HostParts
  <1>6. \A d \in Cells : /\ promise'[d] = IF d = c THEN s ELSE promise[d]
                         /\ kind'[d] = IF d = c THEN "host" ELSE kind[d]
    BY <1>1, <1>2
  <1> QED
    BY <1>2, <1>3, <1>4, <1>5, <1>6 DEF HostInv, HostParts

LEMMA DrainHostsHosts ==
  ASSUME HostInv, DrainHosts
  PROVE  HostParts'
  <1>1. /\ batch = <<>> /\ batch' = hostQ /\ hostQ' = <<>> /\ pc' = "hosts"
        /\ UNCHANGED <<promise, held, kind, status>>
    BY DEF DrainHosts, Pumping, cellVars, HostInv, HostParts
  <1>2. DOMAIN <<>> = {}
    OBVIOUS
  <1>3. Once(batch)' /\ \A x : Among(x, batch)' <=> Among(x, hostQ)
    BY <1>1 DEF Once, Among, HostInv, HostParts
  <1>4. Once(hostQ)' /\ \A x : ~Among(x, hostQ)' /\ ~Among(x, batch)
    BY <1>1, <1>2 DEF Once, Among
  <1> QED
    BY <1>1, <1>3, <1>4 DEF HostInv, HostParts

LEMMA CompleteHostHosts ==
  ASSUME HostInv, SettledStay, CompleteHost
  PROVE  HostParts'
  <1> DEFINE c == Head(batch)
  <1>1. batch \in Seq(Cells) /\ batch # <<>> /\ Once(batch)
    BY DEF CompleteHost, HostInv, HostParts, TInv, TypeOK, PumpTypes
  <1>2. /\ Once(Tail(batch)) /\ c \in Cells /\ Among(c, batch)
        /\ \A x : Among(x, Tail(batch)) <=> Among(x, batch) /\ x # c
    BY <1>1, TailOnce
  <1>3. c \in held /\ promise[c] # "pending" /\ promise[c] \in Outcomes
    <2>1. c \in held /\ promise[c] # "pending"
      BY <1>2 DEF HostInv, HostParts
    <2> QED
      BY <1>2, <2>1 DEF HostInv, TInv, TypeOK, HostTypes, Created, KnownHeld
  <1>4. /\ Settle(c, promise[c], {}, <<>>) /\ held' = held \ {c} /\ batch' = Tail(batch)
        /\ UNCHANGED <<kind, promise, hostQ, pc>> /\ pc = "hosts"
    BY <1>3 DEF CompleteHost, Pumping
  <1>5. status'[c] # "pending"
    BY <1>2, <1>3, <1>4, SettleEnds DEF HostInv
  <1> HIDE DEF c
  <1>6. Once(batch)' /\ \A x : Among(x, batch)' <=> Among(x, batch) /\ x # c
    BY <1>2, <1>4 DEF Once, Among
  <1>7. Once(hostQ)' /\ \A x : Among(x, hostQ)' <=> Among(x, hostQ)
    BY <1>4 DEF Once, Among, HostInv, HostParts
  <1> QED
    BY <1>2, <1>3, <1>4, <1>5, <1>6, <1>7 DEF HostInv, HostParts, SettledStay

LEMMA HostPartsKept ==
  ASSUME HostInv, SettledStay, Next
  PROVE  HostParts'
  <1> USE DEF queueVars, pumpVars, cellVars, hostVars
  <1>1. ASSUME NEW c \in Cells, NEW what \in {"task", "settled", "gather"}, Creates(what, c)
        PROVE  \A d \in Cells : kind'[d] = "host" <=> kind[d] = "host"
    BY <1>1 DEF Creates, HostInv, TInv, TypeOK, CellTypes
  <1>2. CASE UserCode
    <2>1. ASSUME NEW c \in Cells, Spawn(c) PROVE HostParts'
      BY <1>1, <2>1, QuietHosts DEF Spawn
    <2>2. ASSUME NEW c \in Cells, Cancel(c) PROVE HostParts'
      BY <2>2, QuietHosts, PushHosts DEF Cancel, Outcomes
    <2>3. ASSUME NEW c \in Cells, AwaitSettled(c) PROVE HostParts'
      BY <2>3, QuietHosts DEF AwaitSettled
    <2>4. ASSUME NEW c \in Cells, TaskAwait(c) PROVE HostParts'
      <3>1. batch = <<>>
        BY <2>4 DEF TaskAwait, HostInv, HostParts
      <3> QED
        BY <2>4, <3>1, QuietHosts DEF TaskAwait
    <2>5. ASSUME NEW c \in Cells, NEW o, BornSettled(c, o) PROVE HostParts'
      BY <1>1, <2>5, QuietHosts DEF BornSettled
    <2>6. ASSUME NEW p \in Cells, NEW children, Parallel(p, children) PROVE HostParts'
      BY <1>1, <2>6, QuietHosts DEF Parallel
    <2>7. ASSUME TaskYield \/ \E o \in Outcomes : Finish(o) PROVE HostParts'
      <3>1. batch = <<>>
        BY <2>7 DEF TaskYield, Finish, HostInv, HostParts
      <3> QED
        BY <2>7, <3>1, QuietHosts DEF TaskYield, Finish
    <2> QED
      BY <1>2, <2>1, <2>2, <2>3, <2>4, <2>5, <2>6, <2>7, FromHostHosts DEF UserCode
  <1>3. CASE EntryPoint
    <2>1. batch = <<>>
      BY <1>3 DEF EntryPoint, MainAwait, MainEnd, CallMain, HostInv, HostParts
    <2>2. ASSUME NEW c \in Cells, CallMain(c) PROVE HostParts'
      <3>1. \A d \in Cells : kind'[d] = "host" <=> kind[d] = "host"
        BY <2>2 DEF CallMain, Unused, HostInv, TInv, TypeOK, CellTypes
      <3> QED
        BY <2>1, <2>2, <3>1, QuietHosts DEF CallMain
    <2>3. ASSUME NEW c \in Cells, MainAwait(c) \/ MainEnd PROVE HostParts'
      BY <2>1, <2>3, QuietHosts DEF MainAwait, MainEnd
    <2>4. CASE MainEnd
      BY <2>1, <2>4, QuietHosts DEF MainEnd
    <2> QED
      BY <1>3, <2>2, <2>3, <2>4 DEF EntryPoint
  <1>4. CASE Pump
    <2>1. CASE NotifyAwaiter \/ GatherOne
      BY <2>1, QuietHosts DEF NotifyAwaiter, GatherOne
    <2>2. CASE PumpReturn \/ PumpTop \/ HostsDone \/ CollectStale \/ CollectReparks
               \/ CollectResumes \/ CollectDone \/ RunTask \/ GoToSleep \/ WakeUp
      <3>1. batch = <<>>
        BY <2>2 DEF PumpReturn, PumpTop, HostsDone, CollectStale, CollectReparks,
           CollectResumes, CollectDone, RunTask, GoToSleep, WakeUp, Collecting, Pumping,
           HostInv, HostParts
      <3>2. UNCHANGED <<promise, held, hostQ, batch, kind>>
        BY <2>2 DEF PumpReturn, PumpTop, HostsDone, CollectStale, CollectReparks,
           CollectResumes, CollectDone, RunTask, GoToSleep, WakeUp
      <3> QED
        BY <3>1, <3>2, QuietHosts
    <2> QED
      BY <1>4, <2>1, <2>2, DrainHostsHosts, CompleteHostHosts DEF Pump
  <1>5. CASE HostThreads
    BY <1>5, PushHosts DEF HostThreads, HostComplete
  <1> QED
    BY <1>2, <1>3, <1>4, <1>5 DEF Next, VmThread

LEMMA StepStays == TInv /\ Next => SettledStay
  <1> SUFFICES ASSUME TInv, Next PROVE SettledStay
    OBVIOUS
  <1>1. CASE UserCode
    BY <1>1, UserCodeStays
  <1>2. CASE Pump
    BY <1>2, PumpStays
  <1>3. CASE EntryPoint \/ HostThreads
    <2>1. UNCHANGED <<status, waiters>>
      BY <1>3 DEF EntryPoint, MainAwait, MainEnd, CallMain, HostThreads, HostComplete, cellVars
    <2> QED
      BY <2>1, QuietStay
  <1> QED
    BY <1>1, <1>2, <1>3 DEF Next, VmThread

LEMMA HostsAlways == Spec => []HostInv
  <1>1. Init => HostInv
    BY InitTypes, InitHosts DEF HostInv
  <1>2. HostInv /\ [Next]_vars => HostInv'
    <2> SUFFICES ASSUME HostInv, [Next]_vars PROVE HostInv'
      OBVIOUS
    <2>1. TInv /\ TInv'
      BY TypesKept DEF HostInv
    <2>2. CASE Next
      BY <2>1, <2>2, StepStays, HostPartsKept DEF HostInv
    <2>3. CASE UNCHANGED vars
      BY <2>1, <2>3 DEF HostInv, HostParts, Once, Among, vars, cellVars, hostVars, pumpVars
    <2> QED
      BY <2>2, <2>3
  <1> QED
    BY <1>1, <1>2, PTL DEF Spec

\* A completion reaches its handle: while the handle has not been completed, its
\* promise is pending or one token of it is in the wake queue or drained.
THEOREM TokensAreDue == Spec => []HostTokenDue
  <1>1. HostInv => HostTokenDue
    <2> SUFFICES ASSUME HostInv, NEW c \in Cells, kind[c] = "host"
                 PROVE  /\ status[c] = "pending" => c \in held
                        /\ TokensOfHost(c) = IF c \in held /\ promise[c] # "pending" THEN 1 ELSE 0
      BY DEF HostTokenDue
    <2> DEFINE W == {k \in DOMAIN hostQ : hostQ[k] = c}
               B == {k \in DOMAIN batch : batch[k] = c}
    <2>1. /\ \A j, k \in W : j = k
          /\ \A j, k \in B : j = k
      BY DEF HostInv, HostParts, Once
    <2>2. /\ W # {} <=> Among(c, hostQ)
          /\ B # {} <=> Among(c, batch)
      BY DEF Among
    <2>3. TokensOfHost(c) = Cardinality(W) + Cardinality(B)
      BY DEF TokensOfHost
    <2> HIDE DEF W, B
    <2>4. /\ Cardinality(W) = IF W = {} THEN 0 ELSE 1
          /\ Cardinality(B) = IF B = {} THEN 0 ELSE 1
      BY <2>1, Lone
    <2> QED
      BY <2>2, <2>3, <2>4 DEF HostInv, HostParts
  <1> QED
    BY <1>1, HostsAlways, PTL

-----------------------------------------------------------------------------
(***************************************************************************)
(* The thread sleeps only when there is nothing to do                      *)
(***************************************************************************)
\* What the pump has emptied by the time it is where pc says.
Emptied ==
    /\ work # <<>> => pc \in {"main", "task", "top", "hosts"}
    /\ pc \in {"hosts", "collect", "ready", "wait"} /\ ~news => hostQ = <<>>
    /\ pc \in {"ready", "wait"} => inbox = <<>>
    /\ pc = "wait" => ready = <<>>

LEMMA EmptiedKept == HostInv /\ Emptied /\ [Next]_vars => Emptied'
  <1> SUFFICES ASSUME HostInv, Emptied, [Next]_vars PROVE Emptied'
    OBVIOUS
  <1> USE DEF queueVars, pumpVars, cellVars, hostVars, Emptied
  <1>1. CASE UserCode
    <2>1. pc \in {"main", "task"}
      BY <1>1 DEF UserCode, Spawn, Cancel, AwaitSettled, TaskAwait, BornSettled, FromHost, Parallel,
         Finish, TaskYield, InUserCode
    <2>2. pc' \in {"main", "task", "top"}
      BY <1>1, <2>1 DEF UserCode, Spawn, Cancel, AwaitSettled, TaskAwait, BornSettled, FromHost, Parallel,
         Finish, TaskYield
    <2> QED
      BY <2>2
  <1>2. CASE EntryPoint
    <2>1. /\ pc' \in {"failed", "top", "done"} /\ work = <<>> /\ work' = work
      BY <1>2 DEF EntryPoint, MainAwait, MainEnd, CallMain, InUserCode
    <2> QED
      BY <2>1
  <1>3. CASE NotifyAwaiter \/ GatherOne
    <2>1. /\ pc \in {"main", "task", "top", "hosts"} /\ pc' = pc /\ UNCHANGED <<hostQ, news>>
      BY <1>3 DEF NotifyAwaiter, GatherOne
    <2> QED
      BY <2>1
  <1>4. CASE PumpReturn \/ PumpTop
    <2>1. /\ pc' \in {"main", "done", "failed", "drain"} /\ work = <<>> /\ work' = work
      BY <1>4 DEF PumpReturn, PumpTop, Pumping, HostInv, TInv, TypeOK, PumpTypes, CellTypes,
         Settled, Outcomes
    <2> QED
      BY <2>1
  <1>5. CASE DrainHosts \/ CompleteHost
    BY <1>5 DEF DrainHosts, CompleteHost, Pumping
  <1>6. CASE HostsDone \/ CollectStale \/ CollectReparks \/ CollectResumes
    BY <1>6 DEF HostsDone, CollectStale, CollectReparks, CollectResumes, Collecting, Pumping
  <1>7. CASE CollectDone \/ GoToSleep \/ WakeUp \/ RunTask
    BY <1>7 DEF CollectDone, GoToSleep, WakeUp, RunTask, Pumping
  <1>8. CASE HostThreads
    BY <1>8 DEF HostThreads, HostComplete
  <1>9. CASE UNCHANGED vars
    BY <1>9 DEF vars
  <1> QED
    BY <1>1, <1>2, <1>3, <1>4, <1>5, <1>6, <1>7, <1>8, <1>9 DEF Next, VmThread, Pump

\* The thread sleeps in host_wait only when no token has fired, no task is ready
\* and no live task is parked on a handle that has settled.
THEOREM SleepIsIdle == Spec => []SleepsOnlyWhenIdle
  <1>1. Init => Emptied
    BY DEF Init, Emptied
  <1>2. HostInv /\ ParkedIsWatched /\ Emptied => SleepsOnlyWhenIdle
    <2> SUFFICES ASSUME HostInv, ParkedIsWatched, Emptied, pc = "wait", ~news
                 PROVE  /\ hostQ = <<>> /\ batch = <<>> /\ ready = <<>> /\ inbox = <<>>
                        /\ \A i \in Occupied(slab) : status[slab.cells[i].on] = "pending"
      BY DEF SleepsOnlyWhenIdle
    <2>1. hostQ = <<>> /\ batch = <<>> /\ ready = <<>> /\ inbox = <<>> /\ work = <<>>
      BY DEF HostInv, HostParts, Emptied
    <2>2. DOMAIN inbox = {} /\ DOMAIN work = {}
      BY <2>1
    <2>3. \A k : ~Delivered(k)
      BY <2>2 DEF Delivered
    <2> QED
      BY <2>1, <2>3 DEF ParkedIsWatched
  <1> QED
    BY <1>1, <1>2, HostsAlways, EmptiedKept, WakeUpsKept, PTL DEF Spec

-----------------------------------------------------------------------------
(***************************************************************************)
(* The account of a parallel                                               *)
(***************************************************************************)
\* The waiter of index i of the gather p.
Waiter(p, i) == [parent |-> p, index |-> i]
Gathers == {p \in Cells : kind[p] = "gather"}

\* Whether settle has yet to tell p of its child at i, and the indices of p
\* that are pending or to be told of.
Untold(wk, p, i) == \E k \in DOMAIN wk : wk[k].waiter = Waiter(p, i)
Open(wk, p) ==
    {i \in DOMAIN parts[p] : status[parts[p][i]] = "pending" \/ Untold(wk, p, i)}

\* A waiter for a gather is left with the child it names, while that is pending.
GatherWaits ==
    \A c \in Cells : \A k \in DOMAIN waiters[c] :
        LET w == waiters[c][k]
        IN  ~IsResume(w) =>
                /\ kind[w.parent] = "gather" /\ w.index \in DOMAIN parts[w.parent]
                /\ parts[w.parent][w.index] = c /\ status[c] = "pending"
GatherWaitsOnce ==
    \A c \in Cells : \A j, k \in DOMAIN waiters[c] :
        ~IsResume(waiters[c][j]) /\ waiters[c][j] = waiters[c][k] => j = k
ChildrenWait ==
    \A p \in Gathers : \A i \in DOMAIN parts[p] :
        /\ kind[parts[p][i]] # "unused"
        /\ status[parts[p][i]] = "pending" => Among(Waiter(p, i), waiters[parts[p][i]])

\* And it is told once, after the child has settled.
WorkAgrees(wk) ==
    \A k \in DOMAIN wk :
        LET w == wk[k].waiter
        IN  ~IsResume(w) =>
                /\ kind[w.parent] = "gather" /\ w.index \in DOMAIN parts[w.parent]
                /\ parts[w.parent][w.index] = wk[k].from /\ status[wk[k].from] # "pending"
WorkOnce(wk) ==
    \A j, k \in DOMAIN wk :
        ~IsResume(wk[j].waiter) /\ wk[j].waiter = wk[k].waiter => j = k

\* The counter, and what the gather has been told.
LeftAgrees(wk, lf) == \A p \in Gathers : lf[p] = Cardinality(Open(wk, p))
ToldAgrees(wk, fl, rs) ==
    \A p \in Gathers :
        /\ DOMAIN rs[p] = DOMAIN parts[p]
        /\ fl[p] # None => status[fl[p]] = "rejected" /\ Among(fl[p], parts[p])
        /\ status[p] = "pending" =>
              \A i \in DOMAIN parts[p] \ Open(wk, p) :
                  /\ status[parts[p][i]] = "resolved" => rs[p][i] = parts[p][i]
                  /\ status[parts[p][i]] = "rejected" => fl[p] # None
GatherEnds(lf, fl, rs) ==
    \A p \in Gathers :
        /\ status[p] = "pending" => lf[p] > 0
        /\ status[p] = "resolved" => lf[p] = 0 /\ rs[p] = parts[p] /\ fl[p] = None

Ledger(wk, lf, fl, rs) ==
    /\ GatherWaits /\ GatherWaitsOnce /\ ChildrenWait
    /\ WorkAgrees(wk) /\ WorkOnce(wk) /\ LeftAgrees(wk, lf) /\ ToldAgrees(wk, fl, rs)

GatherParts == Ledger(work, left, failed, results) /\ GatherEnds(left, failed, results)

LEMMA InitLedger == Init => GatherParts
  <1> SUFFICES ASSUME Init PROVE GatherParts
    OBVIOUS
  <1>1. /\ work = <<>> /\ \A c \in Cells : waiters[c] = <<>> /\ kind[c] = "unused"
    BY DEF Init
  <1>2. Gathers = {} /\ DOMAIN work = {} /\ \A c \in Cells : DOMAIN waiters[c] = {}
    BY <1>1 DEF Gathers
  <1> QED
    BY <1>2 DEF GatherParts, Ledger, GatherWaits, GatherWaitsOnce, ChildrenWait,
       WorkAgrees, WorkOnce, LeftAgrees, ToldAgrees, GatherEnds

\* A waiter that is no task's is a gather's.
LEMMA WaiterForm ==
  /\ \A w \in Waiters : ~IsResume(w) =>
        w \in GatherWaiters /\ w = Waiter(w.parent, w.index) /\ w.parent \in Cells
  /\ \A p, i : ~IsResume(Waiter(p, i)) /\ Waiter(p, i).parent = p /\ Waiter(p, i).index = i
  /\ \A k : IsResume([token |-> k])
  BY DEF Waiters, ResumeWaiters, GatherWaiters, IsResume, Waiter

LEMMA WaiterParts == \A p, q, i, j : Waiter(p, i) = Waiter(q, j) => p = q /\ i = j
  <1> SUFFICES ASSUME NEW p, NEW q, NEW i, NEW j, Waiter(p, i) = Waiter(q, j) PROVE p = q /\ i = j
    OBVIOUS
  <1>1. Waiter(p, i).parent = p /\ Waiter(q, j).parent = q /\ Waiter(p, i).index = i /\ Waiter(q, j).index = j
    BY DEF Waiter
  <1> QED
    BY <1>1

\* What the work is made of.
LEMMA WorkParts ==
  ASSUME NEW wk \in Seq(Notifications), NEW k \in DOMAIN wk
  PROVE  wk[k].waiter \in Waiters /\ wk[k].from \in Cells
  <1>1. wk[k] \in Notifications
    OBVIOUS
  <1> QED
    BY <1>1 DEF Notifications

\* The indices of a gather that are not settled and told are finitely many.
LEMMA OpenFinite ==
  ASSUME TInv, NEW p \in Cells, NEW wk
  PROVE  /\ IsFiniteSet(Open(wk, p)) /\ Cardinality(Open(wk, p)) \in Nat
         /\ IsFiniteSet(DOMAIN parts[p])
  <1>1. DOMAIN parts[p] = 1..Len(parts[p]) /\ Len(parts[p]) \in Nat
    BY DEF TInv, TypeOK, GatherTypes
  <1>2. IsFiniteSet(DOMAIN parts[p])
    BY <1>1, FS_Interval
  <1>3. Open(wk, p) \subseteq DOMAIN parts[p]
    BY DEF Open
  <1> QED
    BY <1>2, <1>3, FS_Subset, FS_CardinalityType

\* A step that changes no waiter, no status and no gather.
LEMMA QuietLedger ==
  ASSUME TInv, GatherParts, UNCHANGED <<status, waiters, work, parts, left, failed, results>>,
         \A c \in Cells : kind'[c] = "gather" <=> kind[c] = "gather", Grows
  PROVE  GatherParts'
  <1>1. Gathers' = Gathers
    BY DEF Gathers
  <1>2. /\ \A c \in Cells : \A k \in DOMAIN waiters[c] :
              ~IsResume(waiters[c][k]) => waiters[c][k].parent \in Cells
        /\ \A k \in DOMAIN work : ~IsResume(work[k].waiter) => work[k].waiter.parent \in Cells
        /\ \A p \in Cells : \A i \in DOMAIN parts[p] : parts[p][i] \in Cells
    <2>1. /\ \A c \in Cells : waiters[c] \in Seq(Waiters) /\ parts[c] \in Seq(Cells)
          /\ work \in Seq(Notifications)
      BY DEF TInv, TypeOK, CellTypes, GatherTypes
    <2>2. \A c \in Cells : \A k \in DOMAIN waiters[c] : waiters[c][k] \in Waiters
      BY <2>1
    <2>3. \A k \in DOMAIN work : work[k].waiter \in Waiters
      BY <2>1, WorkParts
    <2> QED
      BY <2>1, <2>2, <2>3, WaiterForm
  <1>3. GatherWaits' /\ GatherWaitsOnce'
    BY <1>2 DEF GatherParts, Ledger, GatherWaits, GatherWaitsOnce
  <1>4. ChildrenWait'
    BY <1>1, <1>2 DEF GatherParts, Ledger, ChildrenWait, Among, Grows, Gathers
  <1>5. WorkAgrees(work)' /\ WorkOnce(work)'
    BY <1>2 DEF GatherParts, Ledger, WorkAgrees, WorkOnce
  <1>6. \A p : Open(work, p)' = Open(work, p)
    BY DEF Open, Untold
  <1>7. LeftAgrees(work, left)' /\ ToldAgrees(work, failed, results)' /\ GatherEnds(left, failed, results)'
    BY <1>1, <1>6 DEF GatherParts, Ledger, LeftAgrees, ToldAgrees, GatherEnds, Among
  <1> QED
    BY <1>3, <1>4, <1>5, <1>7 DEF GatherParts, Ledger

\* A task's token is left with a pending cell.
LEMMA WatchLedger ==
  ASSUME TInv, GatherParts, NEW c \in Cells, NEW k, [token |-> k] \in Waiters,
         waiters' = [waiters EXCEPT ![c] = Append(@, [token |-> k])],
         UNCHANGED <<status, work, parts, left, failed, results, kind>>
  PROVE  GatherParts'
  <1> DEFINE e == [token |-> k]
  <1>1. waiters[c] \in Seq(Waiters) /\ waiters'[c] = Append(waiters[c], e)
        /\ \A d \in Cells : d # c => waiters'[d] = waiters[d]
    BY DEF TInv, TypeOK, CellTypes
  <1>2. IsResume(e)
    BY WaiterForm
  <1>3. \A d \in Cells : /\ \A j \in DOMAIN waiters[d] : j \in DOMAIN waiters'[d] /\ waiters'[d][j] = waiters[d][j]
                         /\ \A j \in DOMAIN waiters'[d] :
                              \/ j \in DOMAIN waiters[d] /\ waiters'[d][j] = waiters[d][j]
                              \/ IsResume(waiters'[d][j])
    <2>1. /\ \A j \in DOMAIN waiters[c] : j \in DOMAIN waiters'[c] /\ waiters'[c][j] = waiters[c][j]
          /\ \A j \in DOMAIN waiters'[c] :
                (j \in DOMAIN waiters[c] /\ waiters'[c][j] = waiters[c][j]) \/ waiters'[c][j] = e
      <3> HIDE DEF e
      <3> QED
        BY <1>1, AppendParts DEF e
    <2> QED
      BY <1>1, <1>2, <2>1
  <1>4. GatherWaits'
    BY <1>3 DEF GatherParts, Ledger, GatherWaits
  <1>5. GatherWaitsOnce'
    BY <1>3 DEF GatherParts, Ledger, GatherWaitsOnce
  <1>6. Gathers' = Gathers /\ \A p : Open(work, p)' = Open(work, p)
    BY DEF Open, Untold, Gathers
  <1>7. ChildrenWait'
    <2>1. \A p \in Gathers : \A i \in DOMAIN parts[p] : parts[p][i] \in Cells
      BY DEF TInv, TypeOK, GatherTypes, Gathers
    <2>2. \A d \in Cells : \A w : Among(w, waiters[d]) => Among(w, waiters'[d])
      BY <1>3 DEF Among
    <2>3. \A d \in Cells : \A w : Among(w, waiters[d])' <=> Among(w, waiters'[d])
      BY DEF Among
    <2> QED
      BY <1>6, <2>1, <2>2, <2>3 DEF GatherParts, Ledger, ChildrenWait, Among, Waiter
  <1>8. WorkAgrees(work)' /\ WorkOnce(work)'
    BY DEF GatherParts, Ledger, WorkAgrees, WorkOnce
  <1>9. LeftAgrees(work, left)' /\ ToldAgrees(work, failed, results)' /\ GatherEnds(left, failed, results)'
    BY <1>6 DEF GatherParts, Ledger, LeftAgrees, ToldAgrees, GatherEnds, Among
  <1> QED
    BY <1>4, <1>5, <1>7, <1>8, <1>9 DEF GatherParts, Ledger

\* settle takes the first of its work.
LEMMA TailWork ==
  ASSUME TInv, work # <<>>, WorkAgrees(work), WorkOnce(work)
  PROVE  LET wk == Tail(work)
             w == Head(work).waiter
         IN  /\ wk \in Seq(Notifications) /\ WorkAgrees(wk) /\ WorkOnce(wk)
             /\ w \in Waiters /\ Head(work).from \in Cells /\ Head(work) = work[1] /\ 1 \in DOMAIN work
             /\ IsResume(w) => \A p, i : Untold(wk, p, i) <=> Untold(work, p, i)
             /\ ~IsResume(w) =>
                   \A p, i : Untold(wk, p, i) <=> Untold(work, p, i) /\ Waiter(p, i) # w
  <1> DEFINE wk == Tail(work)
             w == Head(work).waiter
  <1>1. work \in Seq(Notifications)
    BY DEF TInv, TypeOK, CellTypes
  <1>2. /\ wk \in Seq(Notifications) /\ Len(work) \in Nat /\ DOMAIN work = 1..Len(work)
        /\ 1 \in DOMAIN work /\ Head(work) = work[1]
        /\ DOMAIN wk = 1..(Len(work) - 1)
        /\ \A k \in DOMAIN wk : k + 1 \in DOMAIN work /\ wk[k] = work[k + 1]
        /\ \A k \in DOMAIN work : k = 1 \/ (k - 1 \in DOMAIN wk /\ wk[k - 1] = work[k])
    BY <1>1, TailParts
  <1>3. w \in Waiters /\ Head(work).from \in Cells
    BY <1>1, <1>2, WorkParts
  <1> HIDE DEF wk
  <1>4. WorkAgrees(wk)
    BY <1>2 DEF WorkAgrees
  <1>5. WorkOnce(wk)
    <2> SUFFICES ASSUME NEW j \in DOMAIN wk, NEW k \in DOMAIN wk,
                        ~IsResume(wk[j].waiter), wk[j].waiter = wk[k].waiter
                 PROVE  j = k
      BY DEF WorkOnce
    <2>1. j + 1 = k + 1
      BY <1>2 DEF WorkOnce
    <2> QED
      BY <1>2, <2>1
  <1>6. ASSUME NEW p, NEW i, Untold(wk, p, i)
        PROVE  Untold(work, p, i) /\ (~IsResume(w) => Waiter(p, i) # w)
    <2>1. PICK k \in DOMAIN wk : wk[k].waiter = Waiter(p, i)
      BY <1>6 DEF Untold
    <2>2. k + 1 \in DOMAIN work /\ work[k + 1].waiter = Waiter(p, i) /\ k + 1 # 1
      BY <1>2, <2>1
    <2> QED
      BY <1>2, <2>2 DEF Untold, WorkOnce
  <1>7. ASSUME NEW p, NEW i, Untold(work, p, i), Waiter(p, i) # w PROVE Untold(wk, p, i)
    <2>1. PICK k \in DOMAIN work : work[k].waiter = Waiter(p, i)
      BY <1>7 DEF Untold
    <2>2. k # 1
      BY <1>2, <1>7, <2>1
    <2>3. k - 1 \in DOMAIN wk /\ wk[k - 1].waiter = Waiter(p, i)
      BY <1>2, <2>1, <2>2
    <2> QED
      BY <2>3 DEF Untold
  <1> HIDE DEF w
  <1>8. IsResume(w) => \A p, i : Waiter(p, i) # w
    BY WaiterForm
  <1> QED
    BY <1>2, <1>3, <1>4, <1>5, <1>6, <1>7, <1>8 DEF wk, w

LEMMA NotifyAwaiterLedger ==
  ASSUME TInv, GatherParts, NotifyAwaiter
  PROVE  GatherParts'
  <1>1. /\ work # <<>> /\ IsResume(Head(work).waiter) /\ work' = Tail(work)
        /\ UNCHANGED <<kind, status, waiters, parts, left, failed, results>>
    BY DEF NotifyAwaiter, gatherVars
  <1>2. /\ WorkAgrees(work') /\ WorkOnce(work')
        /\ \A p, i : Untold(work', p, i) <=> Untold(work, p, i)
    BY <1>1, TailWork DEF GatherParts, Ledger
  <1>3. WorkAgrees(work)' /\ WorkOnce(work)' /\ \A p, i : Untold(work, p, i)' <=> Untold(work, p, i)
    BY <1>1, <1>2 DEF WorkAgrees, WorkOnce, Untold
  <1>4. Gathers' = Gathers /\ \A p : Open(work, p)' = Open(work, p)
    BY <1>1, <1>3 DEF Open, Gathers
  <1>5. GatherWaits' /\ GatherWaitsOnce' /\ ChildrenWait'
    BY <1>1 DEF GatherParts, Ledger, GatherWaits, GatherWaitsOnce, ChildrenWait, Among, Gathers
  <1>6. LeftAgrees(work, left)' /\ ToldAgrees(work, failed, results)' /\ GatherEnds(left, failed, results)'
    BY <1>1, <1>4 DEF GatherParts, Ledger, LeftAgrees, ToldAgrees, GatherEnds, Among
  <1> QED
    BY <1>3, <1>5, <1>6 DEF GatherParts, Ledger

\* A cell settles, while wk is what is left of the work of the settle that
\* calls this one: its waiters for gathers become work.
LEMMA SettleLedger ==
  ASSUME TInv, NEW wk \in Seq(Notifications), NEW lf, NEW fl, NEW rs, Ledger(wk, lf, fl, rs),
         NEW c \in Cells, NEW o \in Outcomes, NEW seen, Settle(c, o, seen, wk),
         status[c] = "pending", parts' = parts, left' = lf, failed' = fl, results' = rs,
         \A d \in Cells : kind'[d] = "gather" <=> kind[d] = "gather", Grows
  PROVE  Ledger(work, left, failed, results)'
  <1> SUFFICES ASSUME NEW js, js = Jobs(c), NEW n, n = Len(js)
               PROVE  Ledger(work, left, failed, results)'
    OBVIOUS
  <1>1. /\ status' = [status EXCEPT ![c] = o] /\ waiters' = [waiters EXCEPT ![c] = <<>>]
        /\ work' = js \o wk
    BY DEF Settle
  <1>2. /\ js \in Seq(Notifications) /\ n = Len(waiters[c]) /\ n \in Nat
        /\ DOMAIN js = 1..n /\ DOMAIN waiters[c] = 1..n
        /\ \A k \in 1..n : js[k] = [waiter |-> waiters[c][k], from |-> c]
        /\ waiters[c] \in Seq(Waiters)
    BY JobsType DEF TInv, TypeOK, CellTypes
  <1>3. /\ work' \in Seq(Notifications)
        /\ \A k \in DOMAIN js : k \in DOMAIN work' /\ work'[k] = js[k]
        /\ \A k \in DOMAIN wk : n + k \in DOMAIN work' /\ work'[n + k] = wk[k]
        /\ \A k \in DOMAIN work' :
              \/ k \in DOMAIN js /\ work'[k] = js[k]
              \/ k \notin DOMAIN js /\ k - n \in DOMAIN wk /\ work'[k] = wk[k - n]
        /\ DOMAIN work' \subseteq Nat
    <2>1. js \in Seq(Notifications) /\ wk \in Seq(Notifications)
      BY <1>2
    <2>2. /\ js \o wk \in Seq(Notifications) /\ DOMAIN (js \o wk) = 1..(Len(js) + Len(wk))
          /\ \A k \in DOMAIN js : k \in DOMAIN (js \o wk) /\ (js \o wk)[k] = js[k]
          /\ \A k \in DOMAIN wk : Len(js) + k \in DOMAIN (js \o wk) /\ (js \o wk)[Len(js) + k] = wk[k]
          /\ \A k \in DOMAIN (js \o wk) :
                \/ k \in DOMAIN js /\ (js \o wk)[k] = js[k]
                \/ k \notin DOMAIN js /\ k - Len(js) \in DOMAIN wk /\ (js \o wk)[k] = wk[k - Len(js)]
      BY ONLY <2>1, ConcatParts, Zenon
    <2>3. /\ work' \in Seq(Notifications) /\ DOMAIN work' = 1..(n + Len(wk))
          /\ \A k \in DOMAIN js : k \in DOMAIN work' /\ work'[k] = js[k]
          /\ \A k \in DOMAIN wk : n + k \in DOMAIN work' /\ work'[n + k] = wk[k]
          /\ \A k \in DOMAIN work' :
                \/ k \in DOMAIN js /\ work'[k] = js[k]
                \/ k \notin DOMAIN js /\ k - n \in DOMAIN wk /\ work'[k] = wk[k - n]
      BY <1>1, <2>2, Zenon
    <2>4. 1..(n + Len(wk)) \subseteq Nat
      OBVIOUS
    <2> QED
      BY <2>3, <2>4
  <1>4. \A k \in DOMAIN js : js[k].waiter = waiters[c][k] /\ js[k].from = c
    <2> SUFFICES ASSUME NEW k \in DOMAIN js
                 PROVE  js[k].waiter = waiters[c][k] /\ js[k].from = c
      OBVIOUS
    <2>1. js[k] = [waiter |-> waiters[c][k], from |-> c]
      BY <1>2
    <2> QED
      BY ONLY <2>1, JobParts
  <1>5. /\ \A d \in Cells : d # c => status'[d] = status[d] /\ waiters'[d] = waiters[d]
        /\ status'[c] = o /\ waiters'[c] = <<>> /\ o # "pending" /\ Gathers' = Gathers
    BY <1>1 DEF TInv, TypeOK, CellTypes, Outcomes, Gathers
  <1>6. \A p \in Cells : \A i \in DOMAIN parts[p] : parts[p][i] \in Cells
    BY DEF TInv, TypeOK, GatherTypes
  <1>7. \A k \in DOMAIN wk : wk[k].waiter \in Waiters /\ wk[k].from \in Cells
    BY WorkParts
  <1>8. GatherWaits'
    <2> SUFFICES ASSUME NEW d \in Cells, NEW k \in DOMAIN waiters'[d], ~IsResume(waiters'[d][k])
                 PROVE  LET w == waiters'[d][k]
                        IN  /\ kind'[w.parent] = "gather" /\ w.index \in DOMAIN parts'[w.parent]
                            /\ parts'[w.parent][w.index] = d /\ status'[d] = "pending"
      BY DEF GatherWaits
    <2>1. d # c
      BY <1>5
    <2>2. waiters'[d] = waiters[d] /\ waiters[d][k] \in Waiters /\ k \in DOMAIN waiters[d]
      BY <1>5, <2>1 DEF TInv, TypeOK, CellTypes
    <2>3. waiters[d][k].parent \in Cells
      BY <2>2, WaiterForm
    <2> QED
      BY <1>5, <2>1, <2>2, <2>3 DEF Ledger, GatherWaits
  <1>9. GatherWaitsOnce'
    BY <1>5 DEF Ledger, GatherWaitsOnce
  <1>10. ChildrenWait'
    <2> SUFFICES ASSUME NEW p \in Gathers, NEW i \in DOMAIN parts[p]
                 PROVE  /\ kind'[parts[p][i]] # "unused"
                        /\ status'[parts[p][i]] = "pending" =>
                              Among(Waiter(p, i), waiters'[parts[p][i]])
      BY <1>5 DEF ChildrenWait, Among, Waiter
    <2>1. parts[p][i] \in Cells /\ kind[parts[p][i]] # "unused"
      BY <1>6 DEF Ledger, ChildrenWait, Gathers
    <2> QED
      BY <1>5, <2>1 DEF Ledger, ChildrenWait, Grows
  <1>11. WorkAgrees(work)'
    <2> SUFFICES ASSUME NEW k \in DOMAIN work', ~IsResume(work'[k].waiter)
                 PROVE  LET w == work'[k].waiter
                        IN  /\ kind'[w.parent] = "gather" /\ w.index \in DOMAIN parts'[w.parent]
                            /\ parts'[w.parent][w.index] = work'[k].from /\ status'[work'[k].from] # "pending"
      BY DEF WorkAgrees
    <2>1. CASE k \in DOMAIN js /\ work'[k] = js[k]
      <3>1. work'[k].waiter = waiters[c][k] /\ work'[k].from = c /\ k \in DOMAIN waiters[c]
        BY <1>2, <1>4, <2>1
      <3>2. waiters[c][k].parent \in Cells
        BY <1>2, <3>1, WaiterForm
      <3> QED
        BY <1>5, <3>1, <3>2 DEF Ledger, GatherWaits
    <2>2. CASE k - n \in DOMAIN wk /\ work'[k] = wk[k - n]
      <3>1. wk[k - n].waiter.parent \in Cells /\ wk[k - n].from \in Cells
        BY <1>7, <2>2, WaiterForm
      <3> QED
        BY <1>5, <2>2, <3>1 DEF Ledger, WorkAgrees
    <2> QED
      BY <1>3, <2>1, <2>2
  <1>12. WorkOnce(work')
    <2> SUFFICES ASSUME NEW j \in DOMAIN work', NEW k \in DOMAIN work',
                        ~IsResume(work'[j].waiter), work'[j].waiter = work'[k].waiter
                 PROVE  j = k
      BY DEF WorkOnce
    <2>1. CASE j \in DOMAIN js /\ k \in DOMAIN js
      <3>1. work'[j] = js[j] /\ work'[k] = js[k]
        BY <1>3, <2>1
      <3>2. work'[j].waiter = waiters[c][j] /\ work'[k].waiter = waiters[c][k]
        BY <1>4, <2>1, <3>1
      <3>3. j \in DOMAIN waiters[c] /\ k \in DOMAIN waiters[c]
        BY <1>2, <2>1
      <3>4. GatherWaitsOnce
        BY DEF Ledger
      <3> QED
        BY <3>2, <3>3, <3>4 DEF GatherWaitsOnce
    <2>2. CASE j \notin DOMAIN js /\ k \notin DOMAIN js
      <3>1. /\ j - n \in DOMAIN wk /\ k - n \in DOMAIN wk
            /\ work'[j] = wk[j - n] /\ work'[k] = wk[k - n]
        BY <1>3, <2>2
      <3>2. WorkOnce(wk)
        BY DEF Ledger
      <3>3. j - n = k - n
        BY <3>1, <3>2 DEF WorkOnce
      <3>4. j \in Int /\ k \in Int
        BY <1>3
      <3> QED
        BY <1>2, <3>3, <3>4
    <2>3. ASSUME NEW l \in DOMAIN js, NEW m \in DOMAIN wk, ~IsResume(js[l].waiter),
                 js[l].waiter = wk[m].waiter
          PROVE  FALSE
      <3>1. js[l].waiter = waiters[c][l] /\ l \in DOMAIN waiters[c]
        BY <1>2, <1>4
      <3>2. parts[js[l].waiter.parent][js[l].waiter.index] = c
        BY <2>3, <3>1 DEF Ledger, GatherWaits
      <3>3. status[parts[wk[m].waiter.parent][wk[m].waiter.index]] # "pending"
        BY <2>3 DEF Ledger, WorkAgrees
      <3> QED
        BY <2>3, <3>2, <3>3
    <2>4. CASE j \in DOMAIN js /\ k \notin DOMAIN js
      <3>1. work'[j] = js[j] /\ k - n \in DOMAIN wk /\ work'[k] = wk[k - n]
        BY <1>3, <2>4
      <3> QED
        BY <2>3, <2>4, <3>1
    <2>5. CASE j \notin DOMAIN js /\ k \in DOMAIN js
      <3>1. work'[k] = js[k] /\ j - n \in DOMAIN wk /\ work'[j] = wk[j - n]
        BY <1>3, <2>5
      <3>2. js[k].waiter = wk[j - n].waiter /\ ~IsResume(js[k].waiter)
        BY <3>1
      <3> QED
        BY <2>3, <2>5, <3>1, <3>2
    <2> QED
      BY <2>1, <2>2, <2>4, <2>5
  <1>13. \A p \in Gathers : Open(work, p)' = Open(wk, p)
    <2> SUFFICES ASSUME NEW p \in Gathers, NEW i \in DOMAIN parts[p]
                 PROVE  (status'[parts[p][i]] = "pending" \/ Untold(work', p, i))
                           <=> (status[parts[p][i]] = "pending" \/ Untold(wk, p, i))
      BY DEF Open, Untold, Waiter
    <2>1. p \in Cells /\ parts[p][i] \in Cells
      BY <1>6 DEF Gathers
    <2>2. Untold(wk, p, i) => Untold(work', p, i)
      BY <1>3 DEF Untold
    <2>3. ASSUME Untold(work', p, i) PROVE status[parts[p][i]] = "pending" \/ Untold(wk, p, i)
      <3>1. PICK k \in DOMAIN work' : work'[k].waiter = Waiter(p, i)
        BY <2>3 DEF Untold
      <3>2. CASE k \in DOMAIN js /\ work'[k] = js[k]
        <4>1. waiters[c][k] = Waiter(p, i) /\ k \in DOMAIN waiters[c]
          BY <1>2, <1>4, <3>1, <3>2
        <4> QED
          BY <4>1, WaiterForm DEF Ledger, GatherWaits
      <3>3. CASE k - n \in DOMAIN wk /\ work'[k] = wk[k - n]
        BY <3>1, <3>3 DEF Untold
      <3> QED
        BY <1>3, <3>2, <3>3
    <2>4. CASE parts[p][i] = c
      <3>1. Among(Waiter(p, i), waiters[c])
        BY <2>1, <2>4 DEF Ledger, ChildrenWait
      <3>2. PICK k \in DOMAIN waiters[c] : waiters[c][k] = Waiter(p, i)
        BY <3>1 DEF Among
      <3>3. k \in DOMAIN work' /\ work'[k].waiter = Waiter(p, i)
        BY <1>2, <1>3, <1>4, <3>2
      <3> QED
        BY <2>4, <3>3 DEF Untold
    <2>5. CASE parts[p][i] # c
      BY <1>5, <2>1, <2>2, <2>3, <2>5
    <2> QED
      BY <2>4, <2>5
  <1>14. LeftAgrees(work, left)'
    BY <1>5, <1>13 DEF Ledger, LeftAgrees
  <1>15. ToldAgrees(work, failed, results)'
    <2> SUFFICES ASSUME NEW p \in Gathers
                 PROVE  /\ DOMAIN rs[p] = DOMAIN parts[p]
                        /\ fl[p] # None => status'[fl[p]] = "rejected" /\ Among(fl[p], parts[p])
                        /\ status'[p] = "pending" =>
                              \A i \in DOMAIN parts[p] \ Open(wk, p) :
                                  /\ status'[parts[p][i]] = "resolved" => rs[p][i] = parts[p][i]
                                  /\ status'[parts[p][i]] = "rejected" => fl[p] # None
      BY <1>5, <1>13 DEF ToldAgrees, Among
    <2>1. p \in Cells
      BY DEF Gathers
    <2>2. \A i \in DOMAIN parts[p] \ Open(wk, p) : parts[p][i] # c /\ parts[p][i] \in Cells
      BY <1>6, <2>1 DEF Open
    <2>3. ASSUME fl[p] # None PROVE fl[p] \in Cells /\ fl[p] # c /\ Among(fl[p], parts[p])
      <3>1. status[fl[p]] = "rejected" /\ Among(fl[p], parts[p])
        BY <2>3 DEF Ledger, ToldAgrees
      <3> QED
        BY <1>6, <2>1, <3>1 DEF Among
    <2> QED
      BY <1>5, <2>1, <2>2, <2>3 DEF Ledger, ToldAgrees
  <1>16. WorkOnce(work)'
    BY <1>12 DEF WorkOnce
  <1> QED
    BY <1>8, <1>9, <1>10, <1>11, <1>14, <1>15, <1>16 DEF Ledger

\* settle tells a gather of the first of its work: that index is open no more.
LEMMA ToldOpen ==
  ASSUME TInv, GatherParts, work # <<>>, NEW w, w = Head(work).waiter, ~IsResume(w),
         NEW wk, wk = Tail(work)
  PROVE  /\ w.parent \in Gathers /\ w.index \in DOMAIN parts[w.parent] /\ w = Waiter(w.parent, w.index)
         /\ parts[w.parent][w.index] = Head(work).from /\ Head(work).from \in Cells
         /\ status[Head(work).from] # "pending" /\ w.index \in Open(work, w.parent)
         /\ Open(wk, w.parent) = Open(work, w.parent) \ {w.index}
         /\ \A q : q # w.parent => Open(wk, q) = Open(work, q)
         /\ wk \in Seq(Notifications) /\ WorkAgrees(wk) /\ WorkOnce(wk)
         /\ left[w.parent] > 0 /\ Cardinality(Open(wk, w.parent)) = left[w.parent] - 1
  <1> SUFFICES ASSUME NEW p, p = w.parent, NEW i, i = w.index
               PROVE  /\ p \in Gathers /\ i \in DOMAIN parts[p] /\ w = Waiter(p, i)
                      /\ parts[p][i] = Head(work).from /\ Head(work).from \in Cells
                      /\ status[Head(work).from] # "pending" /\ i \in Open(work, p)
                      /\ Open(wk, p) = Open(work, p) \ {i}
                      /\ \A q : q # p => Open(wk, q) = Open(work, q)
                      /\ wk \in Seq(Notifications) /\ WorkAgrees(wk) /\ WorkOnce(wk)
                      /\ left[p] > 0 /\ Cardinality(Open(wk, p)) = left[p] - 1
    OBVIOUS
  <1>1. WorkAgrees(work) /\ WorkOnce(work) /\ LeftAgrees(work, left)
    BY DEF GatherParts, Ledger
  <1>2. /\ wk \in Seq(Notifications) /\ WorkAgrees(wk) /\ WorkOnce(wk)
        /\ w \in Waiters /\ Head(work).from \in Cells /\ Head(work) = work[1] /\ 1 \in DOMAIN work
        /\ \A q, j : Untold(wk, q, j) <=> Untold(work, q, j) /\ Waiter(q, j) # w
    BY <1>1, TailWork
  <1>3. w = Waiter(p, i) /\ p \in Cells
    BY <1>2, WaiterForm
  <1>4. /\ kind[p] = "gather" /\ i \in DOMAIN parts[p] /\ parts[p][i] = Head(work).from
        /\ status[Head(work).from] # "pending"
    BY <1>1, <1>2 DEF WorkAgrees
  <1>5. p \in Gathers
    BY <1>3, <1>4 DEF Gathers
  <1>6. Untold(work, p, i)
    BY <1>2, <1>3 DEF Untold
  <1>7. i \in Open(work, p)
    BY <1>4, <1>6 DEF Open
  <1>8. \A q, j : Untold(wk, q, j) <=> Untold(work, q, j) /\ ~(q = p /\ j = i)
    <2> SUFFICES ASSUME NEW q, NEW j
                 PROVE  Untold(wk, q, j) <=> Untold(work, q, j) /\ ~(q = p /\ j = i)
      OBVIOUS
    <2>1. Waiter(q, j) = w <=> (q = p /\ j = i)
      BY <1>3, WaiterParts
    <2> QED
      BY <1>2, <2>1
  <1>9. \A q : q # p => Open(wk, q) = Open(work, q)
    BY <1>8 DEF Open
  <1>10. Open(wk, p) = Open(work, p) \ {i}
    <2> SUFFICES ASSUME NEW j \in DOMAIN parts[p]
                 PROVE  (status[parts[p][j]] = "pending" \/ Untold(wk, p, j))
                          <=> (status[parts[p][j]] = "pending" \/ Untold(work, p, j)) /\ j # i
      BY DEF Open
    <2>1. CASE j = i
      BY <1>4, <1>8, <2>1
    <2>2. CASE j # i
      BY <1>8, <2>2
    <2> QED
      BY <2>1, <2>2
  <1>11. IsFiniteSet(Open(work, p)) /\ left[p] = Cardinality(Open(work, p))
    BY <1>1, <1>3, <1>5, OpenFinite DEF LeftAgrees
  <1>12. /\ IsFiniteSet(Open(work, p) \ {i})
         /\ Cardinality(Open(work, p) \ {i}) = Cardinality(Open(work, p)) - 1
    BY <1>7, <1>11, FS_RemoveElement
  <1>13. left[p] \in Nat /\ left[p] - 1 \in Nat
    <2>1. Cardinality(Open(work, p) \ {i}) \in Nat /\ Cardinality(Open(work, p)) \in Nat
      BY <1>11, <1>12, FS_CardinalityType
    <2> QED
      BY <1>11, <1>12, <2>1
  <1>14. Cardinality(Open(wk, p)) = left[p] - 1
    BY <1>10, <1>11, <1>12
  <1>15. left[p] > 0
    BY <1>13
  <1>16. wk \in Seq(Notifications) /\ WorkAgrees(wk) /\ WorkOnce(wk) /\ Head(work).from \in Cells
    BY <1>2
  <1> QED
    BY <1>3, <1>4, <1>5, <1>7, <1>9, <1>10, <1>14, <1>15, <1>16

LEMMA SameLedger ==
  ASSUME NEW wk, NEW lf, NEW fl, NEW rs, Ledger(wk, lf, fl, rs),
         work' = wk, left' = lf, failed' = fl, results' = rs, UNCHANGED <<kind, status, waiters, parts>>
  PROVE  Ledger(work, left, failed, results)'
  <1>1. Gathers' = Gathers /\ \A p, i : Untold(work, p, i)' <=> Untold(wk, p, i)
    BY DEF Gathers, Untold
  <1>2. \A p : Open(work, p)' = Open(wk, p)
    BY <1>1 DEF Open
  <1>3. GatherWaits' /\ GatherWaitsOnce'
    BY DEF Ledger, GatherWaits, GatherWaitsOnce
  <1>4. ChildrenWait'
    BY <1>1 DEF Ledger, ChildrenWait, Among
  <1>5. WorkAgrees(work)' /\ WorkOnce(work)'
    BY DEF Ledger, WorkAgrees, WorkOnce
  <1>6. LeftAgrees(work, left)' /\ ToldAgrees(work, failed, results)'
    BY <1>1, <1>2 DEF Ledger, LeftAgrees, ToldAgrees, Among
  <1> QED
    BY <1>3, <1>4, <1>5, <1>6 DEF Ledger

\* And the gather takes the outcome of its child.
LEMMA GatherOneLedger ==
  ASSUME TInv, GatherParts, GatherOne
  PROVE  GatherParts'
  <1> SUFFICES ASSUME NEW w, w = Head(work).waiter, NEW wk, wk = Tail(work),
                      NEW child, child = Head(work).from,
                      NEW p, p = w.parent, NEW i, i = w.index,
                      NEW o, o = IF failed'[p] = None THEN "resolved" ELSE "rejected",
                      NEW lf, lf = left', NEW fl, fl = failed', NEW rs, rs = results'
               PROVE  GatherParts'
    OBVIOUS
  <1>1. /\ work # <<>> /\ ~IsResume(w) /\ UNCHANGED <<kind, parts>>
        /\ left' = [left EXCEPT ![p] = IF @ = 0 THEN 0 ELSE @ - 1]
        /\ failed' = IF status[child] # "resolved" /\ failed[p] = None
                     THEN [failed EXCEPT ![p] = child] ELSE failed
        /\ results' = IF status[child] = "resolved" /\ status[p] = "pending"
                      THEN [results EXCEPT ![p][i] = child] ELSE results
        /\ IF left'[p] = 0 THEN Settle(p, o, {child}, wk)
           ELSE work' = wk /\ UNCHANGED <<status, waiters>>
    BY DEF GatherOne
  <1>2. /\ Ledger(wk, lf, fl, rs)
        /\ \A q \in Cells : q # p => lf[q] = left[q] /\ fl[q] = failed[q] /\ rs[q] = results[q]
    <2>a. work # <<>> /\ ~IsResume(w)
      BY DEF GatherOne
    <2>b. lf = [left EXCEPT ![p] = IF @ = 0 THEN 0 ELSE @ - 1]
      BY DEF GatherOne
    <2>c. fl = IF status[child] # "resolved" /\ failed[p] = None
               THEN [failed EXCEPT ![p] = child] ELSE failed
      BY DEF GatherOne
    <2>d. rs = IF status[child] = "resolved" /\ status[p] = "pending"
               THEN [results EXCEPT ![p][i] = child] ELSE results
      BY DEF GatherOne
    <2>1. /\ p \in Gathers /\ i \in DOMAIN parts[p] /\ w = Waiter(p, i)
          /\ parts[p][i] = child /\ child \in Cells /\ status[child] # "pending"
          /\ i \in Open(work, p) /\ Open(wk, p) = Open(work, p) \ {i}
          /\ \A q : q # p => Open(wk, q) = Open(work, q)
          /\ WorkAgrees(wk) /\ WorkOnce(wk)
          /\ left[p] > 0 /\ Cardinality(Open(wk, p)) = left[p] - 1
      BY <2>a, ToldOpen
    <2>2. p \in Cells /\ status[child] \in {"resolved", "rejected"}
      BY <2>1 DEF Gathers, TInv, TypeOK, CellTypes, Outcomes
    <2>3. \A q \in Cells : q # p => lf[q] = left[q] /\ fl[q] = failed[q] /\ rs[q] = results[q]
      BY <2>b, <2>c, <2>d, <2>2 DEF TInv, TypeOK, GatherTypes
    <2>4. LeftAgrees(wk, lf)
      <3> SUFFICES ASSUME NEW q \in Gathers PROVE lf[q] = Cardinality(Open(wk, q))
        BY DEF LeftAgrees
      <3>1. CASE q = p
        BY <2>b, <2>1, <2>2, <3>1 DEF TInv, TypeOK, GatherTypes
      <3>2. CASE q # p
        BY <2>1, <2>3, <3>2 DEF Gathers, GatherParts, Ledger, LeftAgrees
      <3> QED
        BY <3>1, <3>2
    <2>5. ToldAgrees(wk, fl, rs)
      <3> SUFFICES ASSUME NEW q \in Gathers
                   PROVE  /\ DOMAIN rs[q] = DOMAIN parts[q]
                          /\ fl[q] # None => status[fl[q]] = "rejected" /\ Among(fl[q], parts[q])
                          /\ status[q] = "pending" =>
                                \A j \in DOMAIN parts[q] \ Open(wk, q) :
                                    /\ status[parts[q][j]] = "resolved" => rs[q][j] = parts[q][j]
                                    /\ status[parts[q][j]] = "rejected" => fl[q] # None
        BY DEF ToldAgrees
      <3>1. /\ DOMAIN results[q] = DOMAIN parts[q]
            /\ failed[q] # None => status[failed[q]] = "rejected" /\ Among(failed[q], parts[q])
            /\ status[q] = "pending" =>
                  \A j \in DOMAIN parts[q] \ Open(work, q) :
                      /\ status[parts[q][j]] = "resolved" => results[q][j] = parts[q][j]
                      /\ status[parts[q][j]] = "rejected" => failed[q] # None
        BY DEF GatherParts, Ledger, ToldAgrees
      <3>2. CASE q # p
        BY <2>1, <2>3, <3>1, <3>2 DEF Gathers
      <3>3. CASE q = p
        <4>1. /\ DOMAIN rs[p] = DOMAIN results[p]
              /\ \A j \in DOMAIN parts[p] : j # i => rs[p][j] = results[p][j]
              /\ status[child] = "resolved" /\ status[p] = "pending" => rs[p][i] = child
          <5>1. results[p] \in Seq(Cells \cup {None}) /\ i \in DOMAIN results[p] /\ p \in DOMAIN results
            BY <2>1, <2>2, <3>1, <3>3 DEF TInv, TypeOK, GatherTypes
          <5>2. CASE status[child] = "resolved" /\ status[p] = "pending"
            <6>1. rs[p] = [results[p] EXCEPT ![i] = child]
              BY <2>d, <5>1, <5>2
            <6> QED
              BY <5>1, <6>1
          <5>3. CASE ~(status[child] = "resolved" /\ status[p] = "pending")
            BY <2>d, <5>3
          <5> QED
            BY <5>2, <5>3
        <4>2. /\ fl[p] = failed[p] \/ (fl[p] = child /\ status[child] # "resolved")
              /\ failed[p] # None => fl[p] = failed[p]
              /\ status[child] # "resolved" => fl[p] # None
          BY <2>c, <2>1, <2>2, NoneAssumption DEF TInv, TypeOK, GatherTypes
        <4>3. Among(child, parts[p])
          BY <2>1 DEF Among
        <4>4. fl[p] # None => status[fl[p]] = "rejected" /\ Among(fl[p], parts[p])
          BY <2>2, <3>1, <3>3, <4>2, <4>3
        <4>5. ASSUME status[p] = "pending", NEW j \in DOMAIN parts[p], j \notin Open(wk, p)
              PROVE  /\ status[parts[p][j]] = "resolved" => rs[p][j] = parts[p][j]
                     /\ status[parts[p][j]] = "rejected" => fl[p] # None
          <5>1. CASE j = i
            BY <2>1, <4>1, <4>2, <4>5, <5>1
          <5>2. CASE j # i
            <6>1. j \in DOMAIN parts[p] \ Open(work, p)
              BY <2>1, <4>5, <5>2
            <6>2. /\ status[parts[p][j]] = "resolved" => results[p][j] = parts[p][j]
                  /\ status[parts[p][j]] = "rejected" => failed[p] # None
              BY <3>1, <3>3, <4>5, <6>1
            <6>3. rs[p][j] = results[p][j]
              BY <4>1, <5>2
            <6> QED
              BY <4>2, <6>2, <6>3
          <5> QED
            BY <5>1, <5>2
        <4>6. DOMAIN rs[p] = DOMAIN parts[p]
          BY <3>1, <3>3, <4>1
        <4> HIDE <3>1
        <4> QED
          BY <3>3, <4>4, <4>5, <4>6
      <3> QED
        BY <3>2, <3>3
    <2> QED
      BY <2>1, <2>3, <2>4, <2>5 DEF GatherParts, Ledger
  <1>3. /\ p \in Gathers /\ p \in Cells /\ left[p] > 0 /\ wk \in Seq(Notifications)
        /\ o \in Outcomes /\ o # "pending"
    BY <1>1, ToldOpen DEF Gathers, Outcomes
  <1>4. status[p] # "resolved"
    BY <1>3 DEF GatherParts, GatherEnds
  <1>5. TInv' /\ left'[p] \in Nat /\ Gathers' = Gathers /\ Grows /\ Gathers \subseteq Cells
    BY <1>1, <1>3, GatherOneTypes DEF TInv, TypeOK, GatherTypes, Gathers, Grows
  <1>6. \A q \in Gathers : q # p =>
           /\ status[q] = "pending" => left'[q] > 0
           /\ status[q] = "resolved" => left'[q] = 0 /\ results'[q] = parts'[q] /\ failed'[q] = None
    BY <1>1, <1>2, <1>5 DEF GatherParts, GatherEnds
  <1>7. ASSUME UNCHANGED <<status, waiters>>, work' = wk, status[p] = "pending" => left'[p] # 0
        PROVE  GatherParts'
    <2>1. Ledger(work, left, failed, results)'
      BY <1>1, <1>2, <1>7, SameLedger
    <2>2. GatherEnds(left, failed, results)'
      BY <1>4, <1>5, <1>6, <1>7 DEF GatherEnds
    <2> QED
      BY <2>1, <2>2 DEF GatherParts
  <1>8. CASE left'[p] # 0 \/ status[p] # "pending"
    BY <1>1, <1>7, <1>8 DEF Settle
  <1>9. CASE left'[p] = 0 /\ status[p] = "pending"
    <2>1. Settle(p, o, {child}, wk)
      BY <1>1, <1>9
    <2>2. Ledger(work, left, failed, results)'
      BY <1>1, <1>2, <1>3, <1>5, <1>9, <2>1, SettleLedger
    <2>3. status' = [status EXCEPT ![p] = o]
      BY <1>9, <2>1 DEF Settle
    <2>4. status'[p] = o /\ \A q \in Cells : q # p => status'[q] = status[q]
      BY <1>3, <2>3 DEF TInv, TypeOK, CellTypes
    <2>5. ASSUME failed'[p] = None PROVE results'[p] = parts'[p]
      <3>1. Cardinality(Open(wk, p)) = 0
        BY <1>2, <1>3, <1>9 DEF Ledger, LeftAgrees
      <3>2. Open(wk, p) = {}
        BY <1>3, <3>1, OpenFinite, FS_EmptySet
      <3>3. /\ DOMAIN results'[p] = DOMAIN parts[p]
            /\ \A j \in DOMAIN parts[p] :
                  /\ status[parts[p][j]] = "resolved" => results'[p][j] = parts[p][j]
                  /\ status[parts[p][j]] # "rejected"
        BY <1>2, <1>3, <1>9, <2>5, <3>2 DEF Ledger, ToldAgrees
      <3>4. \A j \in DOMAIN parts[p] : status[parts[p][j]] = "resolved"
        <4>1. \A j \in DOMAIN parts[p] : parts[p][j] \in Cells /\ status[parts[p][j]] # "pending"
          BY <1>3, <3>2 DEF Open, TInv, TypeOK, GatherTypes
        <4> QED
          BY <3>3, <4>1 DEF TInv, TypeOK, CellTypes, Outcomes
      <3>5. results'[p] \in Seq(Cells \cup {None}) /\ parts[p] \in Seq(Cells)
        BY <1>3, <1>5 DEF TInv, TypeOK, GatherTypes
      <3>6. \A j \in DOMAIN parts[p] : results'[p][j] = parts[p][j]
        BY <3>3, <3>4
      <3>7. results'[p] = parts[p]
        <4> SUFFICES ASSUME NEW r, r = results'[p], NEW s, s = parts[p] PROVE r = s
          OBVIOUS
        <4>1. /\ r \in Seq(Cells \cup {None}) /\ s \in Seq(Cells) /\ DOMAIN r = DOMAIN s
              /\ \A j \in DOMAIN s : r[j] = s[j]
          BY <3>3, <3>5, <3>6
        <4> QED
          BY ONLY <4>1
      <3> QED
        BY <1>1, <3>7
    <2>6. GatherEnds(left, failed, results)'
      BY <1>3, <1>5, <1>6, <1>9, <2>4, <2>5 DEF GatherEnds
    <2> QED
      BY <2>2, <2>6 DEF GatherParts
  <1> QED
    BY <1>8, <1>9

\* A settle with no work left to its callers, of no gather but to cancel it.
LEMMA SettledLedger ==
  ASSUME TInv, GatherParts, NEW c \in Cells, NEW o \in Outcomes, NEW seen, work = <<>>,
         Settle(c, o, seen, <<>>), UNCHANGED <<parts, left, failed, results>>,
         \A d \in Cells : kind'[d] = "gather" <=> kind[d] = "gather", Grows,
         kind[c] = "gather" => o = "rejected"
  PROVE  GatherParts'
  <1>1. CASE status[c] # "pending"
    <2>1. UNCHANGED <<status, waiters, work>>
      BY <1>1 DEF Settle
    <2> QED
      BY <2>1, QuietLedger
  <1>2. CASE status[c] = "pending"
    <2>1. <<>> \in Seq(Notifications) /\ Ledger(<<>>, left, failed, results)
      BY DEF GatherParts
    <2>2. Ledger(work, left, failed, results)'
      <3>1. left' = left /\ failed' = failed /\ results' = results /\ parts' = parts
        OBVIOUS
      <3> QED
        BY <1>2, <2>1, <3>1, SettleLedger
    <2>3. status' = [status EXCEPT ![c] = o]
      BY <1>2 DEF Settle
    <2>4. status'[c] = o /\ \A q \in Cells : q # c => status'[q] = status[q]
      BY <2>3 DEF TInv, TypeOK, CellTypes
    <2>5. GatherEnds(left, failed, results)'
      BY <2>4 DEF GatherParts, GatherEnds, Gathers, Outcomes
    <2> QED
      BY <2>2, <2>5 DEF GatherParts
  <1> QED
    BY <1>1, <1>2

\* The waiters a parallel leaves: one with every pending child, behind those of
\* before.
LEMMA ParallelWaits ==
  ASSUME TInv, NEW p \in Cells, NEW children \in Children, Parallel(p, children), NEW c \in Cells
  PROVE  /\ \A k \in DOMAIN waiters[c] : k \in DOMAIN waiters'[c] /\ waiters'[c][k] = waiters[c][k]
         /\ \A k \in DOMAIN waiters'[c] \ DOMAIN waiters[c] :
               \E i \in DOMAIN children : /\ children[i] = c /\ waiters'[c][k] = Waiter(p, i)
                                          /\ status[c] = "pending"
         /\ \A j, k \in DOMAIN waiters'[c] \ DOMAIN waiters[c] :
               waiters'[c][j] = waiters'[c][k] => j = k
         /\ \A i \in DOMAIN children : children[i] = c /\ c # p /\ status[c] = "pending" =>
               Among(Waiter(p, i), waiters'[c])
  <1> DEFINE at == {j \in DOMAIN children : children[j] = c}
             mine == {[parent |-> p, index |-> i] : i \in at}
  <1>1. /\ waiters[c] \in Seq(Waiters)
        /\ waiters'[c] = IF status[c] = "pending" /\ c # p
                         THEN waiters[c] \o SetToSeq(mine) ELSE waiters[c]
    BY DEF Parallel, TInv, TypeOK, CellTypes
  <1>2. PICK n \in 0..MaxParallel : children \in [1..n -> Known]
    BY DEF Children
  <1>3. n \in Nat /\ IsFiniteSet(at) /\ DOMAIN children = 1..n
    <2>1. n \in Nat /\ IsFiniteSet(1..n) /\ DOMAIN children = 1..n
      BY <1>2, FS_Interval, MaxParallelAssumption
    <2> QED
      BY <2>1, FS_Subset
  <1>4. IsFiniteSet(mine) /\ mine \subseteq Waiters
    <2> DEFINE f == [j \in at |-> [parent |-> p, index |-> j]]
    <2>1. f \in Surjection(at, mine)
      BY DEF Surjection
    <2> QED
      BY <1>3, <2>1, FS_Surjection DEF Waiters, GatherWaiters
  <1> SUFFICES ASSUME NEW m, m = mine, NEW q, q = SetToSeq(m), NEW old, old = waiters[c],
                      NEW ws, ws = waiters'[c]
               PROVE  /\ \A k \in DOMAIN old : k \in DOMAIN ws /\ ws[k] = old[k]
                      /\ \A k \in DOMAIN ws \ DOMAIN old :
                            \E i \in DOMAIN children : /\ children[i] = c /\ ws[k] = Waiter(p, i)
                                                       /\ status[c] = "pending"
                      /\ \A j, k \in DOMAIN ws \ DOMAIN old : ws[j] = ws[k] => j = k
                      /\ \A i \in DOMAIN children : children[i] = c /\ c # p /\ status[c] = "pending" =>
                            Among(Waiter(p, i), ws)
    OBVIOUS
  <1>5. \A w \in m : \E i \in DOMAIN children : children[i] = c /\ w = Waiter(p, i)
    BY DEF Waiter
  <1>6. \A i \in DOMAIN children : children[i] = c => Waiter(p, i) \in m
    BY DEF Waiter
  <1>7. IsFiniteSet(m) /\ m \subseteq Waiters /\ old \in Seq(Waiters)
        /\ ws = IF status[c] = "pending" /\ c # p THEN old \o q ELSE old
    BY <1>1, <1>4
  <1> HIDE DEF mine
  <1>8. /\ q \in Seq(m) /\ \A x \in m : \E k \in DOMAIN q : q[k] = x
        /\ \A j, k \in DOMAIN q : q[j] = q[k] => j = k
    BY <1>7, SetToSeqParts DEF IsInjective
  <1>9. q \in Seq(Waiters) /\ \A k \in DOMAIN q : q[k] \in m
    BY <1>7, <1>8
  <1>10. CASE ~(status[c] = "pending" /\ c # p)
    BY <1>7, <1>10
  <1>11. CASE status[c] = "pending" /\ c # p
    <2>1. /\ ws \in Seq(Waiters) /\ DOMAIN ws = 1..(Len(old) + Len(q)) /\ Len(old) \in Nat
          /\ \A k \in DOMAIN old : k \in DOMAIN ws /\ ws[k] = old[k]
          /\ \A k \in DOMAIN q : Len(old) + k \in DOMAIN ws /\ ws[Len(old) + k] = q[k]
          /\ \A k \in DOMAIN ws :
                \/ k \in DOMAIN old /\ ws[k] = old[k]
                \/ k \notin DOMAIN old /\ k - Len(old) \in DOMAIN q /\ ws[k] = q[k - Len(old)]
      <3>1. ws = old \o q /\ old \in Seq(Waiters) /\ q \in Seq(Waiters) /\ Len(old) \in Nat
        BY <1>7, <1>9, <1>11, LenProperties
      <3>2. IsConcat(old \o q, old, q, Waiters)
        BY ONLY <3>1, ConcatOf
      <3> QED
        BY ONLY <3>1, <3>2 DEF IsConcat
    <2>2. \A k \in DOMAIN ws \ DOMAIN old : k - Len(old) \in DOMAIN q /\ ws[k] = q[k - Len(old)]
      BY <2>1
    <2>3. \A k \in DOMAIN ws \ DOMAIN old : ws[k] \in m
      BY <1>9, <2>2
    <2>4. ASSUME NEW j \in DOMAIN ws \ DOMAIN old, NEW k \in DOMAIN ws \ DOMAIN old, ws[j] = ws[k]
          PROVE  j = k
      <3>1. j - Len(old) = k - Len(old)
        BY <1>8, <2>2, <2>4
      <3>2. j \in Int /\ k \in Int
        BY <2>1
      <3> QED
        BY <2>1, <3>1, <3>2
    <2>5. ASSUME NEW i \in DOMAIN children, children[i] = c PROVE Among(Waiter(p, i), ws)
      <3>1. PICK k \in DOMAIN q : q[k] = Waiter(p, i)
        BY <1>6, <1>8, <2>5
      <3> QED
        BY <2>1, <3>1 DEF Among
    <2>6. \A k \in DOMAIN ws \ DOMAIN old :
             \E i \in DOMAIN children : children[i] = c /\ ws[k] = Waiter(p, i) /\ status[c] = "pending"
      BY <1>5, <1>11, <2>3
    <2> QED
      BY <2>1, <2>4, <2>5, <2>6
  <1> QED
    BY <1>10, <1>11

LEMMA ParallelLedger ==
  ASSUME TInv, GatherParts, NEW p \in Cells, NEW children \in Children, Parallel(p, children)
  PROVE  GatherParts'
  <1> DEFINE waiting == {i \in DOMAIN children : status[children[i]] = "pending"}
             errs == {i \in DOMAIN children : status[children[i]] = "rejected"}
             error == IF errs = {} THEN None
                      ELSE children[CHOOSE i \in errs : \A j \in errs : i <= j]
             taken == [i \in DOMAIN children |->
                         IF status[children[i]] = "resolved" THEN children[i] ELSE None]
  <1>1. /\ kind[p] = "unused" /\ kind' = [kind EXCEPT ![p] = "gather"] /\ work = <<>> /\ work' = <<>>
        /\ parts' = [parts EXCEPT ![p] = children] /\ results' = [results EXCEPT ![p] = taken]
        /\ left' = [left EXCEPT ![p] = Cardinality(waiting)]
        /\ failed' = [failed EXCEPT ![p] = error]
        /\ IF waiting = {}
           THEN status' = [status EXCEPT ![p] = IF error = None THEN "resolved" ELSE "rejected"]
           ELSE UNCHANGED status
    BY DEF Parallel, Creates, InUserCode
  <1>2. PICK n \in 0..MaxParallel : children \in [1..n -> Known]
    BY DEF Children
  <1>3. /\ n \in Nat /\ DOMAIN children = 1..n /\ IsFiniteSet(1..n)
        /\ \A i \in DOMAIN children : /\ children[i] \in Cells /\ kind[children[i]] # "unused"
                                      /\ children[i] # p
    BY <1>1, <1>2, FS_Interval, MaxParallelAssumption DEF Known, Unused
  <1>4. status[p] = "pending" /\ p \notin Gathers
    BY <1>1 DEF TInv, Created, UnusedPending, Gathers
  <1>5. error # None <=> errs # {}
    <2>1. ASSUME errs # {} PROVE error \in Cells /\ \E i \in errs : error = children[i]
      <3>1. errs \subseteq Nat
        BY <1>3
      <3>2. \E i \in errs : \A j \in errs : i <= j
        <4> HIDE DEF errs
        <4> QED
          BY <2>1, <3>1, LeastExists
      <3>3. (CHOOSE i \in errs : \A j \in errs : i <= j) \in errs
        <4> HIDE DEF errs
        <4> QED
          BY <3>2
      <3> QED
        BY <1>3, <2>1, <3>3
    <2> QED
      BY <2>1, NoneAssumption
  <1>6. error # None => status[error] = "rejected" /\ Among(error, children)
    <2> SUFFICES ASSUME errs # {} PROVE status[error] = "rejected" /\ Among(error, children)
      BY <1>5
    <2>1. errs \subseteq Nat
      BY <1>3
    <2>2. \E i \in errs : \A j \in errs : i <= j
      <3> HIDE DEF errs
      <3> QED
        BY <2>1, LeastExists
    <2>3. (CHOOSE i \in errs : \A j \in errs : i <= j) \in errs
      <3> HIDE DEF errs
      <3> QED
        BY <2>2
    <2>4. PICK l \in errs : error = children[l]
      BY <2>3
    <2> HIDE DEF error
    <2>5. l \in DOMAIN children /\ status[children[l]] = "rejected"
      BY <2>4
    <2> QED
      BY <2>4, <2>5 DEF Among
  <1> HIDE DEF error
  <1>7. /\ \A q \in Cells : q # p => /\ kind'[q] = kind[q] /\ status'[q] = status[q]
                                     /\ parts'[q] = parts[q] /\ left'[q] = left[q]
                                     /\ failed'[q] = failed[q] /\ results'[q] = results[q]
        /\ kind'[p] = "gather" /\ parts'[p] = children /\ left'[p] = Cardinality(waiting)
        /\ failed'[p] = error /\ results'[p] = taken
        /\ status'[p] = IF waiting # {} THEN "pending" ELSE IF error = None THEN "resolved" ELSE "rejected"
    <2> HIDE DEF taken, waiting
    <2> QED
      BY <1>1, <1>4 DEF TInv, TypeOK, CellTypes, GatherTypes
  <1>8. Gathers' = Gathers \cup {p} /\ Gathers \subseteq Cells
    BY <1>7 DEF Gathers
  <1>9. \A q \in Gathers : \A i \in DOMAIN parts[q] : parts[q][i] \in Cells /\ parts[q][i] # p
    BY <1>1 DEF GatherParts, Ledger, ChildrenWait, TInv, TypeOK, GatherTypes, Gathers
  <1>10. \A c \in Cells : waiters'[c] \in Seq(Waiters) /\ waiters[c] \in Seq(Waiters)
    BY ParallelTypes DEF TInv, TypeOK, CellTypes
  <1>11. \A c \in Cells : \A k \in DOMAIN waiters[c] :
            ~IsResume(waiters[c][k]) =>
                /\ waiters[c][k].parent \in Gathers
                /\ waiters[c][k].index \in DOMAIN parts[waiters[c][k].parent]
                /\ parts[waiters[c][k].parent][waiters[c][k].index] = c
                /\ status[c] = "pending"
    <2> SUFFICES ASSUME NEW c \in Cells, NEW k \in DOMAIN waiters[c], NEW w, w = waiters[c][k],
                        ~IsResume(w)
                 PROVE  /\ w.parent \in Gathers /\ w.index \in DOMAIN parts[w.parent]
                        /\ parts[w.parent][w.index] = c /\ status[c] = "pending"
      OBVIOUS
    <2>1. w \in Waiters
      BY <1>10
    <2> QED
      BY <2>1, WaiterForm DEF GatherParts, Ledger, GatherWaits, Gathers
  <1>12. GatherWaits'
    <2> SUFFICES ASSUME NEW c \in Cells, NEW k \in DOMAIN waiters'[c], NEW w, w = waiters'[c][k],
                        ~IsResume(w)
                 PROVE  /\ kind'[w.parent] = "gather" /\ w.index \in DOMAIN parts'[w.parent]
                        /\ parts'[w.parent][w.index] = c /\ status'[c] = "pending"
      BY DEF GatherWaits
    <2>1. CASE k \in DOMAIN waiters[c]
      <3>1. w = waiters[c][k]
        BY <2>1, ParallelWaits
      <3>2. /\ w.parent \in Gathers /\ w.index \in DOMAIN parts[w.parent]
            /\ parts[w.parent][w.index] = c /\ status[c] = "pending"
        BY <1>11, <2>1, <3>1
      <3>3. w.parent \in Cells /\ w.parent # p /\ c # p
        BY <1>4, <1>8, <1>9, <3>2
      <3> QED
        BY <1>7, <3>2, <3>3 DEF Gathers
    <2>2. CASE k \notin DOMAIN waiters[c]
      <3>1. PICK i \in DOMAIN children : children[i] = c /\ w = Waiter(p, i) /\ status[c] = "pending"
        BY <2>2, ParallelWaits
      <3>2. w.parent = p /\ w.index = i
        BY <3>1, WaiterForm
      <3> QED
        BY <1>3, <1>7, <3>1, <3>2
    <2> QED
      BY <2>1, <2>2
  <1>13. GatherWaitsOnce'
    <2> SUFFICES ASSUME NEW c \in Cells, NEW j \in DOMAIN waiters'[c], NEW k \in DOMAIN waiters'[c],
                        ~IsResume(waiters'[c][j]), waiters'[c][j] = waiters'[c][k]
                 PROVE  j = k
      BY DEF GatherWaitsOnce
    <2>1. CASE j \in DOMAIN waiters[c] /\ k \in DOMAIN waiters[c]
      <3>1. waiters'[c][j] = waiters[c][j] /\ waiters'[c][k] = waiters[c][k]
        BY <2>1, ParallelWaits
      <3>2. GatherWaitsOnce
        BY DEF GatherParts, Ledger
      <3> QED
        BY <2>1, <3>1, <3>2 DEF GatherWaitsOnce
    <2>2. CASE j \notin DOMAIN waiters[c] /\ k \notin DOMAIN waiters[c]
      BY <2>2, ParallelWaits
    <2>3. ASSUME NEW l \in DOMAIN waiters[c], NEW m \in DOMAIN waiters'[c] \ DOMAIN waiters[c],
                 ~IsResume(waiters'[c][l])
          PROVE  waiters'[c][l] # waiters'[c][m]
      <3>1. waiters'[c][l] = waiters[c][l]
        BY ParallelWaits
      <3>2. waiters'[c][l].parent \in Gathers
        BY <1>11, <2>3, <3>1
      <3>3. PICK i \in DOMAIN children : waiters'[c][m] = Waiter(p, i)
        BY ParallelWaits
      <3>4. waiters'[c][m].parent = p
        BY <3>3, WaiterForm
      <3> QED
        BY <1>4, <3>2, <3>4
    <2>4. CASE j \in DOMAIN waiters[c] /\ k \notin DOMAIN waiters[c]
      BY <2>3, <2>4
    <2>5. CASE j \notin DOMAIN waiters[c] /\ k \in DOMAIN waiters[c]
      <3>1. ~IsResume(waiters'[c][k])
        OBVIOUS
      <3> QED
        BY <2>3, <2>5, <3>1
    <2> QED
      BY <2>1, <2>2, <2>4, <2>5
  <1>14. ChildrenWait'
    <2> SUFFICES ASSUME NEW q \in Gathers', NEW i \in DOMAIN parts'[q], NEW c, c = parts'[q][i]
                 PROVE  /\ kind'[c] # "unused"
                        /\ status'[c] = "pending" => Among(Waiter(q, i), waiters'[c])
      BY DEF ChildrenWait, Among, Waiter
    <2>1. CASE q = p
      <3>1. c \in Cells /\ c # p /\ c = children[i] /\ i \in DOMAIN children /\ kind[c] # "unused"
        BY <1>3, <1>7, <2>1
      <3> QED
        BY <1>7, <2>1, <3>1, ParallelWaits
    <2>2. CASE q # p
      <3>1. q \in Gathers /\ c = parts[q][i] /\ i \in DOMAIN parts[q] /\ c \in Cells /\ c # p
        BY <1>7, <1>8, <1>9, <2>2
      <3>2. /\ kind[c] # "unused"
            /\ status[c] = "pending" => Among(Waiter(q, i), waiters[c])
        BY <3>1 DEF GatherParts, Ledger, ChildrenWait
      <3>3. Among(Waiter(q, i), waiters[c]) => Among(Waiter(q, i), waiters'[c])
        BY <3>1, ParallelWaits DEF Among
      <3> QED
        BY <1>7, <3>1, <3>2, <3>3
    <2> QED
      BY <2>1, <2>2
  <1>15. WorkAgrees(work)' /\ WorkOnce(work)'
    <2>1. DOMAIN work' = {}
      BY <1>1
    <2> QED
      BY <2>1 DEF WorkAgrees, WorkOnce
  <1>16. Open(work, p)' = waiting /\ \A q \in Gathers : Open(work, q)' = Open(work, q)
    <2>1. DOMAIN work' = {} /\ DOMAIN work = {}
      BY <1>1
    <2>2. \A q, i : ~Untold(work, q, i) /\ ~Untold(work, q, i)'
      BY <2>1 DEF Untold
    <2>3. Open(work, p)' = waiting
      BY <1>3, <1>7, <2>2 DEF Open
    <2>4. ASSUME NEW q \in Gathers PROVE Open(work, q)' = Open(work, q)
      <3>1. q # p /\ q \in Cells
        BY <1>4, <1>8
      <3>2. \A i \in DOMAIN parts[q] : status'[parts[q][i]] = status[parts[q][i]]
        BY <1>7, <1>9
      <3> QED
        BY <1>7, <2>2, <3>1, <3>2 DEF Open
    <2> QED
      BY <2>3, <2>4
  <1>17. LeftAgrees(work, left)'
    <2> SUFFICES ASSUME NEW q \in Gathers' PROVE left'[q] = Cardinality(Open(work, q)')
      BY DEF LeftAgrees
    <2>1. CASE q = p
      BY <1>7, <1>16, <2>1
    <2>2. CASE q # p
      BY <1>7, <1>8, <1>16, <2>2 DEF GatherParts, Ledger, LeftAgrees
    <2> QED
      BY <2>1, <2>2
  <1>18. taken = [i \in DOMAIN children |-> IF status[children[i]] = "resolved" THEN children[i] ELSE None]
    OBVIOUS
  <1>19. ToldAgrees(work, failed, results)'
    <2> SUFFICES ASSUME NEW q \in Gathers'
                 PROVE  /\ DOMAIN results'[q] = DOMAIN parts'[q]
                        /\ failed'[q] # None =>
                              status'[failed'[q]] = "rejected" /\ Among(failed'[q], parts'[q])
                        /\ status'[q] = "pending" =>
                              \A i \in DOMAIN parts'[q] \ Open(work, q)' :
                                  /\ status'[parts'[q][i]] = "resolved" => results'[q][i] = parts'[q][i]
                                  /\ status'[parts'[q][i]] = "rejected" => failed'[q] # None
      BY DEF ToldAgrees, Among
    <2>1. CASE q = p
      <3>1. /\ DOMAIN taken = DOMAIN children
            /\ \A i \in DOMAIN children : status[children[i]] = "resolved" => taken[i] = children[i]
        BY <1>18
      <3>2. \A i \in DOMAIN children : status[children[i]] = "rejected" => error # None
        BY <1>5
      <3>3. error # None => error \in Cells /\ error # p
        BY <1>3, <1>6 DEF Among
      <3>4. \A i \in DOMAIN children : status'[children[i]] = status[children[i]]
        BY <1>3, <1>7
      <3> HIDE DEF taken, waiting
      <3> QED
        BY <1>6, <1>7, <2>1, <3>1, <3>2, <3>3, <3>4
    <2>2. CASE q # p
      <3>1. q \in Gathers /\ q \in Cells
        BY <1>8, <2>2
      <3>2. /\ DOMAIN results[q] = DOMAIN parts[q]
            /\ failed[q] # None => status[failed[q]] = "rejected" /\ Among(failed[q], parts[q])
            /\ status[q] = "pending" =>
                  \A i \in DOMAIN parts[q] \ Open(work, q) :
                      /\ status[parts[q][i]] = "resolved" => results[q][i] = parts[q][i]
                      /\ status[parts[q][i]] = "rejected" => failed[q] # None
        BY <3>1 DEF GatherParts, Ledger, ToldAgrees
      <3>3. \A i \in DOMAIN parts[q] : status'[parts[q][i]] = status[parts[q][i]]
        BY <1>7, <1>9, <3>1
      <3>4. failed[q] # None => failed[q] \in Cells /\ failed[q] # p
        BY <1>9, <3>1, <3>2 DEF Among
      <3> QED
        BY <1>7, <1>16, <2>2, <3>1, <3>2, <3>3, <3>4
    <2> QED
      BY <2>1, <2>2
  <1>20. GatherEnds(left, failed, results)'
    <2> SUFFICES ASSUME NEW q \in Gathers'
                 PROVE  /\ status'[q] = "pending" => left'[q] > 0
                        /\ status'[q] = "resolved" => left'[q] = 0 /\ results'[q] = parts'[q] /\ failed'[q] = None
      BY DEF GatherEnds
    <2>1. CASE q = p
      <3>1. IsFiniteSet(waiting)
        BY <1>3, FS_Subset
      <3>2. Cardinality(waiting) \in Nat /\ (Cardinality(waiting) = 0 <=> waiting = {})
        <4> HIDE DEF waiting
        <4> QED
          BY <3>1, FS_CardinalityType, FS_EmptySet
      <3>3. ASSUME waiting = {}, error = None PROVE taken = children
        <4>1. \A i \in DOMAIN children : status[children[i]] = "resolved"
          BY <1>3, <1>5, <3>3 DEF TInv, TypeOK, CellTypes, Outcomes
        <4>2. taken = [i \in DOMAIN children |-> children[i]]
          BY <1>18, <4>1
        <4> QED
          BY <1>2, <4>2
      <3> HIDE DEF taken, waiting
      <3> QED
        BY <1>7, <2>1, <3>2, <3>3
    <2>2. CASE q # p
      BY <1>7, <1>8, <2>2 DEF GatherParts, GatherEnds
    <2> QED
      BY <2>1, <2>2
  <1> QED
    BY <1>12, <1>13, <1>14, <1>15, <1>17, <1>19, <1>20 DEF GatherParts, Ledger

LEMMA LedgerKept ==
  ASSUME HomeInv, HostInv, GatherParts, Next
  PROVE  GatherParts'
  <1>1. TInv /\ TInv' /\ CellTypes
    BY TypesKept DEF HomeInv, TInv, TypeOK
  <1> USE DEF queueVars, pumpVars, cellVars, hostVars, gatherVars
  <1>2. ASSUME NEW c \in Cells, NEW what \in {"task", "settled", "host"}, Creates(what, c)
        PROVE  Grows /\ \A d \in Cells : kind'[d] = "gather" <=> kind[d] = "gather"
    BY <1>1, <1>2, CreatesGrows DEF Creates, CellTypes
  <1>3. kind' = kind => Grows
    BY DEF Grows
  <1>4. CASE UserCode
    <2>1. ASSUME NEW c \in Cells, Spawn(c) PROVE GatherParts'
      BY <1>1, <1>2, <2>1, QuietLedger DEF Spawn
    <2>2. ASSUME NEW c \in Cells, Cancel(c) PROVE GatherParts'
      <3>1. /\ Settle(c, "rejected", {c}, <<>>) /\ work = <<>> /\ kind' = kind
            /\ UNCHANGED <<parts, left, failed, results>> /\ "rejected" \in Outcomes
        BY <2>2 DEF Cancel, InUserCode, Outcomes
      <3> QED
        BY <1>1, <1>3, <3>1, SettledLedger
    <2>3. ASSUME NEW c \in Cells, AwaitSettled(c) PROVE GatherParts'
      BY <1>1, <1>3, <2>3, QuietLedger DEF AwaitSettled
    <2>4. ASSUME NEW c \in Cells, TaskAwait(c) PROVE GatherParts'
      <3>1. /\ running \in Cells /\ GoodSlab(slab) /\ status[c] = "pending"
        BY <1>1, <2>4 DEF TInv, Created, KnownRunning, TaskAwait, Pending
      <3>2. NextToken(slab) \in Tokens
        BY <3>1, <2>4, InsertKeeps
      <3>3. /\ [token |-> NextToken(slab)] \in Waiters
            /\ waiters' = [waiters EXCEPT ![c] = Append(@, [token |-> NextToken(slab)])]
            /\ UNCHANGED <<status, work, parts, left, failed, results, kind>>
        BY <2>4, <3>1, <3>2 DEF TaskAwait, Park, Watch, Waiters, ResumeWaiters
      <3> QED
        BY <1>1, <3>3, WatchLedger
    <2>5. ASSUME NEW c \in Cells, NEW o \in Outcomes, BornSettled(c, o) PROVE GatherParts'
      <3>1. /\ Settle(c, o, {}, <<>>) /\ work = <<>> /\ Creates("settled", c)
            /\ UNCHANGED <<parts, left, failed, results>> /\ kind[c] # "gather"
        BY <2>5 DEF BornSettled, InUserCode, Creates
      <3> QED
        BY <1>1, <1>2, <3>1, SettledLedger
    <2>6. ASSUME NEW c \in Cells, NEW s, FromHost(c, s) PROVE GatherParts'
      BY <1>1, <1>2, <2>6, QuietLedger DEF FromHost
    <2>7. ASSUME NEW p \in Cells, NEW children \in Children, Parallel(p, children)
          PROVE  GatherParts'
      BY <1>1, <2>7, ParallelLedger
    <2>8. ASSUME NEW o \in Outcomes, Finish(o) PROVE GatherParts'
      <3>1. running \in Cells /\ running # None
        BY <1>1, <2>8, NoneAssumption DEF TInv, Created, KnownRunning, Finish
      <3>2. kind[running] = "task"
        BY <3>1 DEF HomeInv, HomeParts, AtHome
      <3>3. /\ Settle(running, o, {}, <<>>) /\ work = <<>> /\ kind' = kind
            /\ UNCHANGED <<parts, left, failed, results>>
        BY <2>8 DEF Finish, InUserCode
      <3> QED
        BY <1>1, <1>3, <3>1, <3>2, <3>3, SettledLedger
    <2>9. CASE TaskYield
      BY <1>1, <1>3, <2>9, QuietLedger DEF TaskYield
    <2> QED
      BY <1>4, <2>1, <2>2, <2>3, <2>4, <2>5, <2>6, <2>7, <2>8, <2>9 DEF UserCode
  <1>5. CASE EntryPoint
    <2>1. ASSUME NEW c \in Cells, CallMain(c) PROVE GatherParts'
      <3>1. Grows /\ \A d \in Cells : kind'[d] = "gather" <=> kind[d] = "gather"
        BY <1>1, <1>3, <2>1 DEF CallMain, Unused, Grows, CellTypes
      <3> QED
        BY <1>1, <2>1, <3>1, QuietLedger DEF CallMain
    <2>2. ASSUME NEW c \in Cells, MainAwait(c) PROVE GatherParts'
      BY <1>1, <1>3, <2>2, QuietLedger DEF MainAwait
    <2>3. CASE MainEnd
      BY <1>1, <1>3, <2>3, QuietLedger DEF MainEnd
    <2> QED
      BY <1>5, <2>1, <2>2, <2>3 DEF EntryPoint
  <1>6. CASE Pump
    <2>1. CASE \/ PumpReturn \/ PumpTop \/ DrainHosts \/ HostsDone \/ CollectDone \/ CollectStale
               \/ CollectResumes \/ RunTask \/ GoToSleep \/ WakeUp
      <3>1. UNCHANGED <<kind, status, waiters, work, parts, left, failed, results>>
        BY <2>1 DEF PumpReturn, PumpTop, DrainHosts, HostsDone, CollectDone, CollectStale,
           CollectResumes, RunTask, GoToSleep, WakeUp
      <3> QED
        BY <1>1, <1>3, <3>1, QuietLedger
    <2>2. CASE CompleteHost
      <3>1. /\ work = <<>> /\ UNCHANGED <<kind, parts, left, failed, results>> /\ batch # <<>>
        BY <2>2 DEF CompleteHost, Pumping
      <3>2. Head(batch) \in Cells
        BY <1>1, <3>1 DEF TInv, TypeOK, PumpTypes
      <3>3. CASE Head(batch) \in held /\ promise[Head(batch)] # "pending"
        <4>1. /\ Settle(Head(batch), promise[Head(batch)], {}, <<>>)
          BY <2>2, <3>3 DEF CompleteHost
        <4>2. promise[Head(batch)] \in Outcomes /\ kind[Head(batch)] = "host"
          BY <1>1, <3>2, <3>3 DEF TInv, TypeOK, HostTypes, Created, KnownHeld, HostInv, HostParts
        <4> QED
          BY <1>1, <1>3, <3>1, <3>2, <4>1, <4>2, SettledLedger
      <3>4. CASE ~(Head(batch) \in held /\ promise[Head(batch)] # "pending")
        <4>1. UNCHANGED <<status, waiters, work>>
          BY <2>2, <3>4 DEF CompleteHost
        <4> QED
          BY <1>1, <1>3, <3>1, <4>1, QuietLedger
      <3> QED
        BY <3>3, <3>4
    <2>3. CASE CollectReparks
      <3> DEFINE i == Head(inbox).slot
                 s == Release(slab, i)
                 on == slab.cells[i].on
      <3>1. /\ Collecting /\ Holds(slab, Head(inbox))
            /\ waiters' = [waiters EXCEPT ![on] = Append(@, [token |-> NextToken(s)])]
            /\ UNCHANGED <<status, work, parts, left, failed, results, kind>>
        BY <2>3 DEF CollectReparks
      <3>2. /\ slab.cells[i].out \in Cells /\ on \in Cells /\ GoodSlab(s)
        BY <1>1, <3>1, HeldSlot
      <3> HIDE DEF i, s, on
      <3>3. NextToken(s) \in Tokens
        BY <3>2, InsertKeeps
      <3>4. [token |-> NextToken(s)] \in Waiters
        BY <3>3 DEF Waiters, ResumeWaiters
      <3> QED
        BY <1>1, <3>1, <3>2, <3>4, WatchLedger
    <2> QED
      BY <1>1, <1>6, <2>1, <2>2, <2>3, NotifyAwaiterLedger, GatherOneLedger DEF Pump
  <1>7. CASE HostThreads
    <2>1. UNCHANGED <<kind, status, waiters, work, parts, left, failed, results>>
      BY <1>7 DEF HostThreads, HostComplete
    <2> QED
      BY <1>1, <1>3, <2>1, QuietLedger
  <1> QED
    BY <1>4, <1>5, <1>6, <1>7 DEF Next, VmThread

\* What a gather is owed: its pending children, and those it is still to be told of.
LEMMA OpenIsOwed ==
  ASSUME TInv, GatherParts, NEW p \in Gathers
  PROVE  Cardinality(Open(work, p)) = Owed(p)
  <1> DEFINE P == {i \in DOMAIN parts[p] : status[parts[p][i]] = "pending"}
             T == {i \in DOMAIN parts[p] : Untold(work, p, i)}
             W == {k \in DOMAIN work : ~IsResume(work[k].waiter) /\ work[k].waiter.parent = p}
  <1>1. p \in Cells /\ work \in Seq(Notifications) /\ WorkAgrees(work) /\ WorkOnce(work)
    BY DEF Gathers, GatherParts, Ledger, TInv, TypeOK, CellTypes
  <1>2. IsFiniteSet(P) /\ IsFiniteSet(T)
    BY <1>1, OpenFinite, FS_Subset
  <1>3. Open(work, p) = P \cup T /\ Owed(p) = Cardinality(P) + Cardinality(W)
    BY DEF Open, Owed
  <1>4. \A k \in W : /\ work[k].waiter = Waiter(p, work[k].waiter.index)
                     /\ work[k].waiter.index \in DOMAIN parts[p]
                     /\ status[parts[p][work[k].waiter.index]] # "pending"
    BY <1>1, WorkParts, WaiterForm DEF WorkAgrees
  <1>5. \A i \in T : \E k \in W : work[k].waiter = Waiter(p, i) /\ work[k].waiter.index = i
    BY WaiterForm DEF Untold
  <1>6. P \cap T = {}
    <2> SUFFICES ASSUME NEW i \in T PROVE i \notin P
      OBVIOUS
    <2>1. PICK k \in W : work[k].waiter.index = i
      BY <1>5
    <2> QED
      BY <1>4, <2>1
  <1>7. ExistsBijection(W, T)
    <2> DEFINE f == [k \in W |-> work[k].waiter.index]
    <2>1. f \in [W -> T]
      <3> SUFFICES ASSUME NEW k \in W PROVE work[k].waiter.index \in T
        OBVIOUS
      <3> QED
        BY <1>4 DEF Untold
    <2>2. ASSUME NEW j \in W, NEW k \in W, f[j] = f[k] PROVE j = k
      <3>1. work[j].waiter = work[k].waiter /\ ~IsResume(work[j].waiter)
        BY <1>4, <2>2
      <3> QED
        BY <1>1, <3>1 DEF WorkOnce
    <2>3. \A i \in T : \E k \in W : f[k] = i
      BY <1>5
    <2> HIDE DEF f, W, T
    <2> QED
      BY <2>1, <2>2, <2>3 DEF ExistsBijection, Bijection, Injection, Surjection, IsInjective
  <1>8. IsFiniteSet(W)
    <2>1. DOMAIN work = 1..Len(work) /\ Len(work) \in Nat
      BY <1>1
    <2>2. IsFiniteSet(DOMAIN work) /\ W \subseteq DOMAIN work
      BY <2>1, FS_Interval
    <2> QED
      BY ONLY <2>2, FS_Subset
  <1> HIDE DEF P, T, W
  <1>9. Cardinality(T) = Cardinality(W)
    BY <1>7, <1>8, FS_Bijection
  <1>10. Cardinality(P \cup T) = Cardinality(P) + Cardinality(T) - Cardinality(P \cap T)
    BY <1>2, FS_Union
  <1>11. Cardinality(P \cap T) = 0
    BY <1>6, FS_EmptySet
  <1>12. Cardinality(P) \in Nat /\ Cardinality(T) \in Nat
    BY <1>2, FS_CardinalityType
  <1> QED
    BY <1>3, <1>9, <1>10, <1>11, <1>12

\* A parallel settles exactly when its last child does: its counter is what it is
\* owed, it holds an error only of a rejected child, and once resolved the result
\* of every child.
THEOREM GathersBalance == Spec => []GatherExact
  <1>1. TInv /\ GatherParts => GatherExact
    <2> SUFFICES ASSUME TInv, GatherParts, NEW p \in Gathers
                 PROVE  /\ left[p] = Owed(p)
                        /\ status[p] = "pending" => left[p] > 0
                        /\ status[p] = "resolved" => left[p] = 0 /\ results[p] = parts[p]
                        /\ failed[p] # None => /\ status[failed[p]] = "rejected"
                                               /\ failed[p] \in {parts[p][i] : i \in DOMAIN parts[p]}
                                               /\ status[p] # "resolved"
      BY DEF GatherExact, Gathers
    <2>1. left[p] = Owed(p)
      BY OpenIsOwed DEF GatherParts, Ledger, LeftAgrees
    <2>2. failed[p] # None => status[failed[p]] = "rejected" /\ Among(failed[p], parts[p])
      BY DEF GatherParts, Ledger, ToldAgrees
    <2>3. /\ status[p] = "pending" => left[p] > 0
          /\ status[p] = "resolved" => left[p] = 0 /\ results[p] = parts[p] /\ failed[p] = None
      BY DEF GatherParts, GatherEnds
    <2> QED
      BY <2>1, <2>2, <2>3 DEF Among
  <1>2. HomeInv /\ HostInv /\ GatherParts /\ [Next]_vars => GatherParts'
    <2> SUFFICES ASSUME HomeInv, HostInv, GatherParts, [Next]_vars PROVE GatherParts'
      OBVIOUS
    <2>1. CASE Next
      BY <2>1, LedgerKept
    <2>2. CASE UNCHANGED vars
      <3>1. UNCHANGED <<kind, status, waiters, work, parts, left, failed, results>>
        BY <2>2 DEF vars, cellVars, gatherVars
      <3>2. TInv /\ Grows
        BY <3>1 DEF HomeInv, Grows
      <3> QED
        BY <3>1, <3>2, QuietLedger
    <2> QED
      BY <2>1, <2>2
  <1> QED
    BY <1>1, <1>2, InitLedger, HomesAlways, HostsAlways, TypesAlways, PTL DEF Spec
=============================================================================
