-------------------------- MODULE HostWake_proofs --------------------------
(***************************************************************************)
(* Theorems about the wake queue and its sleeper, for every set of host    *)
(* threads and of promises.                                                *)
(***************************************************************************)
EXTENDS HostWake, Counting

(***************************************************************************)
(* The generation that the pump has read is not ahead of the queue's.      *)
(* Since it drained the queue, a token can only have come with a new       *)
(* generation; and one that came while it slept has a thread that is about *)
(* to notify.                                                              *)
(***************************************************************************)
WakeInv ==
    /\ generation \in Nat /\ entered \in Nat
    /\ entered <= generation
    /\ pc \in {"lookup", "complete", "recheck", "asleep"} /\ generation = entered => tokens = <<>>
    /\ pc = "asleep" /\ generation # entered => notifying # {}

LEMMA WakeStart == WInit => WakeInv
  BY DEF WInit, WakeInv

LEMMA PumpKeeps == WakeInv /\ PumpStep => WakeInv'
  <1> SUFFICES ASSUME WakeInv, PumpStep PROVE WakeInv'
    OBVIOUS
  <1>1. CASE PumpLeaves
    BY <1>1 DEF WakeInv, PumpLeaves, wakeVars, threadVars
  <1>2. CASE ReadGeneration
    BY <1>2 DEF WakeInv, ReadGeneration, wakeVars, threadVars
  <1>3. CASE Drain
    BY <1>3 DEF WakeInv, Drain, threadVars
  <1>7. CASE LookUp
    BY <1>7 DEF WakeInv, LookUp, wakeVars, threadVars
  <1>8. CASE LookedUp
    BY <1>8 DEF WakeInv, LookedUp, wakeVars, threadVars
  <1>4. CASE CompleteHandle
    BY <1>4 DEF WakeInv, CompleteHandle, wakeVars, threadVars
  <1>5. CASE BatchDone
    BY <1>5 DEF WakeInv, BatchDone, wakeVars, threadVars
  <1>6. CASE WaitPast
    BY <1>6 DEF WakeInv, WaitPast, wakeVars, threadVars
  <1> QED
    BY <1>1, <1>2, <1>3, <1>4, <1>5, <1>6, <1>7, <1>8 DEF PumpStep

\* User code runs only while the pump is not waiting.
LEMMA UserKeeps == WakeInv /\ (UserStep \/ WatchPromise) => WakeInv'
  <1> SUFFICES ASSUME WakeInv, UserStep \/ WatchPromise PROVE WakeInv'
    OBVIOUS
  <1>1. ASSUME NEW p \in Promises, NEW s \in {None, "done"}, Create(p, s) PROVE WakeInv'
    BY <1>1 DEF WakeInv, Create, wakeVars, threadVars, vmVars
  <1>2. ASSUME NEW p \in Promises, Adopt(p) PROVE WakeInv'
    BY <1>2 DEF WakeInv, Adopt, wakeVars, threadVars
  <1>3. ASSUME NEW p \in Promises, CancelHandle(p) PROVE WakeInv'
    BY <1>3 DEF WakeInv, CancelHandle, wakeVars, vmVars
  <1>4. ASSUME NEW p \in Promises, AwaitHandle(p) PROVE WakeInv'
    BY <1>4 DEF WakeInv, AwaitHandle, wakeVars, threadVars
  <1>5. CASE WatchPromise
    BY <1>5 DEF WakeInv, WatchPromise, wakeVars
  <1> QED
    BY <1>1, <1>2, <1>3, <1>4, <1>5 DEF UserStep

LEMMA DeliveryKeeps == WakeInv /\ Delivery => WakeInv'
  <1> SUFFICES ASSUME WakeInv, NEW t \in Threads, FirePush(t) \/ Notify(t) PROVE WakeInv'
    BY DEF Delivery
  <1>1. CASE FirePush(t)
    BY <1>1 DEF WakeInv, FirePush, vmVars
  <1>2. CASE Notify(t)
    BY <1>2 DEF WakeInv, Notify, wakeVars
  <1> QED
    BY <1>1, <1>2

LEMMA HostKeeps ==
  ASSUME WakeInv, NEW t \in Hosts, NEW p \in Promises, HostCompletes(t, p) PROVE WakeInv'
  BY DEF WakeInv, HostCompletes, wakeVars, vmVars

LEMMA WakeStep == WakeInv /\ [WNext]_wvars => WakeInv'
  <1> SUFFICES ASSUME WakeInv, [WNext]_wvars PROVE WakeInv'
    OBVIOUS
  <1>1. CASE UNCHANGED wvars
    BY <1>1 DEF WakeInv, wvars, wakeVars, threadVars, vmVars
  <1>2. CASE SpuriousWake
    BY <1>2 DEF WakeInv, SpuriousWake, wakeVars, threadVars
  <1> QED
    BY <1>1, <1>2, PumpKeeps, UserKeeps, DeliveryKeeps, HostKeeps DEF WNext

\* The VM thread never sleeps on a token, or on a moved generation, that nobody is
\* about to announce: between reading the generation, draining the queue and going
\* to sleep, any number of pushes and notifications may fall (wait_past, push).
THEOREM SleeperIsTold == WSpec => []SleeperIsToldOfTokens
  <1>1. WInit => WakeInv
    BY WakeStart
  <1>2. WakeInv /\ [WNext]_wvars => WakeInv'
    BY WakeStep
  <1>3. WakeInv => SleeperIsToldOfTokens
    BY DEF WakeInv, SleeperIsToldOfTokens
  <1> QED
    BY <1>1, <1>2, <1>3, PTL DEF WSpec

-----------------------------------------------------------------------------
(***************************************************************************)
(* Tokens and slots                                                        *)
(***************************************************************************)
\* The slab: a promise is in at most one slot, one that has a slot has been
\* adopted, and the free list names each vacant slot once and no other.
SlabInv ==
    /\ \A i, j \in DOMAIN slots : slots[i] = slots[j] /\ slots[i] # None => i = j
    /\ \A i \in DOMAIN slots :
          slots[i] # None => handle[slots[i]] \notin {"none", "published"}
    /\ \A j, k \in DOMAIN free : free[j] = free[k] => j = k
    /\ \A k \in DOMAIN free : free[k] \in DOMAIN slots /\ slots[free[k]] = None
    /\ \A i \in DOMAIN slots : slots[i] = None => \E k \in DOMAIN free : free[k] = i

\* Between the two halves of adopt_host the promise has a slot and no token, and
\* the VM thread has nothing to fire.
AdoptInv ==
    adopting # None =>
        /\ \E i \in DOMAIN slots : slots[i] = adopting
        /\ watchers[adopting] = <<>>
        /\ firing[VM] = <<>>

\* A token that has left its promise stands for a promise that is complete.
Announced(i) ==
    /\ i \in DOMAIN slots
    /\ slots[i] # None /\ slots[i] # adopting
    /\ done[slots[i]] # None

TokensAnnounced ==
    /\ \A t \in Threads : firing[t] = <<>> \/ \E i \in DOMAIN slots : firing[t] = <<i>> /\ Announced(i)
    /\ \A k \in DOMAIN tokens : Announced(tokens[k])
    /\ \A k \in DOMAIN taken : Announced(taken[k])

\* A token that a promise keeps stands for that promise, which is pending.
TokensKept ==
    \A p \in Promises :
        \/ watchers[p] = <<>>
        \/ /\ done[p] = None /\ p # adopting
           /\ \E i \in DOMAIN slots : slots[i] = p /\ watchers[p] = <<i>>

\* No token is in two places.
TokensApart ==
    /\ \A t, u \in Threads : firing[t] = firing[u] /\ firing[t] # <<>> => t = u
    /\ \A j, k \in DOMAIN tokens : tokens[j] = tokens[k] => j = k
    /\ \A j, k \in DOMAIN taken : taken[j] = taken[k] => j = k
    /\ \A t \in Threads, k \in DOMAIN tokens : firing[t] # <<tokens[k]>>
    /\ \A t \in Threads, k \in DOMAIN taken : firing[t] # <<taken[k]>>
    /\ \A j \in DOMAIN tokens, k \in DOMAIN taken : tokens[j] # taken[k]

InFlight(i) ==
    \/ \E t \in Threads : firing[t] = <<i>>
    \/ \E k \in DOMAIN tokens : tokens[k] = i
    \/ \E k \in DOMAIN taken : taken[k] = i

\* Every slot has its token.
TokensThere ==
    \A i \in DOMAIN slots :
        slots[i] # None /\ slots[i] # adopting =>
            IF done[slots[i]] = None THEN watchers[slots[i]] = <<i>> ELSE InFlight(i)

\* Only drain_hosts holds tokens it has taken.
LookUpOnly == pc # "lookup" => taken = <<>>

\* No promise is complete before it is made.
Unmade == \A p \in Promises : handle[p] = "none" => done[p] = None

TokenInv ==
    /\ CompletionAgrees
    /\ SlabInv /\ AdoptInv
    /\ TokensAnnounced /\ TokensKept /\ TokensApart /\ TokensThere
    /\ LookUpOnly /\ Unmade

LEMMA TokenStart == WInit => TokenInv
  <1> SUFFICES ASSUME WInit PROVE TokenInv
    OBVIOUS
  <1>1. CompletionAgrees
    BY DEF WInit, CompletionAgrees, WTypeOK
  <1>2. SlabInv /\ AdoptInv
    BY DEF WInit, SlabInv, AdoptInv
  <1>3. TokensAnnounced /\ TokensKept /\ TokensApart /\ TokensThere /\ LookUpOnly
    BY DEF WInit, TokensAnnounced, TokensKept, TokensApart, TokensThere, LookUpOnly
  <1>4. Unmade
    BY DEF WInit, Unmade
  <1> QED
    BY <1>1, <1>2, <1>3, <1>4 DEF TokenInv

\* The steps that move no token and touch no slot.
tokenVars == <<done, watchers, slots, free, taken, tokens, firing, adopting, batch>>

LEMMA QuietTokens ==
  ASSUME TokenInv, UNCHANGED tokenVars, UNCHANGED handle, WTypeOK', LookUpOnly'
  PROVE  TokenInv'
  <1>1. CompletionAgrees'
    BY DEF TokenInv, CompletionAgrees, tokenVars
  <1>2. SlabInv' /\ AdoptInv'
    BY DEF TokenInv, SlabInv, AdoptInv, tokenVars
  <1>3. TokensAnnounced' /\ TokensThere'
    BY DEF TokenInv, TokensAnnounced, Announced, TokensThere, InFlight, tokenVars
  <1>4. TokensKept' /\ TokensApart'
    BY DEF TokenInv, TokensKept, TokensApart, tokenVars
  <1> QED
    BY <1>1, <1>2, <1>3, <1>4 DEF TokenInv, Unmade, tokenVars

LEMMA QuietSteps ==
  ASSUME TokenInv,
         \/ PumpLeaves \/ ReadGeneration \/ LookedUp \/ BatchDone \/ WaitPast
         \/ SpuriousWake
         \/ \E t \in Threads : Notify(t)
         \/ \E p \in Promises : AwaitHandle(p)
         \/ UNCHANGED wvars
  PROVE  TokenInv'
  <1>1. WTypeOK
    BY DEF TokenInv, CompletionAgrees
  <1>2. UNCHANGED tokenVars /\ UNCHANGED handle
    BY DEF PumpLeaves, ReadGeneration, LookedUp, BatchDone, WaitPast, SpuriousWake, Notify,
           AwaitHandle, wvars, wakeVars, threadVars, slabVars, vmVars, tokenVars
  <1>3. /\ generation' \in Nat /\ notifying' \subseteq Threads /\ entered' \in Nat
        /\ pc' \in {"user", "top", "drain", "lookup", "complete", "recheck", "asleep"}
        /\ goal' \in Promises \cup {None}
    BY <1>1 DEF WTypeOK, PumpLeaves, ReadGeneration, LookedUp, BatchDone, WaitPast, SpuriousWake,
           Notify, AwaitHandle, wvars, wakeVars, threadVars, slabVars, vmVars
  <1>4. WTypeOK'
    BY <1>1, <1>2, <1>3 DEF WTypeOK, tokenVars
  <1>5. LookUpOnly'
    BY DEF TokenInv, LookUpOnly, PumpLeaves, ReadGeneration, LookedUp, BatchDone, WaitPast, SpuriousWake,
           Notify, AwaitHandle, wvars, wakeVars, threadVars, slabVars, vmVars
  <1> QED
    BY <1>2, <1>4, <1>5, QuietTokens

\* drain_hosts takes what is in the queue.
LEMMA DrainTokens == TokenInv /\ Drain => TokenInv'
  <1> SUFFICES ASSUME TokenInv, Drain PROVE TokenInv'
    OBVIOUS
  <1>1. WTypeOK /\ taken = <<>>
    BY DEF TokenInv, CompletionAgrees, Drain, LookUpOnly
  <1>2. /\ taken' = tokens /\ tokens' = <<>> /\ pc' = "lookup"
        /\ UNCHANGED <<done, watchers, handle, generation, threadVars, slots, free, adopting,
                       entered, batch, goal>>
    BY DEF Drain
  <1>3. CompletionAgrees'
    BY <1>1, <1>2 DEF TokenInv, CompletionAgrees, WTypeOK, threadVars
  <1>4. SlabInv' /\ AdoptInv'
    BY <1>2 DEF TokenInv, SlabInv, AdoptInv, threadVars
  <1>5. TokensAnnounced' /\ TokensThere'
    BY <1>1, <1>2 DEF TokenInv, TokensAnnounced, Announced, TokensThere, InFlight, threadVars
  <1>6. TokensKept' /\ TokensApart'
    BY <1>1, <1>2 DEF TokenInv, TokensKept, TokensApart, threadVars
  <1> QED
    BY <1>2, <1>3, <1>4, <1>5, <1>6 DEF TokenInv, LookUpOnly, Unmade

\* A token empties its slot and leaves with it.
LEMMA LookUpTokens == TokenInv /\ LookUp => TokenInv'
  <1> SUFFICES ASSUME TokenInv, LookUp,
                      NEW i, i = Head(taken), NEW p, p = slots[i]
               PROVE  TokenInv'
    OBVIOUS
  <1>1. WTypeOK
    BY DEF TokenInv, CompletionAgrees
  <1>2. /\ slots \in Seq(Promises \cup {None}) /\ DOMAIN slots = 1..Len(slots) /\ Len(slots) \in Nat
        /\ free \in Seq(Nat \ {0}) /\ taken \in Seq(Nat \ {0}) /\ taken # <<>>
        /\ Len(taken) \in Nat /\ DOMAIN taken = 1..Len(taken)
    BY <1>1 DEF WTypeOK, LookUp
  <1>3. 1 \in DOMAIN taken /\ i = taken[1] /\ Announced(i)
    BY <1>2 DEF TokenInv, TokensAnnounced
  <1>4. /\ i \in DOMAIN slots /\ p \in Promises /\ p # None /\ p # adopting /\ done[p] # None
    BY <1>2, <1>3 DEF Announced
  <1>5. /\ batch' = Append(batch, p) /\ slots' = [slots EXCEPT ![i] = None]
        /\ free' = Append(free, i) /\ taken' = Tail(taken)
        /\ UNCHANGED <<done, watchers, handle, wakeVars, threadVars, pc, adopting, entered, goal>>
    BY <1>4 DEF LookUp
  <1>6. /\ DOMAIN slots' = DOMAIN slots /\ slots'[i] = None
        /\ \A j \in DOMAIN slots : j # i => slots'[j] = slots[j]
    BY <1>4, <1>5
  <1>7. /\ taken' \in Seq(Nat \ {0})
        /\ \A k \in DOMAIN taken' : k + 1 \in DOMAIN taken /\ taken'[k] = taken[k + 1]
        /\ \A k \in DOMAIN taken : k = 1 \/ (k - 1 \in DOMAIN taken' /\ taken'[k - 1] = taken[k])
        /\ \A k \in DOMAIN taken' : k \in Nat \ {0}
    BY <1>2, <1>5, TailParts
  <1>8. /\ free' \in Seq(Nat \ {0}) /\ Len(free) + 1 \in DOMAIN free'
        /\ Len(free) \in Nat /\ DOMAIN free = 1..Len(free)
        /\ free'[Len(free) + 1] = i
        /\ \A k \in DOMAIN free : k \in DOMAIN free' /\ free'[k] = free[k]
        /\ \A k \in DOMAIN free' :
              (k \in DOMAIN free /\ free'[k] = free[k]) \/ (k = Len(free) + 1 /\ free'[k] = i)
    BY <1>2, <1>4, <1>5, AppendParts
  <1>9. CompletionAgrees'
    <2>1. slots' \in Seq(Promises \cup {None})
      BY <1>2, <1>4, <1>5, ExceptSeq
    <2>3. batch \in Seq(Promises)
      BY <1>1 DEF WTypeOK
    <2>5. /\ batch' \in Seq(Promises)
          /\ \A k \in DOMAIN batch' : batch'[k] = p \/ (k \in DOMAIN batch /\ batch'[k] = batch[k])
      BY <1>4, <1>5, <2>3, AppendParts
    <2>4. WTypeOK'
      BY <1>1, <1>5, <1>7, <1>8, <2>1, <2>5 DEF WTypeOK, wakeVars, threadVars
    <2> QED
      BY <1>4, <1>5, <2>4, <2>5 DEF TokenInv, CompletionAgrees
  <1>10. SlabInv'
    <2>1. \A k \in DOMAIN free : free[k] # i
      BY <1>4 DEF TokenInv, SlabInv
    <2>2. \A j, k \in DOMAIN slots' : slots'[j] = slots'[k] /\ slots'[j] # None => j = k
      BY <1>6 DEF TokenInv, SlabInv
    <2>3. \A j \in DOMAIN slots' : slots'[j] # None => handle'[slots'[j]] \notin {"none", "published"}
      BY <1>5, <1>6 DEF TokenInv, SlabInv
    <2>4. \A j, k \in DOMAIN free' : free'[j] = free'[k] => j = k
      BY <1>8, <2>1 DEF TokenInv, SlabInv
    <2>5. \A k \in DOMAIN free' : free'[k] \in DOMAIN slots' /\ slots'[free'[k]] = None
      BY <1>4, <1>6, <1>8, <2>1 DEF TokenInv, SlabInv
    <2>6. \A j \in DOMAIN slots' : slots'[j] = None => \E k \in DOMAIN free' : free'[k] = j
      BY <1>6, <1>8 DEF TokenInv, SlabInv
    <2> QED
      BY <2>2, <2>3, <2>4, <2>5, <2>6 DEF SlabInv
  <1>11. AdoptInv'
    BY <1>4, <1>5, <1>6 DEF TokenInv, AdoptInv, threadVars
  <1>12. \A j : Announced(j) /\ j # i => Announced(j)'
    BY <1>5, <1>6 DEF Announced
  <1>13. TokensAnnounced'
    <2>1. \A t \in Threads : firing[t] # <<i>>
      BY <1>3 DEF TokenInv, TokensApart
    <2>2. \A k \in DOMAIN tokens : tokens[k] # i
      BY <1>3 DEF TokenInv, TokensApart
    <2>3. \A k \in DOMAIN taken' : taken'[k] # i /\ Announced(taken[k + 1])
      <3> TAKE k \in DOMAIN taken'
      <3>1. k + 1 \in DOMAIN taken /\ taken'[k] = taken[k + 1] /\ k + 1 # 1
        BY <1>7
      <3> QED
        BY <1>3, <3>1 DEF TokenInv, TokensApart, TokensAnnounced
    <2>4. \A t \in Threads : firing[t] = <<>> \/ \E j \in DOMAIN slots : firing[t] = <<j>> /\ Announced(j)
      BY DEF TokenInv, TokensAnnounced
    <2>5. (\A t \in Threads : firing[t] = <<>> \/ \E j \in DOMAIN slots : firing[t] = <<j>> /\ Announced(j))'
      BY <1>5, <1>6, <1>12, <2>1, <2>4 DEF threadVars
    <2>6. \A k \in DOMAIN tokens : Announced(tokens[k])
      BY DEF TokenInv, TokensAnnounced
    <2>7. (\A k \in DOMAIN tokens : Announced(tokens[k]))'
      BY <1>5, <1>12, <2>2, <2>6 DEF wakeVars
    <2>8. (\A k \in DOMAIN taken : Announced(taken[k]))'
      BY <1>7, <1>12, <2>3
    <2> QED
      BY <2>5, <2>7, <2>8 DEF TokensAnnounced
  <1>14. TokensKept'
    BY <1>4, <1>5, <1>6 DEF TokenInv, TokensKept
  <1>15. TokensApart'
    BY <1>2, <1>5, <1>7 DEF TokenInv, TokensApart, wakeVars, threadVars
  <1>16. TokensThere'
    <2> SUFFICES ASSUME NEW j \in DOMAIN slots', slots'[j] # None, slots'[j] # adopting
                 PROVE  IF done'[slots'[j]] = None THEN watchers'[slots'[j]] = <<j>> ELSE InFlight(j)'
      BY <1>5 DEF TokensThere
    <2>1. j # i /\ j \in DOMAIN slots /\ slots'[j] = slots[j]
      BY <1>6
    <2>2. (\E k \in DOMAIN taken : taken[k] = j) => \E k \in DOMAIN taken' : taken'[k] = j
      BY <1>3, <1>7, <2>1
    <2>3. InFlight(j) => InFlight(j)'
      BY <1>5, <2>2 DEF InFlight, wakeVars, threadVars
    <2> QED
      BY <1>5, <2>1, <2>3 DEF TokenInv, TokensThere
  <1> QED
    BY <1>5, <1>9, <1>10, <1>11, <1>13, <1>14, <1>15, <1>16 DEF TokenInv, LookUp, LookUpOnly, Unmade

\* A drained handle settles with what its promise was completed with.
LEMMA CompleteHandleTokens == TokenInv /\ CompleteHandle => TokenInv'
  <1> SUFFICES ASSUME TokenInv, CompleteHandle, NEW p, p = Head(batch) PROVE TokenInv'
    OBVIOUS
  <1>1. WTypeOK /\ batch \in Seq(Promises) /\ batch # <<>>
    BY DEF TokenInv, CompletionAgrees, CompleteHandle, WTypeOK
  <1>2. /\ p \in Promises /\ batch' \in Seq(Promises)
        /\ \A k \in DOMAIN batch' : k + 1 \in DOMAIN batch /\ batch'[k] = batch[k + 1]
    BY <1>1, TailParts DEF CompleteHandle
  <1>3. /\ handle' = [handle EXCEPT ![p] = done[p]] \/ handle' = handle
        /\ handle' # handle => Unsettled(p) /\ done[p] # None
        /\ UNCHANGED <<done, watchers, slots, free, taken, tokens, firing, adopting, pc>>
    BY DEF CompleteHandle, wakeVars, threadVars, slabVars
  <1>4. /\ handle' \in [Promises -> {"none", "published", "pending"} \cup Completions]
        /\ \A q \in Promises : q # p => handle'[q] = handle[q]
        /\ handle'[p] \in Completions => handle'[p] = done[p] \/ handle' = handle
    BY <1>1, <1>2, <1>3 DEF WTypeOK
  <1>5. CompletionAgrees'
    <2>1. WTypeOK'
      BY <1>1, <1>2, <1>4 DEF WTypeOK, CompleteHandle, wakeVars, threadVars, slabVars
    <2>2. \A k \in DOMAIN batch' : done'[batch'[k]] # None
      BY <1>2, <1>3 DEF TokenInv, CompletionAgrees
    <2>3. /\ \A q \in Promises : handle'[q] = "done" => done'[q] = "done"
          /\ \A q \in Promises : handle'[q] = "cancelled" => done'[q] # None
      BY <1>2, <1>3, <1>4 DEF TokenInv, CompletionAgrees, Completions
    <2> QED
      BY <2>1, <2>2, <2>3 DEF CompletionAgrees
  <1>6. SlabInv'
    <2>1. \A i \in DOMAIN slots : slots[i] # None => slots[i] \in Promises
      BY <1>1 DEF WTypeOK
    <2>2. handle' # handle => handle'[p] \in Completions
      BY <1>1, <1>2, <1>3 DEF WTypeOK
    <2>3. \A q \in Promises : handle[q] \notin {"none", "published"} => handle'[q] \notin {"none", "published"}
      BY <1>2, <1>4, <2>2 DEF Completions
    <2> QED
      BY <1>3, <2>1, <2>3 DEF TokenInv, SlabInv
  <1>7. AdoptInv' /\ TokensKept' /\ TokensApart' /\ LookUpOnly'
    BY <1>3 DEF TokenInv, AdoptInv, TokensKept, TokensApart, LookUpOnly
  <1>8. TokensAnnounced' /\ TokensThere'
    BY <1>3 DEF TokenInv, TokensAnnounced, Announced, TokensThere, InFlight
  <1>9. Unmade'
    <2>1. \A q \in Promises : handle'[q] = "none" => handle[q] = "none"
      <3>1. handle' # handle => handle[p] = "pending" /\ handle'[p] \in Completions
        BY <1>1, <1>2, <1>3 DEF Unsettled, WTypeOK
      <3> QED
        BY <1>2, <1>4, <3>1 DEF Completions
    <2> QED
      BY <1>3, <2>1 DEF TokenInv, Unmade
  <1> QED
    BY <1>5, <1>6, <1>7, <1>8, <1>9 DEF TokenInv

\* A promise that is made has no slot.
LEMMA CreateTokens ==
  ASSUME TokenInv, NEW p \in Promises, NEW s \in {None, "done"}, Create(p, s) PROVE TokenInv'
  <1>1. WTypeOK /\ handle[p] = "none" /\ adopting = None
    BY DEF TokenInv, CompletionAgrees, Create
  <1>2. /\ handle' = [handle EXCEPT ![p] = "published"] /\ done' = [done EXCEPT ![p] = s]
        /\ UNCHANGED <<watchers, slots, free, taken, tokens, firing, adopting, batch, pc>>
    BY DEF Create, wakeVars, threadVars, slabVars, vmVars
  <1>3. /\ handle'[p] = "published" /\ done'[p] = s
        /\ \A q \in Promises : q # p => handle'[q] = handle[q] /\ done'[q] = done[q]
    BY <1>1, <1>2 DEF WTypeOK
  <1>4. \A i \in DOMAIN slots : slots[i] # None => slots[i] \in Promises /\ slots[i] # p
    BY <1>1 DEF TokenInv, SlabInv, WTypeOK
  <1>5. CompletionAgrees'
    <2>1. WTypeOK'
      BY <1>1 DEF WTypeOK, Completions, Create, wakeVars, threadVars, slabVars, vmVars
    <2>2. \A k \in DOMAIN batch : batch[k] \in Promises /\ done[batch[k]] # None
      BY <1>1 DEF TokenInv, CompletionAgrees, WTypeOK
    <2>3. \A k \in DOMAIN batch : batch[k] # p
      BY <1>1, <2>2 DEF TokenInv, Unmade
    <2> QED
      BY <1>2, <1>3, <2>1, <2>2, <2>3 DEF TokenInv, CompletionAgrees
  <1>6. SlabInv' /\ AdoptInv'
    BY <1>1, <1>2, <1>3, <1>4 DEF TokenInv, SlabInv, AdoptInv
  <1>7. TokensKept' /\ TokensApart' /\ LookUpOnly'
    <2>1. watchers[p] = <<>>
      BY <1>4, NobodyAssumption DEF TokenInv, TokensKept
    <2>2. TokensKept'
      <3> SUFFICES ASSUME NEW q \in Promises, watchers[q] # <<>>
                   PROVE  /\ done'[q] = None /\ q # adopting'
                          /\ \E i \in DOMAIN slots : slots[i] = q /\ watchers[q] = <<i>>
        BY <1>2 DEF TokensKept
      <3>1. q # p
        BY <2>1
      <3> QED
        BY <1>2, <1>3, <3>1 DEF TokenInv, TokensKept
    <2> QED
      BY <1>2, <2>2 DEF TokenInv, TokensApart, LookUpOnly
  <1>8. TokensAnnounced' /\ TokensThere'
    <2>1. \A i : Announced(i) => Announced(i)'
      BY <1>2, <1>3, <1>4 DEF Announced
    <2>2. \A i : InFlight(i) => InFlight(i)'
      BY <1>2 DEF InFlight
    <2>3. TokensAnnounced'
      BY <1>2, <2>1 DEF TokenInv, TokensAnnounced
    <2> QED
      BY <1>2, <1>3, <1>4, <2>2, <2>3 DEF TokenInv, TokensThere
  <1>9. Unmade'
    BY <1>1, <1>2, <1>3 DEF TokenInv, Unmade
  <1> QED
    BY <1>5, <1>6, <1>7, <1>8, <1>9 DEF TokenInv

\* adopt_host gives the promise a vacant slot, which no token names.
LEMMA AdoptTokens == ASSUME TokenInv, NEW p \in Promises, Adopt(p) PROVE TokenInv'
  <1>1. WTypeOK /\ handle[p] = "published" /\ adopting = None /\ firing[VM] = <<>>
    BY DEF TokenInv, CompletionAgrees, Adopt, VMFree, Busy
  <1>2. /\ slots \in Seq(Promises \cup {None}) /\ free \in Seq(Nat \ {0})
        /\ DOMAIN slots = 1..Len(slots) /\ Len(slots) \in Nat
        /\ DOMAIN free = 1..Len(free) /\ Len(free) \in Nat
    BY <1>1 DEF WTypeOK
  <1>3. /\ handle' = [handle EXCEPT ![p] = "pending"] /\ adopting' = p
        /\ UNCHANGED <<done, watchers, tokens, generation, firing, notifying, taken, pc,
                       entered, batch, goal>>
    BY DEF Adopt, wakeVars, threadVars
  <1>4. \A i \in DOMAIN slots : slots[i] # None => slots[i] \in Promises /\ slots[i] # p
    BY <1>1 DEF TokenInv, SlabInv, WTypeOK
  <1> DEFINE Gets(i) ==
           /\ i \notin DOMAIN slots \/ slots[i] = None
           /\ i \in DOMAIN slots' /\ slots'[i] = p
           /\ DOMAIN slots' = DOMAIN slots \cup {i}
           /\ \A j \in DOMAIN slots : j # i => slots'[j] = slots[j]
           /\ slots' \in Seq(Promises \cup {None})
           /\ free' \in Seq(Nat \ {0})
           /\ \A j, k \in DOMAIN free' : free'[j] = free'[k] => j = k
           /\ \A k \in DOMAIN free' : free'[k] # i /\ free'[k] \in DOMAIN slots /\ slots[free'[k]] = None
           /\ \A j \in DOMAIN slots : slots[j] = None /\ j # i => \E k \in DOMAIN free' : free'[k] = j
  <1>5. \E i \in Nat \ {0} : Gets(i)
    <2>1. CASE free = <<>>
      <3>1. slots' = Append(slots, p) /\ free' = free
        BY <2>1 DEF Adopt
      <3>2. /\ slots' \in Seq(Promises \cup {None}) /\ DOMAIN slots' = 1..(Len(slots) + 1)
            /\ slots'[Len(slots) + 1] = p /\ \A j \in DOMAIN slots : slots'[j] = slots[j]
        BY <1>2, <3>1, AppendParts
      <3>3. Len(slots) + 1 \in Nat \ {0} /\ Len(slots) + 1 \notin DOMAIN slots
            /\ 1..(Len(slots) + 1) = (1..Len(slots)) \cup {Len(slots) + 1}
        BY <1>2
      <3>4. \A j \in DOMAIN slots : slots[j] # None
        BY <2>1 DEF TokenInv, SlabInv
      <3>5. Gets(Len(slots) + 1)
        BY <1>2, <2>1, <3>1, <3>2, <3>3, <3>4
      <3> HIDE DEF Gets
      <3> QED
        BY <3>3, <3>5
    <2>2. CASE free # <<>>
      <3> DEFINE n == Len(free)
                 i == free[n]
      <3>1. slots' = [slots EXCEPT ![i] = p] /\ free' = Front(free)
        BY <2>2 DEF Adopt, Last
      <3>2. n \in DOMAIN free /\ n - 1 \in Nat
        BY <1>2, <2>2, EmptySeq
      <3>3. i \in DOMAIN slots /\ slots[i] = None /\ i \in Nat \ {0}
        BY <1>2, <3>2 DEF TokenInv, SlabInv
      <3>4. /\ slots' \in Seq(Promises \cup {None}) /\ DOMAIN slots' = DOMAIN slots
            /\ slots'[i] = p /\ \A j \in DOMAIN slots : j # i => slots'[j] = slots[j]
        BY <1>2, <3>1, <3>3, ExceptSeq
      <3>5. /\ free' \in Seq(Nat \ {0}) /\ DOMAIN free' = 1..(n - 1)
            /\ \A k \in 1..(n - 1) : free'[k] = free[k]
        BY <1>2, <2>2, <3>1, <3>2, FrontParts DEF Front
      <3>6. \A k \in DOMAIN free' : k \in DOMAIN free /\ k # n /\ free'[k] = free[k]
        BY <1>2, <3>2, <3>5
      <3>7. \A k \in DOMAIN free : k = n \/ k \in DOMAIN free'
        BY <1>2, <3>2, <3>5
      <3>8. \A j, k \in DOMAIN free' : free'[j] = free'[k] => j = k
        BY <3>6 DEF TokenInv, SlabInv
      <3>9. \A k \in DOMAIN free' : free'[k] # i /\ free'[k] \in DOMAIN slots /\ slots[free'[k]] = None
        BY <3>2, <3>6 DEF TokenInv, SlabInv
      <3>10. \A j \in DOMAIN slots : slots[j] = None /\ j # i => \E k \in DOMAIN free' : free'[k] = j
        BY <3>6, <3>7 DEF TokenInv, SlabInv
      <3>12. DOMAIN slots' = DOMAIN slots \cup {i} /\ i \in DOMAIN slots'
        BY <3>3, <3>4
      <3> HIDE DEF i
      <3>11. Gets(i)
        BY <3>3, <3>4, <3>5, <3>8, <3>9, <3>10, <3>12
      <3> HIDE DEF Gets
      <3> QED
        BY <3>3, <3>11
    <2> QED
      BY <2>1, <2>2
  <1>6. PICK i \in Nat \ {0} : Gets(i)
    BY <1>5
  <1>7. p # None
    BY NobodyAssumption
  <1>8. CompletionAgrees'
    <2>1. WTypeOK'
      BY <1>1, <1>3, <1>6 DEF WTypeOK
    <2> QED
      BY <1>1, <1>3, <2>1 DEF TokenInv, CompletionAgrees, WTypeOK
  <1>9. SlabInv'
    <2>1. \A j, k \in DOMAIN slots' : slots'[j] = slots'[k] /\ slots'[j] # None => j = k
      BY <1>4, <1>6 DEF TokenInv, SlabInv
    <2>2. \A j \in DOMAIN slots' : slots'[j] # None => handle'[slots'[j]] \notin {"none", "published"}
      BY <1>1, <1>3, <1>4, <1>6 DEF TokenInv, SlabInv, WTypeOK
    <2>3. \A k \in DOMAIN free' : free'[k] \in DOMAIN slots' /\ slots'[free'[k]] = None
      BY <1>6
    <2>4. \A j \in DOMAIN slots' : slots'[j] = None => \E k \in DOMAIN free' : free'[k] = j
      BY <1>6, <1>7
    <2> QED
      BY <1>6, <2>1, <2>2, <2>3, <2>4 DEF SlabInv
  <1>10. watchers[p] = <<>>
    BY <1>4, <1>7 DEF TokenInv, TokensKept
  <1>11. AdoptInv'
    BY <1>1, <1>3, <1>6, <1>10 DEF AdoptInv
  <1>12. \A j : Announced(j) => Announced(j)'
    BY <1>3, <1>4, <1>6 DEF Announced
  <1>13. \A j : InFlight(j) => InFlight(j)'
    BY <1>3 DEF InFlight
  <1>14. TokensAnnounced'
    BY <1>3, <1>6, <1>12 DEF TokenInv, TokensAnnounced
  <1>15. TokensKept'
    <2> SUFFICES ASSUME NEW q \in Promises, watchers[q] # <<>>
                 PROVE  /\ done[q] = None /\ q # p
                        /\ \E j \in DOMAIN slots' : slots'[j] = q /\ watchers[q] = <<j>>
      BY <1>3 DEF TokensKept
    <2>1. q # p /\ q # None
      BY <1>10, NobodyAssumption
    <2>2. PICK j \in DOMAIN slots : slots[j] = q /\ watchers[q] = <<j>>
      BY DEF TokenInv, TokensKept
    <2>3. j # i /\ j \in DOMAIN slots' /\ slots'[j] = q
      BY <1>6, <2>1, <2>2
    <2> QED
      BY <2>1, <2>2, <2>3 DEF TokenInv, TokensKept
  <1>16. TokensApart' /\ LookUpOnly'
    BY <1>3 DEF TokenInv, TokensApart, LookUpOnly
  <1>17. TokensThere'
    <2> SUFFICES ASSUME NEW j \in DOMAIN slots', slots'[j] # None, slots'[j] # p
                 PROVE  IF done[slots'[j]] = None THEN watchers[slots'[j]] = <<j>> ELSE InFlight(j)'
      BY <1>3 DEF TokensThere
    <2>1. j \in DOMAIN slots /\ slots'[j] = slots[j]
      BY <1>6
    <2> QED
      BY <1>1, <1>13, <2>1 DEF TokenInv, TokensThere
  <1>18. Unmade'
    BY <1>1, <1>3 DEF TokenInv, Unmade, WTypeOK
  <1> QED
    BY <1>8, <1>9, <1>11, <1>14, <1>15, <1>16, <1>17, <1>18 DEF TokenInv

\* The slot of the promise being adopted.
LEMMA AdoptedSlot ==
  ASSUME TokenInv, adopting # None
  PROVE  SlotOf(adopting) \in DOMAIN slots /\ slots[SlotOf(adopting)] = adopting
  BY DEF TokenInv, AdoptInv, SlotOf

\* adopt_host leaves the token with the promise, or has it to fire.
LEMMA WatchPromiseTokens == TokenInv /\ WatchPromise => TokenInv'
  <1> SUFFICES ASSUME TokenInv, WatchPromise, NEW i, i = SlotOf(adopting),
                      NEW p, p = adopting
               PROVE  TokenInv'
    OBVIOUS
  <1>1. WTypeOK /\ p # None /\ p \in Promises
    BY DEF TokenInv, CompletionAgrees, WatchPromise, WTypeOK
  <1>2. i \in DOMAIN slots /\ slots[i] = p /\ i \in Nat \ {0}
    <2>1. i \in DOMAIN slots /\ slots[i] = p
      BY <1>1, AdoptedSlot
    <2>2. slots \in Seq(Promises \cup {None})
      BY <1>1 DEF WTypeOK
    <2> QED
      BY <2>1, <2>2, LenProperties
  <1>3. watchers[p] = <<>> /\ firing[VM] = <<>> /\ VM \in Threads
    BY <1>1 DEF TokenInv, AdoptInv, Threads
  <1>4. /\ adopting' = None
        /\ UNCHANGED <<done, handle, tokens, generation, notifying, slots, free, taken, pc,
                       entered, batch, goal>>
        /\ IF done[p] = None
           THEN watchers' = [watchers EXCEPT ![p] = <<i>>] /\ firing' = firing
           ELSE firing' = [firing EXCEPT ![VM] = <<i>>] /\ watchers' = watchers
    <2>1. Append(watchers[p], i) = <<i>>
      BY <1>2, <1>3
    <2> QED
      BY <2>1, <1>1 DEF WatchPromise, WTypeOK, wakeVars, slabVars
  <1>5. CompletionAgrees'
    <2>1. <<i>> \in Seq(Nat \ {0})
      BY <1>2
    <2>2. watchers' \in [Promises -> Seq(Nat \ {0})] /\ firing' \in [Threads -> Seq(Nat \ {0})]
      BY <1>1, <1>4, <2>1 DEF WTypeOK
    <2> QED
      BY <1>4, <2>2 DEF TokenInv, CompletionAgrees, WTypeOK
  <1>6. SlabInv' /\ AdoptInv' /\ LookUpOnly' /\ Unmade'
    BY <1>4 DEF TokenInv, SlabInv, AdoptInv, LookUpOnly, Unmade
  <1>7. \A j : Announced(j) => Announced(j)' /\ j # i
    BY <1>2, <1>4 DEF Announced
  <1>8. \A j \in DOMAIN slots : slots[j] = p => j = i
    BY <1>1, <1>2 DEF TokenInv, SlabInv
  <1>9. CASE done[p] = None
    <2>1. /\ watchers'[p] = <<i>> /\ firing' = firing
          /\ \A q \in Promises : q # p => watchers'[q] = watchers[q]
      BY <1>1, <1>4, <1>9 DEF WTypeOK
    <2>2. TokensAnnounced'
      BY <1>4, <1>7, <2>1 DEF TokenInv, TokensAnnounced
    <2>3. TokensKept'
      <3> SUFFICES ASSUME NEW q \in Promises, watchers'[q] # <<>>
                   PROVE  /\ done[q] = None /\ q # None
                          /\ \E j \in DOMAIN slots : slots[j] = q /\ watchers'[q] = <<j>>
        BY <1>4 DEF TokensKept
      <3>1. CASE q = p
        BY <1>1, <1>2, <1>9, <2>1, <3>1
      <3>2. CASE q # p
        BY <2>1, <3>2, NobodyAssumption DEF TokenInv, TokensKept
      <3> QED
        BY <3>1, <3>2
    <2>4. TokensApart'
      BY <1>4, <2>1 DEF TokenInv, TokensApart
    <2>5. TokensThere'
      <3> SUFFICES ASSUME NEW j \in DOMAIN slots, slots[j] # None
                   PROVE  IF done[slots[j]] = None THEN watchers'[slots[j]] = <<j>> ELSE InFlight(j)'
        BY <1>4 DEF TokensThere
      <3>1. CASE slots[j] = p
        BY <1>8, <1>9, <2>1, <3>1
      <3>2. CASE slots[j] # p
        <4>1. InFlight(j) => InFlight(j)'
          BY <1>4, <2>1 DEF InFlight
        <4>2. slots[j] \in Promises
          BY <1>1 DEF WTypeOK
        <4> QED
          BY <2>1, <3>2, <4>1, <4>2 DEF TokenInv, TokensThere
      <3> QED
        BY <3>1, <3>2
    <2> QED
      BY <1>5, <1>6, <2>2, <2>3, <2>4, <2>5 DEF TokenInv
  <1>10. CASE done[p] # None
    <2>1. /\ firing'[VM] = <<i>> /\ watchers' = watchers
          /\ \A t \in Threads : t # VM => firing'[t] = firing[t]
      BY <1>1, <1>3, <1>4, <1>10 DEF WTypeOK
    <2>2. Announced(i)'
      BY <1>1, <1>2, <1>4, <1>10 DEF Announced
    <2>3. TokensAnnounced'
      BY <1>2, <1>4, <1>7, <2>1, <2>2 DEF TokenInv, TokensAnnounced
    <2>4. TokensKept'
      BY <1>1, <1>4, <2>1, NobodyAssumption DEF TokenInv, TokensKept
    <2>5. \A t \in Threads : firing[t] # <<i>>
      BY <1>7 DEF TokenInv, TokensAnnounced
    <2>6. (\A k \in DOMAIN tokens : tokens[k] # i) /\ (\A k \in DOMAIN taken : taken[k] # i)
      BY <1>7 DEF TokenInv, TokensAnnounced
    <2>7. TokensApart'
      <3>1. \A t, u \in Threads : firing'[t] = firing'[u] /\ firing'[t] # <<>> => t = u
        BY <2>1, <2>5 DEF TokenInv, TokensApart
      <3>2. \A t \in Threads : \A j : j # i /\ firing[t] # <<j>> => firing'[t] # <<j>>
        BY <2>1
      <3> QED
        BY <1>4, <2>6, <3>1, <3>2 DEF TokenInv, TokensApart
    <2>8. TokensThere'
      <3> SUFFICES ASSUME NEW j \in DOMAIN slots, slots[j] # None
                   PROVE  IF done[slots[j]] = None THEN watchers[slots[j]] = <<j>> ELSE InFlight(j)'
        BY <1>4, <2>1 DEF TokensThere
      <3>1. CASE slots[j] = p
        BY <1>3, <1>8, <1>10, <2>1, <3>1 DEF InFlight
      <3>2. CASE slots[j] # p
        <4>1. InFlight(j) => InFlight(j)'
          BY <1>3, <1>4, <2>1 DEF InFlight
        <4> QED
          BY <3>2, <4>1 DEF TokenInv, TokensThere
      <3> QED
        BY <3>1, <3>2
    <2> QED
      BY <1>5, <1>6, <2>3, <2>4, <2>7, <2>8 DEF TokenInv
  <1> QED
    BY <1>9, <1>10

\* The first completion of a promise sends its token on its way.
LEMMA CompleteTokens ==
  ASSUME TokenInv, NEW t \in Threads, NEW p \in Promises, NEW result \in Completions,
         Complete(t, p, result), firing[t] = <<>>, handle[p] # "none",
         t # VM \/ adopting = None,
         \/ handle' = handle
         \/ Unsettled(p) /\ result = "cancelled" /\ handle' = [handle EXCEPT ![p] = "cancelled"],
         UNCHANGED <<wakeVars, notifying, slabVars, vmVars>>
  PROVE  TokenInv'
  <1>1. /\ WTypeOK
        /\ UNCHANGED <<tokens, generation, notifying, slots, free, taken, pc, adopting, entered,
                       batch, goal>>
    BY DEF TokenInv, CompletionAgrees, wakeVars, slabVars, vmVars
  <1>2. /\ done' \in [Promises -> Completions \cup {None}]
        /\ done[p] # None => done' = done
        /\ done'[p] # None
        /\ done[p] = None => done'[p] = result
        /\ \A q \in Promises : q # p => done'[q] = done[q]
    BY <1>1, NobodyAssumption DEF Complete, WTypeOK, Completions
  <1>3. /\ watchers' \in [Promises -> Seq(Nat \ {0})]
        /\ done[p] = None => watchers'[p] = <<>>
        /\ done[p] # None => watchers' = watchers
        /\ \A q \in Promises : q # p => watchers'[q] = watchers[q]
    BY <1>1 DEF Complete, WTypeOK
  <1>4. /\ firing' \in [Threads -> Seq(Nat \ {0})]
        /\ done[p] = None => firing'[t] = watchers[p]
        /\ done[p] # None => firing' = firing
        /\ \A u \in Threads : u # t => firing'[u] = firing[u]
    BY <1>1 DEF Complete, WTypeOK
  <1>5. /\ handle' \in [Promises -> {"none", "published", "pending"} \cup Completions]
        /\ \A q \in Promises : q # p => handle'[q] = handle[q]
        /\ handle'[p] # handle[p] => handle'[p] = "cancelled" /\ result = "cancelled"
                                     /\ handle[p] = "pending"
    BY <1>1 DEF WTypeOK, Unsettled, Completions
  <1>6. CompletionAgrees'
    <2>1. WTypeOK'
      BY <1>1, <1>2, <1>3, <1>4, <1>5 DEF WTypeOK
    <2>2. \A q \in Promises : done[q] # None => done'[q] = done[q]
      BY <1>2
    <2>3. \A k \in DOMAIN batch' : done'[batch'[k]] # None
      BY <1>1, <2>2 DEF TokenInv, CompletionAgrees, WTypeOK
    <2>4. "done" # "cancelled"
      OBVIOUS
    <2>5. \A q \in Promises : handle'[q] = "done" => done'[q] = "done"
      <3> SUFFICES ASSUME NEW q \in Promises, handle'[q] = "done" PROVE done'[q] = "done"
        OBVIOUS
      <3>1. handle[q] = "done"
        BY <1>5, <2>4
      <3>2. done[q] = "done"
        BY <3>1 DEF TokenInv, CompletionAgrees
      <3> QED
        BY <2>2, <3>2, NobodyAssumption
    <2>6. \A q \in Promises : handle'[q] = "cancelled" => done'[q] # None
      BY <1>2, <1>5, <2>2 DEF TokenInv, CompletionAgrees
    <2> QED
      BY <2>1, <2>3, <2>5, <2>6 DEF CompletionAgrees
  <1>7. SlabInv' /\ LookUpOnly' /\ Unmade'
    <2>1. \A i \in DOMAIN slots : slots[i] # None => slots[i] \in Promises
      BY <1>1 DEF WTypeOK
    <2>2. SlabInv'
      BY <1>1, <1>5, <2>1 DEF TokenInv, SlabInv
    <2>3. Unmade'
      BY <1>2, <1>5 DEF TokenInv, Unmade
    <2> QED
      BY <1>1, <2>2, <2>3 DEF TokenInv, LookUpOnly
  <1>8. \A i \in DOMAIN slots : slots[i] # None => slots[i] \in Promises
    BY <1>1 DEF WTypeOK
  <1>9. \A i : Announced(i) => Announced(i)'
    BY <1>1, <1>2, <1>8 DEF Announced
  <1>10. CASE done[p] # None
    <2>1. UNCHANGED <<done, watchers, firing>>
      BY <1>2, <1>3, <1>4, <1>10
    <2>2. AdoptInv' /\ TokensKept' /\ TokensApart'
      BY <1>1, <2>1 DEF TokenInv, AdoptInv, TokensKept, TokensApart
    <2>3. TokensAnnounced' /\ TokensThere'
      BY <1>1, <2>1 DEF TokenInv, TokensAnnounced, Announced, TokensThere, InFlight
    <2> QED
      BY <1>6, <1>7, <2>2, <2>3 DEF TokenInv
  <1>11. CASE done[p] = None /\ watchers[p] = <<>>
    <2>1. watchers' = watchers /\ firing' = firing
      BY <1>1, <1>11 DEF Complete, WTypeOK
    <2>2. AdoptInv' /\ TokensApart'
      BY <1>1, <2>1 DEF TokenInv, AdoptInv, TokensApart
    <2>3. TokensAnnounced'
      BY <1>1, <1>9, <2>1 DEF TokenInv, TokensAnnounced
    <2>4. TokensKept'
      BY <1>1, <1>2, <1>11, <2>1 DEF TokenInv, TokensKept
    <2>5. TokensThere'
      <3> SUFFICES ASSUME NEW j \in DOMAIN slots, slots[j] # None, slots[j] # adopting
                   PROVE  IF done'[slots[j]] = None THEN watchers[slots[j]] = <<j>> ELSE InFlight(j)'
        BY <1>1, <2>1 DEF TokensThere
      <3>1. slots[j] # p
        <4>1. watchers[slots[j]] = <<j>> \/ done[slots[j]] # None
          BY DEF TokenInv, TokensThere
        <4>2. <<j>> # <<>>
          OBVIOUS
        <4> QED
          BY <1>11, <4>1, <4>2
      <3>2. InFlight(j) => InFlight(j)'
        BY <1>1, <2>1 DEF InFlight
      <3> QED
        BY <1>2, <1>8, <3>1, <3>2 DEF TokenInv, TokensThere
    <2> QED
      BY <1>6, <1>7, <2>2, <2>3, <2>4, <2>5 DEF TokenInv
  <1>12. CASE done[p] = None /\ watchers[p] # <<>>
    <2>1. PICK i \in DOMAIN slots : slots[i] = p /\ watchers[p] = <<i>>
      BY <1>12 DEF TokenInv, TokensKept
    <2>2. p # adopting /\ p # None
      BY <1>12, NobodyAssumption DEF TokenInv, TokensKept
    <2>3. /\ firing'[t] = <<i>> /\ watchers'[p] = <<>>
          /\ Announced(i)' /\ ~Announced(i)
      BY <1>1, <1>2, <1>3, <1>4, <1>12, <2>1, <2>2 DEF Announced
    <2>4. AdoptInv'
      BY <1>1, <1>3, <1>4, <2>2 DEF TokenInv, AdoptInv, WTypeOK, Threads
    <2>5. TokensAnnounced'
      BY <1>1, <1>4, <1>9, <2>1, <2>3 DEF TokenInv, TokensAnnounced
    <2>6. TokensKept'
      <3> SUFFICES ASSUME NEW q \in Promises, watchers'[q] # <<>>
                   PROVE  /\ done'[q] = None /\ q # adopting
                          /\ \E j \in DOMAIN slots : slots[j] = q /\ watchers'[q] = <<j>>
        BY <1>1 DEF TokensKept
      <3>1. q # p
        BY <2>3
      <3> QED
        BY <1>2, <1>3, <3>1 DEF TokenInv, TokensKept
    <2>7. /\ \A u \in Threads : firing[u] # <<i>>
          /\ \A k \in DOMAIN tokens : tokens[k] # i
          /\ \A k \in DOMAIN taken : taken[k] # i
      BY <2>3 DEF TokenInv, TokensAnnounced
    <2>8. TokensApart'
      <3>1. \A u, v \in Threads : firing'[u] = firing'[v] /\ firing'[u] # <<>> => u = v
        BY <1>4, <2>3, <2>7 DEF TokenInv, TokensApart
      <3>2. \A u \in Threads : \A j : j # i /\ firing[u] # <<j>> => firing'[u] # <<j>>
        BY <1>4, <2>3
      <3> QED
        BY <1>1, <2>7, <3>1, <3>2 DEF TokenInv, TokensApart
    <2>9. TokensThere'
      <3> SUFFICES ASSUME NEW j \in DOMAIN slots, slots[j] # None, slots[j] # adopting
                   PROVE  IF done'[slots[j]] = None THEN watchers'[slots[j]] = <<j>> ELSE InFlight(j)'
        BY <1>1 DEF TokensThere
      <3>1. CASE slots[j] = p
        <4>1. j = i
          BY <2>1, <2>2, <3>1 DEF TokenInv, SlabInv
        <4> QED
          BY <1>2, <2>3, <3>1, <4>1 DEF InFlight
      <3>2. CASE slots[j] # p
        <4>1. \A u \in Threads : firing[u] = <<j>> => firing'[u] = <<j>>
          <5>1. <<j>> # <<>>
            OBVIOUS
          <5> QED
            BY <1>4, <5>1
        <4>2. InFlight(j) => InFlight(j)'
          BY <1>1, <4>1 DEF InFlight
        <4> QED
          BY <1>2, <1>3, <1>8, <3>2, <4>2 DEF TokenInv, TokensThere
      <3> QED
        BY <3>1, <3>2
    <2> QED
      BY <1>6, <1>7, <2>4, <2>5, <2>6, <2>8, <2>9 DEF TokenInv
  <1> QED
    BY <1>10, <1>11, <1>12

LEMMA HostCompletesTokens ==
  ASSUME TokenInv, NEW t \in Hosts, NEW p \in Promises, HostCompletes(t, p) PROVE TokenInv'
  <1>1. t \in Threads /\ t # VM /\ firing[t] = <<>> /\ "done" \in Completions
    BY HostsAssumption DEF Threads, HostCompletes, Busy, Completions
  <1> QED
    BY <1>1, CompleteTokens DEF HostCompletes

LEMMA CancelHandleTokens ==
  ASSUME TokenInv, NEW p \in Promises, CancelHandle(p) PROVE TokenInv'
  <1>1. VM \in Threads /\ firing[VM] = <<>> /\ adopting = None /\ "cancelled" \in Completions
    BY DEF Threads, CancelHandle, VMFree, Busy, Completions
  <1>2. handle[p] # "none"
    BY DEF CancelHandle, Unsettled
  <1> QED
    BY <1>1, <1>2, CompleteTokens DEF CancelHandle

\* A token that fires goes into the queue.
LEMMA FirePushTokens == ASSUME TokenInv, NEW t \in Threads, FirePush(t) PROVE TokenInv'
  <1>1. WTypeOK /\ tokens \in Seq(Nat \ {0}) /\ firing \in [Threads -> Seq(Nat \ {0})]
    BY DEF TokenInv, CompletionAgrees, WTypeOK
  <1>2. PICK i \in DOMAIN slots : firing[t] = <<i>> /\ Announced(i)
    BY DEF TokenInv, TokensAnnounced, FirePush
  <1>3. i \in Nat \ {0} /\ Head(firing[t]) = i /\ Tail(firing[t]) = <<>>
    <2>1. slots \in Seq(Promises \cup {None})
      BY <1>1 DEF WTypeOK
    <2> QED
      BY <1>2, <2>1, LenProperties
  <1>4. /\ tokens' = Append(tokens, i) /\ generation' = generation + 1
        /\ firing' = [firing EXCEPT ![t] = <<>>] /\ notifying' = notifying \cup {t}
        /\ UNCHANGED <<done, watchers, handle, slots, free, taken, pc, adopting, entered, batch, goal>>
    BY <1>1, <1>3 DEF FirePush, slabVars, vmVars
  <1>5. /\ firing'[t] = <<>> /\ \A u \in Threads : u # t => firing'[u] = firing[u]
        /\ firing' \in [Threads -> Seq(Nat \ {0})]
    BY <1>1, <1>4
  <1>6. /\ tokens' \in Seq(Nat \ {0})
        /\ \A k \in DOMAIN tokens : k \in DOMAIN tokens' /\ tokens'[k] = tokens[k]
        /\ \E k \in DOMAIN tokens' : tokens'[k] = i
        /\ \A k \in DOMAIN tokens' :
              (k \in DOMAIN tokens /\ tokens'[k] = tokens[k]) \/ (k = Len(tokens) + 1 /\ tokens'[k] = i)
    <2>1. Len(tokens) + 1 \in 1..(Len(tokens) + 1)
      BY <1>1, LenProperties
    <2>2. /\ tokens' \in Seq(Nat \ {0}) /\ DOMAIN tokens' = 1..(Len(tokens) + 1)
          /\ tokens'[Len(tokens) + 1] = i
          /\ \A k \in DOMAIN tokens : k \in DOMAIN tokens' /\ tokens'[k] = tokens[k]
          /\ \A k \in DOMAIN tokens' :
                (k \in DOMAIN tokens /\ tokens'[k] = tokens[k]) \/ (k = Len(tokens) + 1 /\ tokens'[k] = i)
      BY <1>1, <1>3, <1>4, AppendParts
    <2> QED
      BY <2>1, <2>2
  <1>7. CompletionAgrees'
    <2>1. WTypeOK'
      BY <1>1, <1>4, <1>5, <1>6 DEF WTypeOK
    <2> QED
      BY <1>4, <2>1 DEF TokenInv, CompletionAgrees
  <1>8. SlabInv' /\ LookUpOnly' /\ Unmade' /\ TokensKept'
    BY <1>4 DEF TokenInv, SlabInv, LookUpOnly, Unmade, TokensKept
  <1>9. AdoptInv'
    <2>1. VM \in Threads
      BY DEF Threads
    <2> QED
      BY <1>4, <1>5, <2>1 DEF TokenInv, AdoptInv
  <1>10. \A j : Announced(j) => Announced(j)'
    BY <1>4 DEF Announced
  <1>11. TokensAnnounced'
    <2>1. (\A u \in Threads : firing[u] = <<>> \/ \E j \in DOMAIN slots : firing[u] = <<j>> /\ Announced(j))'
      BY <1>4, <1>5, <1>10 DEF TokenInv, TokensAnnounced
    <2>2. (\A k \in DOMAIN tokens : Announced(tokens[k]))'
      BY <1>2, <1>6, <1>10 DEF TokenInv, TokensAnnounced
    <2> QED
      BY <1>4, <1>10, <2>1, <2>2 DEF TokenInv, TokensAnnounced
  <1>12. /\ \A u \in Threads : u # t => firing[u] # <<i>>
         /\ \A k \in DOMAIN tokens : tokens[k] # i
         /\ \A k \in DOMAIN taken : taken[k] # i
    <2>1. <<i>> # <<>>
      OBVIOUS
    <2>2. \A u \in Threads : u # t => firing[u] # <<i>>
      BY <1>2, <2>1 DEF TokenInv, TokensApart
    <2>3. ASSUME NEW k \in DOMAIN tokens, tokens[k] = i PROVE FALSE
      <3>1. firing[t] = <<tokens[k]>>
        BY <1>2, <2>3
      <3> QED
        BY <3>1 DEF TokenInv, TokensApart
    <2>4. ASSUME NEW k \in DOMAIN taken, taken[k] = i PROVE FALSE
      <3>1. firing[t] = <<taken[k]>>
        BY <1>2, <2>4
      <3> QED
        BY <3>1 DEF TokenInv, TokensApart
    <2> QED
      BY <2>2, <2>3, <2>4
  <1>13. TokensApart'
    <2>1. \A u, v \in Threads : firing'[u] = firing'[v] /\ firing'[u] # <<>> => u = v
      BY <1>5 DEF TokenInv, TokensApart
    <2>2. \A j, k \in DOMAIN tokens' : tokens'[j] = tokens'[k] => j = k
      BY <1>6, <1>12 DEF TokenInv, TokensApart
    <2>3. \A u \in Threads, k \in DOMAIN tokens' : firing'[u] # <<tokens'[k]>>
      <3> SUFFICES ASSUME NEW u \in Threads, NEW k \in DOMAIN tokens' PROVE firing'[u] # <<tokens'[k]>>
        OBVIOUS
      <3>1. CASE u = t
        BY <1>5, <3>1
      <3>2. CASE u # t
        <4>1. CASE k \in DOMAIN tokens /\ tokens'[k] = tokens[k]
          BY <1>5, <3>2, <4>1 DEF TokenInv, TokensApart
        <4>2. CASE tokens'[k] = i
          BY <1>5, <1>12, <3>2, <4>2
        <4> QED
          BY <1>6, <4>1, <4>2
      <3> QED
        BY <3>1, <3>2
    <2>4. \A u \in Threads, k \in DOMAIN taken : firing'[u] # <<taken[k]>>
      <3> SUFFICES ASSUME NEW u \in Threads, NEW k \in DOMAIN taken PROVE firing'[u] # <<taken[k]>>
        OBVIOUS
      <3>1. CASE u = t
        BY <1>5, <3>1
      <3>2. CASE u # t
        BY <1>5, <3>2 DEF TokenInv, TokensApart
      <3> QED
        BY <3>1, <3>2
    <2>5. \A j \in DOMAIN tokens', k \in DOMAIN taken : tokens'[j] # taken[k]
      BY <1>6, <1>12 DEF TokenInv, TokensApart
    <2> QED
      BY <1>4, <2>1, <2>2, <2>3, <2>4, <2>5 DEF TokenInv, TokensApart
  <1>14. TokensThere'
    <2>1. \A j : InFlight(j) => InFlight(j)'
      <3> SUFFICES ASSUME NEW j, InFlight(j) PROVE InFlight(j)'
        OBVIOUS
      <3>1. CASE j = i
        BY <1>6, <3>1 DEF InFlight
      <3>2. CASE j # i
        <4>1. <<i>> # <<j>>
          <5>1. <<i>>[1] = i /\ <<j>>[1] = j
            OBVIOUS
          <5> QED
            BY <3>2, <5>1
        <4>2. \A u \in Threads : firing[u] = <<j>> => firing'[u] = <<j>>
          <5> SUFFICES ASSUME NEW u \in Threads, firing[u] = <<j>> PROVE firing'[u] = <<j>>
            OBVIOUS
          <5>1. u # t
            BY <1>2, <4>1
          <5> QED
            BY <1>5, <5>1
        <4> QED
          BY <1>4, <1>6, <4>2 DEF InFlight
      <3> QED
        BY <3>1, <3>2
    <2> QED
      BY <1>4, <2>1 DEF TokenInv, TokensThere
  <1> QED
    BY <1>7, <1>8, <1>9, <1>11, <1>13, <1>14 DEF TokenInv

LEMMA TokenStep == TokenInv /\ [WNext]_wvars => TokenInv'
  <1> SUFFICES ASSUME TokenInv, [WNext]_wvars PROVE TokenInv'
    OBVIOUS
  <1>1. CASE PumpStep
    BY <1>1, QuietSteps, DrainTokens, LookUpTokens, CompleteHandleTokens DEF PumpStep
  <1>2. CASE UserStep
    BY <1>2, QuietSteps, CreateTokens, AdoptTokens, CancelHandleTokens DEF UserStep
  <1>3. CASE Delivery
    BY <1>3, QuietSteps, FirePushTokens DEF Delivery
  <1>4. CASE SpuriousWake \/ UNCHANGED wvars
    BY <1>4, QuietSteps
  <1> QED
    BY <1>1, <1>2, <1>3, <1>4, WatchPromiseTokens, HostCompletesTokens DEF WNext

\* A thread, or a promise, that holds tokens holds one.
LEMMA TokensHeld ==
  ASSUME TokenInv, NEW i
  PROVE  /\ {t \in Threads : i \in {firing[t][k] : k \in DOMAIN firing[t]}}
               = {t \in Threads : firing[t] = <<i>>}
         /\ {p \in Promises : i \in {watchers[p][k] : k \in DOMAIN watchers[p]}}
               = {p \in Promises : watchers[p] = <<i>>}
  <1>1. \A j : i \in {<<j>>[k] : k \in DOMAIN <<j>>} <=> i = j
    OBVIOUS
  <1>2. ~(i \in {<<>>[k] : k \in DOMAIN <<>>})
    OBVIOUS
  <1>3. \A t \in Threads : firing[t] = <<>> \/ \E j : firing[t] = <<j>>
    BY DEF TokenInv, TokensAnnounced
  <1>4. \A p \in Promises : watchers[p] = <<>> \/ \E j : watchers[p] = <<j>>
    BY DEF TokenInv, TokensKept
  <1>5. \A t \in Threads : i \in {firing[t][k] : k \in DOMAIN firing[t]} <=> firing[t] = <<i>>
    BY <1>1, <1>2, <1>3
  <1>6. \A p \in Promises : i \in {watchers[p][k] : k \in DOMAIN watchers[p]} <=> watchers[p] = <<i>>
    BY <1>1, <1>2, <1>4
  <1> QED
    BY <1>5, <1>6

LEMMA TokensCounted ==
  ASSUME TokenInv, NEW i \in DOMAIN slots
  PROVE  /\ slots[i] # None /\ slots[i] # adopting => TokensFor(i) = 1
         /\ slots[i] = None \/ slots[i] = adopting => TokensFor(i) = 0
  <1> DEFINE F == {t \in Threads : firing[t] = <<i>>}
             K == {p \in Promises : watchers[p] = <<i>>}
             Q == {k \in DOMAIN tokens : tokens[k] = i}
             T == {k \in DOMAIN taken : taken[k] = i}
  <1>1. TokensFor(i) = Cardinality(F) + Cardinality(K) + Cardinality(Q) + Cardinality(T)
    BY TokensHeld DEF TokensFor, Times
  <1>2. \A x, y \in F : x = y
    BY DEF TokenInv, TokensApart
  <1>3. \A p \in K : slots[i] = p /\ done[p] = None /\ p # adopting /\ p # None
    BY NobodyAssumption DEF TokenInv, TokensKept
  <1>4. \A x, y \in K : x = y
    BY <1>3
  <1>5. (\A x, y \in Q : x = y) /\ (\A x, y \in T : x = y)
    BY DEF TokenInv, TokensApart
  <1>6. /\ Cardinality(F) = IF F = {} THEN 0 ELSE 1
        /\ Cardinality(K) = IF K = {} THEN 0 ELSE 1
        /\ Cardinality(Q) = IF Q = {} THEN 0 ELSE 1
        /\ Cardinality(T) = IF T = {} THEN 0 ELSE 1
    <2> HIDE DEF F, K, Q, T
    <2> QED
      BY <1>2, <1>4, <1>5, Lone
  <1>7. F # {} \/ Q # {} \/ T # {} => Announced(i)
    BY DEF TokenInv, TokensAnnounced
  <1>8. /\ F # {} => Q = {} /\ T = {}
        /\ Q # {} => T = {}
    BY DEF TokenInv, TokensApart
  <1>9. CASE slots[i] # None /\ slots[i] # adopting
    <2>1. CASE done[slots[i]] = None
      <3>1. F = {} /\ Q = {} /\ T = {}
        BY <1>7, <2>1 DEF Announced
      <3>2. slots[i] \in K
        BY <1>9, <2>1 DEF TokenInv, TokensThere, CompletionAgrees, WTypeOK
      <3> QED
        BY <1>1, <1>6, <1>9, <3>1, <3>2
    <2>2. CASE done[slots[i]] # None
      <3>1. K = {}
        BY <1>3, <2>2
      <3>2. F # {} \/ Q # {} \/ T # {}
        BY <1>9, <2>2 DEF TokenInv, TokensThere, InFlight
      <3> QED
        BY <1>1, <1>6, <1>8, <1>9, <3>1, <3>2
    <2> QED
      BY <2>1, <2>2
  <1>10. CASE slots[i] = None \/ slots[i] = adopting
    <2>1. F = {} /\ Q = {} /\ T = {}
      BY <1>7, <1>10 DEF Announced
    <2>2. K = {}
      BY <1>3, <1>10
    <2> QED
      BY <1>1, <1>6, <1>10, <2>1, <2>2
  <1> QED
    BY <1>9, <1>10

LEMMA SlotsCounted == TokenInv => OneTokenPerSlot
  <1> SUFFICES ASSUME TokenInv, NEW i \in DOMAIN slots
               PROVE  /\ slots[i] # None => Times(i, free) = 0
                      /\ slots[i] = None => Times(i, free) = 1
    BY TokensCounted DEF OneTokenPerSlot
  <1> DEFINE S == {k \in DOMAIN free : free[k] = i}
  <1>1. \A x, y \in S : x = y
    BY DEF TokenInv, SlabInv
  <1>2. Times(i, free) = IF S = {} THEN 0 ELSE 1
    <2> HIDE DEF S
    <2>1. Cardinality(S) = IF S = {} THEN 0 ELSE 1
      BY <1>1, Lone
    <2> QED
      BY <2>1 DEF Times, S
  <1>3. slots[i] # None => S = {}
    BY DEF TokenInv, SlabInv
  <1>4. slots[i] = None => S # {}
    BY DEF TokenInv, SlabInv
  <1> QED
    BY <1>2, <1>3, <1>4

LEMMA TokensAlways == WSpec => []TokenInv
  BY TokenStart, TokenStep, PTL DEF WSpec

\* A slot is not given to another handle while a token for it is anywhere, so a late
\* completion never reaches the wrong handle, and a handle has one token, so it is
\* never announced twice and never forgotten (adopt_host, drain_hosts).
THEOREM TokensMatchSlots == WSpec => []OneTokenPerSlot
  BY TokensAlways, SlotsCounted, PTL

\* A drained handle always finds its promise completed, so the early return of
\* complete_host, which would lose the handle, is never taken; and it settles with
\* the first completion (complete, complete_host, host_task_cancel).
THEOREM CompletionsAgree == WSpec => []CompletionAgrees
  <1>1. TokenInv => CompletionAgrees
    BY DEF TokenInv
  <1> QED
    BY <1>1, TokensAlways, PTL

=============================================================================
