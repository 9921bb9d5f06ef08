------------------------------ MODULE HostWake ------------------------------
(***************************************************************************)
(* How the completion of a host operation reaches the VM thread that waits *)
(* for it: HostPromise (crates/varn-types/src/task.rs), the WakeQueue and  *)
(* its condition variable (varn-types/src/wake.rs) and the slab of adopted *)
(* handles of the VM thread (varn-vm/src/exec/scheduler/pumps.rs,          *)
(* exec/host_tasks.rs).                                                    *)
(*                                                                         *)
(* Every lock region is one step; what a thread does between two of them   *)
(* interleaves with the others.  Host threads (timer and network drivers,  *)
(* blocking workers, other isolates) complete promises.  The VM thread     *)
(* creates and adopts them, cancels handles, and pumps until the handle it *)
(* wants has settled; the tasks it runs meanwhile are those of             *)
(* TaskScheduler and are left out.                                         *)
(***************************************************************************)
EXTENDS Naturals, Sequences, FiniteSets, SequencesExt

CONSTANTS
    Promises,  \* identities of the promises a run creates
    Hosts,     \* threads that complete promises
    VM,        \* the VM thread
    None       \* no promise

ASSUME HostsAssumption == VM \notin Hosts
ASSUME NobodyAssumption == None \notin Promises \cup {"done", "cancelled"}
ASSUME PromisesAssumption == IsFiniteSet(Promises) /\ IsFiniteSet(Hosts)

VARIABLES
    done,       \* promise -> Slot.done: None, or how it was completed
    watchers,   \* promise -> the tokens in its Slot (first, more)
    handle,     \* promise -> the state of the task cell that stands for it
    slots,      \* Hosts.cells: the promise of the handle in each slot, or None
    free,       \* Hosts.free
    tokens,     \* WakeQueue.pending.tokens
    generation, \* WakeQueue.pending.generation
    firing,     \* thread -> tokens it took from a promise and has yet to fire
    notifying,  \* threads that have pushed a token and not yet notified
    pc,         \* where the VM thread is
    adopting,   \* the promise adopt_host has put into a slot and not watched
    entered,    \* the generation pump_until read
    taken,      \* tokens drain_hosts has taken and not yet looked up
    batch,      \* handles drained from the queue and not yet completed
    goal        \* the promise whose handle pump_until waits for

wakeVars == <<tokens, generation>>
threadVars == <<firing, notifying>>
slabVars == <<slots, free, taken>>
vmVars == <<pc, adopting, entered, batch, goal>>
wvars == <<done, watchers, handle, wakeVars, threadVars, slabVars, vmVars>>

Threads == Hosts \cup {VM}
\* "done" is whatever the host thread has to report, a value or an error.
Completions == {"done", "cancelled"}
Busy(t) == firing[t] # <<>> \/ t \in notifying

\* A handle is "none" before task_from_host has made its cell.
Unsettled(p) == handle[p] = "pending"

WInit ==
    /\ done = [p \in Promises |-> None]
    /\ watchers = [p \in Promises |-> <<>>]
    /\ handle = [p \in Promises |-> "none"]
    /\ slots = <<>>
    /\ free = <<>>
    /\ taken = <<>>
    /\ tokens = <<>>
    /\ generation = 0
    /\ firing = [t \in Threads |-> <<>>]
    /\ notifying = {}
    /\ pc = "user"
    /\ adopting = None
    /\ entered = 0
    /\ batch = <<>>
    /\ goal = None

-----------------------------------------------------------------------------
(***************************************************************************)
(* HostPromise::complete: the first completion is kept and its thread      *)
(* leaves with the tokens; any later one does nothing.                     *)
(***************************************************************************)
Complete(t, p, result) ==
    IF done[p] # None
    THEN UNCHANGED <<done, watchers, firing>>
    ELSE /\ done' = [done EXCEPT ![p] = result]
         /\ firing' = [firing EXCEPT ![t] = watchers[p]]
         /\ watchers' = [watchers EXCEPT ![p] = <<>>]

\* WakeToken::fire, WakeQueue::push: under the lock, then notify_all after it.
FirePush(t) ==
    /\ firing[t] # <<>>
    /\ t \notin notifying
    /\ tokens' = Append(tokens, Head(firing[t]))
    /\ generation' = generation + 1
    /\ firing' = [firing EXCEPT ![t] = Tail(@)]
    /\ notifying' = notifying \cup {t}
    /\ UNCHANGED <<done, watchers, handle, slabVars, vmVars>>

Notify(t) ==
    /\ t \in notifying
    /\ notifying' = notifying \ {t}
    /\ pc' = IF pc = "asleep" THEN "recheck" ELSE pc
    /\ UNCHANGED <<done, watchers, handle, wakeVars, firing, slabVars,
                   adopting, entered, batch, goal>>

\* A host thread completes a promise it holds: one whose cell may not have
\* been made yet, for the promise is published before task_from_host.
HostCompletes(t, p) ==
    /\ t \in Hosts
    /\ ~Busy(t)
    /\ handle[p] # "none"
    /\ Complete(t, p, "done")
    /\ UNCHANGED <<handle, wakeVars, notifying, slabVars, vmVars>>

-----------------------------------------------------------------------------
(***************************************************************************)
(* The VM thread in user code                                              *)
(***************************************************************************)
VMFree == ~Busy(VM)

\* A native operation creates a promise and gives it to a host thread, or
\* completes it at once (sleep(0), a channel that is ready).
Create(p, state) ==
    /\ pc = "user" /\ VMFree /\ adopting = None
    /\ handle[p] = "none"
    /\ handle' = [handle EXCEPT ![p] = "published"]
    /\ done' = [done EXCEPT ![p] = state]
    /\ UNCHANGED <<watchers, wakeVars, threadVars, slabVars, vmVars>>

\* Variant: the index stays in the free list.
AdoptKeepsFree(p) ==
    /\ pc = "user" /\ VMFree /\ adopting = None
    /\ handle[p] = "published"
    /\ handle' = [handle EXCEPT ![p] = "pending"]
    /\ adopting' = p
    /\ IF free = <<>>
       THEN slots' = Append(slots, p) /\ UNCHANGED free
       ELSE slots' = [slots EXCEPT ![Last(free)] = p] /\ UNCHANGED free
    /\ UNCHANGED <<done, watchers, wakeVars, threadVars, taken, pc, entered, batch, goal>>

\* adopt_host, first half: the handle gets a slot.
Adopt(p) ==
    /\ pc = "user" /\ VMFree /\ adopting = None
    /\ handle[p] = "published"
    /\ handle' = [handle EXCEPT ![p] = "pending"]
    /\ adopting' = p
    /\ IF free = <<>>
       THEN slots' = Append(slots, p) /\ UNCHANGED free
       ELSE slots' = [slots EXCEPT ![Last(free)] = p] /\ free' = Front(free)
    /\ UNCHANGED <<done, watchers, wakeVars, threadVars, taken, pc, entered, batch, goal>>

\* The slot of the token that stands for p.
SlotOf(p) == CHOOSE i \in DOMAIN slots : slots[i] = p

\* Variant: the token is kept without a look at done.
WatchAlwaysKeeps ==
    /\ adopting # None
    /\ watchers' = [watchers EXCEPT ![adopting] = Append(@, SlotOf(adopting))]
    /\ adopting' = None
    /\ UNCHANGED <<done, handle, wakeVars, threadVars, slabVars, pc, entered,
                   batch, goal>>

\* adopt_host, second half: HostPromise::watch keeps the token while the
\* promise is pending and otherwise fires it on this thread.
WatchPromise ==
    /\ adopting # None
    /\ IF done[adopting] = None
       THEN /\ watchers' = [watchers EXCEPT ![adopting] = Append(@, SlotOf(adopting))]
            /\ UNCHANGED firing
       ELSE /\ firing' = [firing EXCEPT ![VM] = <<SlotOf(adopting)>>]
            /\ UNCHANGED watchers
    /\ adopting' = None
    /\ UNCHANGED <<done, handle, wakeVars, notifying, slabVars, pc, entered,
                   batch, goal>>

\* Variant: cancelling a handle gives its slot back.
CancelReleasesSlot(p) ==
    /\ pc = "user" /\ VMFree /\ adopting = None
    /\ Unsettled(p)
    /\ Complete(VM, p, "cancelled")
    /\ handle' = [handle EXCEPT ![p] = "cancelled"]
    /\ IF \E i \in DOMAIN slots : slots[i] = p
       THEN slots' = [slots EXCEPT ![SlotOf(p)] = None] /\ free' = Append(free, SlotOf(p))
       ELSE UNCHANGED <<slots, free>>
    /\ UNCHANGED <<wakeVars, notifying, taken, vmVars>>

\* task_cancel: the promise is rejected if it is still pending, and the cell.
CancelHandle(p) ==
    /\ pc = "user" /\ VMFree /\ adopting = None
    /\ Unsettled(p)
    /\ Complete(VM, p, "cancelled")
    /\ handle' = [handle EXCEPT ![p] = "cancelled"]
    /\ UNCHANGED <<wakeVars, notifying, slabVars, vmVars>>

\* Somebody awaits a handle and nothing else is left to run.
AwaitHandle(p) ==
    /\ pc = "user" /\ VMFree /\ adopting = None
    /\ Unsettled(p)
    /\ goal' = p
    /\ pc' = "top"
    /\ UNCHANGED <<done, watchers, handle, wakeVars, threadVars, slabVars,
                   adopting, entered, batch>>

-----------------------------------------------------------------------------
(***************************************************************************)
(* pump_until                                                              *)
(***************************************************************************)
PumpLeaves ==
    /\ pc = "top"
    /\ ~Unsettled(goal)
    /\ goal' = None
    /\ pc' = "user"
    /\ UNCHANGED <<done, watchers, handle, wakeVars, threadVars, slabVars,
                   adopting, entered, batch>>

\* host_generation
ReadGeneration ==
    /\ pc = "top"
    /\ Unsettled(goal)
    /\ entered' = generation
    /\ pc' = "drain"
    /\ UNCHANGED <<done, watchers, handle, wakeVars, threadVars, slabVars,
                   adopting, batch, goal>>

\* drain_hosts: the tokens are taken under the lock.
Drain ==
    /\ pc = "drain"
    /\ taken' = tokens
    /\ tokens' = <<>>
    /\ pc' = "lookup"
    /\ UNCHANGED <<done, watchers, handle, generation, threadVars, slots, free,
                   adopting, entered, batch, goal>>

\* Each token empties the slot it names, if there is one that is occupied.
LookUp ==
    /\ pc = "lookup"
    /\ taken # <<>>
    /\ LET i == Head(taken)
       IN  IF i \in DOMAIN slots /\ slots[i] # None
           THEN /\ batch' = Append(batch, slots[i])
                /\ slots' = [slots EXCEPT ![i] = None]
                /\ free' = Append(free, i)
           ELSE UNCHANGED <<slots, free, batch>>
    /\ taken' = Tail(taken)
    /\ UNCHANGED <<done, watchers, handle, wakeVars, threadVars, pc, adopting,
                   entered, goal>>

LookedUp ==
    /\ pc = "lookup"
    /\ taken = <<>>
    /\ pc' = "complete"
    /\ UNCHANGED <<done, watchers, handle, wakeVars, threadVars, slabVars,
                   adopting, entered, batch, goal>>

\* complete_host: the promise is taken out of the cell; a completion found in
\* it settles the cell, unless it was cancelled.  A promise that is still
\* pending is dropped with the token, and its cell can never settle.
CompleteHandle ==
    /\ pc = "complete"
    /\ batch # <<>>
    /\ LET p == Head(batch)
       IN  handle' = IF Unsettled(p) /\ done[p] # None
                     THEN [handle EXCEPT ![p] = done[p]] ELSE handle
    /\ batch' = Tail(batch)
    /\ UNCHANGED <<done, watchers, wakeVars, threadVars, slabVars, pc,
                   adopting, entered, goal>>

BatchDone ==
    /\ pc = "complete"
    /\ batch = <<>>
    /\ pc' = "recheck"
    /\ UNCHANGED <<done, watchers, handle, wakeVars, threadVars, slabVars,
                   adopting, entered, batch, goal>>

\* Variant: it sleeps without a look at the generation.
SleepBlindly ==
    /\ pc = "recheck"
    /\ pc' = IF ~Unsettled(goal) THEN "top" ELSE "asleep"
    /\ UNCHANGED <<done, watchers, handle, wakeVars, threadVars, slabVars,
                   adopting, entered, batch, goal>>

\* wait_past, under the lock: go round again, or let go of the lock and sleep.
WaitPast ==
    /\ pc = "recheck"
    /\ pc' = IF ~Unsettled(goal) \/ generation # entered THEN "top" ELSE "asleep"
    /\ UNCHANGED <<done, watchers, handle, wakeVars, threadVars, slabVars,
                   adopting, entered, batch, goal>>

\* A condition variable may wake for no reason.
SpuriousWake ==
    /\ pc = "asleep"
    /\ pc' = "recheck"
    /\ UNCHANGED <<done, watchers, handle, wakeVars, threadVars, slabVars,
                   adopting, entered, batch, goal>>

-----------------------------------------------------------------------------
PumpStep ==
    \/ PumpLeaves \/ ReadGeneration \/ Drain \/ LookUp \/ LookedUp
    \/ CompleteHandle \/ BatchDone \/ WaitPast

UserStep ==
    \/ \E p \in Promises, s \in {None, "done"} : Create(p, s)
    \/ \E p \in Promises : Adopt(p) \/ CancelHandle(p) \/ AwaitHandle(p)

Delivery == \E t \in Threads : FirePush(t) \/ Notify(t)

WNext ==
    \/ PumpStep \/ WatchPromise \/ UserStep \/ Delivery \/ SpuriousWake
    \/ \E t \in Hosts, p \in Promises : HostCompletes(t, p)

WSpec == WInit /\ [][WNext]_wvars

\* A thread that is in the middle of the pump, of adopt_host or of firing its
\* tokens goes on; no thread owes a completion, and the condition variable
\* owes no spurious wake-up.
WakeFairness ==
    /\ WF_wvars(PumpStep)
    /\ WF_wvars(WatchPromise)
    /\ \A t \in Threads : WF_wvars(FirePush(t)) /\ WF_wvars(Notify(t))
FairWSpec == WSpec /\ WakeFairness

-----------------------------------------------------------------------------
\* The values every variable keeps to.
WTypeOK ==
    /\ done \in [Promises -> Completions \cup {None}]
    /\ watchers \in [Promises -> Seq(Nat \ {0})]
    /\ handle \in [Promises -> {"none", "published", "pending"} \cup Completions]
    /\ slots \in Seq(Promises \cup {None})
    /\ free \in Seq(Nat \ {0})
    /\ taken \in Seq(Nat \ {0})
    /\ tokens \in Seq(Nat \ {0})
    /\ generation \in Nat
    /\ firing \in [Threads -> Seq(Nat \ {0})]
    /\ notifying \subseteq Threads
    /\ pc \in {"user", "top", "drain", "lookup", "complete", "recheck", "asleep"}
    /\ adopting \in Promises \cup {None}
    /\ entered \in Nat
    /\ batch \in Seq(Promises)
    /\ goal \in Promises \cup {None}

Times(i, s) == Cardinality({k \in DOMAIN s : s[k] = i})

\* How many tokens for slot i there are: kept by a promise, carried by a thread,
\* in the queue, or taken from it.
TokensFor(i) ==
    LET inFlight == {t \in Threads : i \in {firing[t][k] : k \in DOMAIN firing[t]}}
        kept == {p \in Promises : i \in {watchers[p][k] : k \in DOMAIN watchers[p]}}
    IN  Cardinality(inFlight) + Cardinality(kept) + Times(i, tokens)
        + Times(i, taken)

(***************************************************************************)
(* A token belongs to one handle: an occupied slot has exactly one token,  *)
(* a vacant one none and is free exactly once.  So a late completion never *)
(* finds another handle in its slot, and none is announced twice           *)
(* (adopt_host reuses a slot only after drain_hosts has taken its token).  *)
(***************************************************************************)
OneTokenPerSlot ==
    \A i \in DOMAIN slots :
        /\ slots[i] # None /\ slots[i] # adopting => TokensFor(i) = 1 /\ Times(i, free) = 0
        /\ slots[i] = adopting /\ adopting # None => TokensFor(i) = 0 /\ Times(i, free) = 0
        /\ slots[i] = None => TokensFor(i) = 0 /\ Times(i, free) = 1

(***************************************************************************)
(* complete_host finds every drained promise completed (its early return   *)
(* would drop the handle for good), and a handle settles with what its     *)
(* promise was completed with, or as cancelled.                            *)
(***************************************************************************)
CompletionAgrees ==
    /\ WTypeOK
    /\ \A k \in DOMAIN batch : done[batch[k]] # None
    /\ \A p \in Promises : handle[p] = "done" => done[p] = "done"
    /\ \A p \in Promises : handle[p] = "cancelled" => done[p] # None

(***************************************************************************)
(* The VM thread sleeps on a moved generation only while some thread is    *)
(* about to notify it (wait_past tests the generation under the lock that  *)
(* push moves it under).                                                   *)
(***************************************************************************)
SleeperIsToldOfTokens ==
    pc = "asleep" /\ (generation # entered \/ tokens # <<>>) => notifying # {}

(***************************************************************************)
(* A completed promise settles the handle the program waits for.           *)
(***************************************************************************)
AwaitedCompletionArrives ==
    \A p \in Promises : (goal = p /\ done[p] # None) ~> ~Unsettled(p)

=============================================================================
