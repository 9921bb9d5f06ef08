--------------------------- MODULE TaskWaitGroup ---------------------------
(***************************************************************************)
(* WaitGroup of std:task (src/std/task/sync.vn): a counter and a channel   *)
(* on which those who wait for it to be zero are sent one message each.    *)
(*                                                                         *)
(* As in TaskPermits a step is what a task does between two awaits, and a  *)
(* cancelled task leaves its receive in the channel; it also leaves itself *)
(* in the count of waiters.  Messages that nobody receives stay in the     *)
(* channel, behind its capacity as parked sends that nobody awaits.        *)
(*                                                                         *)
(* add takes any delta and tells nobody, also when it reaches zero; it     *)
(* throws when it has gone below, and the counter stays there.             *)
(***************************************************************************)
EXTENDS Integers, Sequences, FiniteSets

CONSTANTS
    Waiters,     \* tasks that call wait
    Deltas,      \* what add is called with
    MaxChanges   \* bound: calls of add and done

ASSUME ChangesAssumption == MaxChanges \in Nat /\ Deltas \subseteq Int
ASSUME WaitersAssumption == IsFiniteSet(Waiters)

VARIABLES
    counter,      \* _counter
    waiterCount,  \* _waiterCount
    messages,     \* messages in the channel
    receivers,    \* parked receives, by task
    doing,        \* what each waiter is doing
    byAdd,        \* auxiliary: the counter is where add has brought it, not done
    changes       \* calls of add and done so far

gvars == <<counter, waiterCount, messages, receivers, doing, byAdd, changes>>

Places == {"out", "waiting", "handed", "gone", "returned"}

GroupInit ==
    /\ counter = 0
    /\ waiterCount = 0
    /\ messages = 0
    /\ receivers = <<>>
    /\ doing = [t \in Waiters |-> "out"]
    /\ byAdd = FALSE
    /\ changes = 0

Change == changes < MaxChanges /\ changes' = changes + 1

\* add, which throws after the fact when the counter is negative.
Add(delta) ==
    /\ Change
    /\ counter' = counter + delta
    /\ byAdd' = (byAdd \/ delta # 0)
    /\ UNCHANGED <<waiterCount, messages, receivers, doing>>

\* Variant: one message, whoever waits.
OneMessage ==
    IF receivers = <<>>
    THEN messages' = messages + 1 /\ UNCHANGED <<receivers, doing>>
    ELSE /\ receivers' = Tail(receivers)
         /\ doing' = [doing EXCEPT ![Head(receivers)] =
                          IF @ = "waiting" THEN "handed" ELSE @]
         /\ UNCHANGED messages

\* _notifyWaiters: as many messages as there are waiters in the count; those
\* that find no parked receive stay in the channel.
NotifyWaiters ==
    LET told == IF waiterCount < Len(receivers) THEN waiterCount ELSE Len(receivers)
        heads == {receivers[k] : k \in 1..told}
    IN  /\ receivers' = SubSeq(receivers, told + 1, Len(receivers))
        /\ messages' = messages + (waiterCount - told)
        /\ doing' = [t \in Waiters |-> IF t \in heads /\ doing[t] = "waiting"
                                       THEN "handed" ELSE doing[t]]

\* done, which throws in add(-1) when nothing was left to be done.
Done ==
    /\ Change
    /\ counter' = counter - 1
    /\ byAdd' = FALSE
    /\ IF counter = 1 THEN NotifyWaiters ELSE UNCHANGED <<receivers, messages, doing>>
    /\ UNCHANGED waiterCount

\* The body of wait's loop from its test on, for a waiter that the count holds
\* no more: messages left in the channel are received one after the other and
\* the test fails again, until a receive parks.
Loops(t, count) ==
    IF counter = 0
    THEN /\ waiterCount' = count
         /\ doing' = [doing EXCEPT ![t] = "returned"]
         /\ UNCHANGED <<messages, receivers>>
    ELSE /\ waiterCount' = count + 1
         /\ messages' = 0
         /\ receivers' = Append(receivers, t)
         /\ doing' = [doing EXCEPT ![t] = "waiting"]

Wait(t) ==
    /\ doing[t] = "out"
    /\ Loops(t, waiterCount)
    /\ UNCHANGED <<counter, byAdd, changes>>

ResumeWaiter(t) ==
    /\ doing[t] = "handed"
    /\ Loops(t, waiterCount - 1)
    /\ UNCHANGED <<counter, byAdd, changes>>

CancelWaiter(t) ==
    /\ doing[t] \in {"waiting", "handed"}
    /\ doing' = [doing EXCEPT ![t] = "gone"]
    /\ UNCHANGED <<counter, waiterCount, messages, receivers, byAdd, changes>>

GroupNext ==
    \/ Done
    \/ \E delta \in Deltas : Add(delta)
    \/ \E t \in Waiters : Wait(t) \/ ResumeWaiter(t) \/ CancelWaiter(t)

\* The scheduler resumes who can be resumed.
GroupFairness == \A t \in Waiters : WF_gvars(ResumeWaiter(t))
GroupSpec == GroupInit /\ [][GroupNext]_gvars /\ GroupFairness

-----------------------------------------------------------------------------
GroupTypeOK ==
    /\ counter \in Int
    /\ waiterCount \in 0..Cardinality(Waiters)
    /\ messages \in Nat
    /\ receivers \in Seq(Waiters)
    /\ doing \in [Waiters -> Places]
    /\ byAdd \in BOOLEAN
    /\ changes \in 0..MaxChanges

\* The count holds every parked receive, those of cancelled tasks included, so
\* that a message for each count reaches them all.
CountCoversParked ==
    waiterCount >= Len(receivers) + Cardinality({t \in Waiters : doing[t] = "handed"})

\* When done has brought the counter to zero nobody is parked without a message: it
\* has told everyone, although calls of add and done, some of them too many, waits and
\* cancelled waiters came in between and a told waiter may have parked again.
NobodyLeftBehind ==
    /\ GroupTypeOK /\ CountCoversParked
    /\ counter = 0 /\ ~byAdd => \A t \in Waiters : doing[t] # "waiting"
=============================================================================
