---------------------------- MODULE TaskHandles ----------------------------
(***************************************************************************)
(* What the scheduler promises a Varn program, without queues, slots or    *)
(* tokens.  A handle settles once.  A task runs when it is spawned and     *)
(* each time a handle it awaits has settled; the tasks that await one      *)
(* handle resume in the order in which they began to; a task whose own     *)
(* handle has settled (it was cancelled) never runs again once it has      *)
(* given up the thread.                                                    *)
(***************************************************************************)
CONSTANT Cells  \* identities of handles

VARIABLES
    outcome,  \* cell -> "free", "pending", "resolved" or "rejected"
    task,     \* cell -> what the task behind it is doing
    line,     \* cell -> the live tasks that await it
    ahead     \* task -> those of its line that began to await before it

handleVars == <<outcome, task, line, ahead>>

NoOneRuns == \A t \in Cells : task[t] # "running"

\* t leaves the line it stands in, if any.
Leave(t) ==
    /\ line' = [c \in Cells |-> line[c] \ {t}]
    /\ ahead' = [u \in Cells |-> IF u = t THEN {} ELSE ahead[u] \ {t}]

HInit ==
    /\ outcome = [c \in Cells |-> "free"]
    /\ task = [c \in Cells |-> "none"]
    /\ line = [c \in Cells |-> {}]
    /\ ahead = [t \in Cells |-> {}]

\* A task is spawned.
New(c) ==
    /\ outcome[c] = "free"
    /\ outcome' = [outcome EXCEPT ![c] = "pending"]
    /\ task' = [task EXCEPT ![c] = "queued"]
    /\ UNCHANGED <<line, ahead>>

\* A handle with no task behind it appears, pending or settled.
Appear(c, o) ==
    /\ outcome[c] = "free"
    /\ outcome' = [outcome EXCEPT ![c] = o]
    /\ UNCHANGED <<task, line, ahead>>

\* A pending handle settles.  A task behind it that does not have the thread
\* is over.
SettleHandle(c, o) ==
    /\ outcome[c] = "pending"
    /\ outcome' = [outcome EXCEPT ![c] = o]
    /\ task' = [task EXCEPT ![c] = IF @ \in {"queued", "waiting"} THEN "over" ELSE @]
    /\ Leave(c)

\* A queued task gets the thread.
Start(t) ==
    /\ NoOneRuns
    /\ task[t] = "queued"
    /\ task' = [task EXCEPT ![t] = "running"]
    /\ UNCHANGED <<outcome, line, ahead>>

\* The first task in the line of a settled handle gets the thread.
Resume(t, c) ==
    /\ NoOneRuns
    /\ outcome[c] \in {"resolved", "rejected"}
    /\ t \in line[c] /\ ahead[t] = {}
    /\ Leave(t)
    /\ task' = [task EXCEPT ![t] = "running"]
    /\ UNCHANGED outcome

\* The running task joins the line of a pending handle, unless its own handle
\* has settled.
Await(t, c) ==
    /\ task[t] = "running"
    /\ outcome[t] = "pending"
    /\ outcome[c] = "pending"
    /\ line' = [line EXCEPT ![c] = @ \cup {t}]
    /\ ahead' = [ahead EXCEPT ![t] = line[c]]
    /\ task' = [task EXCEPT ![t] = "waiting"]
    /\ UNCHANGED outcome

\* The running task gives way to the others.
Yield(t) ==
    /\ task[t] = "running"
    /\ outcome[t] = "pending"
    /\ task' = [task EXCEPT ![t] = "queued"]
    /\ UNCHANGED <<outcome, line, ahead>>

\* The running task ends; its handle settles unless it has.
End(t, o) ==
    /\ task[t] = "running"
    /\ outcome' = IF outcome[t] = "pending"
                  THEN [outcome EXCEPT ![t] = o] ELSE outcome
    /\ task' = [task EXCEPT ![t] = "over"]
    /\ UNCHANGED <<line, ahead>>

Results == {"resolved", "rejected"}

HNext ==
    \/ \E t \in Cells : New(t) \/ Start(t) \/ Yield(t)
    \/ \E c \in Cells, o \in {"pending"} \cup Results : Appear(c, o)
    \/ \E c \in Cells, o \in Results : SettleHandle(c, o) \/ End(c, o)
    \/ \E t, c \in Cells : Await(t, c) \/ Resume(t, c)

HSpec == HInit /\ [][HNext]_handleVars
=============================================================================
