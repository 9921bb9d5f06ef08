---------------------- MODULE TaskSchedulerRefinement ----------------------
(***************************************************************************)
(* TaskScheduler implements TaskHandles.  What a task is doing is read     *)
(* from the one place that holds its seed; the tasks that await a cell     *)
(* stand where the ready queue or their tokens are: first those already    *)
(* made ready, then those whose token is in the inbox, with settle, and    *)
(* among the cell's waiters.                                               *)
(***************************************************************************)
EXTENDS TaskScheduler

Alive(t) == status[t] = "pending"

\* The task that is parked on c under a token, or None.
ParkedUnder(token, c) ==
    IF Holds(slab, token) /\ slab.cells[token.slot].on = c
    THEN slab.cells[token.slot].out ELSE None

WaitsAs(w, c) == IF IsResume(w) THEN ParkedUnder(w.token, c) ELSE None

\* The places of those that wait for c, None where somebody else has his.
Places(c) ==
    [k \in DOMAIN ready |-> IF ready[k].on = c THEN ready[k].output ELSE None]
      \o [k \in DOMAIN inbox |-> ParkedUnder(inbox[k], c)]
      \o [k \in DOMAIN work |-> WaitsAs(work[k].waiter, c)]
      \o [k \in DOMAIN waiters[c] |-> WaitsAs(waiters[c][k], c)]

LineOf(c) == {t \in Cells : Alive(t) /\ \E k \in DOMAIN Places(c) : Places(c)[k] = t}

AheadOf(t) ==
    {u \in Cells :
        \E c \in Cells :
            /\ {t, u} \subseteq LineOf(c)
            /\ \E j, k \in DOMAIN Places(c) :
                  j < k /\ Places(c)[j] = u /\ Places(c)[k] = t}

OutcomeOf(c) == IF c \in Known THEN status[c] ELSE "free"

TaskOf(t) ==
    CASE kind[t] # "task" -> "none"
      [] kind[t] = "task" /\ running = t -> "running"
      [] kind[t] = "task" /\ running # t /\ ~Alive(t) -> "over"
      [] kind[t] = "task" /\ running # t /\ Alive(t) ->
            IF \E i \in DOMAIN ready : ready[i] = [output |-> t, on |-> None]
            THEN "queued" ELSE "waiting"

Handles == INSTANCE TaskHandles WITH
    outcome <- [c \in Cells |-> OutcomeOf(c)],
    task <- [t \in Cells |-> TaskOf(t)],
    line <- [c \in Cells |-> LineOf(c)],
    ahead <- [t \in Cells |-> AheadOf(t)]

\* The queue, the slab of parked tasks, the tokens and the pump implement the
\* promise: handles settle once, awaiters resume in order, exactly once, only
\* after the handle has settled, and never after their own has
\* (docs/decisions/ADR-0019: FIFO between the waiters of one handle).  A slot
\* whose generation wraps while a token of an earlier task is out may put a
\* task at the end of its line again (CollectReparks).
ImplementsTaskHandles == Handles!HSpec

\* No slot has come to its last generation.
NoneWraps == \A i \in DOMAIN slab.cells : slab.cells[i].gen < Generations - 1
=============================================================================
