----------------------------- MODULE MCHostWake -----------------------------
(***************************************************************************)
(* Two ways in which the host ends what a program waits for, that share    *)
(* nothing, each on its own: a behaviour uses the wake queue or the timers *)
(***************************************************************************)
EXTENDS HostWake, TimerDriver

VARIABLE uses

HostInit == uses \in {"wake queue", "timers"} /\ WInit /\ TimerInit
HostNext ==
    \/ uses = "wake queue" /\ WNext /\ UNCHANGED <<uses, tvars>>
    \/ uses = "timers" /\ TimerNext /\ UNCHANGED <<uses, wvars>>

\* Where they are not used the clock and the driver do not go on; the others have
\* no step there that must be taken.
HostSpec ==
    /\ HostInit /\ [][HostNext]_<<uses, wvars, tvars>>
    /\ WakeFairness /\ PollsAndCallsEnd
    /\ WF_tvars(uses = "timers" /\ Tick) /\ WF_tvars(uses = "timers" /\ Turn)
=============================================================================
