----------------------------- MODULE MCSignals -----------------------------
(* Programs for the runs of Signals: two signals, two computed values, two  *)
(* effects.                                                                 *)
EXTENDS Signals
CONSTANTS s1, s2, c1, c2, e1, e2

Bodies(ofC, ofD, ofE, ofF) == c1 :> ofC @@ c2 :> ofD @@ e1 :> ofE @@ e2 :> ofF
Get(n) == [op |-> "read", node |-> n]
Peek(n) == [op |-> "untracked", node |-> n]
Put(n) == [op |-> "write", node |-> n]
Kill(n) == [op |-> "dispose", node |-> n]
Flip == [op |-> "flip", node |-> None]
Guard == [op |-> "guard", node |-> None]
Fail == [op |-> "fail", node |-> None]
Cleanup == [op |-> "cleanup", node |-> None]

\* A diamond, a branch, a chain, a failing effect, effects that write, one that
\* writes what another, still running, has read.
Sound == {
    Bodies(<<Get(s1), Get(s2)>>, <<Get(c1), Get(s1)>>, <<Cleanup, Get(c1), Get(c2)>>, <<Get(c2), Peek(s2)>>),
    Bodies(<<Get(s1), Guard, Get(s2)>>, <<Get(s2)>>, <<Get(c1), Guard, Get(c2)>>, <<Cleanup, Get(s1), Guard, Get(c1)>>),
    Bodies(<<Get(s1)>>, <<Get(c1), Get(s2)>>, <<Get(c2), Fail, Get(s1)>>, <<Get(c1), Get(c2)>>),
    Bodies(<<Get(s2)>>, <<Get(s1), Flip>>, <<Get(c2), Put(s2)>>, <<Get(c1), Get(s2)>>),
    Bodies(<<Get(s1)>>, <<Get(s2)>>, <<Get(s2), Get(s1), Put(s1)>>, <<Get(s1), Put(s2)>>),
    Bodies(<<Get(s1)>>, <<Get(c1), Get(s2)>>, <<Get(s1), Guard, Kill(e2)>>, <<Cleanup, Get(c2)>>)}

SomeSchedules == {{}, {e2}}
=============================================================================
