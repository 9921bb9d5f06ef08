---------------------------- MODULE MessageLine ----------------------------
(***************************************************************************)
(* What a channel promises: messages are received in the order in which    *)
(* they were sent, by receives in the order in which those began to wait,  *)
(* each message by at most one.  Closing the channel turns away whoever    *)
(* waits to receive and every message beyond the first Capacity.           *)
(***************************************************************************)
EXTENDS Naturals, Sequences

CONSTANTS
    Messages,
    Receives,  \* identities of receive calls
    Capacity

VARIABLES
    posted,  \* the messages somebody has tried to send
    line,    \* messages accepted that no receive has been given, first to last
    expect,  \* receives that wait for a message, first to last
    got,     \* receive -> "none", "waiting", "closed", "cancelled" or its message
    shut     \* has the channel been closed?

lineVars == <<posted, line, expect, got, shut>>

LInit ==
    /\ posted = {}
    /\ line = <<>>
    /\ expect = <<>>
    /\ got = [r \in Receives |-> "none"]
    /\ shut = FALSE

\* A message goes to the first receive that waits, or joins the line.  One
\* given to a receive that has been cancelled is gone.
Post(m) ==
    /\ m \notin posted
    /\ ~shut
    /\ posted' = posted \cup {m}
    /\ IF expect = <<>>
       THEN line' = Append(line, m) /\ UNCHANGED <<expect, got>>
       ELSE /\ expect' = Tail(expect)
            /\ got' = IF got[Head(expect)] = "waiting"
                      THEN [got EXCEPT ![Head(expect)] = m] ELSE got
            /\ UNCHANGED line
    /\ UNCHANGED shut

Refuse(m) ==
    /\ m \notin posted
    /\ shut
    /\ posted' = posted \cup {m}
    /\ UNCHANGED <<line, expect, got, shut>>

Take(r) ==
    /\ got[r] = "none"
    /\ line # <<>>
    /\ got' = [got EXCEPT ![r] = Head(line)]
    /\ line' = Tail(line)
    /\ UNCHANGED <<posted, expect, shut>>

WaitForMessage(r) ==
    /\ got[r] = "none"
    /\ line = <<>>
    /\ IF shut
       THEN got' = [got EXCEPT ![r] = "closed"] /\ UNCHANGED expect
       ELSE got' = [got EXCEPT ![r] = "waiting"] /\ expect' = Append(expect, r)
    /\ UNCHANGED <<posted, line, shut>>

Shut ==
    /\ ~shut
    /\ shut' = TRUE
    /\ line' = SubSeq(line, 1, IF Len(line) < Capacity THEN Len(line) ELSE Capacity)
    /\ got' = [r \in Receives |-> IF got[r] = "waiting" THEN "closed" ELSE got[r]]
    /\ expect' = <<>>
    /\ UNCHANGED posted

\* The program gives up on a receive, whose message is gone if it had one.
GiveUp(r) ==
    /\ got[r] # "none"
    /\ got' = [got EXCEPT ![r] = "cancelled"]
    /\ UNCHANGED <<posted, line, expect, shut>>

LNext ==
    \/ \E m \in Messages : Post(m) \/ Refuse(m)
    \/ \E r \in Receives : Take(r) \/ WaitForMessage(r) \/ GiveUp(r)
    \/ Shut

LSpec == LInit /\ [][LNext]_lineVars
=============================================================================
