------------------------------ MODULE Channel ------------------------------
(***************************************************************************)
(* A channel between the isolates of a program                             *)
(* (crates/varn-builtins/src/runtime/channel.rs) with the handles its      *)
(* callers hold (modules/runtime/task/task.rs, varn-vm exec/host_tasks.rs, *)
(* exec/host/tasks.rs).                                                    *)
(*                                                                         *)
(* send, try_receive and close work on the state under its lock and        *)
(* complete the promises of others after they have released it: these      *)
(* completions, one by one, are steps of their own, and with them the      *)
(* return of the call.  A message is named by the send call that carries   *)
(* it.  A handle settles some time after its promise has (HostWake) unless *)
(* the program cancels it before; a cancelled promise stays in the queues  *)
(* of the channel.                                                         *)
(***************************************************************************)
EXTENDS Naturals, Sequences, FiniteSets

CONSTANTS
    Sends,     \* identities of calls to send
    Receives,  \* identities of calls to receive or next
    Isolates,  \* the threads that make them
    Capacity,
    None       \* no isolate

ASSUME CapacityAssumption == Capacity \in Nat \ {0}
\* A promise that holds a message is not taken for one in another state.
ASSUME NamesAssumption ==
    Sends \cap {"none", "pending", "waiting", "sent", "closed", "cancelled"} = {}
ASSUME CallsAssumption == Sends \cap Receives = {} /\ None \notin Isolates

VARIABLES
    queue,         \* ChannelState.queue
    closed,        \* ChannelState.closed
    recv_waiters,  \* ChannelState.recv_waiters
    send_waiters,  \* ChannelState.send_waiters
    caller,        \* call -> the isolate that made it, or None
    promise,       \* call -> "none", "pending" or what completed its promise
    handle,        \* call -> the outcome of the handle it returned
    owing          \* isolate -> completions it has left the lock with

stateVars == <<queue, closed, recv_waiters, send_waiters>>
cvars == <<stateVars, caller, promise, handle, owing>>

Calls == Sends \cup Receives
Results == {"sent", "closed", "cancelled"} \cup Sends
Owed == [to : Calls, what : Results]

CInit ==
    /\ queue = <<>>
    /\ closed = FALSE
    /\ recv_waiters = <<>>
    /\ send_waiters = <<>>
    /\ caller = [c \in Calls |-> None]
    /\ promise = [c \in Calls |-> "none"]
    /\ handle = [c \in Calls |-> "none"]
    /\ owing = [t \in Isolates |-> <<>>]

Owe(call, result) == [to |-> call, what |-> result]

\* Isolate t, which has nothing left to complete, makes a new call.
Calling(t, c) ==
    /\ owing[t] = <<>>
    /\ caller[c] = None
    /\ caller' = [caller EXCEPT ![c] = t]

\* The call parks: task_from_host makes a pending handle of its promise.
Parks(c) ==
    /\ promise' = [promise EXCEPT ![c] = "pending"]
    /\ handle' = [handle EXCEPT ![c] = "pending"]
    /\ UNCHANGED owing

\* The lock is released and these completions are left to make, the last of
\* them the return of the call itself.
Leaves(t, completions) ==
    /\ owing' = [owing EXCEPT ![t] = completions]
    /\ UNCHANGED <<promise, handle>>

-----------------------------------------------------------------------------
SendRefused(t, s) ==
    /\ Calling(t, s)
    /\ closed
    /\ Leaves(t, <<Owe(s, "closed")>>)
    /\ UNCHANGED stateVars

SendHandsOver(t, s) ==
    /\ Calling(t, s)
    /\ ~closed
    /\ recv_waiters # <<>>
    /\ recv_waiters' = Tail(recv_waiters)
    /\ Leaves(t, <<Owe(Head(recv_waiters), s), Owe(s, "sent")>>)
    /\ UNCHANGED <<queue, closed, send_waiters>>

SendQueues(t, s) ==
    /\ Calling(t, s)
    /\ ~closed
    /\ recv_waiters = <<>>
    /\ Len(queue) < Capacity
    /\ queue' = Append(queue, s)
    /\ Leaves(t, <<Owe(s, "sent")>>)
    /\ UNCHANGED <<closed, recv_waiters, send_waiters>>

SendParks(t, s) ==
    /\ Calling(t, s)
    /\ ~closed
    /\ recv_waiters = <<>>
    /\ Len(queue) >= Capacity
    /\ send_waiters' = Append(send_waiters, s)
    /\ Parks(s)
    /\ UNCHANGED <<queue, closed, recv_waiters>>

\* Variant: the first parked sender is acknowledged and its message forgotten.
ReceiveForgetsSender(t, r) ==
    /\ Calling(t, r)
    /\ queue # <<>>
    /\ IF send_waiters = <<>>
       THEN /\ queue' = Tail(queue)
            /\ UNCHANGED send_waiters
            /\ Leaves(t, <<Owe(r, Head(queue))>>)
       ELSE /\ queue' = Tail(queue)
            /\ send_waiters' = Tail(send_waiters)
            /\ Leaves(t, <<Owe(Head(send_waiters), "sent"), Owe(r, Head(queue))>>)
    /\ UNCHANGED <<closed, recv_waiters>>

\* Variant: the room a message leaves stays empty.
ReceiveLeavesRoom(t, r) ==
    /\ Calling(t, r)
    /\ queue # <<>>
    /\ queue' = Tail(queue)
    /\ Leaves(t, <<Owe(r, Head(queue))>>)
    /\ UNCHANGED <<closed, recv_waiters, send_waiters>>

\* Variant: a parked sender's message goes to the front of the queue.
ReceiveRefillsFront(t, r) ==
    /\ Calling(t, r)
    /\ queue # <<>>
    /\ IF send_waiters = <<>>
       THEN /\ queue' = Tail(queue)
            /\ UNCHANGED send_waiters
            /\ Leaves(t, <<Owe(r, Head(queue))>>)
       ELSE /\ queue' = <<Head(send_waiters)>> \o Tail(queue)
            /\ send_waiters' = Tail(send_waiters)
            /\ Leaves(t, <<Owe(Head(send_waiters), "sent"), Owe(r, Head(queue))>>)
    /\ UNCHANGED <<closed, recv_waiters>>

\* A message is taken, and the first parked sender's takes its room.
ReceiveTakes(t, r) ==
    /\ Calling(t, r)
    /\ queue # <<>>
    /\ IF send_waiters = <<>>
       THEN /\ queue' = Tail(queue)
            /\ UNCHANGED send_waiters
            /\ Leaves(t, <<Owe(r, Head(queue))>>)
       ELSE /\ queue' = Append(Tail(queue), Head(send_waiters))
            /\ send_waiters' = Tail(send_waiters)
            /\ Leaves(t, <<Owe(Head(send_waiters), "sent"), Owe(r, Head(queue))>>)
    /\ UNCHANGED <<closed, recv_waiters>>

ReceiveRefused(t, r) ==
    /\ Calling(t, r)
    /\ queue = <<>>
    /\ closed
    /\ Leaves(t, <<Owe(r, "closed")>>)
    /\ UNCHANGED stateVars

ReceiveParks(t, r) ==
    /\ Calling(t, r)
    /\ queue = <<>>
    /\ ~closed
    /\ recv_waiters' = Append(recv_waiters, r)
    /\ Parks(r)
    /\ UNCHANGED <<queue, closed, send_waiters>>

AllClosed(calls) == [k \in DOMAIN calls |-> Owe(calls[k], "closed")]

\* close, and dispose of either end: those who wait are turned away; what is
\* queued can still be received.
Close(t) ==
    /\ owing[t] = <<>>
    /\ ~closed
    /\ closed' = TRUE
    /\ recv_waiters' = <<>>
    /\ send_waiters' = <<>>
    /\ Leaves(t, AllClosed(recv_waiters) \o AllClosed(send_waiters))
    /\ UNCHANGED <<queue, caller>>

-----------------------------------------------------------------------------
\* The next completion an isolate owes: of a parked call's promise, unless it
\* was cancelled meanwhile, or of the call that is returning.
Resolve(t) ==
    /\ owing[t] # <<>>
    /\ LET c == Head(owing[t]).to
           result == Head(owing[t]).what
       IN  /\ promise' = [promise EXCEPT
                             ![c] = IF @ \in {"none", "pending"} THEN result ELSE @]
           /\ handle' = [handle EXCEPT ![c] = IF @ = "none" THEN result ELSE @]
    /\ owing' = [owing EXCEPT ![t] = Tail(@)]
    /\ UNCHANGED <<stateVars, caller>>

Idle(t) == t \in Isolates /\ owing[t] = <<>>

\* complete_host: the outcome of the promise settles the handle.
SettleHandle(c) ==
    /\ handle[c] = "pending"
    /\ promise[c] # "pending"
    /\ Idle(caller[c])
    /\ handle' = [handle EXCEPT ![c] = promise[c]]
    /\ UNCHANGED <<stateVars, caller, promise, owing>>

\* task_cancel
CancelCall(c) ==
    /\ handle[c] = "pending"
    /\ Idle(caller[c])
    /\ promise' = [promise EXCEPT ![c] = IF @ = "pending" THEN "cancelled" ELSE @]
    /\ handle' = [handle EXCEPT ![c] = "cancelled"]
    /\ UNCHANGED <<stateVars, caller, owing>>

CNext ==
    \/ \E t \in Isolates, s \in Sends :
          SendRefused(t, s) \/ SendHandsOver(t, s) \/ SendQueues(t, s) \/ SendParks(t, s)
    \/ \E t \in Isolates, r \in Receives :
          ReceiveTakes(t, r) \/ ReceiveRefused(t, r) \/ ReceiveParks(t, r)
    \/ \E t \in Isolates : Close(t) \/ Resolve(t)
    \/ \E c \in Calls : SettleHandle(c) \/ CancelCall(c)

CSpec == CInit /\ [][CNext]_cvars

-----------------------------------------------------------------------------
\* The values every variable keeps to; the queue never exceeds the capacity.
CTypeOK ==
    /\ queue \in Seq(Sends) /\ Len(queue) <= Capacity
    /\ closed \in BOOLEAN
    /\ recv_waiters \in Seq(Receives)
    /\ send_waiters \in Seq(Sends)
    /\ caller \in [Calls -> Isolates \cup {None}]
    /\ promise \in [Calls -> {"none", "pending"} \cup Results]
    /\ handle \in [Calls -> {"none", "pending"} \cup Results]
    /\ owing \in [Isolates -> Seq(Owed)]

Members(seq) == {seq[k] : k \in DOMAIN seq}
Times(x, seq) == Cardinality({k \in DOMAIN seq : seq[k] = x})
AllOwed == UNION {Members(owing[t]) : t \in Isolates}
OwedTo(c) == {o \in AllOwed : o.to = c}

(***************************************************************************)
(* Nobody waits in vain: a receive is parked only while there is no        *)
(* message for it, a send only while the queue is full, neither on a       *)
(* closed channel, and the promise of a call is pending only while it is   *)
(* parked or some isolate is on its way to complete it (send, try_receive  *)
(* and close, with the completions they make after unlocking).             *)
(***************************************************************************)
NobodyWaitsInVain ==
    /\ recv_waiters # <<>> => queue = <<>> /\ send_waiters = <<>>
    /\ send_waiters # <<>> => Len(queue) = Capacity
    /\ closed => recv_waiters = <<>> /\ send_waiters = <<>>
    /\ \A c \in Calls : promise[c] = "pending" =>
          \/ c \in Members(recv_waiters) \cup Members(send_waiters)
          \/ OwedTo(c) # {}

\* Where the message of a send is: queued, on its way to a receive or received.
Places(s) ==
    Times(s, queue) + Times(s, send_waiters)
    + Cardinality({o \in AllOwed : o.what = s})
    + Cardinality({r \in Receives : promise[r] = s /\ handle[r] # "cancelled"})

Swallowers ==
    {r \in Receives : /\ "cancelled" \in {promise[r], handle[r]}
                      /\ r \notin Members(recv_waiters)}

(***************************************************************************)
(* The acknowledgement of a send is true: ChannelClosed means that nobody  *)
(* has or will receive the message, and success that it left the sender    *)
(* before the channel was closed (send, SendAck in materialize).           *)
(***************************************************************************)
AcknowledgementIsTrue ==
    \A s \in Sends :
        /\ promise[s] = "closed" => Places(s) = 0
        /\ promise[s] = "sent" => s \notin Members(send_waiters)
        /\ \A r \in Receives : handle[r] = s => promise[s] # "closed"

(***************************************************************************)
(* No message is duplicated, and one whose sender was told that it was     *)
(* sent is lost only to a receive that was cancelled: the message is       *)
(* queued, on its way to a receive or received, in one place, or a         *)
(* cancelled receive has swallowed it.                                     *)
(***************************************************************************)
MessagesAreKept ==
    /\ CTypeOK /\ AcknowledgementIsTrue
    /\ \A s \in Sends : Places(s) <= 1
    /\ Cardinality({s \in Sends : promise[s] = "sent" /\ Places(s) = 0})
          <= Cardinality(Swallowers)

\* What a receive has been given, from the moment the lock says so.
Given(r) ==
    IF handle[r] = "cancelled" THEN "cancelled"
    ELSE IF OwedTo(r) # {} THEN (CHOOSE o \in OwedTo(r) : TRUE).what
    ELSE IF promise[r] = "pending" THEN "waiting" ELSE promise[r]

Line == INSTANCE MessageLine WITH
    Messages <- Sends,
    posted <- {s \in Sends : caller[s] # None},
    line <- queue \o send_waiters,
    expect <- recv_waiters,
    got <- [r \in Receives |-> Given(r)],
    shut <- closed

\* The bounded queue and the parked senders behind it are one line of messages,
\* received in the order in which the sends took the lock.
KeepsMessagesInLine == Line!LSpec
=============================================================================
