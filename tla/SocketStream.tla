---------------------------- MODULE SocketStream ----------------------------
(***************************************************************************)
(* One TCP connection of the I/O driver (crates/varn-builtins/src/modules/ *)
(* runtime/net/driver: tcp.rs, mod.rs, event_loop.rs), without TLS.        *)
(*                                                                         *)
(* Callers read, write and close under the lock of the registry and try    *)
(* the socket at once; what would block is parked in the one place for a   *)
(* read or a write.  The event loop polls edges of readiness, serves what  *)
(* is parked under the lock and completes promises after it, one by one.   *)
(* The kernel's side of the socket is modelled from what the driver uses:  *)
(* an edge is raised when something arrives, when there is room again      *)
(* after a write found too little, and when the socket is registered.      *)
(*                                                                         *)
(* Nothing keeps a caller to one read and one write at a time.  A call     *)
(* made while one of its kind is parked tries the socket ahead of it, and  *)
(* takes its place if it has to be parked too; the program may also cancel *)
(* a handle (a timeout), which the driver is not told of.                  *)
(***************************************************************************)
EXTENDS Integers, Sequences, FiniteSets

CONSTANTS
    Reads, Writes,   \* identities of calls
    Connect,         \* the call that opened the connection
    Cancellable,     \* the calls that the program may cancel
    WriteSize,       \* units in one write
    BufferSize,      \* units the kernel's send buffer holds
    Sent,            \* the units the peer sends, a bound of the instance
    None

Calls == Reads \cup Writes \cup {Connect}

ASSUME SocketAssumption ==
    /\ Reads \cap Writes = {} /\ Connect \notin Reads \cup Writes /\ None \notin Calls
    /\ Cancellable \subseteq Calls
    /\ {WriteSize, BufferSize} \subseteq Nat \ {0}

Words == {"none", "pending", "connected", "written", "null", "failed", "cancelled"}
Units == {Sent[k] : k \in DOMAIN Sent}

\* A unit is named by its place, and not taken for a word.
ASSUME UnitsAssumption ==
    /\ Sent \in Seq(Units) /\ Units \cap Words = {}
    /\ \A m, n \in DOMAIN Sent : Sent[m] = Sent[n] => m = n

VARIABLES
    kernel,     \* [state, arrived, taken, eof, room, short]: the socket
    edges,      \* readiness raised and not yet polled
    wire,       \* the units written, by call
    entry,      \* the registry's entry: "connecting", "open", "closed" (removed)
    registered, \* RegisterStream has been processed
    parked,     \* [read, write, written]: pending_read and pending_write
    promise,    \* call -> its promise: a unit that was read, or a word
    called,     \* the calls, in order
    \* For the properties only:
    over,       \* call -> what of its kind was parked when it was made
    displaced,  \* the calls whose place another has taken
    loop,       \* where the event loop is
    events,     \* the edges it has polled
    deferred    \* completions it has left the lock with

callVars == <<promise, called, over, displaced>>
loopVars == <<loop, events, deferred>>
kvars == <<kernel, edges, wire, entry, registered, parked, callVars, loopVars>>

Unread == kernel.arrived - kernel.taken
Smaller(a, b) == IF a < b THEN a ELSE b
Settle(c, what) == promise' = [promise EXCEPT ![c] = IF @ = "pending" THEN what ELSE @]
Defer(c, what) == IF c = None THEN <<>> ELSE <<[to |-> c, what |-> what]>>

\* Opened by connect_addr, still connecting, or by adopt and accept, connected.
StreamInit ==
    /\ \E connecting \in BOOLEAN :
          /\ entry = IF connecting THEN "connecting" ELSE "open"
          /\ kernel = [state |-> IF connecting THEN "opening" ELSE "up", arrived |-> 0,
                       taken |-> 0, eof |-> FALSE, room |-> BufferSize, short |-> FALSE]
          /\ promise = [c \in Calls |->
                 IF c # Connect THEN "none" ELSE IF connecting THEN "pending" ELSE "connected"]
    /\ edges = {} /\ wire = <<>> /\ registered = FALSE /\ called = <<>>
    /\ over = [c \in Calls |-> None] /\ displaced = {}
    /\ parked = [read |-> None, write |-> None, written |-> 0]
    /\ loop = "poll" /\ events = {} /\ deferred = <<>>

-----------------------------------------------------------------------------
\* What the kernel and the peer do, while anybody looks.
Happens(k, edge) ==
    /\ entry # "closed"
    /\ kernel' = k
    /\ edges' = IF registered THEN edges \cup edge ELSE edges
    /\ UNCHANGED <<wire, entry, registered, parked, callVars, loopVars>>

Opens(state) ==
    kernel.state = "opening" /\ Happens([kernel EXCEPT !.state = state], {"readable", "writable"})
Arrives ==
    /\ kernel.state = "up" /\ ~kernel.eof /\ kernel.arrived < Len(Sent)
    /\ Happens([kernel EXCEPT !.arrived = @ + 1], {"readable"})
PeerEnds ==
    kernel.state = "up" /\ ~kernel.eof /\ Happens([kernel EXCEPT !.eof = TRUE], {"readable"})
Drains ==
    /\ kernel.state = "up" /\ kernel.room < BufferSize
    /\ Happens([kernel EXCEPT !.room = @ + 1, !.short = FALSE],
               IF kernel.short THEN {"writable"} ELSE {})
Breaks ==
    kernel.state = "up" /\ Happens([kernel EXCEPT !.state = "down"], {"readable", "writable"})

Kernel == Opens("up") \/ Opens("down") \/ Arrives \/ PeerEnds \/ Drains \/ Breaks

-----------------------------------------------------------------------------
\* Any caller that knows the connection, over what is parked of the kind.
MayCall(c, before) ==
    /\ promise[Connect] = "connected"
    /\ promise[c] = "none"
    /\ called' = Append(called, c)
    /\ over' = [over EXCEPT ![c] = before]
    /\ UNCHANGED <<edges, entry, registered, loopVars>>

Answer(c, what) ==
    promise' = [promise EXCEPT ![c] = what] /\ UNCHANGED <<parked, displaced>>

\* The call waits in the one place of its kind, whoever was there.
Park(c, before, place) ==
    /\ promise' = [promise EXCEPT ![c] = "pending"]
    /\ parked' = place
    /\ displaced' = displaced \cup ({before} \ {None})

\* Variant: the read is parked without trying the socket first.
ReadParksUntried(r) ==
    /\ MayCall(r, parked.read)
    /\ entry # "closed"
    /\ Park(r, parked.read, [parked EXCEPT !.read = r])
    /\ UNCHANGED <<kernel, wire>>

Read(r) ==
    /\ MayCall(r, parked.read)
    /\ IF entry = "closed" THEN Answer(r, "null") /\ UNCHANGED kernel
       ELSE IF kernel.state = "down" THEN Answer(r, "failed") /\ UNCHANGED kernel
       ELSE IF Unread > 0
       THEN Answer(r, Sent[kernel.taken + 1]) /\ kernel' = [kernel EXCEPT !.taken = @ + 1]
       ELSE IF kernel.eof THEN Answer(r, "null") /\ UNCHANGED kernel
       ELSE Park(r, parked.read, [parked EXCEPT !.read = r]) /\ UNCHANGED kernel
    /\ UNCHANGED wire

\* write_plain of what is left of a write: as much as there is room for.
Put(w, left) ==
    LET n == Smaller(left, kernel.room)
    IN  /\ wire' = wire \o [k \in 1..n |-> w]
        /\ kernel' = [kernel EXCEPT !.room = @ - n, !.short = @ \/ n < left]

Write(w) ==
    /\ MayCall(w, parked.write)
    /\ IF entry = "closed" \/ kernel.state = "down"
       THEN Answer(w, "failed") /\ UNCHANGED <<kernel, wire>>
       ELSE /\ Put(w, WriteSize)
            /\ IF kernel.room >= WriteSize THEN Answer(w, "written")
               ELSE Park(w, parked.write, [parked EXCEPT !.write = w, !.written = kernel.room])

\* close: out of the registry, and what is parked is answered under the lock.
Close ==
    /\ promise[Connect] = "connected"
    /\ entry # "closed"
    /\ entry' = "closed"
    /\ promise' = [c \in Calls |->
           IF promise[c] # "pending" THEN promise[c]
           ELSE IF c = parked.read THEN "null"
           ELSE IF c = parked.write THEN "failed"
           ELSE "pending"]
    /\ parked' = [read |-> None, write |-> None, written |-> 0]
    /\ edges' = {}
    /\ registered' = FALSE
    /\ UNCHANGED <<kernel, wire, called, over, displaced, loopVars>>

\* The program cancels the handle of a call.
Cancel(c) ==
    /\ promise[c] = "pending"
    /\ Settle(c, "cancelled")
    /\ UNCHANGED <<kernel, edges, wire, entry, registered, parked, called, over, displaced,
                   loopVars>>

-----------------------------------------------------------------------------
\* RegisterStream: the socket's readiness at that moment counts as an edge.
Register ==
    /\ loop = "poll"
    /\ ~registered /\ entry # "closed"
    /\ registered' = TRUE
    /\ edges' = IF kernel.state = "opening" THEN {}
                ELSE {"writable"} \cup (IF Unread > 0 \/ kernel.eof \/ kernel.state = "down"
                                        THEN {"readable"} ELSE {})
    /\ UNCHANGED <<kernel, wire, entry, parked, callVars, loopVars>>

Poll ==
    /\ loop = "poll"
    /\ edges # {}
    /\ events' = edges
    /\ edges' = {}
    /\ loop' = "handle"
    /\ UNCHANGED <<kernel, wire, entry, registered, parked, callVars, deferred>>

\* The connection is up or has failed: the pending connect is answered.
ConnectEvent ==
    IF entry # "connecting" \/ kernel.state = "opening" THEN <<>>
    ELSE Defer(Connect, IF kernel.state = "up" THEN "connected" ELSE "failed")

\* Variant: one more piece on the wire counts as the end of the write.
WriteEventForgets ==
    IF "writable" \notin events \/ parked.write = None \/ kernel.state # "up" THEN <<>>
    ELSE Defer(parked.write, "written")

\* The parked write goes on: nothing, its failure, or its end to complete.
WriteEvent ==
    IF "writable" \notin events \/ parked.write = None \/ kernel.state = "opening" THEN <<>>
    ELSE IF kernel.state = "down" THEN Defer(parked.write, "failed")
    ELSE IF kernel.room < WriteSize - parked.written THEN <<>>
    ELSE Defer(parked.write, "written")

\* Variant: the end of the stream is taken for nothing to read.
ReadEventIgnoresEnd ==
    IF "readable" \notin events \/ parked.read = None \/ kernel.state # "up" THEN <<>>
    ELSE IF Unread > 0 THEN Defer(parked.read, Sent[kernel.taken + 1])
    ELSE <<>>

ReadEvent ==
    IF "readable" \notin events \/ parked.read = None \/ kernel.state = "opening" THEN <<>>
    ELSE IF kernel.state = "down" THEN Defer(parked.read, "failed")
    ELSE IF Unread > 0 THEN Defer(parked.read, Sent[kernel.taken + 1])
    ELSE IF kernel.eof THEN Defer(parked.read, "null")
    ELSE <<>>

\* One event, handled under the lock; the completions are left for after it.
Handle ==
    /\ loop = "handle"
    /\ loop' = "complete"
    /\ events' = {}
    /\ IF entry = "closed"
       THEN UNCHANGED <<kernel, wire, entry, parked, deferred>>
       ELSE LET left == WriteSize - parked.written
                goesOn == "writable" \in events /\ parked.write # None /\ kernel.state = "up"
                n == IF goesOn THEN Smaller(left, kernel.room) ELSE 0
                reads == ReadEvent # <<>> /\ kernel.state = "up" /\ Unread > 0
            IN  /\ deferred' = ConnectEvent \o WriteEvent \o ReadEvent
                /\ entry' = IF entry = "connecting" /\ kernel.state = "opening"
                            THEN "connecting" ELSE "open"
                /\ wire' = wire \o [k \in 1..n |-> parked.write]
                /\ kernel' = [kernel EXCEPT !.room = @ - n, !.short = @ \/ (goesOn /\ n < left),
                                            !.taken = @ + (IF reads THEN 1 ELSE 0)]
                /\ parked' = [read |-> IF ReadEvent = <<>> THEN parked.read ELSE None,
                              write |-> IF WriteEvent = <<>> THEN parked.write ELSE None,
                              written |-> IF WriteEvent = <<>> THEN parked.written + n ELSE 0]
    /\ UNCHANGED <<edges, registered, callVars>>

Complete ==
    /\ loop = "complete"
    /\ deferred # <<>>
    /\ Settle(Head(deferred).to, Head(deferred).what)
    /\ deferred' = Tail(deferred)
    /\ UNCHANGED <<kernel, edges, wire, entry, registered, parked, called, over, displaced,
                   loop, events>>

Completed ==
    /\ loop = "complete"
    /\ deferred = <<>>
    /\ loop' = "poll"
    /\ UNCHANGED <<kernel, edges, wire, entry, registered, parked, callVars, events, deferred>>

EventLoop == Register \/ Poll \/ Handle \/ Complete \/ Completed
StreamNext ==
    \/ Kernel \/ EventLoop \/ Close
    \/ \E r \in Reads : Read(r)
    \/ \E w \in Writes : Write(w)
    \/ \E c \in Cancellable : Cancel(c)

\* The driver's thread keeps running.
StreamFairness == WF_kvars(EventLoop)
StreamSpec == StreamInit /\ [][StreamNext]_kvars /\ StreamFairness

-----------------------------------------------------------------------------
StreamTypeOK ==
    /\ kernel \in [state : {"opening", "up", "down"}, arrived : 0..Len(Sent), eof : BOOLEAN,
                   taken : 0..Len(Sent), room : 0..BufferSize, short : BOOLEAN]
    /\ kernel.taken <= kernel.arrived
    /\ edges \subseteq {"readable", "writable"} /\ events \subseteq {"readable", "writable"}
    /\ wire \in Seq(Writes)
    /\ entry \in {"connecting", "open", "closed"} /\ registered \in BOOLEAN
    /\ parked \in [read : Reads \cup {None}, write : Writes \cup {None}, written : 0..WriteSize]
    /\ \A c \in Calls : promise[c] \in Words \cup Units
    /\ loop \in {"poll", "handle", "complete"}
    /\ over \in [Calls -> Calls \cup {None}] /\ displaced \subseteq Reads \cup Writes

\* A parked read or write never sleeps over a socket that could serve it: the
\* edge that says so is raised or in the hands of the loop.  Every path that
\* parks has found the socket empty, or full, under the same lock (read, write,
\* the put-backs of the event loop), and readiness before the registration
\* counts when it comes.
NothingParkedIsMissed ==
    entry = "open" /\ registered /\ kernel.state # "opening" =>
        /\ parked.read # None /\ (Unread > 0 \/ kernel.eof \/ kernel.state = "down")
               => "readable" \in edges \cup events
        /\ parked.write # None /\ (kernel.room > 0 \/ kernel.state = "down")
               => "writable" \in edges \cup events

\* A call that waits is parked where it will not be missed, or about to be
\* completed: neither close, which answers under the lock, nor the loop, which
\* answers after it, nor both at once forget one.  The exception is a call whose
\* place another of its kind took before it was served (tcp.rs read and write):
\* nobody answers that one any more, unless the program cancels it.
EveryWaitHasAnAnswerer ==
    /\ StreamTypeOK /\ NothingParkedIsMissed
    /\ \A c \in Calls : promise[c] = "pending" =>
          \/ c \in {parked.read, parked.write}
          \/ c = Connect /\ entry = "connecting"
          \/ \E k \in DOMAIN deferred : deferred[k].to = c
          \/ c \in displaced
    /\ \A c \in displaced : promise[c] \in {"pending", "cancelled"}

\* What the peer sent is read in the order of the calls, each unit once, save
\* that a call served over a parked one is ahead of it; and a unit that no read
\* returns was taken for one that was cancelled.  "written" means that all of a
\* write is on the wire, and the units of a later write stand before those of an
\* earlier only if that one was parked, part of it still to come, when the later
\* was called (tcp.rs read and write, the put-backs of the loop).
BytesAreKept ==
    /\ \A i, j \in DOMAIN called, m, n \in DOMAIN Sent :
          i < j /\ promise[called[i]] = Sent[m] /\ promise[called[j]] = Sent[n] =>
          IF over[called[j]] = called[i] THEN n < m ELSE m < n
    /\ Cardinality({u \in 1..kernel.taken :
                       /\ \A r \in Reads : promise[r] # Sent[u]
                       /\ \A k \in DOMAIN deferred : deferred[k].what # Sent[u]})
          <= Cardinality({r \in Reads : promise[r] = "cancelled"})
    /\ \A w \in Writes : promise[w] = "written" =>
          Cardinality({k \in DOMAIN wire : wire[k] = w}) = WriteSize
    /\ \A i, j \in DOMAIN wire : i < j /\ wire[i] # wire[j] =>
          \A m, n \in DOMAIN called :
              called[m] = wire[i] /\ called[n] = wire[j] => m < n \/ over[wire[i]] = wire[j]

\* A read that waits when the peer has ended or the connection broke ends,
\* unless another read had taken its place before.
ReadsEnd ==
    \A r \in Reads :
        promise[r] = "pending" /\ r \notin displaced /\ (kernel.eof \/ kernel.state = "down")
            ~> promise[r] # "pending"
=============================================================================
