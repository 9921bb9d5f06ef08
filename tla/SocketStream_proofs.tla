------------------------ MODULE SocketStream_proofs ------------------------
(***************************************************************************)
(* Theorems about one connection of the I/O driver, for any reads, writes  *)
(* and cancelled calls, any size of a write and of the kernel's buffer.    *)
(***************************************************************************)
EXTENDS SocketStream, Counting

Outcomes == (Words \ {"none", "pending"}) \cup Units
Deferred == [to : Calls, what : Outcomes]

\* What waits to be completed is there between the loop's lock and its next
\* poll, and what it has polled until it takes that lock.
Typed ==
    /\ StreamTypeOK
    /\ promise \in [Calls -> Words \cup Units]
    /\ deferred \in Seq(Deferred)
    /\ loop # "handle" => events = {}
    /\ loop # "complete" => deferred = <<>>

\* Until the connection is up nobody can have called.
NotYet ==
    /\ kernel.state = "opening" => entry = "connecting"
    /\ entry = "connecting" =>
          /\ promise[Connect] # "connected"
          /\ parked.read = None /\ parked.write = None /\ deferred = <<>>

\* A write is parked at a full buffer whose next room the kernel announces.
RoomIsAwaited ==
    entry = "open" /\ registered /\ kernel.state = "up" /\ parked.write # None /\ kernel.room = 0
        => kernel.short \/ "writable" \in edges \cup events

Awaited(c) ==
    \/ c \in {parked.read, parked.write}
    \/ c = Connect /\ entry = "connecting"
    \/ \E k \in DOMAIN deferred : deferred[k].to = c
    \/ c \in displaced

Expected == \A c \in Calls : promise[c] = "pending" => Awaited(c)

StreamInv == Typed /\ NotYet /\ NothingParkedIsMissed /\ RoomIsAwaited /\ Expected

LEMMA Names ==
  /\ Units \cap Words = {} /\ Outcomes \subseteq Words \cup Units
  /\ "pending" \notin Outcomes /\ "none" \notin Outcomes
  /\ {"connected", "written", "null", "failed", "cancelled"} \subseteq Outcomes
  /\ Units \subseteq Outcomes /\ "pending" \in Words /\ "none" \in Words
  BY UnitsAssumption DEF Outcomes, Words

LEMMA Sizes ==
  /\ WriteSize \in Nat \ {0} /\ BufferSize \in Nat \ {0} /\ Len(Sent) \in Nat
  /\ DOMAIN Sent = 1..Len(Sent) /\ \A k \in 1..Len(Sent) : Sent[k] \in Units
  BY SocketAssumption, UnitsAssumption, LenProperties, ElementOfSeq DEF Units

LEMMA Kinds ==
  /\ Reads \subseteq Calls /\ Writes \subseteq Calls /\ Connect \in Calls
  /\ Reads \cap Writes = {} /\ Connect \notin Reads /\ Connect \notin Writes
  /\ None \notin Calls /\ Cancellable \subseteq Calls
  BY SocketAssumption DEF Calls

\* The kernel's record, field by field.
LEMMA KernelFields ==
  ASSUME StreamTypeOK
  PROVE  /\ kernel = [state |-> kernel.state, arrived |-> kernel.arrived,
                      taken |-> kernel.taken, eof |-> kernel.eof, room |-> kernel.room,
                      short |-> kernel.short]
         /\ kernel.state \in {"opening", "up", "down"} /\ kernel.arrived \in 0..Len(Sent)
         /\ kernel.taken \in 0..Len(Sent) /\ kernel.eof \in BOOLEAN
         /\ kernel.room \in 0..BufferSize /\ kernel.short \in BOOLEAN
         /\ kernel.taken <= kernel.arrived
         /\ {kernel.arrived, kernel.taken, kernel.room, Unread} \subseteq Nat
  BY Sizes DEF StreamTypeOK, Unread

LEMMA StreamStart == StreamInit => StreamInv
  <1> SUFFICES ASSUME StreamInit PROVE StreamInv
    OBVIOUS
  <1> USE Names, Sizes, Kinds
  <1>1. PICK connecting \in BOOLEAN :
          /\ entry = IF connecting THEN "connecting" ELSE "open"
          /\ kernel = [state |-> IF connecting THEN "opening" ELSE "up", arrived |-> 0,
                       taken |-> 0, eof |-> FALSE, room |-> BufferSize, short |-> FALSE]
          /\ promise = [c \in Calls |->
                 IF c # Connect THEN "none" ELSE IF connecting THEN "pending" ELSE "connected"]
    BY DEF StreamInit
  <1>2. /\ edges = {} /\ wire = <<>> /\ registered = FALSE /\ called = <<>>
        /\ parked = [read |-> None, write |-> None, written |-> 0]
        /\ loop = "poll" /\ events = {} /\ deferred = <<>>
        /\ over = [c \in Calls |-> None] /\ displaced = {}
    BY DEF StreamInit
  <1>3. wire \in Seq(Writes) /\ deferred \in Seq(Deferred)
    BY <1>2
  <1>4. promise \in [Calls -> Words \cup Units]
    BY <1>1 DEF Words
  <1>5. kernel \in [state : {"opening", "up", "down"}, arrived : 0..Len(Sent), eof : BOOLEAN,
                   taken : 0..Len(Sent), room : 0..BufferSize, short : BOOLEAN]
        /\ kernel.taken <= kernel.arrived
    BY <1>1
  <1>9. /\ parked \in [read : Reads \cup {None}, write : Writes \cup {None}, written : 0..WriteSize]
        /\ entry \in {"connecting", "open", "closed"}
    BY <1>1, <1>2
  <1>10. StreamTypeOK
    BY <1>2, <1>3, <1>4, <1>5, <1>9 DEF StreamTypeOK
  <1>6. Typed
    BY <1>2, <1>3, <1>4, <1>10 DEF Typed
  <1>7. NotYet /\ NothingParkedIsMissed /\ RoomIsAwaited
    BY <1>1, <1>2 DEF NotYet, NothingParkedIsMissed, RoomIsAwaited
  <1>8. Expected
    BY <1>1 DEF Expected, Awaited
  <1> QED
    BY <1>6, <1>7, <1>8 DEF StreamInv

-----------------------------------------------------------------------------
LEMMA KernelKeeps == ASSUME StreamInv, Kernel PROVE StreamInv'
  <1> USE Names, Sizes, Kinds
  <1>1. /\ Typed /\ NotYet /\ NothingParkedIsMissed /\ RoomIsAwaited /\ Expected
        /\ StreamTypeOK
    BY DEF StreamInv, Typed
  <1>2. /\ UNCHANGED <<wire, entry, registered, parked, callVars, loopVars>>
        /\ entry # "closed"
    BY DEF Kernel, Opens, Arrives, PeerEnds, Drains, Breaks, Happens
  <1>3. UNCHANGED <<promise, called, over, displaced, loop, events, deferred>>
    BY <1>2 DEF callVars, loopVars
  <1>4. Expected'
    BY <1>1, <1>2, <1>3 DEF Expected, Awaited
  <1>5. SUFFICES /\ kernel' \in [state : {"opening", "up", "down"}, arrived : 0..Len(Sent),
                     eof : BOOLEAN, taken : 0..Len(Sent), room : 0..BufferSize, short : BOOLEAN]
                 /\ kernel'.taken <= kernel'.arrived
                 /\ edges' \subseteq {"readable", "writable"}
                 /\ kernel'.state # "opening" \/ kernel.state = "opening"
                 /\ NothingParkedIsMissed' /\ RoomIsAwaited'
    BY <1>1, <1>2, <1>3, <1>4 DEF StreamInv, Typed, StreamTypeOK, NotYet
  <1>6. edges \subseteq {"readable", "writable"}
    BY <1>1 DEF StreamTypeOK
  <1>7. CASE Opens("up") \/ Opens("down")
    <2>1. PICK state \in {"up", "down"} : Opens(state)
      BY <1>7
    <2>2. /\ kernel.state = "opening" /\ kernel' = [kernel EXCEPT !.state = state]
          /\ edges' = IF registered THEN edges \cup {"readable", "writable"} ELSE edges
      BY <2>1 DEF Opens, Happens
    <2>3. entry = "connecting" /\ parked.read = None /\ parked.write = None
      BY <1>1, <2>2 DEF NotYet
    <2> QED
      BY <1>1, <1>2, <1>6, <2>2, <2>3, KernelFields
         DEF NothingParkedIsMissed, RoomIsAwaited
  <1>8. CASE Arrives
    <2>1. /\ kernel.state = "up" /\ kernel.arrived < Len(Sent)
          /\ kernel' = [kernel EXCEPT !.arrived = @ + 1]
          /\ edges' = IF registered THEN edges \cup {"readable"} ELSE edges
      BY <1>8 DEF Arrives, Happens
    <2> QED
      BY <1>1, <1>2, <1>3, <1>6, <2>1, KernelFields
         DEF NothingParkedIsMissed, RoomIsAwaited, Unread
  <1>9. CASE PeerEnds
    <2>1. /\ kernel.state = "up" /\ kernel' = [kernel EXCEPT !.eof = TRUE]
          /\ edges' = IF registered THEN edges \cup {"readable"} ELSE edges
      BY <1>9 DEF PeerEnds, Happens
    <2> QED
      BY <1>1, <1>2, <1>3, <1>6, <2>1, KernelFields
         DEF NothingParkedIsMissed, RoomIsAwaited, Unread
  <1>10. CASE Drains
    <2>1. /\ kernel.state = "up" /\ kernel.room < BufferSize
          /\ kernel' = [kernel EXCEPT !.room = @ + 1, !.short = FALSE]
          /\ edges' = IF registered THEN edges \cup (IF kernel.short THEN {"writable"} ELSE {})
                      ELSE edges
      BY <1>10 DEF Drains, Happens
    <2>2. /\ kernel.room = 0 \/ kernel.room > 0
          /\ kernel'.state = "up" /\ kernel'.room = kernel.room + 1 /\ kernel'.eof = kernel.eof
          /\ kernel'.arrived = kernel.arrived /\ kernel'.taken = kernel.taken
      BY <1>1, <2>1, KernelFields
    <2>7. kernel.room + 1 \in 0..BufferSize
      BY <1>1, <2>1, KernelFields
    <2>8. kernel' = [state |-> kernel.state, arrived |-> kernel.arrived, taken |-> kernel.taken,
                     eof |-> kernel.eof, room |-> kernel.room + 1, short |-> FALSE]
      BY <1>1, <2>1, KernelFields
    <2>9. kernel' \in [state : {"opening", "up", "down"}, arrived : 0..Len(Sent),
                eof : BOOLEAN, taken : 0..Len(Sent), room : 0..BufferSize, short : BOOLEAN]
      BY <1>1, <2>7, <2>8, KernelFields
    <2>3. /\ kernel' \in [state : {"opening", "up", "down"}, arrived : 0..Len(Sent),
                eof : BOOLEAN, taken : 0..Len(Sent), room : 0..BufferSize, short : BOOLEAN]
          /\ edges' \subseteq {"readable", "writable"} /\ edges \subseteq edges'
      BY <1>6, <2>1, <2>9
    <2>4. NothingParkedIsMissed'
      BY <1>1, <1>2, <1>3, <2>1, <2>2, <2>3
         DEF NothingParkedIsMissed, RoomIsAwaited, Unread
    <2>5. RoomIsAwaited'
      BY <1>1, <2>2, KernelFields DEF RoomIsAwaited
    <2>6. kernel'.taken <= kernel'.arrived /\ kernel'.state # "opening"
      BY <1>1, <2>2, KernelFields
    <2> QED
      BY <2>3, <2>4, <2>5, <2>6
  <1>11. CASE Breaks
    <2>1. /\ kernel.state = "up" /\ kernel' = [kernel EXCEPT !.state = "down"]
          /\ edges' = IF registered THEN edges \cup {"readable", "writable"} ELSE edges
      BY <1>11 DEF Breaks, Happens
    <2> QED
      BY <1>1, <1>2, <1>3, <1>6, <2>1, KernelFields
         DEF NothingParkedIsMissed, RoomIsAwaited, Unread
  <1> QED
    BY <1>7, <1>8, <1>9, <1>10, <1>11 DEF Kernel

-----------------------------------------------------------------------------
\* Who calls knows the connection, so that it is up, or was.
LEMMA CallerKnows ==
  ASSUME StreamInv, NEW c \in Reads \cup Writes, NEW before \in Calls \cup {None},
         MayCall(c, before)
  PROVE  /\ c \in Calls /\ c # Connect /\ c # None /\ promise[c] = "none"
         /\ entry # "connecting" /\ kernel.state \in {"up", "down"}
         /\ over \in [Calls -> Calls \cup {None}] /\ over' = [over EXCEPT ![c] = before]
         /\ over' \in [Calls -> Calls \cup {None}]
         /\ UNCHANGED <<edges, entry, registered, loop, events, deferred>>
  <1>1. /\ c \in Calls /\ c # Connect /\ c # None /\ promise[c] = "none"
        /\ entry # "connecting" /\ kernel.state \in {"up", "down"}
        /\ UNCHANGED <<edges, entry, registered, loop, events, deferred>>
    BY Kinds, KernelFields DEF StreamInv, Typed, NotYet, MayCall, loopVars
  <1>2. over \in [Calls -> Calls \cup {None}] /\ over' = [over EXCEPT ![c] = before]
    BY DEF StreamInv, Typed, StreamTypeOK, MayCall
  <1> QED
    BY <1>1, <1>2

\* What is parked, and what was displaced, by kind.
LEMMA ParkedKinds ==
  ASSUME StreamInv
  PROVE  /\ parked.read \in Reads \cup {None} /\ parked.write \in Writes \cup {None}
         /\ parked.written \in 0..WriteSize /\ displaced \subseteq Reads \cup Writes
         /\ {parked.read, parked.write} \subseteq Calls \cup {None}
  BY Kinds DEF StreamInv, Typed, StreamTypeOK

LEMMA ReadKeeps == ASSUME StreamInv, NEW r \in Reads, Read(r) PROVE StreamInv'
  <1> USE Names, Sizes, Kinds
  <1>1. /\ Typed /\ NotYet /\ NothingParkedIsMissed /\ RoomIsAwaited /\ Expected
        /\ StreamTypeOK /\ promise \in [Calls -> Words \cup Units]
    BY DEF StreamInv, Typed
  <1>2. /\ r \in Calls /\ r # Connect /\ r # None /\ promise[r] = "none"
        /\ entry # "connecting" /\ kernel.state \in {"up", "down"}
        /\ over' \in [Calls -> Calls \cup {None}]
        /\ UNCHANGED <<edges, entry, registered, loop, events, deferred, wire>>
    BY CallerKnows, ParkedKinds DEF Read
  <1>3. parked.read \in Reads \cup {None} /\ parked.write \in Writes \cup {None}
        /\ parked.written \in 0..WriteSize /\ displaced \subseteq Reads \cup Writes
    BY ParkedKinds
  <1>4. ASSUME NEW what \in Words \cup Units, promise' = [promise EXCEPT ![r] = what],
               parked'.write = parked.write, displaced \subseteq displaced',
               \/ what # "pending" /\ parked'.read = parked.read
               \/ parked'.read = r /\ parked.read \in displaced' \cup {None}
        PROVE  Expected' /\ promise' \in [Calls -> Words \cup Units]
    <2> SUFFICES ASSUME NEW c \in Calls, promise'[c] = "pending" PROVE Awaited(c)'
      BY <1>1, <1>4 DEF Expected
    <2>1. CASE c = r
      BY <1>1, <1>4, <2>1 DEF Awaited
    <2>2. CASE c # r
      <3>1. promise[c] = "pending" /\ c # None
        BY <1>1, <1>2, <1>4, <2>2
      <3>2. Awaited(c)
        BY <1>1, <3>1 DEF Expected
      <3> QED
        BY <1>2, <1>4, <3>1, <3>2 DEF Awaited
    <2> QED
      BY <2>1, <2>2
  <1>5. SUFFICES /\ StreamTypeOK' /\ Expected' /\ promise' \in [Calls -> Words \cup Units]
                 /\ kernel'.state = kernel.state
                 /\ NothingParkedIsMissed' /\ RoomIsAwaited'
    BY <1>1, <1>2 DEF StreamInv, Typed, NotYet
  <1>6. ASSUME NEW what \in Words \cup Units, what # "pending",
               promise' = [promise EXCEPT ![r] = what], UNCHANGED <<kernel, parked, displaced>>
        PROVE  StreamInv'
    <2>1. Expected' /\ promise' \in [Calls -> Words \cup Units]
      BY <1>4, <1>6
    <2>2. StreamTypeOK'
      BY <1>1, <1>2, <1>6, <2>1 DEF StreamTypeOK
    <2> QED
      BY <1>1, <1>2, <1>6, <2>1, <2>2
         DEF StreamInv, Typed, NotYet, NothingParkedIsMissed, RoomIsAwaited, Unread
  <1>7. CASE promise' = [promise EXCEPT ![r] = Sent[kernel.taken + 1]] /\ Unread > 0
             /\ kernel' = [kernel EXCEPT !.taken = @ + 1] /\ UNCHANGED <<parked, displaced>>
    <2>1. kernel.taken + 1 \in 1..Len(Sent) /\ kernel.taken + 1 <= kernel.arrived
      BY <1>1, <1>7, KernelFields DEF Unread
    <2>2. Sent[kernel.taken + 1] \in Units
      BY <2>1
    <2>3. Expected' /\ promise' \in [Calls -> Words \cup Units]
      BY <1>4, <1>7, <2>2
    <2>4. kernel' = [state |-> kernel.state, arrived |-> kernel.arrived,
                     taken |-> kernel.taken + 1, eof |-> kernel.eof, room |-> kernel.room,
                     short |-> kernel.short]
      BY <1>1, <1>7, KernelFields
    <2>5. kernel' \in [state : {"opening", "up", "down"}, arrived : 0..Len(Sent),
                eof : BOOLEAN, taken : 0..Len(Sent), room : 0..BufferSize, short : BOOLEAN]
          /\ kernel'.taken <= kernel'.arrived
      BY <1>1, <2>1, <2>4, KernelFields
    <2>6. StreamTypeOK'
      BY <1>1, <1>2, <1>7, <2>3, <2>5 DEF StreamTypeOK
    <2>7. kernel'.arrived - kernel'.taken > 0 => Unread > 0
      BY <1>7
    <2> QED
      BY <1>1, <1>2, <1>7, <2>3, <2>4, <2>6, <2>7
         DEF NothingParkedIsMissed, RoomIsAwaited, Unread
  <1>8. CASE /\ promise' = [promise EXCEPT ![r] = "pending"] /\ UNCHANGED kernel
             /\ parked' = [parked EXCEPT !.read = r]
             /\ displaced' = displaced \cup ({parked.read} \ {None})
             /\ kernel.state # "down" /\ ~(Unread > 0) /\ ~kernel.eof
    <2>1. parked' = [read |-> r, write |-> parked.write, written |-> parked.written]
      BY <1>1, <1>8 DEF StreamTypeOK
    <2>2. parked' \in [read : Reads \cup {None}, write : Writes \cup {None},
                       written : 0..WriteSize]
          /\ displaced' \subseteq Reads \cup Writes
      BY <1>3, <1>8, <2>1
    <2>3. Expected' /\ promise' \in [Calls -> Words \cup Units]
      BY <1>4, <1>8, <2>1
    <2>4. StreamTypeOK'
      BY <1>1, <1>2, <1>8, <2>2, <2>3 DEF StreamTypeOK
    <2> QED
      BY <1>1, <1>2, <1>8, <2>1, <2>3, <2>4
         DEF NothingParkedIsMissed, RoomIsAwaited, Unread
  <1>9. \/ \E what \in {"null", "failed"} : promise' = [promise EXCEPT ![r] = what]
                                          /\ UNCHANGED <<kernel, parked, displaced>>
        \/ promise' = [promise EXCEPT ![r] = Sent[kernel.taken + 1]] /\ Unread > 0
           /\ kernel' = [kernel EXCEPT !.taken = @ + 1] /\ UNCHANGED <<parked, displaced>>
        \/ /\ promise' = [promise EXCEPT ![r] = "pending"] /\ UNCHANGED kernel
           /\ parked' = [parked EXCEPT !.read = r]
           /\ displaced' = displaced \cup ({parked.read} \ {None})
           /\ kernel.state # "down" /\ ~(Unread > 0) /\ ~kernel.eof
    BY DEF Read, Answer, Park
  <1> QED
    BY <1>6, <1>7, <1>8, <1>9 DEF StreamInv, Typed, Words

\* What a write puts on the wire takes room, and what does not fit is awaited.
LEMMA PutTakesRoom ==
  ASSUME StreamTypeOK, NEW w \in Writes, NEW left \in 0..WriteSize,
         NEW n, n = Smaller(left, kernel.room)
  PROVE  /\ n \in Nat /\ n <= left /\ n <= kernel.room
         /\ n = left \/ (n = kernel.room /\ n < left)
         /\ kernel.room - n \in 0..BufferSize
         /\ wire \o [k \in 1..n |-> w] \in Seq(Writes)
  <1>1. /\ n \in Nat /\ n <= left /\ n <= kernel.room
        /\ n = left \/ (n = kernel.room /\ n < left)
        /\ kernel.room - n \in 0..BufferSize
    <2>1. kernel.room \in 0..BufferSize /\ BufferSize \in Nat /\ WriteSize \in Nat
      BY Sizes, KernelFields
    <2>2. left \in Nat /\ kernel.room \in Nat /\ kernel.room <= BufferSize
      BY <2>1
    <2>3. CASE left < kernel.room
      <3>1. n = left
        BY <2>3 DEF Smaller
      <3> QED
        BY <2>1, <2>2, <2>3, <3>1
    <2>4. CASE ~(left < kernel.room)
      <3>1. n = kernel.room
        BY <2>4 DEF Smaller
      <3> QED
        BY <2>1, <2>2, <2>4, <3>1
    <2> QED
      BY <2>3, <2>4
  <1>2. [k \in 1..n |-> w] \in Seq(Writes) /\ wire \in Seq(Writes)
    <2>1. [k \in 1..n |-> w] \in [1..n -> Writes]
      OBVIOUS
    <2>2. [k \in 1..n |-> w] \in Seq(Writes)
      BY ONLY <1>1, <2>1, SeqDef
    <2> QED
      BY <2>2 DEF StreamTypeOK
  <1>3. wire \o [k \in 1..n |-> w] \in Seq(Writes)
    BY <1>2, ConcatProperties
  <1> QED
    BY <1>1, <1>3

LEMMA WriteKeeps == ASSUME StreamInv, NEW w \in Writes, Write(w) PROVE StreamInv'
  <1> USE Names, Sizes, Kinds
  <1>1. /\ Typed /\ NotYet /\ NothingParkedIsMissed /\ RoomIsAwaited /\ Expected
        /\ StreamTypeOK /\ promise \in [Calls -> Words \cup Units]
    BY DEF StreamInv, Typed
  <1>2. /\ w \in Calls /\ w # Connect /\ w # None /\ promise[w] = "none"
        /\ entry # "connecting" /\ kernel.state \in {"up", "down"}
        /\ over' \in [Calls -> Calls \cup {None}]
        /\ UNCHANGED <<edges, entry, registered, loop, events, deferred>>
    BY CallerKnows, ParkedKinds DEF Write
  <1>3. parked.read \in Reads \cup {None} /\ parked.write \in Writes \cup {None}
        /\ parked.written \in 0..WriteSize /\ displaced \subseteq Reads \cup Writes
    BY ParkedKinds
  <1>4. ASSUME NEW what \in Words \cup Units, promise' = [promise EXCEPT ![w] = what],
               parked'.read = parked.read, displaced \subseteq displaced',
               \/ what # "pending" /\ parked'.write = parked.write
               \/ parked'.write = w /\ parked.write \in displaced' \cup {None}
        PROVE  Expected' /\ promise' \in [Calls -> Words \cup Units]
    <2> SUFFICES ASSUME NEW c \in Calls, promise'[c] = "pending" PROVE Awaited(c)'
      BY <1>1, <1>4 DEF Expected
    <2>1. CASE c = w
      BY <1>1, <1>4, <2>1 DEF Awaited
    <2>2. CASE c # w
      <3>1. promise[c] = "pending" /\ c # None
        BY <1>1, <1>2, <1>4, <2>2
      <3>2. Awaited(c)
        BY <1>1, <3>1 DEF Expected
      <3> QED
        BY <1>2, <1>4, <3>1, <3>2 DEF Awaited
    <2> QED
      BY <2>1, <2>2
  <1>5. CASE promise' = [promise EXCEPT ![w] = "failed"]
             /\ UNCHANGED <<kernel, wire, parked, displaced>>
    <2>1. Expected' /\ promise' \in [Calls -> Words \cup Units]
      BY <1>4, <1>5 DEF Words
    <2>2. StreamTypeOK'
      BY <1>1, <1>2, <1>5, <2>1 DEF StreamTypeOK
    <2> QED
      BY <1>1, <1>2, <1>5, <2>1, <2>2
         DEF StreamInv, Typed, NotYet, NothingParkedIsMissed, RoomIsAwaited, Unread
  <1>6. CASE entry # "closed" /\ kernel.state # "down"
    <2> DEFINE n == Smaller(WriteSize, kernel.room)
    <2>1. /\ wire' = wire \o [k \in 1..n |-> w]
          /\ kernel' = [kernel EXCEPT !.room = @ - n, !.short = @ \/ n < WriteSize]
          /\ IF kernel.room >= WriteSize
             THEN promise' = [promise EXCEPT ![w] = "written"] /\ UNCHANGED <<parked, displaced>>
             ELSE /\ promise' = [promise EXCEPT ![w] = "pending"]
                  /\ parked' = [parked EXCEPT !.write = w, !.written = kernel.room]
                  /\ displaced' = displaced \cup ({parked.write} \ {None})
      BY <1>6 DEF Write, Put, Answer, Park
    <2>2. /\ n \in Nat /\ n <= WriteSize /\ n <= kernel.room
          /\ n = WriteSize \/ (n = kernel.room /\ n < WriteSize)
          /\ kernel.room - n \in 0..BufferSize
          /\ wire \o [k \in 1..n |-> w] \in Seq(Writes)
      BY <1>1, PutTakesRoom
    <2> HIDE DEF n
    <2>3. kernel' = [state |-> kernel.state, arrived |-> kernel.arrived, taken |-> kernel.taken,
                     eof |-> kernel.eof, room |-> kernel.room - n,
                     short |-> kernel.short \/ n < WriteSize]
      BY <1>1, <2>1, KernelFields
    <2>4. kernel' \in [state : {"opening", "up", "down"}, arrived : 0..Len(Sent),
                eof : BOOLEAN, taken : 0..Len(Sent), room : 0..BufferSize, short : BOOLEAN]
          /\ kernel'.taken <= kernel'.arrived
      BY <1>1, <2>2, <2>3, KernelFields
    <2>5. CASE kernel.room >= WriteSize
      <3>1. Expected' /\ promise' \in [Calls -> Words \cup Units]
        BY <1>4, <2>1, <2>5 DEF Words
      <3>2. StreamTypeOK'
        BY <1>1, <1>2, <2>1, <2>2, <2>4, <2>5, <3>1 DEF StreamTypeOK
      <3>3. NothingParkedIsMissed' /\ RoomIsAwaited'
        BY <1>1, <1>2, <2>1, <2>2, <2>3, <2>5, KernelFields
           DEF NothingParkedIsMissed, RoomIsAwaited, Unread
      <3> QED
        BY <1>1, <1>2, <2>3, <3>1, <3>2, <3>3 DEF StreamInv, Typed, NotYet
    <2>6. CASE ~(kernel.room >= WriteSize)
      <3>1. /\ parked' = [read |-> parked.read, write |-> w, written |-> kernel.room]
            /\ kernel.room \in 0..WriteSize /\ n = kernel.room /\ kernel'.room = 0
            /\ kernel'.short
        <4>1. kernel.room \in Nat /\ kernel.room < WriteSize
          BY <1>1, <2>6, KernelFields
        <4>2. n = kernel.room /\ n < WriteSize /\ kernel.room \in 0..WriteSize
          BY <2>2, <4>1
        <4>3. parked' = [read |-> parked.read, write |-> w, written |-> kernel.room]
          BY <1>1, <2>1, <2>6 DEF StreamTypeOK
        <4>4. kernel'.room = kernel.room - n
          BY <2>3
        <4>5. kernel'.short = (kernel.short \/ n < WriteSize)
          BY <2>3
        <4>6. kernel'.short
          BY <4>2, <4>5
        <4> QED
          BY <4>1, <4>2, <4>3, <4>4, <4>6
      <3>2. Expected' /\ promise' \in [Calls -> Words \cup Units]
        BY <1>4, <2>1, <2>6, <3>1
      <3>3. parked' \in [read : Reads \cup {None}, write : Writes \cup {None},
                         written : 0..WriteSize]
            /\ displaced' \subseteq Reads \cup Writes
        BY <1>3, <2>1, <2>6, <3>1
      <3>4. StreamTypeOK'
        BY <1>1, <1>2, <2>1, <2>2, <2>4, <3>2, <3>3 DEF StreamTypeOK
      <3>5. NothingParkedIsMissed' /\ RoomIsAwaited'
        BY <1>1, <1>2, <1>6, <2>3, <3>1, KernelFields
           DEF NothingParkedIsMissed, RoomIsAwaited, Unread
      <3> QED
        BY <1>1, <1>2, <2>3, <3>2, <3>4, <3>5 DEF StreamInv, Typed, NotYet
    <2> QED
      BY <2>5, <2>6
  <1> QED
    BY <1>5, <1>6 DEF Write, Answer

LEMMA CloseKeeps == ASSUME StreamInv, Close PROVE StreamInv'
  <1> USE Names, Sizes, Kinds
  <1>1. /\ Typed /\ NotYet /\ Expected /\ StreamTypeOK
        /\ promise \in [Calls -> Words \cup Units]
    BY DEF StreamInv, Typed
  <1>2. /\ promise[Connect] = "connected" /\ entry # "closed" /\ entry' = "closed"
        /\ promise' = [c \in Calls |->
               IF promise[c] # "pending" THEN promise[c]
               ELSE IF c = parked.read THEN "null"
               ELSE IF c = parked.write THEN "failed"
               ELSE "pending"]
        /\ parked' = [read |-> None, write |-> None, written |-> 0]
        /\ edges' = {} /\ registered' = FALSE
        /\ UNCHANGED <<kernel, wire, called, over, displaced, loop, events, deferred>>
    BY DEF Close, loopVars
  <1>3. promise' \in [Calls -> Words \cup Units]
    BY <1>1, <1>2 DEF Words
  <1>4. parked' \in [read : Reads \cup {None}, write : Writes \cup {None}, written : 0..WriteSize]
    BY <1>2
  <1>5. Typed'
    BY <1>1, <1>2, <1>3, <1>4 DEF Typed, StreamTypeOK
  <1>6. entry # "connecting" /\ kernel.state # "opening"
    BY <1>1, <1>2 DEF NotYet
  <1>7. Expected'
    BY <1>1, <1>2, <1>6 DEF Expected, Awaited
  <1>8. NotYet' /\ NothingParkedIsMissed' /\ RoomIsAwaited'
    BY <1>2, <1>6 DEF NotYet, NothingParkedIsMissed, RoomIsAwaited
  <1> QED
    BY <1>5, <1>7, <1>8 DEF StreamInv

LEMMA CancelKeeps == ASSUME StreamInv, NEW c \in Cancellable, Cancel(c) PROVE StreamInv'
  <1> USE Names, Sizes, Kinds
  <1>1. /\ Typed /\ NotYet /\ NothingParkedIsMissed /\ RoomIsAwaited /\ Expected
        /\ StreamTypeOK /\ promise \in [Calls -> Words \cup Units] /\ c \in Calls
    BY DEF StreamInv, Typed
  <1>2. /\ promise' = [promise EXCEPT ![c] = "cancelled"]
        /\ UNCHANGED <<kernel, edges, wire, entry, registered, parked, called, over,
                       displaced, loop, events, deferred>>
    BY <1>1 DEF Cancel, Settle, loopVars
  <1>3. promise' \in [Calls -> Words \cup Units]
    BY <1>1, <1>2
  <1>4. Typed'
    BY <1>1, <1>2, <1>3 DEF Typed, StreamTypeOK
  <1>5. Expected'
    BY <1>1, <1>2 DEF Expected, Awaited
  <1>6. NotYet' /\ NothingParkedIsMissed' /\ RoomIsAwaited'
    BY <1>1, <1>2 DEF NotYet, NothingParkedIsMissed, RoomIsAwaited, Unread
  <1> QED
    BY <1>4, <1>5, <1>6 DEF StreamInv

-----------------------------------------------------------------------------
LEMMA PollKeeps ==
  ASSUME StreamInv, Register \/ Poll \/ Completed
  PROVE  StreamInv'
  <1> USE Names, Sizes, Kinds
  <1>1. /\ Typed /\ NotYet /\ NothingParkedIsMissed /\ RoomIsAwaited /\ Expected
        /\ StreamTypeOK
    BY DEF StreamInv, Typed
  <1>2. UNCHANGED <<kernel, wire, entry, parked, promise, called, over, displaced, deferred>>
    BY DEF Register, Poll, Completed, callVars, loopVars
  <1>3. Expected' /\ NotYet'
    BY <1>1, <1>2 DEF Expected, Awaited, NotYet
  <1>4. CASE Register
    <2>1. /\ registered' = TRUE /\ UNCHANGED <<loop, events>>
          /\ edges' = IF kernel.state = "opening" THEN {}
                ELSE {"writable"} \cup (IF Unread > 0 \/ kernel.eof \/ kernel.state = "down"
                                        THEN {"readable"} ELSE {})
      BY <1>4 DEF Register, loopVars
    <2>2. Typed'
      BY <1>1, <1>2, <2>1 DEF Typed, StreamTypeOK
    <2>3. NothingParkedIsMissed' /\ RoomIsAwaited'
      BY <1>1, <1>2, <2>1 DEF NothingParkedIsMissed, RoomIsAwaited, Unread
    <2> QED
      BY <1>3, <2>2, <2>3 DEF StreamInv
  <1>5. CASE Poll
    <2>1. /\ events' = edges /\ edges' = {} /\ loop' = "handle" /\ loop = "poll"
          /\ UNCHANGED registered
      BY <1>5 DEF Poll
    <2>2. events = {} /\ deferred = <<>>
      BY <1>1, <2>1 DEF Typed
    <2>3. Typed'
      BY <1>1, <1>2, <2>1, <2>2 DEF Typed, StreamTypeOK
    <2>4. NothingParkedIsMissed' /\ RoomIsAwaited'
      BY <1>1, <1>2, <2>1, <2>2 DEF NothingParkedIsMissed, RoomIsAwaited, Unread
    <2> QED
      BY <1>3, <2>3, <2>4 DEF StreamInv
  <1>6. CASE Completed
    <2>1. /\ loop = "complete" /\ loop' = "poll" /\ deferred = <<>>
          /\ UNCHANGED <<edges, registered, events>>
      BY <1>6 DEF Completed
    <2>2. Typed'
      BY <1>1, <1>2, <2>1 DEF Typed, StreamTypeOK
    <2>3. NothingParkedIsMissed' /\ RoomIsAwaited'
      BY <1>1, <1>2, <2>1 DEF NothingParkedIsMissed, RoomIsAwaited, Unread
    <2> QED
      BY <1>3, <2>2, <2>3 DEF StreamInv
  <1> QED
    BY <1>4, <1>5, <1>6

LEMMA CompleteKeeps == ASSUME StreamInv, Complete PROVE StreamInv'
  <1> USE Names, Sizes, Kinds
  <1>1. /\ Typed /\ NotYet /\ NothingParkedIsMissed /\ RoomIsAwaited /\ Expected
        /\ StreamTypeOK /\ promise \in [Calls -> Words \cup Units]
        /\ deferred \in Seq(Deferred)
    BY DEF StreamInv, Typed
  <1>2. SUFFICES ASSUME NEW d, d = Head(deferred), NEW rest, rest = Tail(deferred)
                 PROVE  StreamInv'
    OBVIOUS
  <1>3. /\ deferred # <<>> /\ deferred' = rest /\ loop = "complete"
        /\ promise' = [promise EXCEPT ![d.to] = IF @ = "pending" THEN d.what ELSE @]
        /\ UNCHANGED <<kernel, edges, wire, entry, registered, parked, called, over,
                       displaced, loop, events>>
    BY <1>2 DEF Complete, Settle
  <1>4. /\ rest \in Seq(Deferred) /\ d \in Deferred /\ d = deferred[1]
        /\ DOMAIN rest = 1..(Len(deferred) - 1)
        /\ \A k \in DOMAIN rest : k + 1 \in DOMAIN deferred /\ rest[k] = deferred[k + 1]
        /\ \A k \in DOMAIN deferred : k = 1 \/ (k - 1 \in DOMAIN rest /\ rest[k - 1] = deferred[k])
    BY <1>1, <1>2, <1>3, TailParts
  <1>5. d.to \in Calls /\ d.what \in Outcomes
    BY <1>4 DEF Deferred
  <1>6. promise' \in [Calls -> Words \cup Units]
    BY <1>1, <1>3, <1>5
  <1>7. Typed'
    BY <1>1, <1>3, <1>4, <1>6 DEF Typed, StreamTypeOK
  <1>8. entry # "connecting"
    BY <1>1, <1>3 DEF NotYet
  <1>9. ASSUME NEW c \in Calls, promise'[c] = "pending" PROVE Awaited(c)'
    <2>1. promise[c] = "pending" /\ c # d.to
      BY <1>1, <1>3, <1>5, <1>9
    <2>2. Awaited(c)
      BY <1>1, <2>1 DEF Expected
    <2>3. CASE \E k \in DOMAIN deferred : deferred[k].to = c
      <3>1. PICK k \in DOMAIN deferred : deferred[k].to = c
        BY <2>3
      <3>2. k - 1 \in DOMAIN rest /\ rest[k - 1] = deferred[k]
        BY <1>4, <2>1, <3>1
      <3> QED
        BY <1>3, <3>1, <3>2 DEF Awaited
    <2> QED
      BY <1>3, <2>2, <2>3 DEF Awaited
  <1>10. NotYet' /\ NothingParkedIsMissed' /\ RoomIsAwaited'
    BY <1>1, <1>3, <1>8 DEF NotYet, NothingParkedIsMissed, RoomIsAwaited, Unread
  <1> QED
    BY <1>7, <1>9, <1>10 DEF StreamInv, Expected

\* What the three events leave for after the lock.
LEMMA DeferType ==
  ASSUME NEW c \in Calls \cup {None}, NEW what \in Outcomes
  PROVE  Defer(c, what) \in Seq(Deferred)
         /\ (c # None => DOMAIN Defer(c, what) = {1} /\ Defer(c, what)[1].to = c
                         /\ Defer(c, what)[1].what = what /\ Defer(c, what) # <<>>)
  <1>1. CASE c = None
    BY <1>1 DEF Defer
  <1>2. CASE c # None
    <2>1. [to |-> c, what |-> what] \in Deferred /\ Defer(c, what) = <<[to |-> c, what |-> what]>>
      BY <1>2 DEF Deferred, Defer
    <2> QED
      BY <2>1
  <1> QED
    BY <1>1, <1>2

LEMMA EventsDefer ==
  ASSUME StreamInv
  PROVE  /\ ConnectEvent \in Seq(Deferred) /\ WriteEvent \in Seq(Deferred)
         /\ ReadEvent \in Seq(Deferred)
         /\ \A e \in {ConnectEvent, WriteEvent, ReadEvent} :
               e = <<>> \/ DOMAIN e = {1}
         /\ ConnectEvent # <<>> => /\ ConnectEvent[1].to = Connect
                                   /\ ConnectEvent[1].what \in {"connected", "failed"}
                                   /\ entry = "connecting" /\ kernel.state # "opening"
         /\ ConnectEvent = <<>> => entry # "connecting" \/ kernel.state = "opening"
         /\ WriteEvent # <<>> => /\ WriteEvent[1].to = parked.write
                                 /\ parked.write # None /\ "writable" \in events
                                 /\ \/ kernel.state = "down" /\ WriteEvent[1].what = "failed"
                                    \/ /\ kernel.state = "up" /\ WriteEvent[1].what = "written"
                                       /\ kernel.room >= WriteSize - parked.written
         /\ WriteEvent = <<>> => \/ "writable" \notin events \/ parked.write = None
                                 \/ kernel.state = "opening"
                                 \/ kernel.state = "up"
                                    /\ kernel.room < WriteSize - parked.written
         /\ ReadEvent # <<>> => /\ ReadEvent[1].to = parked.read
                                /\ parked.read # None /\ "readable" \in events
                                /\ \/ kernel.state = "down" /\ ReadEvent[1].what = "failed"
                                   \/ /\ kernel.state = "up" /\ Unread > 0
                                      /\ ReadEvent[1].what = Sent[kernel.taken + 1]
                                   \/ /\ kernel.state = "up" /\ ~(Unread > 0)
                                      /\ ReadEvent[1].what = "null"
         /\ ReadEvent = <<>> => \/ "readable" \notin events \/ parked.read = None
                                \/ kernel.state = "opening"
                                \/ kernel.state = "up" /\ ~(Unread > 0) /\ ~kernel.eof
  <1> USE Names, Sizes, Kinds
  <1>1. /\ StreamTypeOK /\ kernel.state \in {"opening", "up", "down"}
        /\ parked.read \in Calls \cup {None} /\ parked.write \in Calls \cup {None}
    BY KernelFields DEF StreamInv, Typed, StreamTypeOK
  <1>2. <<>> \in Seq(Deferred)
    OBVIOUS
  <1>3. Unread > 0 => Sent[kernel.taken + 1] \in Outcomes
    <2>1. ASSUME Unread > 0 PROVE kernel.taken + 1 \in 1..Len(Sent)
      BY <1>1, <2>1, KernelFields DEF Unread
    <2> QED
      BY <2>1
  <1>4. /\ ConnectEvent \in Seq(Deferred)
        /\ ConnectEvent = <<>> \/ DOMAIN ConnectEvent = {1}
        /\ ConnectEvent # <<>> => /\ ConnectEvent[1].to = Connect
                                  /\ ConnectEvent[1].what \in {"connected", "failed"}
                                  /\ entry = "connecting" /\ kernel.state # "opening"
        /\ ConnectEvent = <<>> => entry # "connecting" \/ kernel.state = "opening"
    BY <1>1, <1>2, DeferType DEF ConnectEvent
  <1>5. /\ WriteEvent \in Seq(Deferred)
        /\ WriteEvent = <<>> \/ DOMAIN WriteEvent = {1}
        /\ WriteEvent # <<>> => /\ WriteEvent[1].to = parked.write
                                /\ parked.write # None /\ "writable" \in events
                                /\ \/ kernel.state = "down" /\ WriteEvent[1].what = "failed"
                                   \/ /\ kernel.state = "up" /\ WriteEvent[1].what = "written"
                                      /\ ~(kernel.room < WriteSize - parked.written)
        /\ WriteEvent = <<>> => \/ "writable" \notin events \/ parked.write = None
                                \/ kernel.state = "opening"
                                \/ kernel.state = "up"
                                   /\ kernel.room < WriteSize - parked.written
    <2> DEFINE idle == "writable" \notin events \/ parked.write = None
                       \/ kernel.state = "opening"
    <2>1. CASE idle
      BY <1>2, <2>1 DEF WriteEvent
    <2>2. CASE ~idle /\ kernel.state = "down"
      <3>1. WriteEvent = Defer(parked.write, "failed")
        BY <2>2 DEF WriteEvent
      <3> QED
        BY <1>1, <2>2, <3>1, DeferType
    <2>3. CASE ~idle /\ kernel.state = "up" /\ kernel.room < WriteSize - parked.written
      BY <1>2, <2>3 DEF WriteEvent
    <2>4. CASE ~idle /\ kernel.state = "up" /\ ~(kernel.room < WriteSize - parked.written)
      <3>1. WriteEvent = Defer(parked.write, "written")
        BY <2>4 DEF WriteEvent
      <3> QED
        BY <1>1, <2>4, <3>1, DeferType
    <2> QED
      BY <1>1, <2>1, <2>2, <2>3, <2>4
  <1>6. /\ ReadEvent \in Seq(Deferred)
        /\ ReadEvent = <<>> \/ DOMAIN ReadEvent = {1}
        /\ ReadEvent # <<>> => /\ ReadEvent[1].to = parked.read
                               /\ parked.read # None /\ "readable" \in events
                               /\ \/ kernel.state = "down" /\ ReadEvent[1].what = "failed"
                                  \/ /\ kernel.state = "up" /\ Unread > 0
                                     /\ ReadEvent[1].what = Sent[kernel.taken + 1]
                                  \/ /\ kernel.state = "up" /\ ~(Unread > 0)
                                     /\ ReadEvent[1].what = "null"
        /\ ReadEvent = <<>> => \/ "readable" \notin events \/ parked.read = None
                               \/ kernel.state = "opening"
                               \/ kernel.state = "up" /\ ~(Unread > 0) /\ ~kernel.eof
    <2> DEFINE idle == "readable" \notin events \/ parked.read = None
                       \/ kernel.state = "opening"
    <2>1. CASE idle
      BY <1>2, <2>1 DEF ReadEvent
    <2>2. CASE ~idle /\ kernel.state = "down"
      <3>1. ReadEvent = Defer(parked.read, "failed")
        BY <2>2 DEF ReadEvent
      <3> QED
        BY <1>1, <2>2, <3>1, DeferType
    <2>3. CASE ~idle /\ kernel.state = "up" /\ Unread > 0
      <3>1. ReadEvent = Defer(parked.read, Sent[kernel.taken + 1])
        BY <2>3 DEF ReadEvent
      <3> QED
        BY <1>1, <1>3, <2>3, <3>1, DeferType
    <2>4. CASE ~idle /\ kernel.state = "up" /\ ~(Unread > 0) /\ kernel.eof
      <3>1. ReadEvent = Defer(parked.read, "null")
        BY <2>4 DEF ReadEvent
      <3> QED
        BY <1>1, <2>4, <3>1, DeferType
    <2>5. CASE ~idle /\ kernel.state = "up" /\ ~(Unread > 0) /\ ~kernel.eof
      BY <1>2, <2>5 DEF ReadEvent
    <2> QED
      BY <1>1, <2>1, <2>2, <2>3, <2>4, <2>5
  <1>7. kernel.room < WriteSize - parked.written \/ kernel.room >= WriteSize - parked.written
    BY <1>1, KernelFields DEF StreamTypeOK
  <1> QED
    BY <1>4, <1>5, <1>6, <1>7

\* u is three short sequences, one behind the other.
InTurn(u, a, b, c, S) ==
    /\ u \in Seq(S)
    /\ \A e \in {a, b, c} : e # <<>> => \E k \in DOMAIN u : u[k] = e[1]
    /\ \A k \in DOMAIN u :
          \/ k = 1 /\ a # <<>> /\ u[k] = a[1]
          \/ k = Len(a) + 1 /\ b # <<>> /\ u[k] = b[1]
          \/ k = Len(a) + Len(b) + 1 /\ c # <<>> /\ u[k] = c[1]

LEMMA ThreeParts ==
  ASSUME NEW S, NEW a \in Seq(S), NEW b \in Seq(S), NEW c \in Seq(S),
         \A e \in {a, b, c} : e = <<>> \/ DOMAIN e = {1}
  PROVE  InTurn(a \o b \o c, a, b, c, S)
  <1> SUFFICES ASSUME NEW ab, ab = a \o b, NEW abc, abc = ab \o c
               PROVE  InTurn(abc, a, b, c, S)
    OBVIOUS
  <1>7. IsConcat(ab, a, b, S)
    BY ConcatOf
  <1>1. /\ ab \in Seq(S) /\ DOMAIN ab = 1..(Len(a) + Len(b))
        /\ \A k \in DOMAIN a : k \in DOMAIN ab /\ ab[k] = a[k]
        /\ \A k \in DOMAIN b : Len(a) + k \in DOMAIN ab /\ ab[Len(a) + k] = b[k]
        /\ \A k \in DOMAIN ab :
               \/ k \in DOMAIN a /\ ab[k] = a[k]
               \/ k \notin DOMAIN a /\ k - Len(a) \in DOMAIN b /\ ab[k] = b[k - Len(a)]
    BY ONLY <1>7 DEF IsConcat
  <1>8. IsConcat(abc, ab, c, S)
    BY <1>1, ConcatOf
  <1>2. /\ abc \in Seq(S) /\ DOMAIN abc = 1..(Len(ab) + Len(c))
        /\ \A k \in DOMAIN ab : k \in DOMAIN abc /\ abc[k] = ab[k]
        /\ \A k \in DOMAIN c : Len(ab) + k \in DOMAIN abc /\ abc[Len(ab) + k] = c[k]
        /\ \A k \in DOMAIN abc :
               \/ k \in DOMAIN ab /\ abc[k] = ab[k]
               \/ k \notin DOMAIN ab /\ k - Len(ab) \in DOMAIN c /\ abc[k] = c[k - Len(ab)]
    BY ONLY <1>8 DEF IsConcat
  <1>3. /\ Len(a) \in Nat /\ Len(b) \in Nat /\ Len(c) \in Nat /\ Len(ab) = Len(a) + Len(b)
        /\ DOMAIN a = 1..Len(a) /\ DOMAIN b = 1..Len(b) /\ DOMAIN c = 1..Len(c)
    BY <1>1, LenProperties, ConcatProperties
  <1>4. /\ a # <<>> => 1 \in DOMAIN abc /\ abc[1] = a[1]
        /\ b # <<>> => Len(a) + 1 \in DOMAIN abc /\ abc[Len(a) + 1] = b[1]
        /\ c # <<>> => Len(ab) + 1 \in DOMAIN abc /\ abc[Len(ab) + 1] = c[1]
    <2>1. a # <<>> => 1 \in DOMAIN a
      OBVIOUS
    <2>2. b # <<>> => 1 \in DOMAIN b
      OBVIOUS
    <2>3. c # <<>> => 1 \in DOMAIN c
      OBVIOUS
    <2> QED
      BY ONLY <1>1, <1>2, <2>1, <2>2, <2>3
  <1>5. /\ abc \in Seq(S)
        /\ \A e \in {a, b, c} : e # <<>> => \E k \in DOMAIN abc : abc[k] = e[1]
    BY <1>2, <1>4
  <1>6. ASSUME NEW k \in DOMAIN abc
        PROVE  \/ k = 1 /\ a # <<>> /\ abc[k] = a[1]
               \/ k = Len(a) + 1 /\ b # <<>> /\ abc[k] = b[1]
               \/ k = Len(a) + Len(b) + 1 /\ c # <<>> /\ abc[k] = c[1]
    <2>1. \A e \in {a, b, c} : \A i \in DOMAIN e : i = 1 /\ e # <<>>
      OBVIOUS
    <2>2. k \in Nat
      BY <1>2, <1>3
    <2>3. CASE k \in DOMAIN a /\ abc[k] = a[k]
      BY <2>1, <2>3
    <2>4. CASE k - Len(a) \in DOMAIN b /\ abc[k] = b[k - Len(a)]
      <3>1. k - Len(a) = 1 /\ b # <<>>
        BY <2>1, <2>4
      <3>2. k = Len(a) + 1
        BY <1>3, <2>2, <3>1
      <3> QED
        BY <2>4, <3>1, <3>2
    <2>5. CASE k - Len(ab) \in DOMAIN c /\ abc[k] = c[k - Len(ab)]
      <3>1. k - Len(ab) = 1 /\ c # <<>>
        BY <2>1, <2>5
      <3>2. k = Len(a) + Len(b) + 1
        BY <1>3, <2>2, <3>1
      <3> QED
        BY <2>5, <3>1, <3>2
    <2> QED
      BY <1>1, <1>2, <2>3, <2>4, <2>5
  <1> QED
    BY <1>5, <1>6 DEF InTurn

\* What the event loop does under the lock to a connection that is not closed.
LEMMA HandleDoes ==
  ASSUME StreamInv, Handle, entry # "closed"
  PROVE  \E n \in Nat :
         LET reads == ReadEvent # <<>> /\ kernel.state = "up" /\ Unread > 0
         IN
         /\ loop = "handle" /\ deferred = <<>> /\ loop' = "complete" /\ events' = {}
         /\ deferred' = ConnectEvent \o WriteEvent \o ReadEvent
         /\ entry' = IF entry = "connecting" /\ kernel.state = "opening"
                     THEN "connecting" ELSE "open"
         /\ wire' = wire \o [k \in 1..n |-> parked.write]
         /\ kernel' = [state |-> kernel.state, arrived |-> kernel.arrived,
                taken |-> kernel.taken + (IF reads THEN 1 ELSE 0), eof |-> kernel.eof,
                room |-> kernel.room - n, short |-> kernel'.short]
         /\ kernel'.short \in BOOLEAN /\ (kernel.short => kernel'.short)
         /\ parked' = [read |-> IF ReadEvent = <<>> THEN parked.read ELSE None,
                       write |-> IF WriteEvent = <<>> THEN parked.write ELSE None,
                       written |-> IF WriteEvent = <<>> THEN parked.written + n ELSE 0]
         /\ n <= kernel.room /\ parked.written + n <= WriteSize
         /\ n > 0 => parked.write # None
         /\ "writable" \in events /\ parked.write # None /\ kernel.state = "up" =>
               IF WriteEvent = <<>> THEN n = kernel.room /\ kernel'.short
               ELSE parked.written + n = WriteSize
         /\ UNCHANGED <<edges, registered, promise, called, over, displaced>>
  <1> USE Names, Sizes, Kinds
  <1>1. /\ StreamTypeOK /\ kernel.state \in {"opening", "up", "down"}
        /\ parked.written \in 0..WriteSize /\ loop = "handle" /\ deferred = <<>>
        /\ kernel.room \in Nat
    BY KernelFields DEF StreamInv, Typed, StreamTypeOK, Handle
  <1> DEFINE left == WriteSize - parked.written
             goesOn == "writable" \in events /\ parked.write # None /\ kernel.state = "up"
             n == IF goesOn THEN Smaller(left, kernel.room) ELSE 0
             reads == ReadEvent # <<>> /\ kernel.state = "up" /\ Unread > 0
  <1>2. /\ loop' = "complete" /\ events' = {}
        /\ deferred' = ConnectEvent \o WriteEvent \o ReadEvent
        /\ entry' = IF entry = "connecting" /\ kernel.state = "opening"
                    THEN "connecting" ELSE "open"
        /\ wire' = wire \o [k \in 1..n |-> parked.write]
        /\ kernel' = [kernel EXCEPT !.room = @ - n, !.short = @ \/ (goesOn /\ n < left),
                                    !.taken = @ + (IF reads THEN 1 ELSE 0)]
        /\ parked' = [read |-> IF ReadEvent = <<>> THEN parked.read ELSE None,
                      write |-> IF WriteEvent = <<>> THEN parked.write ELSE None,
                      written |-> IF WriteEvent = <<>> THEN parked.written + n ELSE 0]
        /\ UNCHANGED <<edges, registered, promise, called, over, displaced>>
    BY DEF Handle, callVars
  <1>3. left \in 0..WriteSize /\ WriteSize = parked.written + left
    BY <1>1
  <1>4. goesOn => /\ n \in Nat /\ n <= left /\ n <= kernel.room
                  /\ n = left \/ (n = kernel.room /\ n < left)
    <2>1. CASE left < kernel.room
      BY <1>1, <1>3, <2>1 DEF Smaller
    <2>2. CASE ~(left < kernel.room)
      BY <1>1, <1>3, <2>2 DEF Smaller
    <2> QED
      BY <2>1, <2>2
  <1>5. ~goesOn => n = 0
    OBVIOUS
  <1>6. goesOn => IF WriteEvent = <<>> THEN kernel.room < left ELSE kernel.room >= left
    BY EventsDefer
  <1>8. kernel' = [state |-> kernel.state, arrived |-> kernel.arrived,
                taken |-> kernel.taken + (IF reads THEN 1 ELSE 0), eof |-> kernel.eof,
                room |-> kernel.room - n, short |-> kernel.short \/ (goesOn /\ n < left)]
    <2> HIDE DEF n, goesOn, left, reads
    <2> QED
      BY <1>1, <1>2, KernelFields
  <1> HIDE DEF n, goesOn, left, reads
  <1>7. n \in Nat /\ n <= kernel.room /\ parked.written + n <= WriteSize
    BY <1>1, <1>3, <1>4, <1>5
  <1>9. kernel'.short = (kernel.short \/ (goesOn /\ n < left))
    BY <1>8
  <1>10. goesOn => IF WriteEvent = <<>> THEN n = kernel.room /\ kernel'.short
                   ELSE parked.written + n = WriteSize
    <2>1. CASE goesOn /\ WriteEvent = <<>>
      <3>1. n = kernel.room /\ n < left
        BY <1>1, <1>3, <1>4, <1>6, <2>1
      <3> QED
        BY <1>9, <2>1, <3>1
    <2>2. CASE goesOn /\ WriteEvent # <<>>
      <3>1. n = left
        BY <1>1, <1>3, <1>4, <1>6, <2>2
      <3> QED
        BY <1>3, <2>2, <3>1
    <2> QED
      BY <2>1, <2>2
  <1>11. n > 0 => parked.write # None
    BY <1>5 DEF goesOn
  <1>12. kernel' = [state |-> kernel.state, arrived |-> kernel.arrived,
                taken |-> kernel.taken + (IF reads THEN 1 ELSE 0), eof |-> kernel.eof,
                room |-> kernel.room - n, short |-> kernel'.short]
    BY <1>8, <1>9
  <1>13. kernel'.short \in BOOLEAN /\ (kernel.short => kernel'.short)
    BY <1>9
  <1> USE <1>7
  <1> WITNESS n \in Nat
  <1> QED
    BY <1>1, <1>2, <1>7, <1>10, <1>11, <1>12, <1>13 DEF goesOn, reads

LEMMA HandleKeeps == ASSUME StreamInv, Handle PROVE StreamInv'
  <1> USE Names, Sizes, Kinds
  <1>1. /\ Typed /\ NotYet /\ NothingParkedIsMissed /\ RoomIsAwaited /\ Expected
        /\ StreamTypeOK /\ promise \in [Calls -> Words \cup Units]
        /\ events \subseteq {"readable", "writable"}
    BY DEF StreamInv, Typed, StreamTypeOK
  <1>2. CASE entry = "closed"
    <2>1. /\ loop = "handle" /\ loop' = "complete" /\ events' = {} /\ entry' = "closed"
          /\ UNCHANGED <<kernel, edges, wire, registered, parked, promise, called,
                         over, displaced, deferred>>
      BY <1>2 DEF Handle, callVars
    <2>2. Typed'
      BY <1>1, <2>1 DEF Typed, StreamTypeOK
    <2>3. NotYet' /\ NothingParkedIsMissed' /\ RoomIsAwaited' /\ Expected'
      BY <1>1, <1>2, <2>1 DEF NotYet, NothingParkedIsMissed, RoomIsAwaited, Expected, Awaited
    <2> QED
      BY <2>2, <2>3 DEF StreamInv
  <1>3. CASE entry # "closed"
    <2> DEFINE reads == ReadEvent # <<>> /\ kernel.state = "up" /\ Unread > 0
               due == ConnectEvent \o WriteEvent \o ReadEvent
    <2>1. PICK n \in Nat :
         /\ loop = "handle" /\ deferred = <<>> /\ loop' = "complete" /\ events' = {}
         /\ deferred' = due
         /\ entry' = IF entry = "connecting" /\ kernel.state = "opening"
                     THEN "connecting" ELSE "open"
         /\ wire' = wire \o [k \in 1..n |-> parked.write]
         /\ kernel' = [state |-> kernel.state, arrived |-> kernel.arrived,
                taken |-> kernel.taken + (IF reads THEN 1 ELSE 0), eof |-> kernel.eof,
                room |-> kernel.room - n, short |-> kernel'.short]
         /\ kernel'.short \in BOOLEAN /\ (kernel.short => kernel'.short)
         /\ parked' = [read |-> IF ReadEvent = <<>> THEN parked.read ELSE None,
                       write |-> IF WriteEvent = <<>> THEN parked.write ELSE None,
                       written |-> IF WriteEvent = <<>> THEN parked.written + n ELSE 0]
         /\ n <= kernel.room /\ parked.written + n <= WriteSize
         /\ n > 0 => parked.write # None
         /\ "writable" \in events /\ parked.write # None /\ kernel.state = "up" =>
               IF WriteEvent = <<>> THEN n = kernel.room /\ kernel'.short
               ELSE parked.written + n = WriteSize
         /\ UNCHANGED <<edges, registered, promise, called, over, displaced>>
      BY <1>3, HandleDoes
    <2>2. InTurn(due, ConnectEvent, WriteEvent, ReadEvent, Deferred)
      <3>1. /\ ConnectEvent \in Seq(Deferred) /\ WriteEvent \in Seq(Deferred)
            /\ ReadEvent \in Seq(Deferred)
            /\ \A e \in {ConnectEvent, WriteEvent, ReadEvent} : e = <<>> \/ DOMAIN e = {1}
        BY EventsDefer
      <3> QED
        BY <3>1, ThreeParts
    <2>18. /\ due \in Seq(Deferred)
           /\ \A e \in {ConnectEvent, WriteEvent, ReadEvent} : e # <<>> =>
                \E k \in DOMAIN due : due[k] = e[1]
      BY <2>2 DEF InTurn
    <2> HIDE DEF due, reads
    <2>3. wire' \in Seq(Writes)
      <3>1. [k \in 1..n |-> parked.write] \in Seq(Writes) /\ wire \in Seq(Writes)
        <4>1. wire \in Seq(Writes) /\ parked.write \in Writes \cup {None}
          BY <1>1 DEF StreamTypeOK
        <4>2. \A k \in 1..n : parked.write \in Writes
          BY <2>1, <4>1
        <4> QED
          BY <4>1, <4>2
      <3> QED
        BY <2>1, <3>1, ConcatProperties
    <2>4. /\ kernel.taken + (IF reads THEN 1 ELSE 0) \in 0..Len(Sent)
          /\ kernel.taken + (IF reads THEN 1 ELSE 0) <= kernel.arrived
      <3>1. CASE reads
        BY <1>1, <3>1, KernelFields DEF reads, Unread
      <3>2. CASE ~reads
        BY <1>1, <3>2, KernelFields
      <3> QED
        BY <3>1, <3>2
    <2>5. kernel.room - n \in 0..BufferSize
      BY <1>1, <2>1, KernelFields
    <2>6. kernel' \in [state : {"opening", "up", "down"}, arrived : 0..Len(Sent),
                eof : BOOLEAN, taken : 0..Len(Sent), room : 0..BufferSize, short : BOOLEAN]
          /\ kernel'.taken <= kernel'.arrived
      BY <1>1, <2>1, <2>4, <2>5, KernelFields
    <2>7. parked' \in [read : Reads \cup {None}, write : Writes \cup {None},
                       written : 0..WriteSize]
      <3>1. /\ parked.read \in Reads \cup {None} /\ parked.write \in Writes \cup {None}
            /\ parked.written \in 0..WriteSize
        BY <1>1 DEF StreamTypeOK
      <3>2. parked.written + n \in 0..WriteSize
        BY <2>1, <3>1
      <3> QED
        BY <2>1, <3>1, <3>2
    <2>8. StreamTypeOK'
      BY <1>1, <2>1, <2>3, <2>6, <2>7 DEF StreamTypeOK
    <2>9. Typed'
      BY <1>1, <2>1, <2>18, <2>8 DEF Typed
    <2>10. kernel'.state = kernel.state /\ kernel'.eof = kernel.eof
           /\ kernel'.arrived = kernel.arrived /\ kernel'.room = kernel.room - n
           /\ kernel'.taken = kernel.taken + (IF reads THEN 1 ELSE 0)
      BY <2>1
    <2>11. entry' = "connecting" => ConnectEvent = <<>> /\ WriteEvent = <<>> /\ ReadEvent = <<>>
      BY <1>1, <2>1, EventsDefer DEF NotYet
    <2>12. NotYet'
      <3>1. ConnectEvent = <<>> /\ WriteEvent = <<>> /\ ReadEvent = <<>> => due = <<>>
        BY DEF due
      <3> QED
        BY <1>1, <2>1, <2>10, <2>11, <3>1 DEF NotYet
    <2>13. Expected'
      <3> SUFFICES ASSUME NEW c \in Calls, promise[c] = "pending"
                   PROVE  \/ c = parked'.read \/ c = parked'.write
                          \/ c = Connect /\ entry' = "connecting"
                          \/ \E k \in DOMAIN due : due[k].to = c
                          \/ c \in displaced
        BY <2>1 DEF Expected, Awaited
      <3>1. c \in {parked.read, parked.write} \/ (c = Connect /\ entry = "connecting")
            \/ c \in displaced
        BY <1>1, <2>1 DEF Expected, Awaited
      <3>2. CASE c = parked.read
        BY <2>1, <2>18, <3>2, EventsDefer
      <3>3. CASE c = parked.write
        BY <2>1, <2>18, <3>3, EventsDefer
      <3>4. CASE c = Connect /\ entry = "connecting"
        BY <2>1, <2>18, <3>4, EventsDefer
      <3> QED
        BY <3>1, <3>2, <3>3, <3>4
    <2>14. ASSUME entry' = "open", registered, kernel.state # "opening", parked'.read # None,
                  kernel'.arrived - kernel'.taken > 0 \/ kernel.eof \/ kernel.state = "down"
           PROVE  "readable" \in edges
      <3>1. ReadEvent = <<>> /\ parked.read # None /\ ~reads
        BY <2>1, <2>14 DEF reads
      <3>2. kernel'.arrived - kernel'.taken > 0 => Unread > 0
        BY <1>1, <2>10, <3>1, KernelFields DEF Unread
      <3>3. "readable" \notin events
        BY <2>14, <3>1, <3>2, EventsDefer
      <3>4. entry = "open"
        BY <1>1, <1>3, <3>1 DEF StreamTypeOK, NotYet
      <3> QED
        BY <1>1, <2>14, <3>1, <3>2, <3>3, <3>4 DEF NothingParkedIsMissed
    <2>15. ASSUME entry' = "open", registered, kernel.state # "opening", parked'.write # None
           PROVE  /\ kernel'.room > 0 \/ kernel.state = "down" => "writable" \in edges
                  /\ kernel.state = "up" => kernel'.short \/ "writable" \in edges
                                            \/ kernel'.room > 0
      <3>1. WriteEvent = <<>> /\ parked.write # None
        BY <2>1, <2>15
      <3>2. entry = "open" /\ kernel.state \in {"up", "down"} /\ kernel.room \in Nat
        BY <1>1, <1>3, <2>15, <3>1, KernelFields DEF StreamTypeOK, NotYet
      <3>3. CASE "writable" \in events
        <4>1. kernel.state = "up"
          BY <2>15, <3>1, <3>2, <3>3, EventsDefer
        <4>2. n = kernel.room /\ kernel'.short
          BY <2>1, <3>1, <3>3, <4>1
        <4> QED
          BY <2>10, <3>2, <4>1, <4>2
      <3>4. CASE "writable" \notin events
        <4>1. kernel'.room > 0 => kernel.room > 0
          BY <2>1, <2>10, <3>2
        <4>2. kernel.room > 0 \/ kernel.state = "down" => "writable" \in edges
          BY <1>1, <2>15, <3>1, <3>2, <3>4 DEF NothingParkedIsMissed
        <4>3. kernel.room = 0 /\ kernel.state = "up" => kernel.short \/ "writable" \in edges
          BY <1>1, <2>15, <3>1, <3>2, <3>4 DEF RoomIsAwaited
        <4> QED
          BY <2>1, <3>2, <4>1, <4>2, <4>3
      <3> QED
        BY <3>3, <3>4
    <2>16. NothingParkedIsMissed'
      BY <2>1, <2>10, <2>14, <2>15 DEF NothingParkedIsMissed, Unread
    <2>17. RoomIsAwaited'
      BY <2>1, <2>10, <2>15 DEF RoomIsAwaited
    <2> QED
      BY <2>9, <2>12, <2>13, <2>16, <2>17 DEF StreamInv
  <1> QED
    BY <1>2, <1>3

LEMMA StreamStep == StreamInv /\ [StreamNext]_kvars => StreamInv'
  <1> SUFFICES ASSUME StreamInv, [StreamNext]_kvars PROVE StreamInv'
    OBVIOUS
  <1>1. CASE UNCHANGED kvars
    BY <1>1 DEF kvars, callVars, loopVars, StreamInv, Typed, StreamTypeOK, NotYet,
                NothingParkedIsMissed, RoomIsAwaited, Unread, Expected, Awaited
  <1> QED
    BY <1>1, KernelKeeps, ReadKeeps, WriteKeeps, CloseKeeps, CancelKeeps, PollKeeps,
       HandleKeeps, CompleteKeeps DEF StreamNext, EventLoop

-----------------------------------------------------------------------------
\* Calls come in an order, each once.
CallOrder ==
    /\ called \in Seq(Reads \cup Writes)
    /\ \A c \in Reads \cup Writes : promise[c] # "none" => \E i \in DOMAIN called : called[i] = c
    /\ \A i \in DOMAIN called : promise[called[i]] # "none"
    /\ \A i, j \in DOMAIN called : i < j => called[i] # called[j]

\* A call is in one place: parked, about to be completed, or displaced.
Hands ==
    /\ parked.read # None => promise[parked.read] \in {"pending", "cancelled"}
    /\ parked.write # None => promise[parked.write] \in {"pending", "cancelled"}
    /\ \A k \in DOMAIN deferred :
          /\ promise[deferred[k].to] \in {"pending", "cancelled"}
          /\ deferred[k].to \notin {parked.read, parked.write}
          /\ deferred[k].what \in Units => deferred[k].to \in Reads
          /\ deferred[k].what = "written" => deferred[k].to \in Writes
    /\ \A k, l \in DOMAIN deferred : deferred[k].to = deferred[l].to => k = l
    /\ \A c \in Calls : promise[c] \in Units => c \in Reads
    /\ promise[Connect] # "none"
    /\ entry = "connecting" => promise[Connect] \in {"pending", "cancelled"}
    /\ \A c \in displaced : /\ promise[c] \in {"pending", "cancelled"}
                            /\ c \notin {parked.read, parked.write}
                            /\ \A k \in DOMAIN deferred : deferred[k].to # c

\* What was called after a parked call was called over it, and a parked call
\* over nothing that can still be answered.
CalledOver(p, kind) ==
    \A i, j \in DOMAIN called :
        i < j /\ called[i] = p /\ called[j] \in kind => over[called[j]] = p
Overtaken ==
    /\ CalledOver(parked.read, Reads) /\ CalledOver(parked.write, Writes)
    /\ parked.read # None => over[parked.read] \in displaced \cup {None}

\* Units are taken one by one, and given to reads in the order of the calls,
\* save that a call served over a parked one is ahead of it.
Gets(c, m) ==
    \/ promise[c] = Sent[m]
    \/ /\ promise[c] = "pending"
       /\ \E k \in DOMAIN deferred : deferred[k].to = c /\ deferred[k].what = Sent[m]
UnitsTaken ==
    /\ \A c \in Calls, m \in DOMAIN Sent : Gets(c, m) => c \in Reads /\ m <= kernel.taken
    /\ \A i, j \in DOMAIN called, m, n \in DOMAIN Sent :
          i < j /\ Gets(called[i], m) /\ Gets(called[j], n) =>
          IF over[called[j]] = called[i] THEN n < m ELSE m < n

\* A unit that nobody will get was taken for a read that was cancelled, each for
\* one of its own.
Lost == {u \in 1..kernel.taken :
            /\ \A r \in Reads : promise[r] # Sent[u]
            /\ \A k \in DOMAIN deferred : deferred[k].what # Sent[u]}
Swallowers == {r \in Reads : /\ promise[r] = "cancelled" /\ r # parked.read
                             /\ \A k \in DOMAIN deferred : deferred[k].to # r}
LossesAreCancelled == Cardinality(Lost) <= Cardinality(Swallowers)

WholeWrites ==
    \A w \in Writes :
       /\ promise[w] = "none" => Occurs(w, wire) = 0
       /\ parked.write = w => Occurs(w, wire) = parked.written
       /\ promise[w] = "written" => Occurs(w, wire) = WriteSize
       /\ \A k \in DOMAIN deferred : deferred[k].to = w /\ deferred[k].what = "written" =>
               Occurs(w, wire) = WriteSize

WireOrder ==
    /\ \A i \in DOMAIN wire : promise[wire[i]] # "none"
    /\ \A i, j \in DOMAIN wire :
          i < j /\ wire[i] # wire[j] =>
          \A m, n \in DOMAIN called :
              called[m] = wire[i] /\ called[n] = wire[j] => m < n \/ over[wire[i]] = wire[j]

BytesInv ==
    /\ CallOrder /\ Hands /\ Overtaken /\ UnitsTaken /\ LossesAreCancelled
    /\ WholeWrites /\ WireOrder

LEMMA BytesStart == StreamInit => BytesInv
  <1> SUFFICES ASSUME StreamInit PROVE BytesInv
    OBVIOUS
  <1> USE Names, Sizes, Kinds
  <1>1. /\ wire = <<>> /\ called = <<>> /\ deferred = <<>>
        /\ parked = [read |-> None, write |-> None, written |-> 0]
        /\ kernel.taken = 0 /\ displaced = {}
        /\ \A c \in Calls : promise[c] = IF c # Connect THEN "none" ELSE promise[Connect]
        /\ promise[Connect] \in {"pending", "connected"}
        /\ entry = "connecting" => promise[Connect] = "pending"
    BY DEF StreamInit
  <1>2. CallOrder
    BY <1>1 DEF CallOrder
  <1>3. Hands
    BY <1>1 DEF Hands, Words
  <1>4. Overtaken /\ UnitsTaken
    BY <1>1 DEF Overtaken, CalledOver, UnitsTaken, Gets, Words
  <1>5. LossesAreCancelled
    <2>1. Lost = {} /\ Swallowers = {}
      BY <1>1 DEF Lost, Swallowers
    <2> QED
      BY <2>1, FS_EmptySet DEF LossesAreCancelled
  <1>6. WholeWrites
    <2>1. \A w : Occurs(w, wire) = 0
      BY <1>1, OccursNever
    <2> QED
      BY <1>1, <2>1 DEF WholeWrites
  <1>7. WireOrder
    BY <1>1 DEF WireOrder
  <1> QED
    BY <1>2, <1>3, <1>4, <1>5, <1>6, <1>7 DEF BytesInv

\* Steps that touch neither promises, what is parked or deferred, the calls, the
\* wire nor what was taken.
LEMMA BytesUntouched ==
  ASSUME BytesInv, UNCHANGED <<entry, wire, parked, promise, called, over, displaced, deferred>>,
         kernel'.taken = kernel.taken
  PROVE  BytesInv'
  <1>1. Lost' = Lost /\ Swallowers' = Swallowers
    BY DEF Lost, Swallowers
  <1>2. LossesAreCancelled'
    BY <1>1 DEF BytesInv, LossesAreCancelled
  <1> QED
    BY <1>2 DEF BytesInv, CallOrder, Hands, Overtaken, CalledOver, UnitsTaken, Gets,
                WholeWrites, WireOrder

-----------------------------------------------------------------------------
\* The reads that were cancelled are finitely many, since they were called.
LEMMA CancelledReads ==
  ASSUME NEW s \in Seq(Reads \cup Writes), NEW p,
         \A c \in Reads \cup Writes : p[c] # "none" => \E i \in DOMAIN s : s[i] = c
  PROVE  IsFiniteSet({r \in Reads : p[r] = "cancelled"})
  <1> DEFINE D == {i \in DOMAIN s : s[i] \in Reads /\ p[s[i]] = "cancelled"}
             T == {r \in Reads : p[r] = "cancelled"}
             f == [i \in D |-> s[i]]
  <1>1. DOMAIN s = 1..Len(s) /\ Len(s) \in Nat
    BY LenProperties
  <1>2. IsFiniteSet(D)
    <2>1. IsFiniteSet(1..Len(s))
      BY <1>1, FS_Interval
    <2>2. D \subseteq DOMAIN s
      OBVIOUS
    <2> HIDE DEF D
    <2>3. D \in SUBSET (1..Len(s))
      BY ONLY <1>1, <2>2
    <2> QED
      BY <2>1, <2>3, FS_Subset
  <1>3. f \in [D -> T]
    OBVIOUS
  <1>4. \A t \in T : \E i \in D : f[i] = t
    OBVIOUS
  <1>5. f \in Surjection(D, T)
    BY <1>3, <1>4, Fun_IsSurj
  <1> QED
    BY <1>2, <1>5, FS_Surjection

LEMMA LossesFinite ==
  ASSUME StreamInv, CallOrder
  PROVE  /\ IsFiniteSet(Lost) /\ IsFiniteSet(Swallowers)
         /\ Cardinality(Lost) \in Nat /\ Cardinality(Swallowers) \in Nat
  <1>1. kernel.taken \in Nat
    BY Sizes, KernelFields DEF StreamInv, Typed
  <1>2. IsFiniteSet(1..kernel.taken)
    BY <1>1, FS_Interval
  <1>3. IsFiniteSet({r \in Reads : promise[r] = "cancelled"})
    BY CancelledReads DEF CallOrder
  <1>4. Lost \in SUBSET (1..kernel.taken)
    BY DEF Lost
  <1>5. Swallowers \in SUBSET {r \in Reads : promise[r] = "cancelled"}
    BY DEF Swallowers
  <1>6. IsFiniteSet(Lost) /\ IsFiniteSet(Swallowers)
    BY <1>2, <1>3, <1>4, <1>5, FS_Subset
  <1> QED
    BY <1>6, FS_CardinalityType

LEMMA LossesKept ==
  ASSUME StreamInv, CallOrder, LossesAreCancelled, CallOrder',
         Lost' \subseteq Lost, Swallowers \subseteq Swallowers'
  PROVE  LossesAreCancelled'
  <1>1. IsFiniteSet(Lost) /\ Cardinality(Swallowers) \in Nat /\ Cardinality(Lost) \in Nat
    BY LossesFinite
  <1>2. IsFiniteSet({r \in Reads : promise'[r] = "cancelled"})
    BY CancelledReads DEF CallOrder
  <1>3. Swallowers' \in SUBSET {r \in Reads : promise'[r] = "cancelled"}
    BY DEF Swallowers
  <1>4. IsFiniteSet(Swallowers')
    BY <1>2, <1>3, FS_Subset
  <1> SUFFICES ASSUME NEW L, L = Lost', NEW W, W = Swallowers'
               PROVE  Cardinality(L) <= Cardinality(W)
    BY DEF LossesAreCancelled
  <1>5. IsFiniteSet(L) /\ Cardinality(L) <= Cardinality(Lost)
    BY <1>1, FS_Subset
  <1>6. Cardinality(Swallowers) <= Cardinality(W)
    BY <1>4, FS_Subset
  <1>7. Cardinality(L) \in Nat /\ Cardinality(W) \in Nat
    BY <1>4, <1>5, FS_CardinalityType
  <1> QED
    BY <1>1, <1>5, <1>6, <1>7 DEF LossesAreCancelled

\* One more unit is lost, with one more read that was cancelled.
LEMMA LossSwallowed ==
  ASSUME StreamInv, CallOrder, LossesAreCancelled, CallOrder', NEW u, NEW r,
         Lost' \subseteq Lost \cup {u}, Swallowers \cup {r} \subseteq Swallowers',
         r \notin Swallowers
  PROVE  LossesAreCancelled'
  <1>1. /\ IsFiniteSet(Lost) /\ IsFiniteSet(Swallowers)
        /\ Cardinality(Swallowers) \in Nat /\ Cardinality(Lost) \in Nat
    BY LossesFinite
  <1>2. IsFiniteSet({q \in Reads : promise'[q] = "cancelled"})
    BY CancelledReads DEF CallOrder
  <1>3. Swallowers' \in SUBSET {q \in Reads : promise'[q] = "cancelled"}
    BY DEF Swallowers
  <1>4. IsFiniteSet(Swallowers')
    BY <1>2, <1>3, FS_Subset
  <1> SUFFICES ASSUME NEW L, L = Lost', NEW W, W = Swallowers'
               PROVE  Cardinality(L) <= Cardinality(W)
    BY DEF LossesAreCancelled
  <1>5. /\ IsFiniteSet(Lost \cup {u}) /\ Cardinality(Lost \cup {u}) \in Nat
        /\ Cardinality(Lost \cup {u}) <= Cardinality(Lost) + 1
    <2>1. /\ IsFiniteSet(Lost \cup {u})
          /\ Cardinality(Lost \cup {u}) =
                IF u \in Lost THEN Cardinality(Lost) ELSE Cardinality(Lost) + 1
      BY <1>1, FS_AddElement
    <2> QED
      BY <1>1, <2>1
  <1>6. IsFiniteSet(L) /\ Cardinality(L) <= Cardinality(Lost \cup {u})
    BY <1>5, FS_Subset
  <1>7. Cardinality(Swallowers \cup {r}) = Cardinality(Swallowers) + 1
    <2>1. Cardinality(Swallowers \cup {r}) =
              IF r \in Swallowers THEN Cardinality(Swallowers) ELSE Cardinality(Swallowers) + 1
      BY <1>1, FS_AddElement
    <2> QED
      BY <2>1
  <1>8. Cardinality(Swallowers \cup {r}) <= Cardinality(W)
    BY <1>4, FS_Subset
  <1>9. Cardinality(L) \in Nat /\ Cardinality(W) \in Nat
    BY <1>4, <1>6, FS_CardinalityType
  <1> QED
    BY <1>1, <1>5, <1>6, <1>7, <1>8, <1>9 DEF LossesAreCancelled

-----------------------------------------------------------------------------
\* A call joins the order as the last.
LEMMA NewCall ==
  ASSUME StreamInv, CallOrder, NEW c \in Reads \cup Writes,
         NEW before \in Calls \cup {None}, MayCall(c, before),
         NEW what, what # "none", promise' = [promise EXCEPT ![c] = what]
  PROVE  /\ CallOrder' /\ \A i \in DOMAIN called : called[i] # c
         /\ \E n \in Nat : /\ n = Len(called)
                           /\ DOMAIN called = 1..n /\ DOMAIN called' = 1..(n + 1)
                           /\ called'[n + 1] = c /\ \A i \in 1..n : called'[i] = called[i]
         /\ over'[c] = before /\ \A i \in DOMAIN called : over'[called[i]] = over[called[i]]
  <1> USE Names, Kinds
  <1>1. /\ called \in Seq(Reads \cup Writes) /\ c \in Reads \cup Writes /\ c \in Calls
        /\ called' = Append(called, c) /\ promise[c] = "none"
        /\ promise \in [Calls -> Words \cup Units]
    BY DEF StreamInv, Typed, CallOrder, MayCall
  <1>2. /\ called' \in Seq(Reads \cup Writes) /\ Len(called) \in Nat
        /\ DOMAIN called = 1..Len(called)
        /\ DOMAIN called' = 1..(Len(called) + 1) /\ called'[Len(called) + 1] = c
        /\ \A k \in DOMAIN called : k \in DOMAIN called' /\ called'[k] = called[k]
        /\ \A k \in DOMAIN called' :
              (k \in DOMAIN called /\ called'[k] = called[k]) \/ (k = Len(called) + 1 /\ called'[k] = c)
    BY <1>1, AppendParts
  <1>3. /\ promise'[c] = what /\ \A d \in Calls : d # c => promise'[d] = promise[d]
    BY <1>1
  <1>4. \A i \in DOMAIN called : called[i] # c /\ called[i] \in Reads \cup Writes
    BY <1>1, <1>2, ElementOfSeq DEF CallOrder
  <1>5. \A d \in Reads \cup Writes : promise'[d] # "none" =>
            \E i \in DOMAIN called' : called'[i] = d
    <2> SUFFICES ASSUME NEW d \in Reads \cup Writes, promise'[d] # "none"
                 PROVE  \E i \in DOMAIN called' : called'[i] = d
      OBVIOUS
    <2>1. CASE d = c
      <3>1. Len(called) + 1 \in DOMAIN called'
        BY <1>2
      <3> QED
        BY <1>2, <2>1, <3>1
    <2>2. CASE d # c
      <3>1. promise[d] # "none"
        BY <1>1, <1>3, <2>2
      <3>2. PICK i \in DOMAIN called : called[i] = d
        BY <3>1 DEF CallOrder
      <3> QED
        BY <1>2, <3>2
    <2> QED
      BY <2>1, <2>2
  <1>6. \A i \in DOMAIN called' : promise'[called'[i]] # "none"
    <2> SUFFICES ASSUME NEW i \in DOMAIN called' PROVE promise'[called'[i]] # "none"
      OBVIOUS
    <2>1. CASE i \in DOMAIN called /\ called'[i] = called[i]
      <3>1. promise[called[i]] # "none" /\ called[i] \in Calls /\ called[i] # c
        BY <1>1, <1>4, <2>1 DEF CallOrder
      <3> QED
        BY <1>3, <2>1, <3>1
    <2>2. CASE called'[i] = c
      BY <1>3, <2>2
    <2> QED
      BY <1>2, <2>1, <2>2
  <1>7. ASSUME NEW i \in DOMAIN called', NEW j \in DOMAIN called', i < j
        PROVE  called'[i] # called'[j]
    <2>1. i \in DOMAIN called /\ called'[i] = called[i]
      BY <1>2, <1>7
    <2>2. called[i] # c /\ called[i] \in Calls /\ promise'[called[i]] = promise[called[i]]
      BY <1>3, <1>4, <2>1
    <2>3. CASE j \in DOMAIN called
      <3>1. called'[j] = called[j]
        BY <1>2, <2>3
      <3>2. called[i] # called[j]
        BY <1>7, <2>1, <2>3 DEF CallOrder
      <3> QED
        BY <2>1, <3>1, <3>2
    <2>4. CASE called'[j] = c
      BY <2>1, <2>2, <2>4
    <2> QED
      BY <1>2, <2>3, <2>4
  <1>8. CallOrder'
    BY <1>2, <1>5, <1>6, <1>7 DEF CallOrder
  <1>9. over'[c] = before /\ \A d \in Calls : d # c => over'[d] = over[d]
    BY <1>1, CallerKnows
  <1> QED
    BY <1>2, <1>4, <1>8, <1>9

\* An answer, or a cancellation, does not disturb the order.
LEMMA SettledOrder ==
  ASSUME CallOrder, called' = called,
         \A c \in Reads \cup Writes : \/ promise'[c] = promise[c]
                                      \/ promise[c] # "none" /\ promise'[c] # "none"
  PROVE  CallOrder'
  <1>1. \A i \in DOMAIN called : called[i] \in Reads \cup Writes
    BY ElementOfSeq, LenProperties DEF CallOrder
  <1> QED
    BY <1>1 DEF CallOrder

\* When nobody gets more than before, the units stay in order.
LEMMA NoMoreGets ==
  ASSUME CallOrder, UnitsTaken, UNCHANGED <<called, over>>, kernel'.taken = kernel.taken,
         \A c \in Calls, m \in DOMAIN Sent : Gets(c, m)' => Gets(c, m)
  PROVE  UnitsTaken'
  <1>1. \A i \in DOMAIN called : called[i] \in Calls
    BY ElementOfSeq, LenProperties, Kinds DEF CallOrder
  <1>2. \A i \in DOMAIN called, m \in DOMAIN Sent : Gets(called[i], m)' => Gets(called[i], m)
    <2> SUFFICES ASSUME NEW i \in DOMAIN called, NEW m \in DOMAIN Sent
                 PROVE  Gets(called[i], m)' => Gets(called[i], m)
      OBVIOUS
    <2> QED
      BY <1>1 DEF Gets
  <1> QED
    BY <1>2 DEF UnitsTaken

\* Neither does a call that is no longer parked disturb who was called over whom.
LEMMA FewerParked ==
  ASSUME CallOrder, Overtaken, UNCHANGED <<called, over, displaced>>,
         parked'.read \in {None, parked.read}, parked'.write \in {None, parked.write}
  PROVE  Overtaken'
  <1>1. \A i \in DOMAIN called : called[i] # None
    BY ElementOfSeq, LenProperties, Kinds DEF CallOrder
  <1> QED
    BY <1>1 DEF Overtaken, CalledOver

-----------------------------------------------------------------------------
\* A call that is only made now is nowhere yet.
LEMMA NotYetCalled ==
  ASSUME StreamInv, BytesInv, NEW c \in Reads \cup Writes, promise[c] = "none"
  PROVE  /\ c # parked.read /\ c # parked.write /\ c # None /\ c # Connect /\ c \in Calls
         /\ \A k \in DOMAIN deferred : deferred[k].to # c /\ deferred[k].to \in Calls
         /\ \A i \in DOMAIN wire : wire[i] # c /\ wire[i] \in Writes
         /\ c \notin displaced /\ displaced \subseteq Calls
         /\ parked.read \in Reads \cup {None} /\ parked.write \in Writes \cup {None}
         /\ promise \in [Calls -> Words \cup Units] /\ kernel.taken \in Nat
         /\ CallOrder /\ Hands /\ Overtaken /\ UnitsTaken /\ LossesAreCancelled
         /\ WholeWrites /\ WireOrder
  <1>1. /\ CallOrder /\ Hands /\ Overtaken /\ UnitsTaken /\ LossesAreCancelled
        /\ WholeWrites /\ WireOrder
        /\ StreamTypeOK /\ promise \in [Calls -> Words \cup Units] /\ deferred \in Seq(Deferred)
        /\ c \in Calls /\ c # None /\ c # Connect
    BY Kinds DEF StreamInv, Typed, BytesInv
  <1>2. /\ parked.read \in Reads \cup {None} /\ parked.write \in Writes \cup {None}
        /\ wire \in Seq(Writes) /\ kernel.taken \in Nat
    BY <1>1, Sizes, KernelFields DEF StreamTypeOK
  <1>3. /\ \A k \in DOMAIN deferred : deferred[k].to \in Calls
        /\ \A i \in DOMAIN wire : wire[i] \in Writes
    <2>1. /\ DOMAIN deferred = 1..Len(deferred) /\ \A k \in 1..Len(deferred) : deferred[k] \in Deferred
          /\ DOMAIN wire = 1..Len(wire) /\ \A i \in 1..Len(wire) : wire[i] \in Writes
      BY <1>1, <1>2, ElementOfSeq, LenProperties
    <2> QED
      BY <2>1 DEF Deferred
  <1>4. c # parked.read /\ c # parked.write
    BY <1>1 DEF Hands
  <1>5. \A k \in DOMAIN deferred : deferred[k].to # c
    BY <1>1 DEF Hands
  <1>6. \A i \in DOMAIN wire : wire[i] # c
    BY <1>1 DEF WireOrder
  <1>7. c \notin displaced /\ displaced \subseteq Calls
    BY <1>1, Kinds DEF Hands, StreamTypeOK
  <1> QED
    BY <1>1, <1>2, <1>3, <1>4, <1>5, <1>6, <1>7

\* What a read does, in the three ways it can end.
LEMMA ReadDoes ==
  ASSUME StreamInv, NEW r \in Reads, Read(r)
  PROVE  \E what \in (Words \ {"none"}) \cup Units :
         /\ promise' = [promise EXCEPT ![r] = what]
         /\ parked'.read = IF what = "pending" THEN r ELSE parked.read
         /\ parked'.write = parked.write /\ parked'.written = parked.written
         /\ displaced' = IF what = "pending" THEN displaced \cup ({parked.read} \ {None})
                         ELSE displaced
         /\ IF what \in Units
            THEN /\ kernel.taken + 1 \in DOMAIN Sent /\ what = Sent[kernel.taken + 1]
                 /\ kernel'.taken = kernel.taken + 1
            ELSE kernel'.taken = kernel.taken
  <1> USE Names, Sizes, Kinds
  <1>1. StreamTypeOK
    BY DEF StreamInv, Typed
  <1>2. CASE \E what \in {"null", "failed"} : promise' = [promise EXCEPT ![r] = what]
                                             /\ UNCHANGED <<kernel, parked, displaced>>
    <2>1. \A what \in {"null", "failed"} : what \in Words \ {"none"} /\ what \notin Units
                                           /\ what # "pending"
      BY DEF Words
    <2> QED
      BY <1>2, <2>1
  <1>3. CASE promise' = [promise EXCEPT ![r] = Sent[kernel.taken + 1]] /\ Unread > 0
             /\ kernel' = [kernel EXCEPT !.taken = @ + 1] /\ UNCHANGED <<parked, displaced>>
    <2>1. kernel.taken + 1 \in DOMAIN Sent /\ kernel'.taken = kernel.taken + 1
      BY <1>1, <1>3, KernelFields DEF Unread
    <2>2. Sent[kernel.taken + 1] \in Units /\ Sent[kernel.taken + 1] # "pending"
      BY <2>1
    <2> QED
      BY <1>3, <2>1, <2>2
  <1>4. CASE /\ promise' = [promise EXCEPT ![r] = "pending"] /\ UNCHANGED kernel
             /\ parked' = [parked EXCEPT !.read = r]
           /\ displaced' = displaced \cup ({parked.read} \ {None})
             /\ displaced' = displaced \cup ({parked.read} \ {None})
    <2>1. parked'.read = r /\ parked'.write = parked.write /\ parked'.written = parked.written
      BY <1>1, <1>4 DEF StreamTypeOK
    <2>2. "pending" \in Words \ {"none"} /\ "pending" \notin Units
      OBVIOUS
    <2> QED
      BY <1>4, <2>1, <2>2
  <1>5. \/ \E what \in {"null", "failed"} : promise' = [promise EXCEPT ![r] = what]
                                          /\ UNCHANGED <<kernel, parked, displaced>>
        \/ promise' = [promise EXCEPT ![r] = Sent[kernel.taken + 1]] /\ Unread > 0
           /\ kernel' = [kernel EXCEPT !.taken = @ + 1] /\ UNCHANGED <<parked, displaced>>
        \/ /\ promise' = [promise EXCEPT ![r] = "pending"] /\ UNCHANGED kernel
           /\ parked' = [parked EXCEPT !.read = r]
           /\ displaced' = displaced \cup ({parked.read} \ {None})
    BY DEF Read, Answer, Park
  <1> QED
    BY <1>2, <1>3, <1>4, <1>5

LEMMA ReadBytes ==
  ASSUME StreamInv, BytesInv, NEW r \in Reads, Read(r)
  PROVE  BytesInv'
  <1> USE Names, Sizes, Kinds
  <1>1. /\ MayCall(r, parked.read) /\ promise[r] = "none"
        /\ UNCHANGED <<deferred, wire, entry>>
        /\ parked.read \in Calls \cup {None}
    BY CallerKnows, ParkedKinds DEF Read
  <1>2. /\ r # parked.read /\ r # parked.write /\ r # None /\ r # Connect /\ r \in Calls
        /\ \A k \in DOMAIN deferred : deferred[k].to # r /\ deferred[k].to \in Calls
        /\ \A i \in DOMAIN wire : wire[i] # r /\ wire[i] \in Writes
        /\ r \notin displaced /\ displaced \subseteq Calls
        /\ parked.read \in Reads \cup {None} /\ parked.write \in Writes \cup {None}
        /\ promise \in [Calls -> Words \cup Units] /\ kernel.taken \in Nat
        /\ CallOrder /\ Hands /\ Overtaken /\ UnitsTaken /\ LossesAreCancelled
        /\ WholeWrites /\ WireOrder
    BY <1>1, NotYetCalled
  <1>3. PICK what \in (Words \ {"none"}) \cup Units :
         /\ promise' = [promise EXCEPT ![r] = what]
         /\ parked'.read = IF what = "pending" THEN r ELSE parked.read
         /\ parked'.write = parked.write /\ parked'.written = parked.written
         /\ displaced' = IF what = "pending" THEN displaced \cup ({parked.read} \ {None})
                         ELSE displaced
         /\ IF what \in Units
            THEN /\ kernel.taken + 1 \in DOMAIN Sent /\ what = Sent[kernel.taken + 1]
                 /\ kernel'.taken = kernel.taken + 1
            ELSE kernel'.taken = kernel.taken
    BY ReadDoes
  <1>4. promise'[r] = what /\ \A d \in Calls : d # r => promise'[d] = promise[d]
    BY <1>2, <1>3
  <1>5. what # "none"
    BY <1>3
  <1>6. /\ CallOrder' /\ \A i \in DOMAIN called : called[i] # r
        /\ \E n \in Nat : /\ n = Len(called)
                          /\ DOMAIN called = 1..n /\ DOMAIN called' = 1..(n + 1)
                          /\ called'[n + 1] = r /\ \A i \in 1..n : called'[i] = called[i]
        /\ over'[r] = parked.read /\ \A i \in DOMAIN called : over'[called[i]] = over[called[i]]
    BY <1>1, <1>2, <1>3, <1>5, NewCall
  <1>7. PICK n \in Nat : /\ DOMAIN called = 1..n /\ DOMAIN called' = 1..(n + 1)
                         /\ called'[n + 1] = r /\ \A i \in 1..n : called'[i] = called[i]
    BY <1>6
  <1>8. \A i \in 1..n : called[i] \in Calls /\ called[i] # r
    <2>1. called \in Seq(Reads \cup Writes)
      BY <1>2 DEF CallOrder
    <2>2. \A i \in DOMAIN called : called[i] \in Reads \cup Writes
      BY <2>1, ElementOfSeq, LenProperties
    <2> QED
      BY <1>6, <1>7, <2>2
  <1>9. Hands'
    <2>1. parked'.read # None => promise'[parked'.read] \in {"pending", "cancelled"}
      BY <1>2, <1>3, <1>4 DEF Hands
    <2>2. parked'.write # None => promise'[parked'.write] \in {"pending", "cancelled"}
      BY <1>2, <1>3, <1>4 DEF Hands
    <2>3. \A k \in DOMAIN deferred :
              /\ promise'[deferred[k].to] \in {"pending", "cancelled"}
              /\ deferred[k].to \notin {parked'.read, parked'.write}
      BY <1>2, <1>3, <1>4 DEF Hands
    <2>4. \A c \in displaced' : /\ promise'[c] \in {"pending", "cancelled"}
                                /\ c \notin {parked'.read, parked'.write}
                                /\ \A k \in DOMAIN deferred : deferred[k].to # c
      <3> SUFFICES ASSUME NEW c \in displaced'
                   PROVE  /\ promise'[c] \in {"pending", "cancelled"}
                          /\ c \notin {parked'.read, parked'.write}
                          /\ \A k \in DOMAIN deferred : deferred[k].to # c
        OBVIOUS
      <3>1. CASE c \in displaced
        BY <1>2, <1>3, <1>4, <3>1 DEF Hands
      <3>2. CASE c = parked.read /\ c # None /\ what = "pending"
        <4>1. c \in Reads /\ c \in Calls /\ c # r /\ c # parked.write
          BY <1>2, <3>2
        <4>2. /\ promise[c] \in {"pending", "cancelled"}
              /\ \A k \in DOMAIN deferred : deferred[k].to # c
          BY <1>2, <3>2 DEF Hands
        <4> QED
          BY <1>3, <1>4, <3>2, <4>1, <4>2
      <3> QED
        BY <1>3, <3>1, <3>2
    <2> QED
      BY <1>1, <1>2, <1>4, <2>1, <2>2, <2>3, <2>4 DEF Hands
  <1>14. Overtaken'
    <2>1. ASSUME NEW i \in DOMAIN called', NEW j \in DOMAIN called', i < j,
                 NEW q, NEW kind, called'[i] = q, called'[j] \in kind,
                 (q = parked.read /\ kind = Reads) \/ (q = parked.write /\ kind = Writes)
          PROVE  over'[called'[j]] = q
      <3>1. i \in 1..n /\ called'[i] = called[i]
        BY <1>7, <2>1
      <3>2. CASE j = n + 1
        BY <1>6, <1>7, <2>1, <3>2
      <3>3. CASE j \in 1..n
        <4>1. called'[j] = called[j] /\ over'[called[j]] = over[called[j]]
          BY <1>6, <1>7, <3>3
        <4>2. CalledOver(parked.read, Reads) /\ CalledOver(parked.write, Writes)
          BY <1>2 DEF Overtaken
        <4>3. over[called[j]] = q
          BY <1>7, <2>1, <3>1, <3>3, <4>1, <4>2 DEF CalledOver
        <4> QED
          BY <4>1, <4>3
      <3> QED
        BY <1>7, <3>2, <3>3
    <2>2. \A i, j \in DOMAIN called' : i < j => called'[i] # r
      BY <1>6, <1>7
    <2>3. CalledOver(parked.read, Reads)' /\ CalledOver(parked.write, Writes)'
      <3>1. CASE parked'.read = parked.read
        BY <1>3, <2>1, <3>1 DEF CalledOver
      <3>2. CASE parked'.read = r
        BY <1>3, <2>1, <2>2, <3>2 DEF CalledOver
      <3> QED
        BY <1>3, <3>1, <3>2
    <2>4. parked'.read # None => over'[parked'.read] \in displaced' \cup {None}
      <3>1. CASE what = "pending"
        BY <1>3, <1>6, <3>1
      <3>2. CASE what # "pending" /\ parked.read # None
        <4>1. promise[parked.read] # "none" /\ parked.read \in Reads
          BY <1>2, <3>2 DEF Hands
        <4>2. PICK i \in DOMAIN called : called[i] = parked.read
          BY <1>2, <4>1 DEF CallOrder
        <4>3. over'[parked.read] = over[parked.read]
          BY <1>6, <4>2
        <4> QED
          BY <1>2, <1>3, <3>2, <4>3 DEF Overtaken
      <3> QED
        BY <1>3, <3>1, <3>2
    <2> QED
      BY <2>3, <2>4 DEF Overtaken
  <1>15. \A d \in Calls, m \in DOMAIN Sent : Gets(d, m)' =>
             \/ Gets(d, m) /\ d # r /\ d # parked.read
             \/ d = r /\ m = kernel.taken + 1 /\ kernel'.taken = kernel.taken + 1
    <2> SUFFICES ASSUME NEW d \in Calls, NEW m \in DOMAIN Sent, Gets(d, m)'
                 PROVE  \/ Gets(d, m) /\ d # r /\ d # parked.read
                        \/ d = r /\ m = kernel.taken + 1 /\ kernel'.taken = kernel.taken + 1
      OBVIOUS
    <2>1. CASE d = r
      <3>1. what = Sent[m] /\ what \in Units
        BY <1>1, <1>2, <1>4, <2>1 DEF Gets
      <3>2. /\ kernel.taken + 1 \in DOMAIN Sent /\ what = Sent[kernel.taken + 1]
            /\ kernel'.taken = kernel.taken + 1
        BY <1>3, <3>1
      <3> QED
        BY <2>1, <3>1, <3>2, UnitsAssumption
    <2>2. CASE d # r
      <3>1. Gets(d, m)
        BY <1>1, <1>4, <2>2 DEF Gets
      <3>2. d # parked.read
        <4>1. Sent[m] \notin {"pending", "cancelled"} /\ d # None
          BY DEF Words
        <4> QED
          BY <1>2, <3>1, <4>1 DEF Gets, Hands
      <3> QED
        BY <2>2, <3>1, <3>2
    <2> QED
      BY <2>1, <2>2
  <1>10. UnitsTaken'
    <2>2. /\ kernel'.taken = kernel.taken \/ kernel'.taken = kernel.taken + 1
          /\ kernel'.taken >= kernel.taken
      BY <1>2, <1>3
    <2>3. ASSUME NEW d \in Calls, NEW m \in DOMAIN Sent, Gets(d, m)'
          PROVE  d \in Reads /\ m <= kernel'.taken
      <3>1. m \in Nat
        OBVIOUS
      <3>2. CASE Gets(d, m)
        <4>1. d \in Reads /\ m <= kernel.taken
          BY <1>2, <3>2 DEF UnitsTaken
        <4> QED
          BY <1>2, <2>2, <3>1, <4>1
      <3>3. CASE d = r /\ m = kernel.taken + 1 /\ kernel'.taken = kernel.taken + 1
        BY <1>2, <3>1, <3>3
      <3> QED
        BY <1>15, <2>3, <3>2, <3>3
    <2>5. ASSUME NEW i \in DOMAIN called', NEW j \in DOMAIN called', NEW m \in DOMAIN Sent,
                 NEW l \in DOMAIN Sent, i < j, Gets(called[i], m)', Gets(called[j], l)'
          PROVE  IF over'[called'[j]] = called'[i] THEN l < m ELSE m < l
      <3>1. i \in 1..n /\ called'[i] = called[i] /\ called[i] \in Calls /\ called[i] # r
        BY <1>7, <1>8, <2>5
      <3>2. Gets(called[i], m) /\ called[i] # parked.read
        BY <1>15, <2>5, <3>1
      <3>3. CASE j = n + 1
        <4>1. m <= kernel.taken /\ m \in Nat
          BY <1>2, <3>1, <3>2 DEF UnitsTaken
        <4>2. called'[j] = r /\ l = kernel.taken + 1
          BY <1>2, <1>7, <1>15, <2>5, <3>3
        <4>3. over'[called'[j]] # called'[i]
          BY <1>6, <3>1, <3>2, <4>2
        <4> QED
          BY <1>2, <4>1, <4>2, <4>3
      <3>4. CASE j \in 1..n
        <4>1. /\ called'[j] = called[j] /\ called[j] \in Calls /\ called[j] # r
              /\ over'[called[j]] = over[called[j]]
          BY <1>6, <1>7, <1>8, <3>4
        <4>2. Gets(called[j], l)
          BY <1>15, <2>5, <4>1
        <4>3. IF over[called[j]] = called[i] THEN l < m ELSE m < l
          BY <1>2, <1>7, <2>5, <3>1, <3>2, <3>4, <4>2 DEF UnitsTaken
        <4> QED
          BY <3>1, <4>1, <4>3
      <3> QED
        BY <1>7, <3>3, <3>4
    <2> QED
      BY <2>3, <2>5 DEF UnitsTaken
  <1>11. LossesAreCancelled'
    <2>1. Lost' \subseteq Lost
      <3> SUFFICES ASSUME NEW u \in Lost' PROVE u \in Lost
        OBVIOUS
      <3>1. /\ u \in 1..kernel'.taken /\ \A q \in Reads : promise'[q] # Sent[u]
            /\ \A k \in DOMAIN deferred : deferred[k].what # Sent[u]
        BY <1>1 DEF Lost
      <3>2. u # kernel.taken + 1 \/ kernel'.taken = kernel.taken
        BY <1>3, <1>4, <3>1
      <3>3. u \in 1..kernel.taken
        BY <1>2, <1>3, <3>1, <3>2
      <3>4. Sent[u] \in Units
        BY <3>3, KernelFields DEF StreamInv, Typed
      <3>5. \A q \in Reads : promise[q] # Sent[u]
        BY <1>1, <1>4, <3>1, <3>4
      <3> QED
        BY <3>1, <3>3, <3>5 DEF Lost
    <2>2. Swallowers \subseteq Swallowers'
      BY <1>1, <1>2, <1>3, <1>4 DEF Swallowers
    <2> QED
      BY <1>2, <1>6, <2>1, <2>2, LossesKept
  <1>12. WholeWrites'
    BY <1>1, <1>2, <1>3, <1>4 DEF WholeWrites
  <1>13. WireOrder'
    <2>1. \A i \in DOMAIN wire : promise'[wire[i]] = promise[wire[i]]
      BY <1>2, <1>4
    <2>2. \A m \in DOMAIN called', i \in DOMAIN wire : called'[m] = wire[i] =>
              m \in DOMAIN called /\ called[m] = wire[i] /\ over'[wire[i]] = over[wire[i]]
      BY <1>2, <1>6, <1>7
    <2> QED
      BY <1>1, <1>2, <2>1, <2>2 DEF WireOrder
  <1> QED
    BY <1>6, <1>9, <1>10, <1>11, <1>12, <1>13, <1>14 DEF BytesInv

\* u is the wire s with a run of n units of x behind it.
Grown(u, s, x, n) ==
    /\ \A y : Occurs(y, u) = Occurs(y, s) + (IF y = x THEN n ELSE 0)
    /\ \A i \in DOMAIN u : \/ i \in DOMAIN s /\ u[i] = s[i]
                           \/ i \notin DOMAIN s /\ u[i] = x
    /\ \A i \in DOMAIN u, j \in DOMAIN s : i < j => i \in DOMAIN s

LEMMA WireGrows ==
  ASSUME NEW s \in Seq(Writes), NEW x \in Writes, NEW n \in Nat
  PROVE  Grown(s \o [k \in 1..n |-> x], s, x, n)
  <1> SUFFICES ASSUME NEW run, run = [k \in 1..n |-> x], NEW u, u = s \o run
               PROVE  Grown(u, s, x, n)
    OBVIOUS
  <1>1. run \in Seq(Writes) /\ Len(run) = n /\ DOMAIN run = 1..n /\ \A k \in 1..n : run[k] = x
    OBVIOUS
  <1>2. IsConcat(u, s, run, Writes)
    BY <1>1, ConcatOf
  <1>3. \A y : Occurs(y, u) = Occurs(y, s) + (IF y = x THEN n ELSE 0)
    BY <1>1, <1>2, OccursRun
  <1>4. \A i \in DOMAIN u : \/ i \in DOMAIN s /\ u[i] = s[i]
                            \/ i \notin DOMAIN s /\ u[i] = x
    BY <1>1, <1>2 DEF IsConcat
  <1>5. DOMAIN s = 1..Len(s) /\ Len(s) \in Nat /\ DOMAIN u = 1..(Len(s) + n)
    BY <1>1, <1>2, LenProperties DEF IsConcat
  <1>6. \A i \in DOMAIN u, j \in DOMAIN s : i < j => i \in DOMAIN s
    BY <1>5
  <1> QED
    BY <1>3, <1>4, <1>6 DEF Grown

\* What a write does, in the three ways it can end.
LEMMA WriteDoes ==
  ASSUME StreamInv, NEW w \in Writes, Write(w)
  PROVE  \E what \in {"failed", "written", "pending"}, n \in Nat :
         /\ promise' = [promise EXCEPT ![w] = what]
         /\ parked'.read = parked.read
         /\ parked'.write = IF what = "pending" THEN w ELSE parked.write
         /\ parked'.written = IF what = "pending" THEN n ELSE parked.written
         /\ displaced' = IF what = "pending" THEN displaced \cup ({parked.write} \ {None})
                         ELSE displaced
         /\ IF what = "failed" THEN wire' = wire ELSE wire' = wire \o [k \in 1..n |-> w]
         /\ what = "written" => n = WriteSize
         /\ kernel'.taken = kernel.taken
  <1> USE Names, Sizes, Kinds
  <1>1. StreamTypeOK /\ kernel.room \in Nat
    BY KernelFields DEF StreamInv, Typed
  <1>2. CASE promise' = [promise EXCEPT ![w] = "failed"]
             /\ UNCHANGED <<kernel, wire, parked, displaced>>
    BY <1>2
  <1>3. CASE entry # "closed" /\ kernel.state # "down"
    <2> DEFINE n == Smaller(WriteSize, kernel.room)
    <2>1. /\ wire' = wire \o [k \in 1..n |-> w]
          /\ kernel' = [kernel EXCEPT !.room = @ - n, !.short = @ \/ n < WriteSize]
          /\ IF kernel.room >= WriteSize
             THEN promise' = [promise EXCEPT ![w] = "written"] /\ UNCHANGED <<parked, displaced>>
             ELSE /\ promise' = [promise EXCEPT ![w] = "pending"]
                  /\ parked' = [parked EXCEPT !.write = w, !.written = kernel.room]
                  /\ displaced' = displaced \cup ({parked.write} \ {None})
      BY <1>3 DEF Write, Put, Answer, Park
    <2>2. n \in Nat /\ IF kernel.room >= WriteSize THEN n = WriteSize ELSE n = kernel.room
      BY <1>1 DEF Smaller
    <2> HIDE DEF n
    <2>3. kernel'.taken = kernel.taken
      BY <1>1, <2>1, KernelFields
    <2>4. CASE kernel.room >= WriteSize
      BY <2>1, <2>2, <2>3, <2>4
    <2>5. CASE ~(kernel.room >= WriteSize)
      <3>1. parked'.read = parked.read /\ parked'.write = w /\ parked'.written = n
        BY <1>1, <2>1, <2>2, <2>5 DEF StreamTypeOK
      <3> QED
        BY <2>1, <2>2, <2>3, <2>5, <3>1
    <2> QED
      BY <2>4, <2>5
  <1> QED
    BY <1>2, <1>3 DEF Write, Answer

LEMMA WriteBytes ==
  ASSUME StreamInv, BytesInv, NEW w \in Writes, Write(w)
  PROVE  BytesInv'
  <1> USE Names, Sizes, Kinds
  <1>1. /\ MayCall(w, parked.write) /\ promise[w] = "none"
        /\ UNCHANGED <<deferred, entry>>
        /\ parked.write \in Calls \cup {None}
    BY CallerKnows, ParkedKinds DEF Write
  <1>2. /\ w # parked.read /\ w # parked.write /\ w # None /\ w # Connect /\ w \in Calls
        /\ \A k \in DOMAIN deferred : deferred[k].to # w /\ deferred[k].to \in Calls
        /\ \A i \in DOMAIN wire : wire[i] # w /\ wire[i] \in Writes
        /\ w \notin displaced /\ displaced \subseteq Calls
        /\ parked.read \in Reads \cup {None} /\ parked.write \in Writes \cup {None}
        /\ promise \in [Calls -> Words \cup Units] /\ kernel.taken \in Nat
        /\ CallOrder /\ Hands /\ Overtaken /\ UnitsTaken /\ LossesAreCancelled
        /\ WholeWrites /\ WireOrder
    BY <1>1, NotYetCalled
  <1>3. PICK what \in {"failed", "written", "pending"}, len \in Nat :
         /\ promise' = [promise EXCEPT ![w] = what]
         /\ parked'.read = parked.read
         /\ parked'.write = IF what = "pending" THEN w ELSE parked.write
         /\ parked'.written = IF what = "pending" THEN len ELSE parked.written
         /\ displaced' = IF what = "pending" THEN displaced \cup ({parked.write} \ {None})
                         ELSE displaced
         /\ IF what = "failed" THEN wire' = wire ELSE wire' = wire \o [k \in 1..len |-> w]
         /\ what = "written" => len = WriteSize
         /\ kernel'.taken = kernel.taken
    BY WriteDoes
  <1>4. promise'[w] = what /\ \A d \in Calls : d # w => promise'[d] = promise[d]
    BY <1>2, <1>3
  <1>5. what # "none" /\ what \notin Units /\ what # "cancelled"
    BY DEF Words
  <1>6. /\ CallOrder' /\ \A i \in DOMAIN called : called[i] # w
        /\ \E n \in Nat : /\ n = Len(called)
                          /\ DOMAIN called = 1..n /\ DOMAIN called' = 1..(n + 1)
                          /\ called'[n + 1] = w /\ \A i \in 1..n : called'[i] = called[i]
        /\ over'[w] = parked.write /\ \A i \in DOMAIN called : over'[called[i]] = over[called[i]]
    BY <1>1, <1>2, <1>3, <1>5, NewCall
  <1>7. PICK n \in Nat : /\ DOMAIN called = 1..n /\ DOMAIN called' = 1..(n + 1)
                         /\ called'[n + 1] = w /\ \A i \in 1..n : called'[i] = called[i]
    BY <1>6
  <1>8. \A i \in 1..n : called[i] \in Calls /\ called[i] # w
    <2>1. called \in Seq(Reads \cup Writes)
      BY <1>2 DEF CallOrder
    <2>2. \A i \in DOMAIN called : called[i] \in Reads \cup Writes
      BY <2>1, ElementOfSeq, LenProperties
    <2> QED
      BY <1>6, <1>7, <2>2
  <1>9. Hands'
    <2>1. parked'.read # None => promise'[parked'.read] \in {"pending", "cancelled"}
      BY <1>2, <1>3, <1>4 DEF Hands
    <2>2. parked'.write # None => promise'[parked'.write] \in {"pending", "cancelled"}
      BY <1>2, <1>3, <1>4 DEF Hands
    <2>3. \A k \in DOMAIN deferred :
              /\ promise'[deferred[k].to] \in {"pending", "cancelled"}
              /\ deferred[k].to \notin {parked'.read, parked'.write}
      BY <1>2, <1>3, <1>4 DEF Hands
    <2>4. \A d \in Calls : promise'[d] \in Units => d \in Reads
      BY <1>2, <1>4, <1>5 DEF Hands
    <2>5. \A c \in displaced' : /\ promise'[c] \in {"pending", "cancelled"}
                                /\ c \notin {parked'.read, parked'.write}
                                /\ \A k \in DOMAIN deferred : deferred[k].to # c
      <3> SUFFICES ASSUME NEW c \in displaced'
                   PROVE  /\ promise'[c] \in {"pending", "cancelled"}
                          /\ c \notin {parked'.read, parked'.write}
                          /\ \A k \in DOMAIN deferred : deferred[k].to # c
        OBVIOUS
      <3>1. CASE c \in displaced
        BY <1>2, <1>3, <1>4, <3>1 DEF Hands
      <3>2. CASE c = parked.write /\ c # None /\ what = "pending"
        <4>1. c \in Writes /\ c \in Calls /\ c # w /\ c # parked.read
          BY <1>2, <3>2
        <4>2. /\ promise[c] \in {"pending", "cancelled"}
              /\ \A k \in DOMAIN deferred : deferred[k].to # c
          BY <1>2, <3>2 DEF Hands
        <4> QED
          BY <1>3, <1>4, <3>2, <4>1, <4>2
      <3> QED
        BY <1>3, <3>1, <3>2
    <2> QED
      BY <1>1, <1>2, <1>4, <2>1, <2>2, <2>3, <2>4, <2>5 DEF Hands
  <1>16. Overtaken'
    <2>1. ASSUME NEW i \in DOMAIN called', NEW j \in DOMAIN called', i < j,
                 NEW q, NEW kind, called'[i] = q, called'[j] \in kind,
                 (q = parked.read /\ kind = Reads) \/ (q = parked.write /\ kind = Writes)
          PROVE  over'[called'[j]] = q
      <3>1. i \in 1..n /\ called'[i] = called[i]
        BY <1>7, <2>1
      <3>2. CASE j = n + 1
        BY <1>6, <1>7, <2>1, <3>2
      <3>3. CASE j \in 1..n
        <4>1. called'[j] = called[j] /\ over'[called[j]] = over[called[j]]
          BY <1>6, <1>7, <3>3
        <4>2. CalledOver(parked.read, Reads) /\ CalledOver(parked.write, Writes)
          BY <1>2 DEF Overtaken
        <4>3. over[called[j]] = q
          BY <1>7, <2>1, <3>1, <3>3, <4>1, <4>2 DEF CalledOver
        <4> QED
          BY <4>1, <4>3
      <3> QED
        BY <1>7, <3>2, <3>3
    <2>2. \A i, j \in DOMAIN called' : i < j => called'[i] # w
      BY <1>6, <1>7
    <2>3. CalledOver(parked.read, Reads)' /\ CalledOver(parked.write, Writes)'
      <3>1. CASE parked'.write = parked.write
        BY <1>3, <2>1, <3>1 DEF CalledOver
      <3>2. CASE parked'.write = w
        BY <1>3, <2>1, <2>2, <3>2 DEF CalledOver
      <3> QED
        BY <1>3, <3>1, <3>2
    <2>4. ASSUME parked.read # None PROVE over'[parked.read] \in displaced' \cup {None}
      <3>1. promise[parked.read] # "none" /\ parked.read \in Reads
        BY <1>2, <2>4 DEF Hands
      <3>2. PICK i \in DOMAIN called : called[i] = parked.read
        BY <1>2, <3>1 DEF CallOrder
      <3>3. over'[parked.read] = over[parked.read]
        BY <1>6, <3>2
      <3> QED
        BY <1>2, <1>3, <2>4, <3>3 DEF Overtaken
    <2> QED
      BY <1>3, <2>3, <2>4 DEF Overtaken
  <1>10. \A d \in Calls, m \in DOMAIN Sent : Gets(d, m)' => Gets(d, m) /\ d # w
    <2> SUFFICES ASSUME NEW d \in Calls, NEW m \in DOMAIN Sent, Gets(d, m)'
                 PROVE  Gets(d, m) /\ d # w
      OBVIOUS
    <2>1. Sent[m] \in Units
      OBVIOUS
    <2>2. d # w
      BY <1>1, <1>2, <1>4, <1>5, <2>1 DEF Gets
    <2> QED
      BY <1>1, <1>4, <2>2 DEF Gets
  <1>11. UnitsTaken'
    <2>1. \A d \in Calls, m \in DOMAIN Sent : Gets(d, m)' => d \in Reads /\ m <= kernel'.taken
      BY <1>2, <1>3, <1>10 DEF UnitsTaken
    <2>2. ASSUME NEW i \in DOMAIN called', NEW m \in DOMAIN Sent, Gets(called[i], m)'
          PROVE  /\ i \in DOMAIN called /\ called[i] = called'[i] /\ Gets(called[i], m)
                 /\ over'[called'[i]] = over[called[i]]
      <3>1. CASE i = n + 1
        BY <1>2, <1>7, <1>10, <2>2, <3>1
      <3>2. CASE i \in 1..n
        <4>1. called'[i] = called[i] /\ called[i] \in Calls /\ i \in DOMAIN called
          BY <1>7, <1>8, <3>2
        <4>2. Gets(called[i], m)
          BY <1>10, <2>2, <4>1
        <4> QED
          BY <1>6, <4>1, <4>2
      <3> QED
        BY <1>7, <3>1, <3>2
    <2>3. ASSUME NEW i \in DOMAIN called', NEW j \in DOMAIN called', NEW m \in DOMAIN Sent,
                 NEW l \in DOMAIN Sent, i < j, Gets(called[i], m)', Gets(called[j], l)'
          PROVE  IF over'[called'[j]] = called'[i] THEN l < m ELSE m < l
      <3>1. /\ i \in DOMAIN called /\ called[i] = called'[i] /\ Gets(called[i], m)
            /\ j \in DOMAIN called /\ called[j] = called'[j] /\ Gets(called[j], l)
            /\ over'[called'[j]] = over[called[j]]
        BY <2>2, <2>3
      <3>2. IF over[called[j]] = called[i] THEN l < m ELSE m < l
        BY <1>2, <2>3, <3>1 DEF UnitsTaken
      <3> QED
        BY <3>1, <3>2
    <2> QED
      BY <2>1, <2>3 DEF UnitsTaken
  <1>12. LossesAreCancelled'
    <2>1. Lost' \subseteq Lost
      <3>1. kernel.taken \in 0..Len(Sent)
        BY KernelFields DEF StreamInv, Typed
      <3>2. \A q \in Reads : promise'[q] = promise[q]
        BY <1>4
      <3> QED
        BY <1>1, <1>3, <3>2 DEF Lost
    <2>2. Swallowers \subseteq Swallowers'
      BY <1>1, <1>2, <1>3, <1>4 DEF Swallowers
    <2> QED
      BY <1>2, <1>6, <2>1, <2>2, LossesKept
  <1>13. /\ wire' = wire \/ what # "failed"
         /\ \A y : Occurs(y, wire') = Occurs(y, wire)
                        + (IF y = w /\ what # "failed" THEN len ELSE 0)
         /\ \A i \in DOMAIN wire' : \/ i \in DOMAIN wire /\ wire'[i] = wire[i]
                                    \/ i \notin DOMAIN wire /\ wire'[i] = w
         /\ \A i \in DOMAIN wire', j \in DOMAIN wire : i < j => i \in DOMAIN wire
    <2>1. wire \in Seq(Writes)
      BY DEF StreamInv, Typed, StreamTypeOK
    <2>2. \A y : Occurs(y, wire) \in Nat
      BY <2>1, OccursType
    <2>3. CASE what = "failed"
      BY <1>3, <2>2, <2>3
    <2>4. CASE what # "failed"
      <3>1. wire' = wire \o [k \in 1..len |-> w]
        BY <1>3, <2>4
      <3>2. Grown(wire', wire, w, len)
        BY <2>1, <3>1, WireGrows
      <3> QED
        BY <2>4, <3>2 DEF Grown
    <2> QED
      BY <2>3, <2>4
  <1>14. WholeWrites'
    <2> SUFFICES ASSUME NEW x \in Writes
                 PROVE  /\ promise'[x] = "none" => Occurs(x, wire') = 0
                        /\ parked'.write = x => Occurs(x, wire') = parked'.written
                        /\ promise'[x] = "written" => Occurs(x, wire') = WriteSize
                        /\ \A k \in DOMAIN deferred :
                              deferred[k].to = x /\ deferred[k].what = "written" =>
                                  Occurs(x, wire') = WriteSize
      BY <1>1 DEF WholeWrites
    <2>1. CASE x # w
      <3>1. wire \in Seq(Writes)
        BY DEF StreamInv, Typed, StreamTypeOK
      <3>2. Occurs(x, wire) \in Nat
        BY <3>1, OccursType
      <3>3. Occurs(x, wire') = Occurs(x, wire) /\ promise'[x] = promise[x]
        BY <1>4, <1>13, <2>1, <3>2
      <3> QED
        BY <1>2, <1>3, <2>1, <3>3 DEF WholeWrites
    <2>2. CASE x = w
      <3>1. Occurs(w, wire) = 0
        BY <1>1, <1>2 DEF WholeWrites
      <3>2. what # "failed" => Occurs(w, wire') = len
        BY <1>13, <3>1
      <3> QED
        BY <1>2, <1>3, <1>4, <1>5, <2>2, <3>2
    <2> QED
      BY <2>1, <2>2
  <1>15. WireOrder'
    <2>1. \A i \in DOMAIN wire : promise'[wire[i]] = promise[wire[i]]
      BY <1>2, <1>4
    <2>2. \A m \in DOMAIN called', i \in DOMAIN wire : called'[m] = wire[i] =>
              /\ m \in DOMAIN called /\ called[m] = wire[i] /\ m <= n
              /\ over'[wire[i]] = over[wire[i]]
      BY <1>2, <1>6, <1>7
    <2>3. \A m \in DOMAIN called' : called'[m] = w => m = n + 1
      BY <1>7, <1>8
    <2>4. \A i \in DOMAIN wire' : promise'[wire'[i]] # "none"
      BY <1>2, <1>4, <1>5, <1>13, <2>1 DEF WireOrder
    <2>5. ASSUME NEW i \in DOMAIN wire', NEW j \in DOMAIN wire', i < j, wire'[i] # wire'[j],
                 NEW m \in DOMAIN called', NEW l \in DOMAIN called',
                 called'[m] = wire'[i], called'[l] = wire'[j]
          PROVE  m < l \/ over'[wire'[i]] = wire'[j]
      <3>1. CASE j \in DOMAIN wire
        <4>1. i \in DOMAIN wire /\ wire'[i] = wire[i] /\ wire'[j] = wire[j]
          BY <1>13, <2>5, <3>1
        <4> QED
          BY <1>2, <2>1, <2>2, <2>5, <3>1, <4>1 DEF WireOrder
      <3>2. CASE j \notin DOMAIN wire
        <4>1. wire'[j] = w /\ l = n + 1
          BY <1>13, <2>3, <2>5, <3>2
        <4>2. i \in DOMAIN wire /\ wire'[i] = wire[i]
          BY <1>13, <2>5, <4>1
        <4> QED
          BY <1>7, <2>2, <2>5, <4>1, <4>2
      <3> QED
        BY <3>1, <3>2
    <2> QED
      BY <2>4, <2>5 DEF WireOrder
  <1> QED
    BY <1>6, <1>9, <1>11, <1>12, <1>14, <1>15, <1>16 DEF BytesInv

-----------------------------------------------------------------------------
\* Steps that settle what is pending without a unit and without touching what is
\* deferred: a close and a cancellation.
LEMMA AnswersOnly ==
  ASSUME StreamInv, BytesInv, UNCHANGED <<wire, called, over, displaced, deferred>>,
         kernel'.taken = kernel.taken, Hands',
         \A c \in Calls : \/ promise'[c] = promise[c]
                          \/ promise[c] = "pending" /\ promise'[c] \in {"null", "failed", "cancelled"},
         \A k \in DOMAIN deferred : promise[deferred[k].to] = "pending" =>
                                    promise'[deferred[k].to] \in {"pending", "cancelled"},
         parked'.read \in {None, parked.read}, parked'.write \in {None, parked.write},
         parked'.write # None => parked'.written = parked.written
  PROVE  BytesInv'
  <1> USE Names, Sizes, Kinds
  <1>1. /\ CallOrder /\ Hands /\ Overtaken /\ UnitsTaken /\ LossesAreCancelled
        /\ WholeWrites /\ WireOrder
        /\ StreamTypeOK /\ deferred \in Seq(Deferred) /\ kernel.taken \in 0..Len(Sent)
    BY KernelFields DEF StreamInv, Typed, BytesInv
  <1>2. /\ \A k \in DOMAIN deferred : deferred[k].to \in Calls
        /\ \A i \in DOMAIN called : called[i] \in Calls
        /\ \A i \in DOMAIN wire : wire[i] \in Writes
    <2>1. /\ DOMAIN deferred = 1..Len(deferred) /\ \A k \in 1..Len(deferred) : deferred[k] \in Deferred
          /\ DOMAIN called = 1..Len(called) /\ \A i \in 1..Len(called) : called[i] \in Reads \cup Writes
          /\ DOMAIN wire = 1..Len(wire) /\ \A i \in 1..Len(wire) : wire[i] \in Writes
      BY <1>1, ElementOfSeq, LenProperties DEF CallOrder, StreamTypeOK
    <2> QED
      BY <2>1 DEF Deferred
  <1>3. {"null", "failed", "cancelled"} \cap Units = {}
    BY DEF Words
  <1>4. CallOrder'
    BY <1>1, SettledOrder
  <1>5. \A c \in Calls, m \in DOMAIN Sent : promise'[c] = Sent[m] <=> promise[c] = Sent[m]
    BY <1>3
  <1>6. UnitsTaken' /\ Overtaken'
    <2>1. \A c \in Calls : promise'[c] = "pending" => promise[c] = "pending"
      OBVIOUS
    <2>2. \A c \in Calls, m \in DOMAIN Sent : Gets(c, m)' => Gets(c, m)
      BY <1>5, <2>1 DEF Gets
    <2> QED
      BY <1>1, <2>2, NoMoreGets, FewerParked
  <1>7. LossesAreCancelled'
    <2>1. Lost' \subseteq Lost
      <3> SUFFICES ASSUME NEW u \in Lost' PROVE u \in Lost
        OBVIOUS
      <3>1. /\ u \in 1..kernel.taken /\ u \in DOMAIN Sent /\ \A q \in Reads : promise'[q] # Sent[u]
            /\ \A k \in DOMAIN deferred : deferred[k].what # Sent[u]
        BY <1>1 DEF Lost
      <3> QED
        BY <1>5, <3>1 DEF Lost
    <2>2. Swallowers \subseteq Swallowers'
      <3> SUFFICES ASSUME NEW r \in Swallowers PROVE r \in Swallowers'
        OBVIOUS
      <3>1. r \in Reads /\ promise[r] = "cancelled" /\ r # parked.read /\ r # None
            /\ \A k \in DOMAIN deferred : deferred[k].to # r
        BY DEF Swallowers
      <3>2. promise'[r] = "cancelled" /\ r # parked'.read
        BY <3>1
      <3> QED
        BY <3>1, <3>2 DEF Swallowers
    <2> QED
      BY <1>1, <1>4, <2>1, <2>2, LossesKept
  <1>8. WholeWrites'
    BY <1>1 DEF WholeWrites
  <1>9. WireOrder'
    <2>1. \A i \in DOMAIN wire : promise'[wire[i]] # "none"
      BY <1>1, <1>2 DEF WireOrder
    <2> QED
      BY <1>1, <2>1 DEF WireOrder
  <1> QED
    BY <1>4, <1>6, <1>7, <1>8, <1>9 DEF BytesInv

LEMMA CloseBytes == ASSUME StreamInv, BytesInv, Close PROVE BytesInv'
  <1> USE Names, Sizes, Kinds
  <1>1. /\ Hands /\ deferred \in Seq(Deferred) /\ promise \in [Calls -> Words \cup Units]
    BY DEF StreamInv, Typed, BytesInv
  <1>2. /\ entry' = "closed" /\ parked'.read = None /\ parked'.write = None
        /\ UNCHANGED <<kernel, wire, called, over, displaced, deferred>> /\ kernel'.taken = kernel.taken
        /\ promise[Connect] = "connected"
    BY DEF Close, loopVars
  <1>3. \A c \in Calls : \/ promise'[c] = promise[c]
                         \/ /\ promise[c] = "pending" /\ promise'[c] \in {"null", "failed"}
                            /\ c \in {parked.read, parked.write}
    BY DEF Close
  <1>4. \A k \in DOMAIN deferred : deferred[k].to \in Calls
    <2>1. DOMAIN deferred = 1..Len(deferred) /\ \A k \in 1..Len(deferred) : deferred[k] \in Deferred
      BY <1>1, ElementOfSeq, LenProperties
    <2> QED
      BY <2>1 DEF Deferred
  <1>5. \A k \in DOMAIN deferred : promise'[deferred[k].to] = promise[deferred[k].to]
    BY <1>1, <1>3, <1>4 DEF Hands
  <1>6. Hands'
    <2>1. \A c \in Calls : promise'[c] \in Units => c \in Reads
      BY <1>1, <1>3 DEF Hands, Words
    <2>2. promise'[Connect] # "none"
      BY <1>2, <1>3
    <2>3. \A c \in displaced : c \in Calls /\ promise'[c] = promise[c]
      BY <1>1, <1>3, ParkedKinds DEF Hands
    <2> QED
      BY <1>1, <1>2, <1>4, <1>5, <2>1, <2>2, <2>3 DEF Hands
  <1> QED
    BY <1>1, <1>2, <1>3, <1>5, <1>6, AnswersOnly

LEMMA CancelBytes == ASSUME StreamInv, BytesInv, NEW c \in Cancellable, Cancel(c) PROVE BytesInv'
  <1> USE Names, Sizes, Kinds
  <1>1. /\ Hands /\ promise \in [Calls -> Words \cup Units] /\ c \in Calls /\ promise[c] = "pending"
        /\ UNCHANGED <<entry, kernel, wire, parked, called, over, displaced, deferred>>
        /\ kernel'.taken = kernel.taken
    BY DEF StreamInv, Typed, BytesInv, Cancel, loopVars
  <1>2. promise'[c] = "cancelled" /\ \A d \in Calls : d # c => promise'[d] = promise[d]
    BY <1>1 DEF Cancel, Settle
  <1>3. /\ parked.read \in Reads \cup {None} /\ parked.write \in Writes \cup {None}
        /\ \A k \in DOMAIN deferred : deferred[k].to \in Calls
        /\ displaced \subseteq Calls
    <2>1. DOMAIN deferred = 1..Len(deferred) /\ \A k \in 1..Len(deferred) : deferred[k] \in Deferred
      BY ElementOfSeq, LenProperties DEF StreamInv, Typed
    <2>2. displaced \subseteq Calls
      BY ParkedKinds
    <2> QED
      BY <2>1, <2>2, ParkedKinds DEF Deferred
  <1>4. Hands'
    <2>1. \A d \in Calls : promise[d] \in {"pending", "cancelled"} =>
                           promise'[d] \in {"pending", "cancelled"}
      BY <1>2
    <2>2. \A d \in Calls : promise'[d] \in Units => d \in Reads
      BY <1>1, <1>2 DEF Hands, Words
    <2>3. promise'[Connect] # "none"
      BY <1>1, <1>2 DEF Hands
    <2>4. \A d \in displaced : /\ promise'[d] \in {"pending", "cancelled"}
                               /\ d \notin {parked.read, parked.write}
                               /\ \A k \in DOMAIN deferred : deferred[k].to # d
      BY <1>1, <1>3, <2>1 DEF Hands
    <2>5. \A k \in DOMAIN deferred : promise'[deferred[k].to] \in {"pending", "cancelled"}
      BY <1>1, <1>3, <2>1 DEF Hands
    <2>6. /\ parked.read # None => promise'[parked.read] \in {"pending", "cancelled"}
          /\ parked.write # None => promise'[parked.write] \in {"pending", "cancelled"}
      BY <1>1, <1>3, <2>1 DEF Hands
    <2>7. entry = "connecting" => promise'[Connect] \in {"pending", "cancelled"}
      BY <1>1, <2>1 DEF Hands
    <2> QED
      BY <1>1, <2>2, <2>3, <2>4, <2>5, <2>6, <2>7 DEF Hands
  <1> QED
    BY <1>1, <1>2, <1>3, <1>4, AnswersOnly

-----------------------------------------------------------------------------
\* A completion settles its promise, or finds it cancelled.
LEMMA CompleteBytes == ASSUME StreamInv, BytesInv, Complete PROVE BytesInv'
  <1> USE Names, Sizes, Kinds
  <1>1. /\ CallOrder /\ Hands /\ Overtaken /\ UnitsTaken /\ LossesAreCancelled
        /\ WholeWrites /\ WireOrder
        /\ StreamTypeOK /\ deferred \in Seq(Deferred) /\ kernel.taken \in 0..Len(Sent)
        /\ promise \in [Calls -> Words \cup Units]
    BY KernelFields DEF StreamInv, Typed, BytesInv
  <1>2. SUFFICES ASSUME NEW d, d = Head(deferred), NEW rest, rest = Tail(deferred)
                 PROVE  BytesInv'
    OBVIOUS
  <1>3. /\ deferred # <<>> /\ deferred' = rest /\ entry # "connecting"
        /\ promise' = [promise EXCEPT ![d.to] = IF @ = "pending" THEN d.what ELSE @]
        /\ UNCHANGED <<kernel, wire, entry, parked, called, over, displaced>>
    BY <1>2 DEF Complete, Settle, StreamInv, NotYet
  <1>4. /\ d \in Deferred /\ d = deferred[1] /\ 1 \in DOMAIN deferred
        /\ \A k \in DOMAIN rest : k + 1 \in DOMAIN deferred /\ rest[k] = deferred[k + 1]
                                  /\ k + 1 # 1 /\ k \in Nat
        /\ \A k \in DOMAIN deferred : k = 1 \/ (k - 1 \in DOMAIN rest /\ rest[k - 1] = deferred[k])
    BY <1>1, <1>2, <1>3, TailParts
  <1>5. d.to \in Calls /\ d.what \in Outcomes /\ d.what # "none" /\ d.what # "pending"
    BY <1>4 DEF Deferred
  <1>6. /\ promise'[d.to] = IF promise[d.to] = "pending" THEN d.what ELSE promise[d.to]
        /\ \A c \in Calls : c # d.to => promise'[c] = promise[c]
        /\ promise[d.to] \in {"pending", "cancelled"}
    BY <1>1, <1>3, <1>4, <1>5 DEF Hands
  <1>7. \A k \in DOMAIN rest : rest[k].to # d.to /\ rest[k].to \in Calls
                               /\ promise'[rest[k].to] = promise[rest[k].to]
    <2>1. DOMAIN deferred = 1..Len(deferred) /\ \A k \in 1..Len(deferred) : deferred[k] \in Deferred
      BY <1>1, ElementOfSeq, LenProperties
    <2>2. \A k \in DOMAIN deferred : deferred[k].to \in Calls
      BY <2>1 DEF Deferred
    <2>3. \A k \in DOMAIN rest : rest[k].to # d.to
      BY <1>1, <1>4 DEF Hands
    <2> QED
      BY <1>4, <1>6, <2>2, <2>3
  <1>8. d.what \in Units => d.to \in Reads
    BY <1>1, <1>4 DEF Hands
  <1>9. CallOrder'
    BY <1>1, <1>3, <1>5, <1>6, SettledOrder
  <1>10. Hands'
    <2>1. d.to # parked.read /\ d.to # parked.write
      BY <1>1, <1>4 DEF Hands
    <2>2. /\ parked.read # None => promise'[parked.read] \in {"pending", "cancelled"}
          /\ parked.write # None => promise'[parked.write] \in {"pending", "cancelled"}
      BY <1>1, <1>6, <2>1 DEF Hands, StreamTypeOK
    <2>3. \A k \in DOMAIN rest :
              /\ promise'[rest[k].to] \in {"pending", "cancelled"}
              /\ rest[k].to \notin {parked.read, parked.write}
              /\ rest[k].what \in Units => rest[k].to \in Reads
              /\ rest[k].what = "written" => rest[k].to \in Writes
      BY <1>1, <1>4, <1>7 DEF Hands
    <2>4. ASSUME NEW k \in DOMAIN rest, NEW l \in DOMAIN rest, rest[k].to = rest[l].to
          PROVE  k = l
      <3>1. /\ k + 1 \in DOMAIN deferred /\ l + 1 \in DOMAIN deferred
            /\ deferred[k + 1].to = deferred[l + 1].to
        BY ONLY <1>4, <2>4
      <3>2. \A i, j \in DOMAIN deferred : deferred[i].to = deferred[j].to => i = j
        BY <1>1 DEF Hands
      <3>3. k + 1 = l + 1 /\ k \in Nat /\ l \in Nat
        BY ONLY <1>4, <2>4, <3>1, <3>2
      <3> QED
        BY ONLY <3>3
    <2>5. \A c \in Calls : promise'[c] \in Units => c \in Reads
      BY <1>1, <1>5, <1>6, <1>8 DEF Hands
    <2>6. promise'[Connect] # "none"
      BY <1>1, <1>5, <1>6 DEF Hands
    <2>7. ASSUME NEW c \in displaced
          PROVE  /\ promise'[c] \in {"pending", "cancelled"}
                 /\ c \notin {parked.read, parked.write}
                 /\ \A k \in DOMAIN rest : rest[k].to # c
      <3>1. c \in Calls /\ c # d.to
        BY <1>1, <1>4, ParkedKinds DEF Hands
      <3> QED
        BY <1>1, <1>4, <1>6, <3>1 DEF Hands
    <2> QED
      BY <1>3, <2>2, <2>3, <2>4, <2>5, <2>6, <2>7 DEF Hands
  <1>11. \A c \in Calls, m \in DOMAIN Sent : Gets(c, m)' => Gets(c, m)
    <2> SUFFICES ASSUME NEW c \in Calls, NEW m \in DOMAIN Sent, Gets(c, m)' PROVE Gets(c, m)
      OBVIOUS
    <2>1. CASE promise'[c] = Sent[m]
      BY <1>4, <1>6, <2>1 DEF Gets
    <2>2. CASE promise'[c] = "pending" /\ \E k \in DOMAIN rest : rest[k].to = c /\ rest[k].what = Sent[m]
      <3>1. promise[c] = "pending"
        BY <1>5, <1>6, <2>2
      <3>2. PICK k \in DOMAIN rest : rest[k].to = c /\ rest[k].what = Sent[m]
        BY <2>2
      <3> QED
        BY <1>4, <3>1, <3>2 DEF Gets
    <2> QED
      BY <1>3, <2>1, <2>2 DEF Gets
  <1>12. UnitsTaken' /\ Overtaken'
    BY <1>1, <1>3, <1>11, NoMoreGets, FewerParked
  <1>13. \A u \in Lost' : /\ u \in 1..kernel.taken /\ u \in DOMAIN Sent
                          /\ \A r \in Reads : promise[r] # Sent[u]
                          /\ \A k \in DOMAIN rest : deferred[k + 1].what # Sent[u]
    <2> SUFFICES ASSUME NEW u \in Lost'
                 PROVE  /\ u \in 1..kernel.taken /\ u \in DOMAIN Sent
                        /\ \A r \in Reads : promise[r] # Sent[u]
                        /\ \A k \in DOMAIN rest : deferred[k + 1].what # Sent[u]
      OBVIOUS
    <2>1. /\ u \in 1..kernel.taken /\ u \in DOMAIN Sent /\ \A r \in Reads : promise'[r] # Sent[u]
          /\ \A k \in DOMAIN rest : rest[k].what # Sent[u]
      BY <1>1, <1>3 DEF Lost
    <2>2. Sent[u] \in Units
      BY <2>1
    <2> QED
      BY <1>4, <1>6, <2>1, <2>2
  <1>14. \A u \in Lost' : d.what = Sent[u] \/ u \in Lost
    <2> SUFFICES ASSUME NEW u \in Lost', d.what # Sent[u] PROVE u \in Lost
      OBVIOUS
    <2>1. \A k \in DOMAIN deferred : deferred[k].what # Sent[u]
      <3> TAKE k \in DOMAIN deferred
      <3>1. CASE k = 1
        BY <1>4, <3>1
      <3>2. CASE k - 1 \in DOMAIN rest /\ rest[k - 1] = deferred[k]
        BY <1>4, <1>13, <3>2
      <3> QED
        BY <1>4, <3>1, <3>2
    <2> QED
      BY <1>13, <2>1 DEF Lost
  <1>15. Swallowers \subseteq Swallowers'
    <2> SUFFICES ASSUME NEW r \in Swallowers PROVE r \in Swallowers'
      OBVIOUS
    <2>1. r \in Reads /\ promise[r] = "cancelled" /\ r # parked.read
          /\ \A k \in DOMAIN deferred : deferred[k].to # r
      BY DEF Swallowers
    <2>2. r # d.to
      BY <1>4, <2>1
    <2> QED
      BY <1>3, <1>4, <1>6, <2>1, <2>2 DEF Swallowers
  <1>16. LossesAreCancelled'
    <2>1. CASE promise[d.to] = "pending" \/ d.what \notin Units
      <3>1. \A u \in Lost' : d.what # Sent[u]
        <4> SUFFICES ASSUME NEW u \in Lost', d.what = Sent[u] PROVE FALSE
          OBVIOUS
        <4>1. d.what \in Units /\ \A r \in Reads : promise'[r] # Sent[u]
          BY <1>13 DEF Lost
        <4> QED
          BY <1>6, <1>8, <2>1, <4>1
      <3> QED
        BY <1>1, <1>9, <1>14, <1>15, <3>1, LossesKept
    <2>2. CASE promise[d.to] = "cancelled" /\ d.what \in Units
      <3>1. PICK v \in DOMAIN Sent : d.what = Sent[v]
        BY <2>2 DEF Units
      <3>2. Lost' \subseteq Lost \cup {v}
        BY <1>13, <1>14, <3>1, UnitsAssumption
      <3>3. d.to \notin Swallowers
        BY <1>4 DEF Swallowers
      <3>4. d.to \in Swallowers'
        <4>1. d.to \in Reads /\ promise'[d.to] = "cancelled" /\ d.to # parked.read
          BY <1>1, <1>4, <1>6, <1>8, <2>2 DEF Hands
        <4> QED
          BY <1>3, <1>7, <4>1 DEF Swallowers
      <3>5. Swallowers \cup {d.to} \subseteq Swallowers'
        BY <1>15, <3>4
      <3> HIDE DEF Swallowers
      <3> QED
        BY <1>1, <1>9, <3>2, <3>3, <3>5, LossSwallowed
    <2> QED
      BY <1>6, <2>1, <2>2
  <1>17. WholeWrites'
    <2> SUFFICES ASSUME NEW w \in Writes
                 PROVE  /\ promise'[w] = "none" => Occurs(w, wire) = 0
                        /\ parked.write = w => Occurs(w, wire) = parked.written
                        /\ promise'[w] = "written" => Occurs(w, wire) = WriteSize
                        /\ \A k \in DOMAIN rest : rest[k].to = w /\ rest[k].what = "written" =>
                                Occurs(w, wire) = WriteSize
      BY <1>3 DEF WholeWrites
    <2>1. promise'[w] = "none" => promise[w] = "none"
      BY <1>5, <1>6
    <2>2. promise'[w] = "written" => promise[w] = "written" \/ (d.to = w /\ d.what = "written")
      BY <1>6
    <2> QED
      BY <1>1, <1>4, <2>1, <2>2 DEF WholeWrites
  <1>18. WireOrder'
    <2>1. \A c \in Calls : promise'[c] = "none" => promise[c] = "none"
      BY <1>5, <1>6
    <2>2. \A i \in DOMAIN wire : wire[i] \in Calls
      BY <1>1, ElementOfSeq, LenProperties DEF StreamTypeOK
    <2> QED
      BY <1>1, <1>3, <2>1, <2>2 DEF WireOrder
  <1> QED
    BY <1>9, <1>10, <1>12, <1>16, <1>17, <1>18 DEF BytesInv

-----------------------------------------------------------------------------
\* What the event loop leaves for after the lock, entry by entry.
LEMMA DueFacts ==
  ASSUME StreamInv, NEW due, due = ConnectEvent \o WriteEvent \o ReadEvent, NEW k \in DOMAIN due
  PROVE  \/ /\ k = 1 /\ due[k].to = Connect /\ due[k].what \in {"connected", "failed"}
            /\ entry = "connecting"
         \/ /\ k = Len(ConnectEvent) + 1 /\ due[k].to = parked.write /\ parked.write # None
            /\ WriteEvent # <<>>
            /\ \/ due[k].what = "failed"
               \/ due[k].what = "written" /\ kernel.state = "up" /\ "writable" \in events
         \/ /\ k = Len(ConnectEvent) + Len(WriteEvent) + 1
            /\ due[k].to = parked.read /\ parked.read # None /\ ReadEvent # <<>>
            /\ \/ due[k].what \in {"failed", "null"}
               \/ due[k].what = Sent[kernel.taken + 1] /\ kernel.state = "up" /\ Unread > 0
  <1>1. /\ ConnectEvent \in Seq(Deferred) /\ WriteEvent \in Seq(Deferred)
        /\ ReadEvent \in Seq(Deferred)
        /\ \A e \in {ConnectEvent, WriteEvent, ReadEvent} : e = <<>> \/ DOMAIN e = {1}
    BY EventsDefer
  <1>2. InTurn(due, ConnectEvent, WriteEvent, ReadEvent, Deferred)
    BY <1>1, ThreeParts
  <1>3. \/ k = 1 /\ ConnectEvent # <<>> /\ due[k] = ConnectEvent[1]
        \/ k = Len(ConnectEvent) + 1 /\ WriteEvent # <<>> /\ due[k] = WriteEvent[1]
        \/ k = Len(ConnectEvent) + Len(WriteEvent) + 1 /\ ReadEvent # <<>>
           /\ due[k] = ReadEvent[1]
    BY <1>2 DEF InTurn
  <1> QED
    BY <1>3, EventsDefer

LEMMA HandleBytes == ASSUME StreamInv, BytesInv, Handle PROVE BytesInv'
  <1> USE Names, Sizes, Kinds
  <1>1. /\ CallOrder /\ Hands /\ Overtaken /\ UnitsTaken /\ LossesAreCancelled
        /\ WholeWrites /\ WireOrder
        /\ StreamTypeOK /\ NotYet /\ kernel.taken \in 0..Len(Sent)
        /\ wire \in Seq(Writes) /\ parked.read \in Reads \cup {None}
        /\ parked.write \in Writes \cup {None}
    BY KernelFields DEF StreamInv, Typed, BytesInv, StreamTypeOK
  <1>2. CASE entry = "closed"
    <2>1. UNCHANGED <<entry, wire, parked, promise, called, over, displaced, deferred>>
          /\ kernel'.taken = kernel.taken
      BY <1>2 DEF Handle, callVars
    <2> QED
      BY <2>1, BytesUntouched
  <1>3. CASE entry # "closed"
    <2> DEFINE reads == ReadEvent # <<>> /\ kernel.state = "up" /\ Unread > 0
    <2>0. PICK n \in Nat :
         /\ loop = "handle" /\ deferred = <<>> /\ loop' = "complete" /\ events' = {}
         /\ deferred' = ConnectEvent \o WriteEvent \o ReadEvent
         /\ entry' = IF entry = "connecting" /\ kernel.state = "opening"
                     THEN "connecting" ELSE "open"
         /\ wire' = wire \o [k \in 1..n |-> parked.write]
         /\ kernel' = [state |-> kernel.state, arrived |-> kernel.arrived,
                taken |-> kernel.taken + (IF reads THEN 1 ELSE 0), eof |-> kernel.eof,
                room |-> kernel.room - n, short |-> kernel'.short]
         /\ kernel'.short \in BOOLEAN /\ (kernel.short => kernel'.short)
         /\ parked' = [read |-> IF ReadEvent = <<>> THEN parked.read ELSE None,
                       write |-> IF WriteEvent = <<>> THEN parked.write ELSE None,
                       written |-> IF WriteEvent = <<>> THEN parked.written + n ELSE 0]
         /\ n <= kernel.room /\ parked.written + n <= WriteSize
         /\ n > 0 => parked.write # None
         /\ "writable" \in events /\ parked.write # None /\ kernel.state = "up" =>
               IF WriteEvent = <<>> THEN n = kernel.room /\ kernel'.short
               ELSE parked.written + n = WriteSize
         /\ UNCHANGED <<edges, registered, promise, called, over, displaced>>
      BY <1>3, HandleDoes
    <2>1. /\ deferred = <<>> /\ deferred' = ConnectEvent \o WriteEvent \o ReadEvent
          /\ entry' = IF entry = "connecting" /\ kernel.state = "opening"
                      THEN "connecting" ELSE "open"
          /\ wire' = wire \o [k \in 1..n |-> parked.write]
          /\ kernel'.taken = kernel.taken + (IF reads THEN 1 ELSE 0)
          /\ parked'.read = IF ReadEvent = <<>> THEN parked.read ELSE None
          /\ parked'.write = IF WriteEvent = <<>> THEN parked.write ELSE None
          /\ WriteEvent = <<>> => parked'.written = parked.written + n
          /\ n > 0 => parked.write # None
          /\ WriteEvent # <<>> /\ "writable" \in events /\ parked.write # None
                /\ kernel.state = "up" => parked.written + n = WriteSize
          /\ UNCHANGED <<promise, called, over, displaced>>
      <3> HIDE DEF reads
      <3> QED
        BY <2>0
    <2>2. SUFFICES ASSUME NEW due, due = ConnectEvent \o WriteEvent \o ReadEvent
                   PROVE  BytesInv'
      OBVIOUS
    <2>3. \A k \in DOMAIN due :
         \/ /\ k = 1 /\ due[k].to = Connect /\ due[k].what \in {"connected", "failed"}
            /\ entry = "connecting"
         \/ /\ k = Len(ConnectEvent) + 1 /\ due[k].to = parked.write /\ parked.write # None
            /\ WriteEvent # <<>>
            /\ \/ due[k].what = "failed"
               \/ due[k].what = "written" /\ kernel.state = "up" /\ "writable" \in events
         \/ /\ k = Len(ConnectEvent) + Len(WriteEvent) + 1
            /\ due[k].to = parked.read /\ parked.read # None /\ ReadEvent # <<>>
            /\ \/ due[k].what \in {"failed", "null"}
               \/ due[k].what = Sent[kernel.taken + 1] /\ kernel.state = "up" /\ Unread > 0
      <3> TAKE k \in DOMAIN due
      <3> HIDE DEF reads
      <3> QED
        BY <2>2, DueFacts
    <2>4. reads => \E k \in DOMAIN due : due[k].what = Sent[kernel.taken + 1]
      <3>1. InTurn(due, ConnectEvent, WriteEvent, ReadEvent, Deferred)
        BY <2>2, EventsDefer, ThreeParts
      <3>2. ReadEvent # <<>> => \E k \in DOMAIN due : due[k] = ReadEvent[1]
        BY <3>1 DEF InTurn
      <3>3. reads => ReadEvent[1].what = Sent[kernel.taken + 1]
        BY EventsDefer
      <3> QED
        BY <3>2, <3>3
    <2>5. reads => kernel.taken + 1 \in DOMAIN Sent
      BY <1>1, KernelFields DEF Unread
    <2>6. /\ deferred = <<>> /\ deferred' = due /\ UNCHANGED <<promise, called, over, displaced>>
          /\ entry' = "connecting" => entry = "connecting"
          /\ kernel'.taken = kernel.taken + (IF reads THEN 1 ELSE 0)
          /\ parked'.read = IF ReadEvent = <<>> THEN parked.read ELSE None
          /\ parked'.write = IF WriteEvent = <<>> THEN parked.write ELSE None
      BY <2>1, <2>2
    <2>7. \A k \in DOMAIN due, m \in DOMAIN Sent : due[k].what = Sent[m] =>
              /\ reads /\ m = kernel.taken + 1
              /\ due[k].to \in Reads /\ due[k].to = parked.read
      <3> SUFFICES ASSUME NEW k \in DOMAIN due, NEW m \in DOMAIN Sent, due[k].what = Sent[m]
                   PROVE  /\ reads /\ m = kernel.taken + 1
                          /\ due[k].to \in Reads /\ due[k].to = parked.read
        OBVIOUS
      <3>1. due[k].what \in Units /\ due[k].what \notin {"connected", "failed", "written", "null"}
        BY DEF Words
      <3>2. /\ due[k].to = parked.read /\ parked.read # None /\ ReadEvent # <<>>
            /\ due[k].what = Sent[kernel.taken + 1] /\ kernel.state = "up" /\ Unread > 0
        BY <2>3, <3>1
      <3>3. kernel.taken + 1 \in DOMAIN Sent
        BY <2>5, <3>2
      <3>4. kernel.taken + 1 = m
        BY <3>2, <3>3, UnitsAssumption
      <3> QED
        BY <1>1, <3>2, <3>4
    <2> HIDE DEF reads
    <2>8. Hands'
      <3>1. /\ parked'.read # None => promise[parked'.read] \in {"pending", "cancelled"}
            /\ parked'.write # None => promise[parked'.write] \in {"pending", "cancelled"}
        BY <1>1, <2>6 DEF Hands
      <3>2. \A k \in DOMAIN due : promise[due[k].to] \in {"pending", "cancelled"}
        BY <1>1, <2>3 DEF Hands
      <3>3. \A k \in DOMAIN due : due[k].to # parked'.read /\ due[k].to # parked'.write
        BY <1>1, <2>3, <2>6
      <3>4. \A k \in DOMAIN due : due[k].what = "written" => due[k].to \in Writes
        <4> SUFFICES ASSUME NEW k \in DOMAIN due, due[k].what = "written"
                     PROVE  due[k].to \in Writes
          OBVIOUS
        <4>1. Unread > 0 /\ kernel.state = "up" /\ ReadEvent # <<>> =>
                 Sent[kernel.taken + 1] # "written"
          BY <2>5 DEF reads, Words
        <4> QED
          BY <1>1, <2>3, <4>1
      <3>5. \A k \in DOMAIN due : due[k].what \in Units => due[k].to \in Reads
        BY <2>7 DEF Units
      <3>6. \A k, l \in DOMAIN due : due[k].to = due[l].to => k = l
        BY <1>1, <2>3
      <3>7. ASSUME NEW c \in displaced
            PROVE  /\ promise[c] \in {"pending", "cancelled"}
                   /\ c \notin {parked'.read, parked'.write}
                   /\ \A k \in DOMAIN due : due[k].to # c
        <4>1. c \in Reads \cup Writes /\ c # Connect /\ c # None
          BY ParkedKinds
        <4>2. promise[c] \in {"pending", "cancelled"} /\ c \notin {parked.read, parked.write}
          BY <1>1 DEF Hands
        <4> QED
          BY <2>3, <2>6, <4>1, <4>2
      <3> QED
        BY <1>1, <2>6, <3>1, <3>2, <3>3, <3>4, <3>5, <3>6, <3>7 DEF Hands
    <2>15. Overtaken'
      BY <1>1, <2>6, FewerParked
    <2>16. \A i \in DOMAIN called : called[i] \in Calls
      BY <1>1, ElementOfSeq, LenProperties DEF CallOrder
    <2>17. \A c \in Calls, m \in DOMAIN Sent : Gets(c, m)' =>
             \/ Gets(c, m)
             \/ reads /\ c = parked.read /\ m = kernel.taken + 1
      <3> SUFFICES ASSUME NEW c \in Calls, NEW m \in DOMAIN Sent, Gets(c, m)', ~Gets(c, m)
                   PROVE  reads /\ c = parked.read /\ m = kernel.taken + 1
        OBVIOUS
      <3>1. PICK k \in DOMAIN due : due[k].to = c /\ due[k].what = Sent[m]
        BY <2>6 DEF Gets
      <3> QED
        BY <2>7, <3>1
    <2>18. \A c \in Calls, m \in DOMAIN Sent : Gets(c, m) =>
             c # parked.read /\ c \notin displaced /\ c \in Reads /\ m <= kernel.taken
      <3> SUFFICES ASSUME NEW c \in Calls, NEW m \in DOMAIN Sent, Gets(c, m)
                   PROVE  c # parked.read /\ c \notin displaced /\ c \in Reads
                          /\ m <= kernel.taken
        OBVIOUS
      <3>1. promise[c] = Sent[m] /\ promise[c] \notin {"pending", "cancelled"}
        BY <2>6 DEF Gets, Words
      <3> QED
        BY <1>1, <3>1 DEF Hands, UnitsTaken
    <2>9. UnitsTaken'
      <3>1. /\ kernel.taken \in Nat /\ kernel'.taken >= kernel.taken
            /\ reads => kernel'.taken = kernel.taken + 1
        BY <1>1, <2>6
      <3>2. ASSUME NEW c \in Calls, NEW m \in DOMAIN Sent, Gets(c, m)'
            PROVE  c \in Reads /\ m <= kernel'.taken
        <4>1. m \in Nat
          OBVIOUS
        <4>2. CASE Gets(c, m)
          <5>1. m <= kernel.taken /\ c \in Reads
            BY <2>18, <4>2
          <5> QED
            BY <1>1, <2>6, <3>1, <4>1, <5>1
        <4>3. CASE reads /\ c = parked.read /\ m = kernel.taken + 1
          BY <1>1, <3>1, <4>3
        <4> QED
          BY <2>17, <3>2, <4>2, <4>3
      <3>3. ASSUME NEW i \in DOMAIN called, NEW j \in DOMAIN called, NEW m \in DOMAIN Sent,
                   NEW l \in DOMAIN Sent, i < j, Gets(called[i], m)', Gets(called[j], l)'
            PROVE  IF over[called[j]] = called[i] THEN l < m ELSE m < l
        <4>1. called[i] \in Calls /\ called[j] \in Calls /\ called[i] # called[j]
              /\ m \in Nat /\ l \in Nat
          BY <1>1, <2>16, <3>3 DEF CallOrder
        <4>5. /\ Gets(called[i], m) \/ (reads /\ called[i] = parked.read /\ m = kernel.taken + 1)
              /\ Gets(called[j], l) \/ (reads /\ called[j] = parked.read /\ l = kernel.taken + 1)
          <5>1. called' = called
            BY <2>6
          <5> QED
            BY <2>17, <3>3, <4>1, <5>1
        <4>2. CASE Gets(called[i], m) /\ Gets(called[j], l)
          BY <1>1, <3>3, <4>2 DEF UnitsTaken
        <4>3. CASE reads /\ called[i] = parked.read /\ m = kernel.taken + 1 /\ Gets(called[j], l)
          <5>1. called[j] \in Reads /\ l <= kernel.taken
            BY <2>18, <4>1, <4>3
          <5>2. over[called[j]] = called[i]
            BY <1>1, <3>3, <4>3, <5>1 DEF Overtaken, CalledOver
          <5> QED
            BY <3>1, <4>1, <4>3, <5>1, <5>2
        <4>4. CASE reads /\ called[j] = parked.read /\ l = kernel.taken + 1 /\ Gets(called[i], m)
          <5>1. m <= kernel.taken /\ called[i] \notin displaced /\ called[i] # None
            BY <2>18, <4>1, <4>4
          <5>2. over[called[j]] # called[i]
            BY <1>1, <4>1, <4>4, <5>1 DEF Overtaken
          <5> QED
            BY <3>1, <4>1, <4>4, <5>1, <5>2
        <4> QED
          BY <4>1, <4>2, <4>3, <4>4, <4>5
      <3>4. over' = over /\ called' = called
        BY <2>6
      <3> QED
        BY <3>2, <3>3, <3>4 DEF UnitsTaken
    <2>10. CallOrder'
      BY <1>1, <2>6 DEF CallOrder
    <2>11. LossesAreCancelled'
      <3>1. Lost' \subseteq Lost
        <4> SUFFICES ASSUME NEW u \in Lost' PROVE u \in Lost
          OBVIOUS
        <4>1. /\ u \in 1..kernel'.taken /\ \A r \in Reads : promise[r] # Sent[u]
              /\ \A k \in DOMAIN due : due[k].what # Sent[u]
          BY <2>6 DEF Lost
        <4>2. u # kernel.taken + 1 \/ ~reads
          BY <2>4, <4>1
        <4>3. u \in 1..kernel.taken
          BY <1>1, <2>6, <4>1, <4>2
        <4> QED
          BY <2>6, <4>1, <4>3 DEF Lost
      <3>2. Swallowers \subseteq Swallowers'
        <4> SUFFICES ASSUME NEW r \in Swallowers PROVE r \in Swallowers'
          OBVIOUS
        <4>1. r \in Reads /\ promise[r] = "cancelled" /\ r # parked.read
          BY DEF Swallowers
        <4>2. \A k \in DOMAIN due : due[k].to # r
          BY <1>1, <2>3, <4>1
        <4> QED
          BY <2>6, <4>1, <4>2 DEF Swallowers
      <3> QED
        BY <1>1, <2>10, <3>1, <3>2, LossesKept
    <2>12. /\ \A y : Occurs(y, wire') = Occurs(y, wire) + (IF y = parked.write THEN n ELSE 0)
           /\ \A i \in DOMAIN wire' : \/ i \in DOMAIN wire /\ wire'[i] = wire[i]
                                      \/ /\ i \notin DOMAIN wire /\ wire'[i] = parked.write
                                         /\ parked.write # None
           /\ \A i \in DOMAIN wire', j \in DOMAIN wire : i < j => i \in DOMAIN wire
      <3>1. CASE n = 0
        <4>1. wire' = wire \o <<>>
          <5>1. [k \in 1..n |-> parked.write] = <<>>
            BY <3>1
          <5> QED
            BY <2>1, <5>1
        <4>2. wire' = wire
          BY <1>1, <4>1, ConcatEmptySeq
        <4>3. \A y : Occurs(y, wire) \in Nat
          BY <1>1, OccursType
        <4> QED
          BY <3>1, <4>2, <4>3
      <3>2. CASE n > 0
        <4>1. parked.write \in Writes
          BY <1>1, <2>1, <3>2
        <4>2. Grown(wire', wire, parked.write, n)
          BY <1>1, <2>1, <4>1, WireGrows
        <4> QED
          BY <4>1, <4>2 DEF Grown
      <3> QED
        BY <3>1, <3>2
    <2>13. WholeWrites'
      <3> SUFFICES ASSUME NEW w \in Writes
                   PROVE  /\ promise[w] = "none" => Occurs(w, wire') = 0
                          /\ parked'.write = w => Occurs(w, wire') = parked'.written
                          /\ promise[w] = "written" => Occurs(w, wire') = WriteSize
                          /\ \A k \in DOMAIN due :
                                due[k].to = w /\ due[k].what = "written" =>
                                    Occurs(w, wire') = WriteSize
        BY <2>6 DEF WholeWrites
      <3>1. Occurs(w, wire) \in Nat
        BY <1>1, OccursType
      <3>2. CASE w # parked.write
        <4>1. Occurs(w, wire') = Occurs(w, wire)
          BY <2>12, <3>1, <3>2
        <4>2. parked'.write # w
          BY <2>6, <3>2
        <4>3. \A k \in DOMAIN due : due[k].to # w
          BY <1>1, <2>3, <3>2
        <4> QED
          BY <1>1, <4>1, <4>2, <4>3 DEF WholeWrites
      <3>3. CASE w = parked.write
        <4>1. Occurs(w, wire') = parked.written + n
          BY <1>1, <2>12, <3>3 DEF WholeWrites
        <4>2. promise[w] # "none" /\ promise[w] # "written"
          BY <1>1, <3>3 DEF Hands
        <4>3. parked'.write = w => Occurs(w, wire') = parked'.written
          BY <2>1, <4>1
        <4>4. ASSUME NEW k \in DOMAIN due, due[k].to = w, due[k].what = "written"
              PROVE  Occurs(w, wire') = WriteSize
          <5>1. WriteEvent # <<>> /\ "writable" \in events /\ parked.write # None
                /\ kernel.state = "up"
            BY <1>1, <2>3, <4>4
          <5> QED
            BY <2>1, <4>1, <5>1
        <4> QED
          BY <4>2, <4>3, <4>4
      <3> QED
        BY <3>2, <3>3
    <2>14. WireOrder'
      <3>1. \A i \in DOMAIN wire' : promise[wire'[i]] # "none" /\ wire'[i] \in Writes
        <4>1. \A i \in DOMAIN wire : wire[i] \in Writes
          BY <1>1, ElementOfSeq, LenProperties
        <4> QED
          BY <1>1, <2>12, <4>1 DEF WireOrder, Hands
      <3>2. ASSUME NEW i \in DOMAIN wire', NEW j \in DOMAIN wire', i < j, wire'[i] # wire'[j],
                   NEW m \in DOMAIN called, NEW l \in DOMAIN called,
                   called[m] = wire'[i], called[l] = wire'[j]
            PROVE  m < l \/ over[wire'[i]] = wire'[j]
        <4>1. CASE j \in DOMAIN wire
          <5>1. i \in DOMAIN wire /\ wire'[i] = wire[i] /\ wire'[j] = wire[j]
            BY <2>12, <3>2, <4>1
          <5> QED
            BY <1>1, <3>2, <4>1, <5>1 DEF WireOrder
        <4>2. CASE j \notin DOMAIN wire
          <5>1. wire'[j] = parked.write /\ parked.write # None
            BY <2>12, <4>2
          <5>2. called[m] \in Writes /\ l # m /\ l \in Nat /\ m \in Nat
            BY <1>1, <3>1, <3>2, LenProperties DEF CallOrder
          <5>3. l < m => over[called[m]] = parked.write
            BY <1>1, <3>2, <5>1, <5>2 DEF Overtaken, CalledOver
          <5> QED
            BY <3>2, <5>1, <5>2, <5>3
        <4> QED
          BY <4>1, <4>2
      <3> QED
        BY <2>6, <3>1, <3>2 DEF WireOrder
    <2> QED
      BY <2>8, <2>9, <2>10, <2>11, <2>13, <2>14, <2>15 DEF BytesInv
  <1> QED
    BY <1>2, <1>3

LEMMA BytesStep ==
  ASSUME StreamInv, BytesInv, [StreamNext]_kvars
  PROVE  BytesInv'
  <1>1. CASE UNCHANGED kvars
    <2>1. UNCHANGED <<entry, wire, parked, promise, called, over, displaced, deferred>>
          /\ kernel'.taken = kernel.taken
      BY <1>1 DEF kvars, callVars, loopVars
    <2> QED
      BY <2>1, BytesUntouched
  <1>2. CASE Kernel
    <2>1. UNCHANGED <<entry, wire, parked, promise, called, over, displaced, deferred>>
      BY <1>2 DEF Kernel, Opens, Arrives, PeerEnds, Drains, Breaks, Happens, callVars, loopVars
    <2>2. kernel'.taken = kernel.taken
      <3>1. StreamTypeOK
        BY DEF StreamInv, Typed
      <3> QED
        BY <1>2, <3>1, KernelFields
           DEF Kernel, Opens, Arrives, PeerEnds, Drains, Breaks, Happens
    <2> QED
      BY <2>1, <2>2, BytesUntouched
  <1>3. CASE Register \/ Poll \/ Completed
    <2>1. UNCHANGED <<entry, wire, parked, promise, called, over, displaced, deferred>>
          /\ kernel'.taken = kernel.taken
      BY <1>3 DEF Register, Poll, Completed, callVars, loopVars
    <2> QED
      BY <2>1, BytesUntouched
  <1> QED
    BY <1>1, <1>2, <1>3, ReadBytes, WriteBytes, CloseBytes, CancelBytes, HandleBytes,
       CompleteBytes DEF StreamNext, EventLoop

LEMMA BytesFollow == StreamInv /\ BytesInv => BytesAreKept
  <1> SUFFICES ASSUME StreamInv, BytesInv PROVE BytesAreKept
    OBVIOUS
  <1>1. /\ CallOrder /\ UnitsTaken /\ LossesAreCancelled /\ WholeWrites /\ WireOrder
    BY DEF BytesInv
  <1>4. \A i, j \in DOMAIN called, m, n \in DOMAIN Sent :
          i < j /\ promise[called[i]] = Sent[m] /\ promise[called[j]] = Sent[n] =>
          IF over[called[j]] = called[i] THEN n < m ELSE m < n
    BY <1>1 DEF UnitsTaken, Gets
  <1>2. Cardinality(Lost) <= Cardinality({r \in Reads : promise[r] = "cancelled"})
    <2> DEFINE T == {r \in Reads : promise[r] = "cancelled"}
    <2>1. IsFiniteSet(T)
      BY <1>1, CancelledReads DEF CallOrder
    <2>2. Swallowers \in SUBSET T
      BY DEF Swallowers
    <2> HIDE DEF T
    <2>3. Cardinality(Swallowers) <= Cardinality(T) /\ Cardinality(T) \in Nat
      BY <2>1, <2>2, FS_Subset, FS_CardinalityType
    <2>4. Cardinality(Lost) \in Nat /\ Cardinality(Swallowers) \in Nat
      BY <1>1, LossesFinite
    <2>5. Cardinality(Lost) <= Cardinality(T)
      BY <1>1, <2>3, <2>4 DEF LossesAreCancelled
    <2> QED
      BY <2>5 DEF T
  <1>3. \A w \in Writes : promise[w] = "written" =>
            Cardinality({k \in DOMAIN wire : wire[k] = w}) = WriteSize
    BY <1>1 DEF WholeWrites, Occurs
  <1> QED
    BY <1>1, <1>2, <1>3, <1>4 DEF BytesAreKept, WireOrder, Lost

\* However callers, the kernel and the event loop interleave, and however many
\* calls are going at once, what is parked is told of every readiness that could
\* serve it, across polls, registration and full buffers, and every pending
\* promise is parked or about to be completed, unless the place of its call was
\* taken by another (read, write, close, the handlers of the event loop).
THEOREM WaitsAreAnswered == StreamSpec => []EveryWaitHasAnAnswerer
  <1>1. StreamInit => StreamInv /\ BytesInv
    BY StreamStart, BytesStart
  <1>2. StreamInv /\ BytesInv /\ [StreamNext]_kvars => StreamInv' /\ BytesInv'
    BY StreamStep, BytesStep
  <1>3. StreamInv /\ BytesInv => EveryWaitHasAnAnswerer
    BY DEF StreamInv, Typed, Expected, Awaited, EveryWaitHasAnAnswerer, BytesInv, Hands
  <1> QED
    BY <1>1, <1>2, <1>3, PTL DEF StreamSpec

\* However reads, writes, closes, cancellations and the event loop interleave,
\* what the peer sent is handed out in the order of the calls and each unit once,
\* a call served over a parked one ahead of it; a unit is lost only to a read
\* that was cancelled; a write that says "written" is on the wire to its last
\* unit; and writes go out in the order of the calls, save what was still to come
\* of one that others were called over (tcp.rs read and write, the put-backs).
THEOREM BytesKept == StreamSpec => []BytesAreKept
  <1>1. StreamInit => StreamInv /\ BytesInv
    BY StreamStart, BytesStart
  <1>2. StreamInv /\ BytesInv /\ [StreamNext]_kvars => StreamInv' /\ BytesInv'
    BY StreamStep, BytesStep
  <1>3. StreamInv /\ BytesInv => BytesAreKept
    BY BytesFollow
  <1> QED
    BY <1>1, <1>2, <1>3, PTL DEF StreamSpec

=============================================================================
