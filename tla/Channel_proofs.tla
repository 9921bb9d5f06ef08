-------------------------- MODULE Channel_proofs --------------------------
(***************************************************************************)
(* Theorems about the channel, for every capacity, any isolates and any    *)
(* calls.                                                                  *)
(***************************************************************************)
EXTENDS Channel, Counting

LEMMA MembersOfAppend ==
  ASSUME NEW S, NEW seq \in Seq(S), NEW e \in S
  PROVE  Members(Append(seq, e)) = Members(seq) \cup {e}
  <1>1. /\ Len(seq) \in Nat /\ DOMAIN seq = 1..Len(seq)
        /\ DOMAIN Append(seq, e) = 1..(Len(seq) + 1)
        /\ \A k \in 1..Len(seq) : Append(seq, e)[k] = seq[k]
        /\ Append(seq, e)[Len(seq) + 1] = e
    BY AppendProperties, LenProperties
  <1>2. 1..(Len(seq) + 1) = 1..Len(seq) \cup {Len(seq) + 1}
    BY <1>1
  <1> QED
    BY <1>1, <1>2 DEF Members

LEMMA MembersOfTail ==
  ASSUME NEW S, NEW seq \in Seq(S), seq # <<>>
  PROVE  /\ Members(seq) = {Head(seq)} \cup Members(Tail(seq))
         /\ Head(seq) \in S /\ Tail(seq) \in Seq(S)
         /\ Len(Tail(seq)) = Len(seq) - 1 /\ Len(seq) \in Nat \ {0}
  <1>1. /\ Len(seq) \in Nat \ {0} /\ DOMAIN seq = 1..Len(seq) /\ Head(seq) = seq[1]
        /\ Len(Tail(seq)) = Len(seq) - 1 /\ DOMAIN Tail(seq) = 1..(Len(seq) - 1)
        /\ \A k \in 1..(Len(seq) - 1) : Tail(seq)[k] = seq[k + 1]
        /\ Head(seq) \in S /\ Tail(seq) \in Seq(S)
    BY HeadTailProperties, LenProperties, EmptySeq
  <1>2. ASSUME NEW x \in Members(seq) PROVE x \in {Head(seq)} \cup Members(Tail(seq))
    <2>1. PICK k \in 1..Len(seq) : x = seq[k]
      BY <1>1, <1>2 DEF Members
    <2>2. CASE k = 1
      BY <1>1, <2>1, <2>2
    <2>3. CASE k # 1
      <3>1. k - 1 \in 1..(Len(seq) - 1) /\ (k - 1) + 1 = k
        BY <1>1, <2>1, <2>3
      <3> QED
        BY <1>1, <2>1, <3>1 DEF Members
    <2> QED
      BY <2>2, <2>3
  <1>3. ASSUME NEW x \in {Head(seq)} \cup Members(Tail(seq)) PROVE x \in Members(seq)
    <2>1. CASE x = Head(seq)
      BY <1>1, <2>1 DEF Members
    <2>2. CASE x \in Members(Tail(seq))
      <3>1. PICK k \in 1..(Len(seq) - 1) : x = seq[k + 1]
        BY <1>1, <2>2 DEF Members
      <3>2. k + 1 \in 1..Len(seq)
        BY <1>1, <3>1
      <3> QED
        BY <1>1, <3>1, <3>2 DEF Members
    <2> QED
      BY <1>3, <2>1, <2>2
  <1> QED
    BY <1>1, <1>2, <1>3

-----------------------------------------------------------------------------
\* Some isolate has still to complete the promise of call c.
Owes(o, c) == \E t \in Isolates : \E k \in DOMAIN o[t] : o[t][k].to = c

Queues ==
    /\ recv_waiters # <<>> => queue = <<>> /\ send_waiters = <<>>
    /\ send_waiters # <<>> => Len(queue) = Capacity
    /\ closed => recv_waiters = <<>> /\ send_waiters = <<>>

Expected ==
    \A c \in Calls : promise[c] = "pending" =>
        c \in Members(recv_waiters) \cup Members(send_waiters) \/ Owes(owing, c)

ChannelInv == CTypeOK /\ Queues /\ Expected

LEMMA OwesIsOwed == \A c : Owes(owing, c) => OwedTo(c) # {}
  BY DEF Owes, OwedTo, AllOwed, Members

LEMMA InvImplies == ChannelInv => NobodyWaitsInVain
  BY OwesIsOwed DEF ChannelInv, Queues, Expected, NobodyWaitsInVain

LEMMA ChannelStart == CInit => ChannelInv
  <1> SUFFICES ASSUME CInit PROVE ChannelInv
    OBVIOUS
  <1>1. CTypeOK
    <2>1. /\ <<>> \in Seq(Owed) /\ <<>> \in Seq(Sends) /\ <<>> \in Seq(Receives)
          /\ Len(queue) <= Capacity
      BY CapacityAssumption, EmptySeq DEF CInit
    <2>2. owing \in [Isolates -> Seq(Owed)]
      BY <2>1 DEF CInit
    <2>3. /\ caller \in [Calls -> Isolates \cup {None}]
          /\ promise \in [Calls -> {"none", "pending"} \cup Results]
          /\ handle \in [Calls -> {"none", "pending"} \cup Results]
      BY DEF CInit
    <2> QED
      BY <2>1, <2>2, <2>3 DEF CInit, CTypeOK
  <1> QED
    BY <1>1 DEF CInit, ChannelInv, Queues, Expected

-----------------------------------------------------------------------------
\* A call that leaves the lock owes what it leaves with, and takes nothing from
\* what was owed before.
LEMMA LeavesOwes ==
  ASSUME CTypeOK, NEW t \in Isolates, owing[t] = <<>>, NEW L \in Seq(Owed),
         Leaves(t, L)
  PROVE  /\ owing' \in [Isolates -> Seq(Owed)]
         /\ \A c : Owes(owing, c) => Owes(owing', c)
         /\ \A c : (\E k \in DOMAIN L : L[k].to = c) => Owes(owing', c)
  <1>1. owing \in [Isolates -> Seq(Owed)] /\ owing' = [owing EXCEPT ![t] = L]
    BY DEF CTypeOK, Leaves
  <1>2. \A u \in Isolates : u # t => owing'[u] = owing[u]
    BY <1>1
  <1>3. owing'[t] = L /\ DOMAIN owing[t] = {}
    BY <1>1
  <1> QED
    BY <1>1, <1>2, <1>3 DEF Owes

\* Who was parked is still parked, or owed a completion.
LEMMA StillExpected ==
  ASSUME ChannelInv, promise' = promise, \A c : Owes(owing, c) => Owes(owing', c),
         \A c \in Members(recv_waiters) \cup Members(send_waiters) :
             c \in Members(recv_waiters') \cup Members(send_waiters') \/ Owes(owing', c)
  PROVE  Expected'
  <1> SUFFICES ASSUME NEW c \in Calls, promise[c] = "pending"
               PROVE  c \in Members(recv_waiters') \cup Members(send_waiters') \/ Owes(owing', c)
    BY DEF Expected
  <1>1. c \in Members(recv_waiters) \cup Members(send_waiters) \/ Owes(owing, c)
    BY DEF ChannelInv, Expected
  <1> QED
    BY <1>1

LEMMA OneOwed ==
  ASSUME NEW a \in Owed
  PROVE  <<a>> \in Seq(Owed) /\ DOMAIN <<a>> = 1..1 /\ <<a>>[1] = a
  OBVIOUS

LEMMA TwoOwed ==
  ASSUME NEW a \in Owed, NEW b \in Owed
  PROVE  <<a, b>> \in Seq(Owed) /\ DOMAIN <<a, b>> = 1..2 /\ <<a, b>>[1] = a
  OBVIOUS

LEMMA OweIsOwed ==
  ASSUME NEW c \in Calls, NEW r \in Results PROVE Owe(c, r) \in Owed /\ Owe(c, r).to = c
  BY DEF Owe, Owed

\* A call that leaves at once with its own result changes no waiter.
LEMMA ReturnKeeps ==
  ASSUME ChannelInv, NEW t \in Isolates, NEW c \in Calls, NEW r \in Results,
         Calling(t, c), Leaves(t, <<Owe(c, r)>>),
         UNCHANGED <<closed, recv_waiters, send_waiters>>, queue' \in Seq(Sends),
         Len(queue') <= Capacity, Queues'
  PROVE  ChannelInv'
  <1>1. CTypeOK /\ owing[t] = <<>>
    BY DEF ChannelInv, Calling
  <1>2. <<Owe(c, r)>> \in Seq(Owed)
    BY OweIsOwed, OneOwed
  <1>3. owing' \in [Isolates -> Seq(Owed)] /\ \A d : Owes(owing, d) => Owes(owing', d)
    BY <1>1, <1>2, LeavesOwes
  <1>4. CTypeOK'
    BY <1>1, <1>3 DEF CTypeOK, Calling, Leaves
  <1>5. Expected'
    BY <1>3 DEF ChannelInv, Expected, Leaves
  <1> QED
    BY <1>4, <1>5 DEF ChannelInv

LEMMA SendKeeps ==
  ASSUME ChannelInv, NEW t \in Isolates, NEW s \in Sends,
         SendRefused(t, s) \/ SendHandsOver(t, s) \/ SendQueues(t, s) \/ SendParks(t, s)
  PROVE  ChannelInv'
  <1>1. CTypeOK /\ Queues /\ s \in Calls /\ Calling(t, s) /\ owing[t] = <<>>
        /\ "sent" \in Results /\ "closed" \in Results /\ s \in Results
    BY DEF ChannelInv, Calls, Results, Calling,
           SendRefused, SendHandsOver, SendQueues, SendParks
  <1>2. Len(queue) \in Nat /\ Capacity \in Nat \ {0}
    BY <1>1, CapacityAssumption, LenProperties DEF CTypeOK
  <1>3. CASE SendRefused(t, s)
    <2>1. UNCHANGED stateVars /\ Leaves(t, <<Owe(s, "closed")>>)
      BY <1>3 DEF SendRefused
    <2>2. Queues' /\ queue' \in Seq(Sends) /\ Len(queue') <= Capacity
          /\ UNCHANGED <<closed, recv_waiters, send_waiters>>
      BY <1>1, <2>1 DEF Queues, CTypeOK, stateVars
    <2> QED
      BY <1>1, <2>1, <2>2, ReturnKeeps
  <1>4. CASE SendHandsOver(t, s)
    <2> DEFINE r == Head(recv_waiters)
               L == <<Owe(r, s), Owe(s, "sent")>>
    <2>1. recv_waiters # <<>> /\ recv_waiters' = Tail(recv_waiters) /\ ~closed
          /\ UNCHANGED <<queue, closed, send_waiters>> /\ Leaves(t, L)
      BY <1>4 DEF SendHandsOver
    <2>2. r \in Receives /\ Tail(recv_waiters) \in Seq(Receives)
          /\ Members(recv_waiters) = {r} \cup Members(Tail(recv_waiters))
      BY <1>1, <2>1, MembersOfTail DEF CTypeOK
    <2>3. r \in Calls /\ Owe(r, s) \in Owed /\ Owe(s, "sent") \in Owed /\ Owe(r, s).to = r
      BY <1>1, <2>2, OweIsOwed DEF Calls
    <2>4. L \in Seq(Owed) /\ 1 \in DOMAIN L /\ L[1].to = r
      BY <2>3, TwoOwed
    <2>5. /\ owing' \in [Isolates -> Seq(Owed)] /\ Owes(owing', r)
          /\ \A d : Owes(owing, d) => Owes(owing', d)
      <3> HIDE DEF L, r
      <3>1. \A d : (\E k \in DOMAIN L : L[k].to = d) => Owes(owing', d)
        BY <1>1, <2>1, <2>4, LeavesOwes
      <3> QED
        BY <1>1, <2>1, <2>4, <3>1, LeavesOwes
    <2>6. CTypeOK'
      BY <1>1, <2>1, <2>2, <2>5 DEF CTypeOK, Calling, Leaves
    <2>7. Queues'
      BY <1>1, <2>1 DEF Queues
    <2>8. Expected'
      <3> HIDE DEF r, L
      <3>1. promise' = promise
        BY <2>1 DEF Leaves
      <3> QED
        BY <2>1, <2>2, <2>5, <3>1, StillExpected
    <2> QED
      BY <2>6, <2>7, <2>8 DEF ChannelInv
  <1>5. CASE SendQueues(t, s)
    <2>1. /\ recv_waiters = <<>> /\ Len(queue) < Capacity /\ queue' = Append(queue, s)
          /\ UNCHANGED <<closed, recv_waiters, send_waiters>> /\ Leaves(t, <<Owe(s, "sent")>>)
      BY <1>5 DEF SendQueues
    <2>2. queue' \in Seq(Sends) /\ Len(queue') = Len(queue) + 1
      BY <1>1, <2>1, AppendProperties DEF CTypeOK
    <2>3. send_waiters = <<>>
      BY <1>1, <1>2, <2>1 DEF Queues
    <2>4. Queues' /\ Len(queue') <= Capacity
      BY <1>1, <1>2, <2>1, <2>2, <2>3 DEF Queues
    <2> QED
      BY <1>1, <2>1, <2>2, <2>4, ReturnKeeps
  <1>6. CASE SendParks(t, s)
    <2>1. /\ recv_waiters = <<>> /\ Len(queue) >= Capacity /\ ~closed
          /\ send_waiters' = Append(send_waiters, s)
          /\ promise' = [promise EXCEPT ![s] = "pending"]
          /\ handle' = [handle EXCEPT ![s] = "pending"]
          /\ UNCHANGED <<queue, closed, recv_waiters, owing>>
      BY <1>6 DEF SendParks, Parks
    <2>2. send_waiters' \in Seq(Sends) /\ Members(send_waiters') = Members(send_waiters) \cup {s}
      BY <1>1, <2>1, MembersOfAppend, AppendProperties DEF CTypeOK
    <2>3. CTypeOK'
      BY <1>1, <2>1, <2>2 DEF CTypeOK, Calling
    <2>4. Queues'
      BY <1>1, <1>2, <2>1 DEF Queues, CTypeOK
    <2>5. Expected'
      <3> SUFFICES ASSUME NEW d \in Calls, promise'[d] = "pending"
                   PROVE  \/ d \in Members(recv_waiters') \cup Members(send_waiters')
                          \/ Owes(owing', d)
        BY DEF Expected
      <3>1. Owes(owing', d) <=> Owes(owing, d)
        BY <2>1 DEF Owes
      <3>2. d = s \/ promise'[d] = promise[d]
        BY <1>1, <2>1 DEF CTypeOK
      <3> QED
        BY <2>1, <2>2, <3>1, <3>2 DEF ChannelInv, Expected
    <2> QED
      BY <2>3, <2>4, <2>5 DEF ChannelInv
  <1> QED
    BY <1>3, <1>4, <1>5, <1>6

LEMMA ReceiveKeeps ==
  ASSUME ChannelInv, NEW t \in Isolates, NEW r \in Receives,
         ReceiveTakes(t, r) \/ ReceiveRefused(t, r) \/ ReceiveParks(t, r)
  PROVE  ChannelInv'
  <1>1. CTypeOK /\ Queues /\ r \in Calls /\ Calling(t, r) /\ owing[t] = <<>>
        /\ "sent" \in Results /\ "closed" \in Results /\ Sends \subseteq Results
    BY DEF ChannelInv, Calls, Results, Calling, ReceiveTakes, ReceiveRefused, ReceiveParks
  <1>2. Len(queue) \in Nat /\ Capacity \in Nat \ {0} /\ Len(queue) <= Capacity
    BY <1>1, CapacityAssumption, LenProperties DEF CTypeOK
  <1>3. CASE ReceiveRefused(t, r)
    <2>1. UNCHANGED stateVars /\ Leaves(t, <<Owe(r, "closed")>>)
      BY <1>3 DEF ReceiveRefused
    <2>2. Queues' /\ queue' \in Seq(Sends) /\ Len(queue') <= Capacity
          /\ UNCHANGED <<closed, recv_waiters, send_waiters>>
      BY <1>1, <2>1 DEF Queues, CTypeOK, stateVars
    <2> QED
      BY <1>1, <2>1, <2>2, ReturnKeeps
  <1>4. CASE ReceiveTakes(t, r) /\ send_waiters = <<>>
    <2>1. /\ queue # <<>> /\ queue' = Tail(queue) /\ Leaves(t, <<Owe(r, Head(queue))>>)
          /\ UNCHANGED <<closed, recv_waiters, send_waiters>>
      BY <1>4 DEF ReceiveTakes
    <2>2. /\ Head(queue) \in Sends /\ queue' \in Seq(Sends) /\ Len(queue') = Len(queue) - 1
      BY <1>1, <2>1, MembersOfTail DEF CTypeOK
    <2>3. Queues' /\ Len(queue') <= Capacity
      BY <1>1, <1>2, <1>4, <2>1, <2>2 DEF Queues
    <2>4. Head(queue) \in Results
      BY <1>1, <2>2
    <2> QED
      BY <1>1, <2>1, <2>2, <2>3, <2>4, ReturnKeeps
  <1>5. CASE ReceiveTakes(t, r) /\ send_waiters # <<>>
    <2> DEFINE s == Head(send_waiters)
               L == <<Owe(s, "sent"), Owe(r, Head(queue))>>
    <2>1. /\ queue # <<>> /\ queue' = Append(Tail(queue), s) /\ Leaves(t, L)
          /\ send_waiters' = Tail(send_waiters) /\ UNCHANGED <<closed, recv_waiters>>
      BY <1>5 DEF ReceiveTakes
    <2>2. /\ Head(queue) \in Sends /\ Tail(queue) \in Seq(Sends)
          /\ Len(Tail(queue)) = Len(queue) - 1
      BY <1>1, <2>1, MembersOfTail DEF CTypeOK
    <2>3. /\ s \in Sends /\ Tail(send_waiters) \in Seq(Sends)
          /\ Members(send_waiters) = {s} \cup Members(Tail(send_waiters))
      BY <1>1, <1>5, MembersOfTail DEF CTypeOK
    <2>4. queue' \in Seq(Sends) /\ Len(queue') = Len(queue)
      BY <1>2, <2>1, <2>2, <2>3, AppendProperties
    <2>5. L \in Seq(Owed) /\ 1 \in DOMAIN L /\ L[1].to = s
      <3>1. Owe(s, "sent") \in Owed /\ Owe(s, "sent").to = s /\ Owe(r, Head(queue)) \in Owed
        BY <1>1, <2>2, <2>3, OweIsOwed DEF Calls
      <3> QED
        BY <3>1, TwoOwed
    <2>6. /\ owing' \in [Isolates -> Seq(Owed)] /\ Owes(owing', s)
          /\ \A d : Owes(owing, d) => Owes(owing', d)
      <3> HIDE DEF L, s
      <3>1. \A d : (\E k \in DOMAIN L : L[k].to = d) => Owes(owing', d)
        BY <1>1, <2>1, <2>5, LeavesOwes
      <3> QED
        BY <1>1, <2>1, <2>5, <3>1, LeavesOwes
    <2>7. CTypeOK'
      BY <1>1, <1>2, <2>1, <2>3, <2>4, <2>6 DEF CTypeOK, Calling, Leaves
    <2>8. Queues'
      BY <1>1, <1>5, <2>1, <2>4 DEF Queues
    <2>9. Expected'
      <3> HIDE DEF s, L
      <3>1. promise' = promise
        BY <2>1 DEF Leaves
      <3> QED
        BY <2>1, <2>3, <2>6, <3>1, StillExpected
    <2> QED
      BY <2>7, <2>8, <2>9 DEF ChannelInv
  <1>6. CASE ReceiveParks(t, r)
    <2>1. /\ queue = <<>> /\ ~closed /\ recv_waiters' = Append(recv_waiters, r)
          /\ promise' = [promise EXCEPT ![r] = "pending"]
          /\ handle' = [handle EXCEPT ![r] = "pending"]
          /\ UNCHANGED <<queue, closed, send_waiters, owing>>
      BY <1>6 DEF ReceiveParks, Parks
    <2>2. /\ recv_waiters' \in Seq(Receives)
          /\ Members(recv_waiters') = Members(recv_waiters) \cup {r}
      BY <1>1, <2>1, MembersOfAppend, AppendProperties DEF CTypeOK
    <2>3. CTypeOK'
      BY <1>1, <2>1, <2>2 DEF CTypeOK, Calling
    <2>4. Queues'
      BY <1>1, <1>2, <2>1 DEF Queues
    <2>5. Expected'
      <3> SUFFICES ASSUME NEW d \in Calls, promise'[d] = "pending"
                   PROVE  \/ d \in Members(recv_waiters') \cup Members(send_waiters')
                          \/ Owes(owing', d)
        BY DEF Expected
      <3>1. Owes(owing', d) <=> Owes(owing, d)
        BY <2>1 DEF Owes
      <3>2. d = r \/ promise'[d] = promise[d]
        BY <1>1, <2>1 DEF CTypeOK
      <3> QED
        BY <2>1, <2>2, <3>1, <3>2 DEF ChannelInv, Expected
    <2> QED
      BY <2>3, <2>4, <2>5 DEF ChannelInv
  <1> QED
    BY <1>3, <1>4, <1>5, <1>6

\* Everybody who is parked when the channel closes is owed an answer.
LEMMA CloseKeeps ==
  ASSUME ChannelInv, NEW t \in Isolates, Close(t) PROVE ChannelInv'
  <1> DEFINE A == AllClosed(recv_waiters)
             B == AllClosed(send_waiters)
             L == A \o B
  <1>1. CTypeOK /\ owing[t] = <<>> /\ Leaves(t, L) /\ closed' = TRUE
        /\ recv_waiters' = <<>> /\ send_waiters' = <<>> /\ UNCHANGED <<queue, caller>>
    BY DEF ChannelInv, Close
  <1>2. /\ recv_waiters \in Seq(Receives) /\ Len(recv_waiters) \in Nat
        /\ DOMAIN recv_waiters = 1..Len(recv_waiters)
        /\ \A k \in 1..Len(recv_waiters) : recv_waiters[k] \in Calls
        /\ send_waiters \in Seq(Sends) /\ Len(send_waiters) \in Nat
        /\ DOMAIN send_waiters = 1..Len(send_waiters)
        /\ \A k \in 1..Len(send_waiters) : send_waiters[k] \in Calls
    BY <1>1, LenProperties, ElementOfSeq DEF CTypeOK, Calls
  <1>3. /\ A \in Seq(Owed) /\ Len(A) = Len(recv_waiters)
        /\ \A k \in 1..Len(recv_waiters) : A[k].to = recv_waiters[k]
    <2>1. \A k \in 1..Len(recv_waiters) :
              Owe(recv_waiters[k], "closed") \in Owed
              /\ Owe(recv_waiters[k], "closed").to = recv_waiters[k]
      BY <1>2, OweIsOwed DEF Results
    <2>2. A = [k \in 1..Len(recv_waiters) |-> Owe(recv_waiters[k], "closed")]
      BY <1>2 DEF AllClosed
    <2> QED
      BY <1>2, <2>1, <2>2
  <1>4. /\ B \in Seq(Owed) /\ Len(B) = Len(send_waiters)
        /\ \A k \in 1..Len(send_waiters) : B[k].to = send_waiters[k]
    <2>1. \A k \in 1..Len(send_waiters) :
              Owe(send_waiters[k], "closed") \in Owed
              /\ Owe(send_waiters[k], "closed").to = send_waiters[k]
      BY <1>2, OweIsOwed DEF Results
    <2>2. B = [k \in 1..Len(send_waiters) |-> Owe(send_waiters[k], "closed")]
      BY <1>2 DEF AllClosed
    <2> QED
      BY <1>2, <2>1, <2>2
  <1> HIDE DEF A, B
  <1>5. /\ L \in Seq(Owed) /\ DOMAIN L = 1..(Len(A) + Len(B))
        /\ \A k \in 1..Len(A) : L[k] = A[k]
        /\ \A k \in 1..Len(B) : L[Len(A) + k] = B[k]
    <2>1. /\ L \in Seq(Owed) /\ Len(L) = Len(A) + Len(B)
          /\ \A k \in 1..(Len(A) + Len(B)) : L[k] = IF k <= Len(A) THEN A[k] ELSE B[k - Len(A)]
      <3>1. A \in Seq(Owed) /\ B \in Seq(Owed) /\ L = A \o B
        BY <1>3, <1>4 DEF L
      <3> HIDE DEF L
      <3>2. /\ A \o B \in Seq(Owed) /\ Len(A \o B) = Len(A) + Len(B)
            /\ \A k \in 1..(Len(A) + Len(B)) :
                  (A \o B)[k] = IF k <= Len(A) THEN A[k] ELSE B[k - Len(A)]
        BY <3>1, ConcatProperties, Zenon
      <3> QED
        BY <3>1, <3>2, Zenon
    <2>2. DOMAIN L = 1..Len(L)
      BY <2>1, LenProperties
    <2>3. \A k \in 1..Len(A) : L[k] = A[k]
      BY <1>2, <1>3, <1>4, <2>1
    <2>4. ASSUME NEW k \in 1..Len(B) PROVE L[Len(A) + k] = B[k]
      <3>1. /\ Len(A) + k \in 1..(Len(A) + Len(B)) /\ ~(Len(A) + k <= Len(A))
            /\ (Len(A) + k) - Len(A) = k
        BY <1>2, <1>3, <1>4
      <3> QED
        BY <2>1, <3>1
    <2> QED
      BY <2>1, <2>2, <2>3, <2>4
  <1>6. \A c \in Members(recv_waiters) : \E k \in DOMAIN L : L[k].to = c
    <2> TAKE c \in Members(recv_waiters)
    <2>1. PICK k \in 1..Len(recv_waiters) : recv_waiters[k] = c
      BY <1>2 DEF Members
    <2>2. k \in DOMAIN L /\ L[k].to = c
      BY <1>2, <1>3, <1>4, <1>5, <2>1
    <2> QED
      BY <2>2
  <1>7. \A c \in Members(send_waiters) : \E k \in DOMAIN L : L[k].to = c
    <2> TAKE c \in Members(send_waiters)
    <2>1. PICK k \in 1..Len(send_waiters) : send_waiters[k] = c
      BY <1>2 DEF Members
    <2>2. Len(A) + k \in DOMAIN L /\ L[Len(A) + k].to = c
      BY <1>2, <1>3, <1>4, <1>5, <2>1
    <2> QED
      BY <2>2
  <1> HIDE DEF L
  <1>8. /\ owing' \in [Isolates -> Seq(Owed)] /\ \A d : Owes(owing, d) => Owes(owing', d)
        /\ \A d : (\E k \in DOMAIN L : L[k].to = d) => Owes(owing', d)
    BY <1>1, <1>5, LeavesOwes
  <1>9. CTypeOK'
    BY <1>1, <1>8 DEF CTypeOK, Leaves
  <1>10. Queues'
    BY <1>1 DEF Queues
  <1>11. Expected'
    <2>1. promise' = promise
      BY <1>1 DEF Leaves
    <2>2. \A d \in Members(recv_waiters) \cup Members(send_waiters) : Owes(owing', d)
      BY <1>6, <1>7, <1>8
    <2> QED
      BY <1>8, <2>1, <2>2, StillExpected
  <1> QED
    BY <1>9, <1>10, <1>11 DEF ChannelInv

LEMMA ResolveKeeps ==
  ASSUME ChannelInv, NEW t \in Isolates, Resolve(t) PROVE ChannelInv'
  <1> DEFINE o == Head(owing[t])
  <1>1. /\ CTypeOK /\ owing[t] # <<>> /\ owing' = [owing EXCEPT ![t] = Tail(owing[t])]
        /\ promise' = [promise EXCEPT ![o.to] = IF @ \in {"none", "pending"} THEN o.what ELSE @]
        /\ handle' = [handle EXCEPT ![o.to] = IF @ = "none" THEN o.what ELSE @]
        /\ UNCHANGED <<queue, closed, recv_waiters, send_waiters, caller>>
    BY DEF ChannelInv, Resolve, stateVars
  <1>2. owing[t] \in Seq(Owed) /\ owing \in [Isolates -> Seq(Owed)]
    BY <1>1 DEF CTypeOK
  <1>3. /\ o \in Owed /\ Tail(owing[t]) \in Seq(Owed)
        /\ Members(owing[t]) = {o} \cup Members(Tail(owing[t]))
    BY <1>1, <1>2, MembersOfTail
  <1>4. o.to \in Calls /\ o.what \in Results
    BY <1>3 DEF Owed
  <1>5. o.what # "pending"
    BY <1>4, NamesAssumption DEF Results
  <1> HIDE DEF o
  <1>6. owing' \in [Isolates -> Seq(Owed)]
    BY <1>1, <1>2, <1>3
  <1>7. promise' \in [Calls -> {"none", "pending"} \cup Results]
        /\ handle' \in [Calls -> {"none", "pending"} \cup Results]
    BY <1>1, <1>4 DEF CTypeOK
  <1>8. CTypeOK'
    BY <1>1, <1>6, <1>7 DEF CTypeOK
  <1>9. Queues'
    BY <1>1 DEF ChannelInv, Queues
  <1>10. ASSUME NEW c \in Calls, promise'[c] = "pending"
         PROVE  c \in Members(recv_waiters') \cup Members(send_waiters') \/ Owes(owing', c)
    <2>1. c # o.to /\ promise[c] = "pending"
      BY <1>1, <1>4, <1>5, <1>10 DEF CTypeOK
    <2>2. CASE c \in Members(recv_waiters) \cup Members(send_waiters)
      BY <1>1, <2>2
    <2>3. CASE Owes(owing, c)
      <3>1. PICK u \in Isolates : \E k \in DOMAIN owing[u] : owing[u][k].to = c
        BY <2>3 DEF Owes
      <3>2. PICK x \in Members(owing[u]) : x.to = c
        BY <3>1 DEF Members
      <3>3. x \in Members(owing'[u])
        BY <1>1, <1>2, <1>3, <2>1, <3>2
      <3> QED
        BY <3>2, <3>3 DEF Owes, Members
    <2> QED
      BY <2>1, <2>2, <2>3 DEF ChannelInv, Expected
  <1> QED
    BY <1>8, <1>9, <1>10 DEF ChannelInv, Expected

LEMMA HandleKeeps ==
  ASSUME ChannelInv, NEW c \in Calls, SettleHandle(c) \/ CancelCall(c) PROVE ChannelInv'
  <1>1. CTypeOK /\ UNCHANGED <<queue, closed, recv_waiters, send_waiters, caller, owing>>
    BY DEF ChannelInv, SettleHandle, CancelCall, stateVars
  <1>2. promise' \in [Calls -> {"none", "pending"} \cup Results]
        /\ \A d \in Calls : promise'[d] = "pending" => promise[d] = "pending"
    BY <1>1 DEF SettleHandle, CancelCall, CTypeOK, Results
  <1>3. handle' \in [Calls -> {"none", "pending"} \cup Results]
    BY <1>1 DEF SettleHandle, CancelCall, CTypeOK, Results
  <1>4. CTypeOK'
    BY <1>1, <1>2, <1>3 DEF CTypeOK
  <1>5. Queues'
    BY <1>1 DEF ChannelInv, Queues
  <1>6. Expected'
    <2>1. \A d : Owes(owing', d) <=> Owes(owing, d)
      BY <1>1 DEF Owes
    <2> QED
      BY <1>1, <1>2, <2>1 DEF ChannelInv, Expected
  <1> QED
    BY <1>4, <1>5, <1>6 DEF ChannelInv

LEMMA ChannelStep == ChannelInv /\ [CNext]_cvars => ChannelInv'
  <1> SUFFICES ASSUME ChannelInv, [CNext]_cvars PROVE ChannelInv'
    OBVIOUS
  <1>1. CASE UNCHANGED cvars
    <2>1. \A d : Owes(owing', d) <=> Owes(owing, d)
      BY <1>1 DEF Owes, cvars
    <2> QED
      BY <1>1, <2>1 DEF cvars, stateVars, ChannelInv, CTypeOK, Queues, Expected
  <1> QED
    BY <1>1, SendKeeps, ReceiveKeeps, CloseKeeps, ResolveKeeps, HandleKeeps DEF CNext

\* Between the lock regions of any isolates and the completions they make after
\* them, nobody is parked beside what it waits for or on a closed channel, and a
\* pending promise is parked or about to be completed (send, try_receive, close).
THEOREM NobodyWaits == CSpec => []NobodyWaitsInVain
  <1>1. CInit => ChannelInv
    BY ChannelStart
  <1>2. ChannelInv /\ [CNext]_cvars => ChannelInv'
    BY ChannelStep
  <1>3. ChannelInv => NobodyWaitsInVain
    BY InvImplies
  <1> QED
    BY <1>1, <1>2, <1>3, PTL DEF CSpec

-----------------------------------------------------------------------------
\* Some isolate has still to complete c with w.
Due(o, c, w) == \E t \in Isolates : \E k \in DOMAIN o[t] : o[t][k].to = c /\ o[t][k].what = w

\* A call is completed once.
Distinct(o) ==
    \A t, u \in Isolates : \A k \in DOMAIN o[t], l \in DOMAIN o[u] :
        o[t][k].to = o[u][l].to => t = u /\ k = l

Single(q) == \A i, j \in DOMAIN q : q[i] = q[j] => i = j

Lines ==
    /\ Single(queue) /\ Single(send_waiters) /\ Single(recv_waiters) /\ Distinct(owing)
    /\ Members(queue) \cap Members(send_waiters) = {}

\* A call is not made yet, parked, about to be completed or completed; its handle
\* follows its promise, unless it was cancelled.
Waiting == Members(recv_waiters) \cup Members(send_waiters)
Follows(c) ==
    \/ handle[c] = promise[c]
    \/ handle[c] \in {"pending", "cancelled"} /\ promise[c] \notin {"none", "pending", "cancelled"}
Phases ==
    \A c \in Calls :
        /\ Follows(c)
        /\ caller[c] = None => promise[c] = "none" /\ c \notin Waiting /\ ~Owes(owing, c)
        /\ c \in Waiting => promise[c] \in {"pending", "cancelled"} /\ ~Owes(owing, c)
        /\ Owes(owing, c) => promise[c] \in {"none", "pending", "cancelled"}
        /\ promise[c] \in Sends => c \in Receives
        /\ \A w : Due(owing, c, w) =>
              w \in IF c \in Sends THEN {"sent", "closed"} ELSE Sends \cup {"closed"}

\* A message is in one place, and nowhere if its sender was turned away.
Reaches(r, s) == Due(owing, r, s) \/ promise[r] = s
Messages ==
    \A s \in Sends :
        /\ caller[s] = None => s \notin Members(queue) /\ \A r \in Receives : ~Reaches(r, s)
        /\ s \in Members(queue) \cup Members(send_waiters) => \A r \in Receives : ~Reaches(r, s)
        /\ \A r, q \in Receives : Reaches(r, s) /\ Reaches(q, s) => r = q
        /\ s \in Members(queue) \/ (\E r \in Receives : Reaches(r, s)) =>
              promise[s] # "closed" /\ ~Due(owing, s, "closed")

\* A message whose sender was or will be told that it was sent and that is nowhere
\* has been swallowed by a receive that was cancelled, each by one of its own.
Acked(s) == promise[s] = "sent" \/ Due(owing, s, "sent")
Kept(s) ==
    \/ s \in Members(queue) \cup Members(send_waiters)
    \/ \E r \in Receives : Due(owing, r, s) \/ (promise[r] = s /\ handle[r] # "cancelled")
Gone == {s \in Sends : Acked(s) /\ ~Kept(s)}
Spent == {r \in Receives : /\ "cancelled" \in {promise[r], handle[r]}
                           /\ r \notin Members(recv_waiters) /\ ~Owes(owing, r)}
Made == {c \in Calls : caller[c] # None}
Losses == IsFiniteSet(Made) /\ Cardinality(Gone) <= Cardinality(Spent)

MessageInv == Lines /\ Phases /\ Messages /\ Losses

-----------------------------------------------------------------------------
LEMMA Words ==
  /\ Sends \subseteq Calls /\ Receives \subseteq Calls /\ Sends \cap Receives = {}
  /\ Sends \cap {"none", "pending", "waiting", "sent", "closed", "cancelled"} = {}
  /\ None \notin Isolates
  /\ Sends \subseteq Results /\ {"sent", "closed", "cancelled"} \subseteq Results
  /\ "none" \notin Results /\ "pending" \notin Results
  /\ \A c \in Calls : c \in Sends \/ c \in Receives
  BY NamesAssumption, CallsAssumption DEF Calls, Results

LEMMA OwesDue == \A o, c : Owes(o, c) <=> \E w : Due(o, c, w)
  BY DEF Owes, Due

LEMMA SingleTail ==
  ASSUME NEW S, NEW seq \in Seq(S), seq # <<>>, Single(seq)
  PROVE  Single(Tail(seq)) /\ Head(seq) \notin Members(Tail(seq))
  <1>1. /\ DOMAIN seq = 1..Len(seq) /\ 1 \in DOMAIN seq /\ Head(seq) = seq[1]
        /\ DOMAIN Tail(seq) = 1..(Len(seq) - 1) /\ Len(seq) \in Nat
        /\ \A k \in DOMAIN Tail(seq) : k + 1 \in DOMAIN seq /\ Tail(seq)[k] = seq[k + 1]
    BY TailParts
  <1>2. \A i, j \in DOMAIN Tail(seq) : Tail(seq)[i] = Tail(seq)[j] => i = j
    <2> SUFFICES ASSUME NEW i \in DOMAIN Tail(seq), NEW j \in DOMAIN Tail(seq),
                        Tail(seq)[i] = Tail(seq)[j]
                 PROVE  i = j
      OBVIOUS
    <2>1. i + 1 = j + 1
      BY <1>1 DEF Single
    <2> QED
      BY <1>1, <2>1
  <1>3. \A i \in DOMAIN Tail(seq) : Tail(seq)[i] # Head(seq)
    <2> TAKE i \in DOMAIN Tail(seq)
    <2>1. i + 1 # 1
      BY <1>1
    <2> QED
      BY <1>1, <2>1 DEF Single
  <1> QED
    BY <1>2, <1>3 DEF Single, Members

LEMMA SingleAppend ==
  ASSUME NEW S, NEW seq \in Seq(S), NEW e \in S, Single(seq), e \notin Members(seq)
  PROVE  Single(Append(seq, e))
  <1>1. \A k \in DOMAIN Append(seq, e) :
            \/ k \in DOMAIN seq /\ Append(seq, e)[k] = seq[k] /\ seq[k] # e
            \/ k = Len(seq) + 1 /\ Append(seq, e)[k] = e
    BY AppendParts DEF Members
  <1> QED
    BY <1>1 DEF Single

\* What an isolate owes when it leaves the lock, exactly.
LEMMA LeavesDue ==
  ASSUME CTypeOK, Distinct(owing), NEW t \in Isolates, owing[t] = <<>>, NEW L \in Seq(Owed),
         Leaves(t, L),
         \A k, l \in DOMAIN L : L[k].to = L[l].to => k = l,
         \A k \in DOMAIN L : ~Owes(owing, L[k].to)
  PROVE  /\ Distinct(owing')
         /\ \A c, w : Due(owing', c, w) <=>
               Due(owing, c, w) \/ \E k \in DOMAIN L : L[k].to = c /\ L[k].what = w
         /\ \A c : Owes(owing', c) <=> Owes(owing, c) \/ \E k \in DOMAIN L : L[k].to = c
         /\ promise' = promise /\ handle' = handle
  <1>1. owing \in [Isolates -> Seq(Owed)] /\ owing' = [owing EXCEPT ![t] = L]
    BY DEF CTypeOK, Leaves
  <1>2. \A u \in Isolates : u # t => owing'[u] = owing[u]
    BY <1>1
  <1>3. owing'[t] = L /\ DOMAIN owing[t] = {}
    BY <1>1
  <1>4. Distinct(owing')
    <2> SUFFICES ASSUME NEW u \in Isolates, NEW v \in Isolates, NEW k \in DOMAIN owing'[u],
                        NEW l \in DOMAIN owing'[v], owing'[u][k].to = owing'[v][l].to
                 PROVE  u = v /\ k = l
      BY DEF Distinct
    <2>1. CASE u = t /\ v = t
      BY <1>3, <2>1
    <2>2. CASE u # t /\ v # t
      BY <1>2, <2>2 DEF Distinct
    <2>3. CASE u = t /\ v # t
      BY <1>2, <1>3, <2>3 DEF Owes
    <2>4. CASE u # t /\ v = t
      BY <1>2, <1>3, <2>4 DEF Owes
    <2> QED
      BY <2>1, <2>2, <2>3, <2>4
  <1>5. ASSUME NEW c, NEW w
        PROVE  Due(owing', c, w) <=>
                  Due(owing, c, w) \/ \E k \in DOMAIN L : L[k].to = c /\ L[k].what = w
    <2>1. ASSUME Due(owing', c, w)
          PROVE  Due(owing, c, w) \/ \E k \in DOMAIN L : L[k].to = c /\ L[k].what = w
      <3>1. PICK u \in Isolates : \E k \in DOMAIN owing'[u] :
                    owing'[u][k].to = c /\ owing'[u][k].what = w
        BY <2>1 DEF Due
      <3> QED
        BY <1>2, <1>3, <3>1 DEF Due
    <2>2. ASSUME Due(owing, c, w) PROVE Due(owing', c, w)
      <3>1. PICK u \in Isolates : \E k \in DOMAIN owing[u] :
                    owing[u][k].to = c /\ owing[u][k].what = w
        BY <2>2 DEF Due
      <3>2. u # t
        BY <1>3, <3>1
      <3> QED
        BY <1>2, <3>1, <3>2 DEF Due
    <2>3. ASSUME \E k \in DOMAIN L : L[k].to = c /\ L[k].what = w PROVE Due(owing', c, w)
      BY <1>3, <2>3 DEF Due
    <2> QED
      BY <2>1, <2>2, <2>3
  <1>6. \A c : Owes(owing', c) <=> Owes(owing, c) \/ \E k \in DOMAIN L : L[k].to = c
    <2> TAKE c
    <2>1. ASSUME Owes(owing', c) PROVE Owes(owing, c) \/ \E k \in DOMAIN L : L[k].to = c
      <3>1. PICK w : Due(owing', c, w)
        BY <2>1, OwesDue
      <3> QED
        BY <1>5, <3>1, OwesDue
    <2>2. ASSUME Owes(owing, c) PROVE Owes(owing', c)
      <3>1. PICK w : Due(owing, c, w)
        BY <2>2, OwesDue
      <3> QED
        BY <1>5, <3>1, OwesDue
    <2>3. ASSUME NEW k \in DOMAIN L, L[k].to = c PROVE Owes(owing', c)
      <3>1. Due(owing', c, L[k].what)
        BY <1>5, <2>3
      <3> QED
        BY <3>1, OwesDue
    <2> QED
      BY <2>1, <2>2, <2>3
  <1> QED
    BY <1>4, <1>5, <1>6 DEF Leaves

\* What is still owed when the first completion has been made.
LEMMA ResolveDue ==
  ASSUME CTypeOK, Distinct(owing), NEW t \in Isolates, owing[t] # <<>>, NEW h, h = Head(owing[t]),
         owing' = [owing EXCEPT ![t] = Tail(owing[t])]
  PROVE  /\ Distinct(owing') /\ h \in Owed /\ Due(owing, h.to, h.what)
         /\ \A c, w : Due(owing', c, w) <=> Due(owing, c, w) /\ c # h.to
  <1>1. owing \in [Isolates -> Seq(Owed)] /\ owing[t] \in Seq(Owed)
    BY DEF CTypeOK
  <1> SUFFICES ASSUME NEW s, s = owing[t], NEW rest, rest = Tail(s)
               PROVE  /\ Distinct(owing') /\ h \in Owed /\ Due(owing, h.to, h.what)
                      /\ \A c, w : Due(owing', c, w) <=> Due(owing, c, w) /\ c # h.to
    OBVIOUS
  <1>2. /\ h \in Owed /\ h = s[1] /\ 1 \in DOMAIN s
        /\ \A k \in DOMAIN rest : k + 1 \in DOMAIN s /\ rest[k] = s[k + 1] /\ k \in Nat
        /\ \A k \in DOMAIN s : k = 1 \/ (k - 1 \in DOMAIN rest /\ rest[k - 1] = s[k])
    BY <1>1, TailParts
  <1>3. owing'[t] = rest /\ \A u \in Isolates : u # t => owing'[u] = owing[u]
    BY <1>1
  <1>4. Due(owing, h.to, h.what)
    BY <1>2 DEF Due
  <1>5. \A k \in DOMAIN rest : rest[k].to # h.to
    <2> TAKE k \in DOMAIN rest
    <2>1. k + 1 # 1
      BY <1>2
    <2> QED
      BY <1>2, <2>1 DEF Distinct
  <1>6. \A u \in Isolates : u # t => \A k \in DOMAIN owing[u] : owing[u][k].to # h.to
    BY <1>2 DEF Distinct
  <1>7. Distinct(owing')
    <2> SUFFICES ASSUME NEW u \in Isolates, NEW v \in Isolates, NEW k \in DOMAIN owing'[u],
                        NEW l \in DOMAIN owing'[v], owing'[u][k].to = owing'[v][l].to
                 PROVE  u = v /\ k = l
      BY DEF Distinct
    <2>1. CASE u = t /\ v = t
      <3>1. k + 1 = l + 1
        BY <1>2, <1>3, <2>1 DEF Distinct
      <3>2. k \in DOMAIN rest /\ l \in DOMAIN rest
        BY <1>3, <2>1
      <3>3. k \in Nat /\ l \in Nat
        BY <1>2, <3>2
      <3> QED
        BY <2>1, <3>1, <3>3
    <2>2. CASE u # t /\ v # t
      BY <1>3, <2>2 DEF Distinct
    <2>3. CASE u = t /\ v # t
      BY <1>2, <1>3, <2>3 DEF Distinct
    <2>4. CASE u # t /\ v = t
      BY <1>2, <1>3, <2>4 DEF Distinct
    <2> QED
      BY <2>1, <2>2, <2>3, <2>4
  <1>8. ASSUME NEW c, NEW w PROVE Due(owing', c, w) <=> Due(owing, c, w) /\ c # h.to
    <2>1. ASSUME Due(owing', c, w) PROVE Due(owing, c, w) /\ c # h.to
      <3>1. PICK u \in Isolates : \E k \in DOMAIN owing'[u] :
                    owing'[u][k].to = c /\ owing'[u][k].what = w
        BY <2>1 DEF Due
      <3>2. CASE u = t
        <4>1. PICK k \in DOMAIN rest : rest[k].to = c /\ rest[k].what = w
          BY <1>3, <3>1, <3>2
        <4>2. k + 1 \in DOMAIN owing[t] /\ owing[t][k + 1] = rest[k]
          BY <1>2, <4>1
        <4> QED
          BY <1>5, <4>1, <4>2 DEF Due
      <3>3. CASE u # t
        BY <1>3, <1>6, <3>1, <3>3 DEF Due
      <3> QED
        BY <3>2, <3>3
    <2>2. ASSUME Due(owing, c, w), c # h.to PROVE Due(owing', c, w)
      <3>1. PICK u \in Isolates : \E k \in DOMAIN owing[u] :
                    owing[u][k].to = c /\ owing[u][k].what = w
        BY <2>2 DEF Due
      <3>2. CASE u = t
        <4>1. PICK k \in DOMAIN s : s[k].to = c /\ s[k].what = w
          BY <3>1, <3>2
        <4>2. k - 1 \in DOMAIN rest /\ rest[k - 1] = s[k]
          BY <1>2, <2>2, <4>1
        <4> QED
          BY <1>3, <4>1, <4>2 DEF Due
      <3>3. CASE u # t
        BY <1>3, <3>1, <3>3 DEF Due
      <3> QED
        BY <3>2, <3>3
    <2> QED
      BY <2>1, <2>2
  <1> QED
    BY <1>2, <1>4, <1>7, <1>8

-----------------------------------------------------------------------------
LEMMA MessageStart == CInit => MessageInv
  <1> SUFFICES ASSUME CInit PROVE MessageInv
    OBVIOUS
  <1> USE Words
  <1>1. /\ queue = <<>> /\ recv_waiters = <<>> /\ send_waiters = <<>>
        /\ \A c \in Calls : caller[c] = None /\ promise[c] = "none" /\ handle[c] = "none"
        /\ \A t \in Isolates : DOMAIN owing[t] = {}
    BY DEF CInit
  <1>2. /\ \A c, w : ~Due(owing, c, w) /\ ~Owes(owing, c)
        /\ Members(queue) = {} /\ Members(recv_waiters) = {} /\ Members(send_waiters) = {}
    BY <1>1 DEF Due, Owes, Members
  <1>3. Lines
    BY <1>1, <1>2 DEF Lines, Single, Distinct
  <1>4. Phases
    BY <1>1, <1>2 DEF Phases, Follows, Waiting
  <1>5. Messages
    BY <1>1, <1>2 DEF Messages, Reaches
  <1>6. Losses
    <2>1. Made = {}
      BY <1>1 DEF Made
    <2>2. Gone = {}
      BY <1>1, <1>2 DEF Gone, Acked
    <2>3. Spent = {}
      BY <1>1 DEF Spent
    <2> QED
      BY <2>1, <2>2, <2>3, FS_EmptySet DEF Losses
  <1> QED
    BY <1>3, <1>4, <1>5, <1>6 DEF MessageInv

\* Messages that are gone and receives that are spent were called.
LEMMA LossesFinite ==
  ASSUME Phases, IsFiniteSet(Made)
  PROVE  /\ IsFiniteSet(Gone) /\ IsFiniteSet(Spent)
         /\ Cardinality(Gone) \in Nat /\ Cardinality(Spent) \in Nat
  <1> USE Words
  <1>1. \A c, w : Due(owing, c, w) => Owes(owing, c)
    BY OwesDue
  <1>2. Gone \in SUBSET Made
    <2> SUFFICES ASSUME NEW s \in Gone PROVE s \in Made
      OBVIOUS
    <2>1. s \in Sends /\ Acked(s)
      BY DEF Gone
    <2> QED
      BY <1>1, <2>1 DEF Acked, Phases, Made
  <1>3. Spent \in SUBSET Made
    BY DEF Spent, Phases, Follows, Made
  <1>4. IsFiniteSet(Gone) /\ IsFiniteSet(Spent)
    BY <1>2, <1>3, FS_Subset
  <1> QED
    BY <1>4, FS_CardinalityType

LEMMA LossesKept ==
  ASSUME Phases, Losses, Phases', IsFiniteSet(Made'), Gone' \subseteq Gone, Spent \subseteq Spent'
  PROVE  Losses'
  <1>1. /\ IsFiniteSet(Gone) /\ Cardinality(Spent) \in Nat /\ Cardinality(Gone) \in Nat
    BY LossesFinite DEF Losses
  <1>2. IsFiniteSet(Spent')
    <2> SUFFICES ASSUME NEW M, M = Made', NEW P, P = Spent', P \in SUBSET M PROVE IsFiniteSet(P)
      <3>1. Spent' \in SUBSET (Made')
        BY Words DEF Spent, Phases, Follows, Made
      <3> QED
        BY <3>1
    <2> QED
      BY FS_Subset
  <1> SUFFICES ASSUME NEW L, L = Gone', NEW W, W = Spent'
               PROVE  Cardinality(L) <= Cardinality(W)
    BY DEF Losses
  <1>3. IsFiniteSet(L) /\ Cardinality(L) <= Cardinality(Gone)
    BY <1>1, FS_Subset
  <1>4. Cardinality(Spent) <= Cardinality(W)
    BY <1>2, FS_Subset
  <1>5. Cardinality(L) \in Nat /\ Cardinality(W) \in Nat
    BY <1>2, <1>3, FS_CardinalityType
  <1> QED
    BY <1>1, <1>3, <1>4, <1>5 DEF Losses

\* One more message is gone, with one more receive that is spent.
LEMMA LossSwallowed ==
  ASSUME Phases, Losses, Phases', IsFiniteSet(Made'), NEW u, NEW r,
         Gone' \subseteq Gone \cup {u}, Spent \cup {r} \subseteq Spent', r \notin Spent
  PROVE  Losses'
  <1>1. /\ IsFiniteSet(Gone) /\ IsFiniteSet(Spent)
        /\ Cardinality(Spent) \in Nat /\ Cardinality(Gone) \in Nat
    BY LossesFinite DEF Losses
  <1>2. IsFiniteSet(Spent')
    <2> SUFFICES ASSUME NEW M, M = Made', NEW P, P = Spent', P \in SUBSET M PROVE IsFiniteSet(P)
      <3>1. Spent' \in SUBSET (Made')
        BY Words DEF Spent, Phases, Follows, Made
      <3> QED
        BY <3>1
    <2> QED
      BY FS_Subset
  <1> SUFFICES ASSUME NEW L, L = Gone', NEW W, W = Spent'
               PROVE  Cardinality(L) <= Cardinality(W)
    BY DEF Losses
  <1>3. /\ IsFiniteSet(Gone \cup {u}) /\ Cardinality(Gone \cup {u}) \in Nat
        /\ Cardinality(Gone \cup {u}) <= Cardinality(Gone) + 1
    <2>1. /\ IsFiniteSet(Gone \cup {u})
          /\ Cardinality(Gone \cup {u}) =
                IF u \in Gone THEN Cardinality(Gone) ELSE Cardinality(Gone) + 1
      BY <1>1, FS_AddElement
    <2> QED
      BY <1>1, <2>1
  <1>4. IsFiniteSet(L) /\ Cardinality(L) <= Cardinality(Gone \cup {u})
    BY <1>3, FS_Subset
  <1>5. Cardinality(Spent \cup {r}) = Cardinality(Spent) + 1
    BY <1>1, FS_AddElement
  <1>6. Cardinality(Spent \cup {r}) <= Cardinality(W)
    BY <1>2, FS_Subset
  <1>7. Cardinality(L) \in Nat /\ Cardinality(W) \in Nat
    BY <1>2, <1>4, FS_CardinalityType
  <1> QED
    BY <1>1, <1>3, <1>4, <1>5, <1>6, <1>7 DEF Losses

LEMMA MadeFinite ==
  ASSUME CTypeOK, Losses, NEW t \in Isolates, NEW c \in Calls, Calling(t, c)
  PROVE  IsFiniteSet(Made')
  <1>1. Made' \subseteq Made \cup {c}
    BY DEF Made, Calling, CTypeOK
  <1>2. IsFiniteSet(Made \cup {c})
    BY FS_AddElement DEF Losses
  <1> SUFFICES ASSUME NEW M, M = Made' PROVE IsFiniteSet(M)
    OBVIOUS
  <1> QED
    BY <1>1, <1>2, FS_Subset

\* A call that leaves the lock with completions for calls that wait for one.
LEMMA LeavesPhases ==
  ASSUME CTypeOK, Lines, Phases, NEW t \in Isolates, owing[t] = <<>>, NEW L \in Seq(Owed),
         Leaves(t, L),
         \A k, l \in DOMAIN L : L[k].to = L[l].to => k = l,
         \A k \in DOMAIN L :
             /\ ~Owes(owing, L[k].to) /\ promise[L[k].to] \in {"none", "pending", "cancelled"}
             /\ L[k].to \notin Waiting' /\ caller'[L[k].to] # None
             /\ L[k].what \in IF L[k].to \in Sends THEN {"sent", "closed"}
                              ELSE Sends \cup {"closed"},
         \A c \in Calls : caller'[c] = None => caller[c] = None,
         Waiting' \subseteq Waiting
  PROVE  Phases'
  <1>1. \A c, w : Due(owing', c, w) <=>
               Due(owing, c, w) \/ \E k \in DOMAIN L : L[k].to = c /\ L[k].what = w
    <2>1. Distinct(owing) /\ \A k \in DOMAIN L : ~Owes(owing, L[k].to)
      BY DEF Lines
    <2> QED
      BY <2>1, LeavesDue
  <1>2. \A c : Owes(owing', c) <=> Owes(owing, c) \/ \E k \in DOMAIN L : L[k].to = c
    <2>1. Distinct(owing) /\ \A k \in DOMAIN L : ~Owes(owing, L[k].to)
      BY DEF Lines
    <2> QED
      BY <2>1, LeavesDue
  <1>3. promise' = promise /\ handle' = handle
    BY DEF Leaves
  <1> SUFFICES ASSUME NEW c \in Calls
               PROVE  /\ Follows(c)'
                      /\ caller'[c] = None =>
                            promise[c] = "none" /\ c \notin Waiting' /\ ~Owes(owing', c)
                      /\ c \in Waiting' =>
                            promise[c] \in {"pending", "cancelled"} /\ ~Owes(owing', c)
                      /\ Owes(owing', c) => promise[c] \in {"none", "pending", "cancelled"}
                      /\ promise[c] \in Sends => c \in Receives
                      /\ \A w : Due(owing', c, w) =>
                            w \in IF c \in Sends THEN {"sent", "closed"} ELSE Sends \cup {"closed"}
    BY <1>3 DEF Phases
  <1>4. Follows(c)'
    BY <1>3 DEF Phases, Follows
  <1>5. caller'[c] = None => promise[c] = "none" /\ c \notin Waiting' /\ ~Owes(owing', c)
    BY <1>2 DEF Phases
  <1>6. c \in Waiting' => promise[c] \in {"pending", "cancelled"} /\ ~Owes(owing', c)
    BY <1>2 DEF Phases
  <1>7. Owes(owing', c) => promise[c] \in {"none", "pending", "cancelled"}
    BY <1>2 DEF Phases
  <1>8. \A w : Due(owing', c, w) =>
            w \in IF c \in Sends THEN {"sent", "closed"} ELSE Sends \cup {"closed"}
    BY <1>1 DEF Phases
  <1> QED
    BY <1>4, <1>5, <1>6, <1>7, <1>8 DEF Phases

LEMMA NotMade ==
  ASSUME ChannelInv, MessageInv, NEW t \in Isolates, NEW c \in Calls, Calling(t, c)
  PROVE  /\ promise[c] = "none" /\ handle[c] = "none" /\ ~Owes(owing, c) /\ c \notin Waiting
         /\ owing[t] = <<>> /\ IsFiniteSet(Made') /\ caller'[c] # None
         /\ \A w : ~Due(owing, c, w)
         /\ \A d \in Calls : caller'[d] = None => caller[d] = None /\ d # c
         /\ c \in Sends => c \notin Members(queue) /\ \A r \in Receives : ~Reaches(r, c)
         /\ CTypeOK /\ Queues /\ Expected /\ Lines /\ Phases /\ Messages /\ Losses
  <1> USE Words
  <1>1. /\ CTypeOK /\ Queues /\ Expected /\ Lines /\ Phases /\ Messages /\ Losses
        /\ owing[t] = <<>> /\ caller[c] = None
        /\ caller' = [caller EXCEPT ![c] = t] /\ caller \in [Calls -> Isolates \cup {None}]
    BY DEF ChannelInv, MessageInv, Calling, CTypeOK
  <1>2. /\ promise[c] = "none" /\ handle[c] = "none" /\ ~Owes(owing, c) /\ c \notin Waiting
    BY <1>1 DEF Phases, Follows
  <1>3. IsFiniteSet(Made')
    BY <1>1, MadeFinite
  <1>4. caller'[c] # None /\ \A d \in Calls : caller'[d] = None => caller[d] = None /\ d # c
    BY <1>1
  <1>5. c \in Sends => c \notin Members(queue) /\ \A r \in Receives : ~Reaches(r, c)
    BY <1>1 DEF Messages
  <1>6. \A w : ~Due(owing, c, w)
    BY <1>2, OwesDue
  <1> QED
    BY <1>1, <1>2, <1>3, <1>4, <1>5, <1>6

\* A call that returns at once with w.
LEMMA ReturnDoes ==
  ASSUME ChannelInv, MessageInv, NEW t \in Isolates, NEW c \in Calls, Calling(t, c),
         NEW w \in IF c \in Sends THEN {"sent", "closed"} ELSE Sends \cup {"closed"},
         Leaves(t, <<Owe(c, w)>>), Waiting' = Waiting
  PROVE  /\ Phases' /\ Distinct(owing')
         /\ \A d, v : Due(owing', d, v) <=> Due(owing, d, v) \/ (d = c /\ v = w)
         /\ \A d : Owes(owing', d) <=> Owes(owing, d) \/ d = c
         /\ promise' = promise /\ handle' = handle
  <1> USE Words
  <1>1. SUFFICES ASSUME NEW L, L = <<Owe(c, w)>>
                 PROVE  /\ Phases' /\ Distinct(owing')
                        /\ \A d, v : Due(owing', d, v) <=> Due(owing, d, v) \/ (d = c /\ v = w)
                        /\ \A d : Owes(owing', d) <=> Owes(owing, d) \/ d = c
                        /\ promise' = promise /\ handle' = handle
    OBVIOUS
  <1>2. L \in Seq(Owed) /\ DOMAIN L = 1..1 /\ L[1].to = c /\ L[1].what = w
    <2>1. Owe(c, w) \in Owed /\ Owe(c, w).to = c /\ Owe(c, w).what = w
      BY DEF Owe, Owed
    <2> QED
      BY <1>1, <2>1, OneOwed
  <1>3. /\ \A k, l \in DOMAIN L : L[k].to = L[l].to => k = l
        /\ \A k \in DOMAIN L : L[k].to = c /\ L[k].what = w
    BY <1>2
  <1>4. /\ promise[c] = "none" /\ ~Owes(owing, c) /\ c \notin Waiting
        /\ owing[t] = <<>> /\ caller'[c] # None
        /\ \A d \in Calls : caller'[d] = None => caller[d] = None
        /\ CTypeOK /\ Lines /\ Phases /\ Distinct(owing)
    BY NotMade DEF Lines
  <1>5. Leaves(t, L)
    BY <1>1
  <1>6. Phases'
    BY <1>2, <1>3, <1>4, <1>5, LeavesPhases
  <1>7. /\ Distinct(owing')
        /\ \A d, v : Due(owing', d, v) <=>
               Due(owing, d, v) \/ \E k \in DOMAIN L : L[k].to = d /\ L[k].what = v
        /\ \A d : Owes(owing', d) <=> Owes(owing, d) \/ \E k \in DOMAIN L : L[k].to = d
        /\ promise' = promise /\ handle' = handle
    BY <1>2, <1>3, <1>4, <1>5, LeavesDue
  <1> QED
    BY <1>2, <1>6, <1>7

LEMMA SendRefusedMessages ==
  ASSUME ChannelInv, MessageInv, NEW t \in Isolates, NEW s \in Sends, SendRefused(t, s)
  PROVE  MessageInv'
  <1> USE Words
  <1>1. /\ Calling(t, s) /\ Leaves(t, <<Owe(s, "closed")>>) /\ s \in Calls
        /\ UNCHANGED <<queue, closed, recv_waiters, send_waiters>>
    BY DEF SendRefused, stateVars
  <1>2. /\ promise[s] = "none" /\ ~Owes(owing, s) /\ s \notin Waiting /\ IsFiniteSet(Made')
        /\ \A d \in Calls : caller'[d] = None => caller[d] = None /\ d # s
        /\ s \notin Members(queue) /\ \A r \in Receives : ~Reaches(r, s)
        /\ Lines /\ Phases /\ Messages /\ Losses
    BY <1>1, NotMade
  <1>3. Waiting' = Waiting
    BY <1>1 DEF Waiting
  <1>4. /\ Phases' /\ Distinct(owing')
        /\ \A d, v : Due(owing', d, v) <=> Due(owing, d, v) \/ (d = s /\ v = "closed")
        /\ \A d : Owes(owing', d) <=> Owes(owing, d) \/ d = s
        /\ promise' = promise /\ handle' = handle
    BY <1>1, <1>3, ReturnDoes
  <1>5. Lines'
    BY <1>1, <1>2, <1>4 DEF Lines
  <1>6. \A m : \A r \in Receives : Reaches(r, m)' <=> Reaches(r, m)
    BY <1>4 DEF Reaches
  <1>7. Messages'
    <2>1. \A m \in Sends : Due(owing', m, "closed") => m = s \/ Due(owing, m, "closed")
      BY <1>4
    <2> QED
      BY <1>1, <1>2, <1>4, <1>6, <2>1 DEF Messages
  <1>8. Losses'
    <2>1. Gone' \subseteq Gone
      <3> SUFFICES ASSUME NEW m \in Sends, Acked(m)', ~Kept(m)' PROVE Acked(m) /\ ~Kept(m)
        BY DEF Gone
      <3>1. Acked(m)
        BY <1>4 DEF Acked
      <3>2. ~Kept(m)
        BY <1>1, <1>4 DEF Kept
      <3> QED
        BY <3>1, <3>2
    <2>2. Spent \subseteq Spent'
      BY <1>1, <1>4 DEF Spent
    <2> QED
      BY <1>2, <1>4, <2>1, <2>2, LossesKept
  <1> QED
    BY <1>4, <1>5, <1>7, <1>8 DEF MessageInv

LEMMA SendQueuesMessages ==
  ASSUME ChannelInv, MessageInv, NEW t \in Isolates, NEW s \in Sends, SendQueues(t, s)
  PROVE  MessageInv'
  <1> USE Words
  <1>1. /\ Calling(t, s) /\ Leaves(t, <<Owe(s, "sent")>>) /\ s \in Calls
        /\ queue' = Append(queue, s) /\ UNCHANGED <<closed, recv_waiters, send_waiters>>
    BY DEF SendQueues
  <1>2. /\ promise[s] = "none" /\ ~Owes(owing, s) /\ s \notin Waiting /\ IsFiniteSet(Made')
        /\ \A d \in Calls : caller'[d] = None => caller[d] = None /\ d # s
        /\ s \notin Members(queue) /\ \A r \in Receives : ~Reaches(r, s)
        /\ Lines /\ Phases /\ Messages /\ Losses /\ queue \in Seq(Sends) /\ \A w : ~Due(owing, s, w)
    BY <1>1, NotMade DEF CTypeOK
  <1>3. Waiting' = Waiting
    BY <1>1 DEF Waiting
  <1>4. /\ Phases' /\ Distinct(owing')
        /\ \A d, v : Due(owing', d, v) <=> Due(owing, d, v) \/ (d = s /\ v = "sent")
        /\ \A d : Owes(owing', d) <=> Owes(owing, d) \/ d = s
        /\ promise' = promise /\ handle' = handle
    BY <1>1, <1>3, ReturnDoes
  <1>5. Single(queue') /\ Members(queue') = Members(queue) \cup {s}
    BY <1>1, <1>2, SingleAppend, MembersOfAppend DEF Lines
  <1>6. Lines'
    BY <1>1, <1>2, <1>4, <1>5 DEF Lines, Waiting
  <1>7. \A m : \A r \in Receives : Reaches(r, m)' <=> Reaches(r, m)
    BY <1>4 DEF Reaches
  <1>8. Messages'
    <2>1. \A m \in Sends : Due(owing', m, "closed") => Due(owing, m, "closed")
      BY <1>4
    <2> SUFFICES ASSUME NEW m \in Sends
                 PROVE  /\ caller'[m] = None =>
                              m \notin Members(queue') /\ \A r \in Receives : ~Reaches(r, m)'
                        /\ m \in Members(queue') \cup Members(send_waiters') =>
                              \A r \in Receives : ~Reaches(r, m)'
                        /\ \A r, q \in Receives : Reaches(r, m)' /\ Reaches(q, m)' => r = q
                        /\ m \in Members(queue') \/ (\E r \in Receives : Reaches(r, m)') =>
                              promise'[m] # "closed" /\ ~Due(owing', m, "closed")
      BY DEF Messages
    <2>2. CASE m = s
      BY <1>1, <1>2, <1>4, <1>7, <2>1, <2>2 DEF Messages
    <2>3. CASE m # s
      BY <1>1, <1>2, <1>4, <1>5, <1>7, <2>1, <2>3 DEF Messages
    <2> QED
      BY <2>2, <2>3
  <1>9. Losses'
    <2>1. Gone' \subseteq Gone
      <3> SUFFICES ASSUME NEW m \in Sends, Acked(m)', ~Kept(m)' PROVE Acked(m) /\ ~Kept(m)
        BY DEF Gone
      <3>1. m # s
        BY <1>5 DEF Kept
      <3>2. Acked(m)
        BY <1>4, <3>1 DEF Acked
      <3>3. ~Kept(m)
        BY <1>1, <1>4, <1>5 DEF Kept
      <3> QED
        BY <3>2, <3>3
    <2>2. Spent \subseteq Spent'
      BY <1>1, <1>4 DEF Spent
    <2> QED
      BY <1>2, <1>4, <2>1, <2>2, LossesKept
  <1> QED
    BY <1>4, <1>6, <1>8, <1>9 DEF MessageInv

LEMMA SendParksMessages ==
  ASSUME ChannelInv, MessageInv, NEW t \in Isolates, NEW s \in Sends, SendParks(t, s)
  PROVE  MessageInv'
  <1> USE Words
  <1>1. /\ Calling(t, s) /\ s \in Calls /\ send_waiters' = Append(send_waiters, s)
        /\ promise' = [promise EXCEPT ![s] = "pending"]
        /\ handle' = [handle EXCEPT ![s] = "pending"]
        /\ UNCHANGED <<queue, closed, recv_waiters, owing>>
    BY DEF SendParks, Parks
  <1>2. /\ promise[s] = "none" /\ handle[s] = "none" /\ ~Owes(owing, s) /\ s \notin Waiting
        /\ IsFiniteSet(Made') /\ caller'[s] # None
        /\ \A d \in Calls : caller'[d] = None => caller[d] = None /\ d # s
        /\ s \notin Members(queue) /\ \A r \in Receives : ~Reaches(r, s)
        /\ CTypeOK /\ Lines /\ Phases /\ Messages /\ Losses /\ \A w : ~Due(owing, s, w)
        /\ send_waiters \in Seq(Sends)
    BY <1>1, NotMade DEF CTypeOK
  <1>3. /\ promise'[s] = "pending" /\ \A d \in Calls : d # s => promise'[d] = promise[d]
        /\ handle'[s] = "pending" /\ \A d \in Calls : d # s => handle'[d] = handle[d]
    BY <1>1, <1>2 DEF CTypeOK
  <1>4. Single(send_waiters') /\ Members(send_waiters') = Members(send_waiters) \cup {s}
    BY <1>1, <1>2, SingleAppend, MembersOfAppend DEF Lines, Waiting
  <1>5. Lines'
    BY <1>1, <1>2, <1>4 DEF Lines, Distinct
  <1>6. Waiting' = Waiting \cup {s}
    BY <1>1, <1>4 DEF Waiting
  <1>7. /\ \A d, w : Due(owing', d, w) <=> Due(owing, d, w)
        /\ \A d : Owes(owing', d) <=> Owes(owing, d)
    BY <1>1 DEF Due, Owes
  <1>8. Phases'
    <2> SUFFICES ASSUME NEW c \in Calls
                 PROVE  /\ Follows(c)'
                        /\ caller'[c] = None =>
                              promise'[c] = "none" /\ c \notin Waiting' /\ ~Owes(owing', c)
                        /\ c \in Waiting' =>
                              promise'[c] \in {"pending", "cancelled"} /\ ~Owes(owing', c)
                        /\ Owes(owing', c) => promise'[c] \in {"none", "pending", "cancelled"}
                        /\ promise'[c] \in Sends => c \in Receives
                        /\ \A w : Due(owing', c, w) =>
                              w \in IF c \in Sends THEN {"sent", "closed"}
                                    ELSE Sends \cup {"closed"}
      BY DEF Phases
    <2>1. CASE c = s
      BY <1>2, <1>3, <1>7, <2>1 DEF Follows
    <2>2. CASE c # s
      BY <1>2, <1>3, <1>6, <1>7, <2>2 DEF Phases, Follows
    <2> QED
      BY <2>1, <2>2
  <1>9. \A m : \A r \in Receives : Reaches(r, m)' <=> Reaches(r, m)
    BY <1>3, <1>7 DEF Reaches
  <1>10. Messages'
    <2> SUFFICES ASSUME NEW m \in Sends
                 PROVE  /\ caller'[m] = None =>
                              m \notin Members(queue') /\ \A r \in Receives : ~Reaches(r, m)'
                        /\ m \in Members(queue') \cup Members(send_waiters') =>
                              \A r \in Receives : ~Reaches(r, m)'
                        /\ \A r, q \in Receives : Reaches(r, m)' /\ Reaches(q, m)' => r = q
                        /\ m \in Members(queue') \/ (\E r \in Receives : Reaches(r, m)') =>
                              promise'[m] # "closed" /\ ~Due(owing', m, "closed")
      BY DEF Messages
    <2>1. CASE m = s
      BY <1>1, <1>2, <1>3, <1>7, <1>9, <2>1 DEF Messages
    <2>2. CASE m # s
      BY <1>1, <1>2, <1>3, <1>4, <1>7, <1>9, <2>2 DEF Messages
    <2> QED
      BY <2>1, <2>2
  <1>11. Losses'
    <2>1. Gone' \subseteq Gone
      <3> SUFFICES ASSUME NEW m \in Sends, Acked(m)', ~Kept(m)' PROVE Acked(m) /\ ~Kept(m)
        BY DEF Gone
      <3>1. m # s
        BY <1>4 DEF Kept
      <3>2. Acked(m)
        BY <1>3, <1>7, <3>1 DEF Acked
      <3>3. ~Kept(m)
        BY <1>1, <1>3, <1>4, <1>7 DEF Kept
      <3> QED
        BY <3>2, <3>3
    <2>2. Spent \subseteq Spent'
      BY <1>1, <1>3, <1>7 DEF Spent
    <2> QED
      BY <1>2, <1>8, <2>1, <2>2, LossesKept
  <1> QED
    BY <1>5, <1>8, <1>10, <1>11 DEF MessageInv

\* A call c that completes a parked call d with v before it returns with w.
LEMMA ServeDoes ==
  ASSUME ChannelInv, MessageInv, NEW t \in Isolates, NEW c \in Calls, Calling(t, c),
         NEW d \in Calls, d \in Waiting, d \notin Waiting', Waiting' \subseteq Waiting,
         NEW w \in IF c \in Sends THEN {"sent", "closed"} ELSE Sends \cup {"closed"},
         NEW v \in IF d \in Sends THEN {"sent", "closed"} ELSE Sends \cup {"closed"},
         Leaves(t, <<Owe(d, v), Owe(c, w)>>)
  PROVE  /\ Phases' /\ Distinct(owing') /\ d # c
         /\ \A e, x : Due(owing', e, x) <=>
                Due(owing, e, x) \/ (e = c /\ x = w) \/ (e = d /\ x = v)
         /\ \A e : Owes(owing', e) <=> Owes(owing, e) \/ e = c \/ e = d
         /\ promise' = promise /\ handle' = handle
         /\ ~Owes(owing, d) /\ (\A x : ~Due(owing, d, x)) /\ promise[d] \in {"pending", "cancelled"}
  <1> USE Words
  <1>1. SUFFICES ASSUME NEW L, L = <<Owe(d, v), Owe(c, w)>>
                 PROVE  /\ Phases' /\ Distinct(owing') /\ d # c
                        /\ \A e, x : Due(owing', e, x) <=>
                               Due(owing, e, x) \/ (e = c /\ x = w) \/ (e = d /\ x = v)
                        /\ \A e : Owes(owing', e) <=> Owes(owing, e) \/ e = c \/ e = d
                        /\ promise' = promise /\ handle' = handle
                        /\ ~Owes(owing, d) /\ (\A x : ~Due(owing, d, x))
                        /\ promise[d] \in {"pending", "cancelled"}
    OBVIOUS
  <1>2. /\ L \in Seq(Owed) /\ DOMAIN L = 1..2 /\ L[1].to = d /\ L[1].what = v
        /\ L[2].to = c /\ L[2].what = w
    <2>1. /\ Owe(d, v) \in Owed /\ Owe(d, v).to = d /\ Owe(d, v).what = v
          /\ Owe(c, w) \in Owed /\ Owe(c, w).to = c /\ Owe(c, w).what = w
      BY DEF Owe, Owed
    <2> QED
      BY <1>1, <2>1
  <1>3. /\ promise[c] = "none" /\ ~Owes(owing, c) /\ c \notin Waiting
        /\ owing[t] = <<>> /\ caller'[c] # None
        /\ \A e \in Calls : caller'[e] = None => caller[e] = None
        /\ CTypeOK /\ Lines /\ Phases /\ Distinct(owing)
    BY NotMade DEF Lines
  <1>4. /\ ~Owes(owing, d) /\ promise[d] \in {"pending", "cancelled"} /\ caller[d] # None /\ d # c
        /\ caller'[d] # None
    BY <1>3 DEF Phases
  <1>5. \A k \in DOMAIN L : (k = 1 /\ L[k].to = d /\ L[k].what = v)
                            \/ (k = 2 /\ L[k].to = c /\ L[k].what = w)
    BY <1>2
  <1>6. \A k, l \in DOMAIN L : L[k].to = L[l].to => k = l
    BY <1>4, <1>5
  <1>7. Leaves(t, L)
    BY <1>1
  <1>8. \A k \in DOMAIN L :
             /\ ~Owes(owing, L[k].to) /\ promise[L[k].to] \in {"none", "pending", "cancelled"}
             /\ L[k].to \notin Waiting' /\ caller'[L[k].to] # None
             /\ L[k].what \in IF L[k].to \in Sends THEN {"sent", "closed"}
                              ELSE Sends \cup {"closed"}
    <2> TAKE k \in DOMAIN L
    <2>1. CASE L[k].to = d /\ L[k].what = v
      BY <1>4, <2>1
    <2>2. CASE L[k].to = c /\ L[k].what = w
      BY <1>3, <2>2
    <2> QED
      BY <1>5, <2>1, <2>2
  <1>9. Phases'
    BY <1>2, <1>3, <1>6, <1>7, <1>8, LeavesPhases
  <1>10. /\ Distinct(owing')
         /\ \A e, x : Due(owing', e, x) <=>
                Due(owing, e, x) \/ \E k \in DOMAIN L : L[k].to = e /\ L[k].what = x
         /\ \A e : Owes(owing', e) <=> Owes(owing, e) \/ \E k \in DOMAIN L : L[k].to = e
         /\ promise' = promise /\ handle' = handle
    BY <1>2, <1>3, <1>6, <1>7, <1>8, LeavesDue
  <1>11. \A x : ~Due(owing, d, x)
    BY <1>4, OwesDue
  <1>12. /\ \A e, x : (\E k \in DOMAIN L : L[k].to = e /\ L[k].what = x) <=>
                (e = c /\ x = w) \/ (e = d /\ x = v)
         /\ \A e : (\E k \in DOMAIN L : L[k].to = e) <=> e = c \/ e = d
    BY <1>2
  <1> QED
    BY <1>4, <1>9, <1>10, <1>11, <1>12

LEMMA SendHandsOverMessages ==
  ASSUME ChannelInv, MessageInv, NEW t \in Isolates, NEW s \in Sends, SendHandsOver(t, s)
  PROVE  MessageInv'
  <1> USE Words
  <1> SUFFICES ASSUME NEW r, r = Head(recv_waiters) PROVE MessageInv'
    OBVIOUS
  <1>1. /\ Calling(t, s) /\ Leaves(t, <<Owe(r, s), Owe(s, "sent")>>) /\ s \in Calls
        /\ recv_waiters # <<>> /\ recv_waiters' = Tail(recv_waiters)
        /\ UNCHANGED <<queue, closed, send_waiters>>
    BY DEF SendHandsOver
  <1>2. /\ promise[s] = "none" /\ ~Owes(owing, s) /\ s \notin Waiting /\ IsFiniteSet(Made')
        /\ \A d \in Calls : caller'[d] = None => caller[d] = None /\ d # s
        /\ s \notin Members(queue) /\ \A q \in Receives : ~Reaches(q, s)
        /\ Lines /\ Phases /\ Messages /\ Losses /\ \A w : ~Due(owing, s, w)
        /\ recv_waiters \in Seq(Receives) /\ send_waiters \in Seq(Sends)
    BY <1>1, NotMade DEF CTypeOK
  <1>3. /\ r \in Receives /\ Members(recv_waiters) = {r} \cup Members(recv_waiters')
        /\ r \notin Members(recv_waiters') /\ Single(recv_waiters')
    BY <1>1, <1>2, MembersOfTail, SingleTail DEF Lines
  <1>4. r \notin Members(send_waiters)
    <2>1. \A k \in DOMAIN send_waiters : send_waiters[k] \in Sends
      BY <1>2, ElementOfSeq, LenProperties
    <2> QED
      BY <1>3, <2>1 DEF Members
  <1>5. r \in Waiting /\ r \notin Waiting' /\ Waiting' \subseteq Waiting
    BY <1>1, <1>3, <1>4 DEF Waiting
  <1>6. /\ Phases' /\ Distinct(owing') /\ r # s
        /\ \A e, x : Due(owing', e, x) <=>
                Due(owing, e, x) \/ (e = s /\ x = "sent") \/ (e = r /\ x = s)
        /\ \A e : Owes(owing', e) <=> Owes(owing, e) \/ e = s \/ e = r
        /\ promise' = promise /\ handle' = handle
    <2>1. /\ s \in IF r \in Sends THEN {"sent", "closed"} ELSE Sends \cup {"closed"}
          /\ "sent" \in IF s \in Sends THEN {"sent", "closed"} ELSE Sends \cup {"closed"}
          /\ r \in Calls
      BY <1>3
    <2> QED
      BY <1>1, <1>5, <2>1, ServeDoes
  <1>7. Lines'
    BY <1>1, <1>2, <1>3, <1>6 DEF Lines
  <1>8. \A m : \A q \in Receives : Reaches(q, m)' <=> Reaches(q, m) \/ (q = r /\ m = s)
    BY <1>6 DEF Reaches
  <1>9. Messages'
    <2>1. \A m \in Sends : Due(owing', m, "closed") => Due(owing, m, "closed")
      BY <1>3, <1>6
    <2> SUFFICES ASSUME NEW m \in Sends
                 PROVE  /\ caller'[m] = None =>
                              m \notin Members(queue') /\ \A q \in Receives : ~Reaches(q, m)'
                        /\ m \in Members(queue') \cup Members(send_waiters') =>
                              \A q \in Receives : ~Reaches(q, m)'
                        /\ \A p, q \in Receives : Reaches(p, m)' /\ Reaches(q, m)' => p = q
                        /\ m \in Members(queue') \/ (\E q \in Receives : Reaches(q, m)') =>
                              promise'[m] # "closed" /\ ~Due(owing', m, "closed")
      BY DEF Messages
    <2>2. CASE m = s
      <3>1. s \notin Members(send_waiters')
        BY <1>1, <1>2 DEF Waiting
      <3> QED
        BY <1>1, <1>2, <1>6, <1>8, <2>1, <2>2, <3>1
    <2>3. CASE m # s
      BY <1>1, <1>2, <1>6, <1>8, <2>1, <2>3 DEF Messages
    <2> QED
      BY <2>2, <2>3
  <1>10. Losses'
    <2>1. Gone' \subseteq Gone
      <3> SUFFICES ASSUME NEW m \in Sends, Acked(m)', ~Kept(m)' PROVE Acked(m) /\ ~Kept(m)
        BY DEF Gone
      <3>1. m # s
        BY <1>3, <1>6 DEF Kept
      <3>2. Acked(m)
        BY <1>3, <1>6, <3>1 DEF Acked
      <3>3. ~Kept(m)
        BY <1>1, <1>6 DEF Kept
      <3> QED
        BY <3>2, <3>3
    <2>2. Spent \subseteq Spent'
      BY <1>1, <1>3, <1>6 DEF Spent
    <2> QED
      BY <1>2, <1>6, <2>1, <2>2, LossesKept
  <1> QED
    BY <1>6, <1>7, <1>9, <1>10 DEF MessageInv

LEMMA ReceiveTakesMessages ==
  ASSUME ChannelInv, MessageInv, NEW t \in Isolates, NEW r \in Receives, ReceiveTakes(t, r)
  PROVE  MessageInv'
  <1> USE Words
  <1> SUFFICES ASSUME NEW m0, m0 = Head(queue), NEW s, s = Head(send_waiters),
                      NEW left, left = Tail(queue)
               PROVE  MessageInv'
    OBVIOUS
  <1>1. /\ Calling(t, r) /\ r \in Calls /\ queue # <<>>
        /\ UNCHANGED <<closed, recv_waiters>>
    BY DEF ReceiveTakes
  <1>2. /\ promise[r] = "none" /\ ~Owes(owing, r) /\ r \notin Waiting /\ IsFiniteSet(Made')
        /\ \A d \in Calls : caller'[d] = None => caller[d] = None /\ d # r
        /\ Lines /\ Phases /\ Messages /\ Losses /\ \A w : ~Due(owing, r, w)
        /\ queue \in Seq(Sends) /\ recv_waiters \in Seq(Receives) /\ send_waiters \in Seq(Sends)
    BY <1>1, NotMade DEF CTypeOK
  <1>3. /\ m0 \in Sends /\ Members(queue) = {m0} \cup Members(left) /\ left \in Seq(Sends)
        /\ m0 \notin Members(left) /\ Single(left) /\ m0 \notin Members(send_waiters)
    BY <1>1, <1>2, MembersOfTail, SingleTail DEF Lines
  <1>4. m0 \in IF r \in Sends THEN {"sent", "closed"} ELSE Sends \cup {"closed"}
    BY <1>3
  <1>5. CASE send_waiters = <<>>
    <2>1. Leaves(t, <<Owe(r, m0)>>) /\ queue' = left /\ send_waiters' = send_waiters
      BY <1>5 DEF ReceiveTakes
    <2>2. Waiting' = Waiting
      BY <1>1, <2>1 DEF Waiting
    <2>3. /\ Phases' /\ Distinct(owing')
          /\ \A e, x : Due(owing', e, x) <=> Due(owing, e, x) \/ (e = r /\ x = m0)
          /\ \A e : Owes(owing', e) <=> Owes(owing, e) \/ e = r
          /\ promise' = promise /\ handle' = handle
      BY <1>1, <1>4, <2>1, <2>2, ReturnDoes
    <2>4. Lines'
      BY <1>1, <1>2, <1>3, <2>1, <2>3 DEF Lines
    <2>5. \A m : \A q \in Receives : Reaches(q, m)' <=> Reaches(q, m) \/ (q = r /\ m = m0)
      BY <2>3 DEF Reaches
    <2>6. Messages'
      <3>1. \A m \in Sends : Due(owing', m, "closed") => Due(owing, m, "closed")
        BY <2>3
      <3> SUFFICES ASSUME NEW m \in Sends
                   PROVE  /\ caller'[m] = None =>
                                m \notin Members(queue') /\ \A q \in Receives : ~Reaches(q, m)'
                          /\ m \in Members(queue') \cup Members(send_waiters') =>
                                \A q \in Receives : ~Reaches(q, m)'
                          /\ \A p, q \in Receives : Reaches(p, m)' /\ Reaches(q, m)' => p = q
                          /\ m \in Members(queue') \/ (\E q \in Receives : Reaches(q, m)') =>
                                promise'[m] # "closed" /\ ~Due(owing', m, "closed")
        BY DEF Messages
      <3>2. CASE m = m0
        <4>1. /\ caller[m0] # None /\ \A q \in Receives : ~Reaches(q, m0)
              /\ promise[m0] # "closed" /\ ~Due(owing, m0, "closed")
          BY <1>2, <1>3 DEF Messages
        <4>2. caller'[m] # None
          BY <1>2, <3>2, <4>1
        <4> QED
          BY <1>3, <2>1, <2>3, <2>5, <3>1, <3>2, <4>1, <4>2
      <3>3. CASE m # m0
        BY <1>2, <1>3, <2>1, <2>3, <2>5, <3>1, <3>3 DEF Messages
      <3> QED
        BY <3>2, <3>3
    <2>7. Losses'
      <3>1. Gone' \subseteq Gone
        <4> SUFFICES ASSUME NEW m \in Sends, Acked(m)', ~Kept(m)' PROVE Acked(m) /\ ~Kept(m)
          BY DEF Gone
        <4>1. m # m0
          BY <2>3 DEF Kept
        <4>2. Acked(m)
          BY <2>3 DEF Acked
        <4>3. ~Kept(m)
          BY <1>3, <2>1, <2>3, <4>1 DEF Kept
        <4> QED
          BY <4>2, <4>3
      <3>2. Spent \subseteq Spent'
        BY <1>1, <1>2, <2>3 DEF Spent, Phases, Follows
      <3> QED
        BY <1>2, <2>3, <3>1, <3>2, LossesKept
    <2> QED
      BY <2>3, <2>4, <2>6, <2>7 DEF MessageInv
  <1>6. CASE send_waiters # <<>>
    <2>1. /\ Leaves(t, <<Owe(s, "sent"), Owe(r, m0)>>) /\ queue' = Append(left, s)
          /\ send_waiters' = Tail(send_waiters)
      BY <1>6 DEF ReceiveTakes
    <2>2. /\ s \in Sends /\ Members(send_waiters) = {s} \cup Members(send_waiters')
          /\ s \notin Members(send_waiters') /\ Single(send_waiters')
      BY <1>2, <1>6, <2>1, MembersOfTail, SingleTail DEF Lines
    <2>3. s \notin Members(left) /\ s # m0
      BY <1>2, <1>3, <2>2 DEF Lines
    <2>4. Single(queue') /\ Members(queue') = Members(left) \cup {s}
      <3>1. left \in Seq(Sends) /\ s \in Sends /\ Single(left) /\ s \notin Members(left)
        BY <1>3, <2>2, <2>3
      <3>2. Single(Append(left, s))
        BY <3>1, SingleAppend
      <3>3. Members(Append(left, s)) = Members(left) \cup {s}
        BY ONLY <3>1, MembersOfAppend, Zenon
      <3> QED
        BY <2>1, <3>2, <3>3
    <2>5. s \notin Members(recv_waiters)
      <3>1. \A k \in DOMAIN recv_waiters : recv_waiters[k] \in Receives
        BY <1>2, ElementOfSeq, LenProperties
      <3> QED
        BY <2>2, <3>1 DEF Members
    <2>6. s \in Waiting /\ s \notin Waiting' /\ Waiting' \subseteq Waiting
      BY <1>1, <2>2, <2>5 DEF Waiting
    <2>7. /\ Phases' /\ Distinct(owing') /\ r # s
          /\ \A e, x : Due(owing', e, x) <=>
                  Due(owing, e, x) \/ (e = r /\ x = m0) \/ (e = s /\ x = "sent")
          /\ \A e : Owes(owing', e) <=> Owes(owing, e) \/ e = r \/ e = s
          /\ promise' = promise /\ handle' = handle
          /\ (\A x : ~Due(owing, s, x)) /\ promise[s] \in {"pending", "cancelled"}
      <3>1. /\ "sent" \in IF s \in Sends THEN {"sent", "closed"} ELSE Sends \cup {"closed"}
            /\ s \in Calls
        BY <2>2
      <3> QED
        BY <1>1, <1>4, <2>1, <2>6, <3>1, ServeDoes
    <2>8. Lines'
      BY <1>1, <1>2, <1>3, <2>2, <2>3, <2>4, <2>7 DEF Lines
    <2>9. \A m : \A q \in Receives : Reaches(q, m)' <=> Reaches(q, m) \/ (q = r /\ m = m0)
      BY <2>2, <2>7 DEF Reaches
    <2>10. Messages'
      <3>1. \A m \in Sends : Due(owing', m, "closed") => Due(owing, m, "closed")
        BY <2>7
      <3> SUFFICES ASSUME NEW m \in Sends
                   PROVE  /\ caller'[m] = None =>
                                m \notin Members(queue') /\ \A q \in Receives : ~Reaches(q, m)'
                          /\ m \in Members(queue') \cup Members(send_waiters') =>
                                \A q \in Receives : ~Reaches(q, m)'
                          /\ \A p, q \in Receives : Reaches(p, m)' /\ Reaches(q, m)' => p = q
                          /\ m \in Members(queue') \/ (\E q \in Receives : Reaches(q, m)') =>
                                promise'[m] # "closed" /\ ~Due(owing', m, "closed")
        BY DEF Messages
      <3>2. CASE m = m0
        <4>1. /\ caller[m0] # None /\ \A q \in Receives : ~Reaches(q, m0)
              /\ promise[m0] # "closed" /\ ~Due(owing, m0, "closed")
          BY <1>2, <1>3 DEF Messages
        <4>2. caller'[m] # None
          BY <1>2, <3>2, <4>1
        <4>3. m0 \notin Members(queue') /\ m0 \notin Members(send_waiters')
          BY <1>3, <2>2, <2>3, <2>4
        <4> QED
          BY <2>7, <2>9, <3>1, <3>2, <4>1, <4>2, <4>3
      <3>3. CASE m = s
        <4>1. caller[s] # None /\ \A q \in Receives : ~Reaches(q, s)
          BY <1>2, <2>2, <2>6 DEF Messages, Phases
        <4>2. caller'[m] # None
          BY <1>2, <3>3, <4>1, <2>2
        <4> QED
          BY <2>3, <2>7, <2>9, <3>1, <3>3, <4>1, <4>2
      <3>4. CASE m # m0 /\ m # s
        BY <1>2, <1>3, <2>2, <2>4, <2>7, <2>9, <3>1, <3>4 DEF Messages
      <3> QED
        BY <3>2, <3>3, <3>4
    <2>11. Losses'
      <3>1. Gone' \subseteq Gone
        <4> SUFFICES ASSUME NEW m \in Sends, Acked(m)', ~Kept(m)' PROVE Acked(m) /\ ~Kept(m)
          BY DEF Gone
        <4>1. m # m0 /\ m # s
          BY <2>4, <2>7 DEF Kept
        <4>2. Acked(m)
          BY <2>7, <4>1 DEF Acked
        <4>3. ~Kept(m)
          BY <1>3, <2>2, <2>4, <2>7, <4>1 DEF Kept
        <4> QED
          BY <4>2, <4>3
      <3>2. Spent \subseteq Spent'
        BY <1>1, <1>2, <2>2, <2>7 DEF Spent, Phases, Follows
      <3> QED
        BY <1>2, <2>7, <3>1, <3>2, LossesKept
    <2> QED
      BY <2>7, <2>8, <2>10, <2>11 DEF MessageInv
  <1> QED
    BY <1>5, <1>6

LEMMA ReceiveRefusedMessages ==
  ASSUME ChannelInv, MessageInv, NEW t \in Isolates, NEW r \in Receives, ReceiveRefused(t, r)
  PROVE  MessageInv'
  <1> USE Words
  <1>1. /\ Calling(t, r) /\ Leaves(t, <<Owe(r, "closed")>>) /\ r \in Calls
        /\ UNCHANGED <<queue, closed, recv_waiters, send_waiters>>
    BY DEF ReceiveRefused, stateVars
  <1>2. /\ promise[r] = "none" /\ handle[r] = "none" /\ ~Owes(owing, r) /\ r \notin Waiting
        /\ IsFiniteSet(Made')
        /\ \A d \in Calls : caller'[d] = None => caller[d] = None /\ d # r
        /\ Lines /\ Phases /\ Messages /\ Losses
    BY <1>1, NotMade
  <1>3. Waiting' = Waiting
        /\ "closed" \in IF r \in Sends THEN {"sent", "closed"} ELSE Sends \cup {"closed"}
    BY <1>1 DEF Waiting
  <1>4. /\ Phases' /\ Distinct(owing')
        /\ \A d, v : Due(owing', d, v) <=> Due(owing, d, v) \/ (d = r /\ v = "closed")
        /\ \A d : Owes(owing', d) <=> Owes(owing, d) \/ d = r
        /\ promise' = promise /\ handle' = handle
    BY <1>1, <1>3, ReturnDoes
  <1>5. Lines'
    BY <1>1, <1>2, <1>4 DEF Lines
  <1>6. \A m \in Sends : \A q \in Receives : Reaches(q, m)' <=> Reaches(q, m)
    BY <1>4 DEF Reaches
  <1>7. Messages'
    <2>1. \A m \in Sends : Due(owing', m, "closed") => Due(owing, m, "closed")
      BY <1>4
    <2> QED
      BY <1>1, <1>2, <1>4, <1>6, <2>1 DEF Messages
  <1>8. Losses'
    <2>1. Gone' \subseteq Gone
      <3> SUFFICES ASSUME NEW m \in Sends, Acked(m)', ~Kept(m)' PROVE Acked(m) /\ ~Kept(m)
        BY DEF Gone
      <3>1. Acked(m)
        BY <1>4 DEF Acked
      <3>2. ~Kept(m)
        BY <1>1, <1>4 DEF Kept
      <3> QED
        BY <3>1, <3>2
    <2>2. Spent \subseteq Spent'
      BY <1>1, <1>2, <1>4 DEF Spent
    <2> QED
      BY <1>2, <1>4, <2>1, <2>2, LossesKept
  <1> QED
    BY <1>4, <1>5, <1>7, <1>8 DEF MessageInv

LEMMA ReceiveParksMessages ==
  ASSUME ChannelInv, MessageInv, NEW t \in Isolates, NEW r \in Receives, ReceiveParks(t, r)
  PROVE  MessageInv'
  <1> USE Words
  <1>1. /\ Calling(t, r) /\ r \in Calls /\ recv_waiters' = Append(recv_waiters, r)
        /\ promise' = [promise EXCEPT ![r] = "pending"]
        /\ handle' = [handle EXCEPT ![r] = "pending"]
        /\ UNCHANGED <<queue, closed, send_waiters, owing>>
    BY DEF ReceiveParks, Parks
  <1>2. /\ promise[r] = "none" /\ handle[r] = "none" /\ ~Owes(owing, r) /\ r \notin Waiting
        /\ IsFiniteSet(Made') /\ caller'[r] # None
        /\ \A d \in Calls : caller'[d] = None => caller[d] = None /\ d # r
        /\ CTypeOK /\ Lines /\ Phases /\ Messages /\ Losses /\ \A w : ~Due(owing, r, w)
        /\ recv_waiters \in Seq(Receives)
    BY <1>1, NotMade DEF CTypeOK
  <1>3. /\ promise'[r] = "pending" /\ \A d \in Calls : d # r => promise'[d] = promise[d]
        /\ handle'[r] = "pending" /\ \A d \in Calls : d # r => handle'[d] = handle[d]
    BY <1>1, <1>2 DEF CTypeOK
  <1>4. Single(recv_waiters') /\ Members(recv_waiters') = Members(recv_waiters) \cup {r}
    BY <1>1, <1>2, SingleAppend, MembersOfAppend DEF Lines, Waiting
  <1>5. Lines'
    BY <1>1, <1>2, <1>4 DEF Lines, Distinct
  <1>6. Waiting' = Waiting \cup {r}
    BY <1>1, <1>4 DEF Waiting
  <1>7. /\ \A d, w : Due(owing', d, w) <=> Due(owing, d, w)
        /\ \A d : Owes(owing', d) <=> Owes(owing, d)
    BY <1>1 DEF Due, Owes
  <1>8. Phases'
    <2> SUFFICES ASSUME NEW c \in Calls
                 PROVE  /\ Follows(c)'
                        /\ caller'[c] = None =>
                              promise'[c] = "none" /\ c \notin Waiting' /\ ~Owes(owing', c)
                        /\ c \in Waiting' =>
                              promise'[c] \in {"pending", "cancelled"} /\ ~Owes(owing', c)
                        /\ Owes(owing', c) => promise'[c] \in {"none", "pending", "cancelled"}
                        /\ promise'[c] \in Sends => c \in Receives
                        /\ \A w : Due(owing', c, w) =>
                              w \in IF c \in Sends THEN {"sent", "closed"}
                                    ELSE Sends \cup {"closed"}
      BY DEF Phases
    <2>1. CASE c = r
      BY <1>2, <1>3, <1>7, <2>1 DEF Follows
    <2>2. CASE c # r
      BY <1>2, <1>3, <1>6, <1>7, <2>2 DEF Phases, Follows
    <2> QED
      BY <2>1, <2>2
  <1>9. \A m \in Sends : \A q \in Receives : Reaches(q, m)' <=> Reaches(q, m)
    BY <1>2, <1>3, <1>7 DEF Reaches
  <1>10. Messages'
    <2>1. \A m \in Sends : promise'[m] = promise[m] /\ m # r
      BY <1>3
    <2> QED
      BY <1>1, <1>2, <1>7, <1>9, <2>1 DEF Messages
  <1>11. Losses'
    <2>1. Gone' \subseteq Gone
      <3> SUFFICES ASSUME NEW m \in Sends, Acked(m)', ~Kept(m)' PROVE Acked(m) /\ ~Kept(m)
        BY DEF Gone
      <3>1. Acked(m)
        BY <1>3, <1>7 DEF Acked
      <3>2. ASSUME NEW q \in Receives, promise[q] = m, handle[q] # "cancelled"
            PROVE  promise'[q] = m /\ handle'[q] # "cancelled"
        BY <1>2, <1>3, <3>2
      <3>3. ~Kept(m)
        BY <1>1, <1>7, <3>2 DEF Kept
      <3> QED
        BY <3>1, <3>3
    <2>2. Spent \subseteq Spent'
      BY <1>2, <1>3, <1>4, <1>7 DEF Spent
    <2> QED
      BY <1>2, <1>8, <2>1, <2>2, LossesKept
  <1> QED
    BY <1>5, <1>8, <1>10, <1>11 DEF MessageInv

\* L turns everybody away who waits in p or q, each once.
TurnsAway(L, p, q) ==
    /\ L \in Seq(Owed)
    /\ \A k, l \in DOMAIN L : L[k].to = L[l].to => k = l
    /\ \A k \in DOMAIN L : L[k].to \in Members(p) \cup Members(q) /\ L[k].what = "closed"
    /\ \A c \in Members(p) \cup Members(q) : \E k \in DOMAIN L : L[k].to = c
    /\ Members(p) \subseteq Receives /\ Members(q) \subseteq Sends

\* What close leaves the lock with.
LEMMA AllTurnedAway ==
  ASSUME NEW p \in Seq(Receives), NEW q \in Seq(Sends), Single(p), Single(q)
  PROVE  TurnsAway(AllClosed(p) \o AllClosed(q), p, q)
  <1> USE Words
  <1>1. /\ DOMAIN p = 1..Len(p) /\ Len(p) \in Nat /\ \A k \in DOMAIN p : p[k] \in Receives
        /\ DOMAIN q = 1..Len(q) /\ Len(q) \in Nat /\ \A k \in DOMAIN q : q[k] \in Sends
    BY LenProperties, ElementOfSeq
  <1>2. \A c \in Calls : Owe(c, "closed") \in Owed /\ Owe(c, "closed").to = c
                         /\ Owe(c, "closed").what = "closed"
    BY DEF Owe, Owed
  <1> SUFFICES ASSUME NEW A, A = AllClosed(p), NEW B, B = AllClosed(q), NEW L, L = A \o B
               PROVE  TurnsAway(L, p, q)
    OBVIOUS
  <1>3. /\ A \in Seq(Owed) /\ DOMAIN A = DOMAIN p /\ Len(A) = Len(p)
        /\ \A k \in DOMAIN p : A[k].to = p[k] /\ A[k].what = "closed"
    <2>1. A = [k \in 1..Len(p) |-> Owe(p[k], "closed")]
      BY <1>1 DEF AllClosed
    <2> QED
      BY <1>1, <1>2, <2>1
  <1>4. /\ B \in Seq(Owed) /\ DOMAIN B = DOMAIN q /\ Len(B) = Len(q)
        /\ \A k \in DOMAIN q : B[k].to = q[k] /\ B[k].what = "closed"
    <2>1. B = [k \in 1..Len(q) |-> Owe(q[k], "closed")]
      BY <1>1 DEF AllClosed
    <2> QED
      BY <1>1, <1>2, <2>1
  <1>5. IsConcat(A \o B, A, B, Owed)
    BY <1>3, <1>4, ConcatOf
  <1>6. IsConcat(L, A, B, Owed)
    BY <1>5
  <1>7. \A k \in DOMAIN L :
            \/ k \in DOMAIN p /\ L[k].to = p[k] /\ L[k].what = "closed"
            \/ /\ k \notin DOMAIN p /\ k - Len(p) \in DOMAIN q
               /\ L[k].to = q[k - Len(p)] /\ L[k].what = "closed"
    BY ONLY <1>3, <1>4, <1>6 DEF IsConcat
  <1>8. L \in Seq(Owed) /\ DOMAIN L = 1..(Len(p) + Len(q))
    BY <1>3, <1>4, <1>6 DEF IsConcat
  <1>9. ASSUME NEW k \in DOMAIN L, NEW l \in DOMAIN L, L[k].to = L[l].to PROVE k = l
    <2>1. CASE k \in DOMAIN p /\ l \in DOMAIN p
      BY <1>7, <1>9, <2>1 DEF Single
    <2>2. CASE k \notin DOMAIN p /\ l \notin DOMAIN p
      <3>1. k - Len(p) = l - Len(p)
        BY <1>7, <1>9, <2>2 DEF Single
      <3> QED
        BY <1>1, <1>8, <3>1
    <2>3. CASE k \in DOMAIN p /\ l \notin DOMAIN p
      BY <1>1, <1>7, <1>9, <2>3
    <2>4. CASE k \notin DOMAIN p /\ l \in DOMAIN p
      BY <1>1, <1>7, <1>9, <2>4
    <2> QED
      BY <2>1, <2>2, <2>3, <2>4
  <1>10. \A c \in Members(p) \cup Members(q) : \E k \in DOMAIN L : L[k].to = c
    <2> TAKE c \in Members(p) \cup Members(q)
    <2>1. CASE c \in Members(p)
      <3>1. PICK k \in DOMAIN p : p[k] = c
        BY <2>1 DEF Members
      <3>2. k \in DOMAIN L /\ L[k].to = c
        BY <1>3, <1>6, <3>1 DEF IsConcat
      <3> QED
        BY <3>2
    <2>2. CASE c \in Members(q)
      <3>1. PICK k \in DOMAIN q : q[k] = c
        BY <2>2 DEF Members
      <3>2. Len(p) + k \in DOMAIN L /\ L[Len(p) + k].to = c
        BY <1>3, <1>4, <1>6, <3>1 DEF IsConcat
      <3> QED
        BY <3>2
    <2> QED
      BY <2>1, <2>2
  <1>11. \A k \in DOMAIN L : L[k].to \in Members(p) \cup Members(q) /\ L[k].what = "closed"
    BY <1>7 DEF Members
  <1>12. Members(p) \subseteq Receives /\ Members(q) \subseteq Sends
    BY <1>1 DEF Members
  <1> QED
    BY <1>8, <1>9, <1>10, <1>11, <1>12 DEF TurnsAway

LEMMA CloseMessages ==
  ASSUME ChannelInv, MessageInv, NEW t \in Isolates, Close(t)
  PROVE  MessageInv'
  <1> USE Words
  <1> SUFFICES ASSUME NEW L, L = AllClosed(recv_waiters) \o AllClosed(send_waiters)
               PROVE  MessageInv'
    OBVIOUS
  <1>1. /\ owing[t] = <<>> /\ Leaves(t, L)
        /\ recv_waiters' = <<>> /\ send_waiters' = <<>> /\ UNCHANGED <<queue, caller>>
    BY DEF Close
  <1>2. /\ Lines /\ Phases /\ Messages /\ Losses /\ CTypeOK /\ Distinct(owing)
        /\ recv_waiters \in Seq(Receives) /\ send_waiters \in Seq(Sends)
        /\ Single(recv_waiters) /\ Single(send_waiters)
    BY DEF ChannelInv, MessageInv, CTypeOK, Lines
  <1>3. /\ L \in Seq(Owed) /\ \A k, l \in DOMAIN L : L[k].to = L[l].to => k = l
        /\ \A k \in DOMAIN L : L[k].to \in Waiting /\ L[k].what = "closed"
        /\ \A c \in Waiting : \E k \in DOMAIN L : L[k].to = c
        /\ Members(recv_waiters) \subseteq Receives /\ Members(send_waiters) \subseteq Sends
    <2>1. TurnsAway(AllClosed(recv_waiters) \o AllClosed(send_waiters),
                    recv_waiters, send_waiters)
      BY <1>2, AllTurnedAway
    <2>2. TurnsAway(L, recv_waiters, send_waiters)
      BY <2>1
    <2> QED
      BY ONLY <2>2 DEF TurnsAway, Waiting
  <1>4. Members(recv_waiters') = {} /\ Members(send_waiters') = {} /\ Waiting' = {}
    BY <1>1 DEF Waiting, Members
  <1>5. /\ Waiting \subseteq Calls
        /\ \A c \in Waiting : /\ ~Owes(owing, c) /\ promise[c] \in {"pending", "cancelled"}
                              /\ caller[c] # None
    <2>1. Waiting \subseteq Calls
      BY <1>3 DEF Waiting
    <2> QED
      BY <1>2, <2>1 DEF Phases
  <1>6. \A k \in DOMAIN L :
             /\ ~Owes(owing, L[k].to) /\ promise[L[k].to] \in {"none", "pending", "cancelled"}
             /\ L[k].to \notin Waiting' /\ caller'[L[k].to] # None
             /\ L[k].what \in IF L[k].to \in Sends THEN {"sent", "closed"}
                              ELSE Sends \cup {"closed"}
    BY <1>1, <1>3, <1>4, <1>5
  <1>7. Phases'
    <2>1. /\ \A c \in Calls : caller'[c] = None => caller[c] = None
          /\ Waiting' \subseteq Waiting
      BY <1>1, <1>4
    <2>2. /\ CTypeOK /\ Lines /\ Phases /\ owing[t] = <<>> /\ L \in Seq(Owed) /\ Leaves(t, L)
          /\ \A k, l \in DOMAIN L : L[k].to = L[l].to => k = l
      BY <1>1, <1>2, <1>3
    <2> QED
      BY ONLY <2>2, <1>6, <2>1, LeavesPhases, t \in Isolates
  <1>8. /\ Distinct(owing')
        /\ \A e, x : Due(owing', e, x) <=>
               Due(owing, e, x) \/ \E k \in DOMAIN L : L[k].to = e /\ L[k].what = x
        /\ \A e : Owes(owing', e) <=> Owes(owing, e) \/ \E k \in DOMAIN L : L[k].to = e
        /\ promise' = promise /\ handle' = handle
    <2>1. /\ CTypeOK /\ Distinct(owing) /\ owing[t] = <<>> /\ L \in Seq(Owed) /\ Leaves(t, L)
          /\ \A k, l \in DOMAIN L : L[k].to = L[l].to => k = l
          /\ \A k \in DOMAIN L : ~Owes(owing, L[k].to)
      BY <1>1, <1>2, <1>3, <1>6
    <2> QED
      BY ONLY <2>1, LeavesDue, t \in Isolates
  <1>9. /\ \A e, x : Due(owing', e, x) <=> Due(owing, e, x) \/ (e \in Waiting /\ x = "closed")
        /\ \A e : Owes(owing', e) <=> Owes(owing, e) \/ e \in Waiting
    <2>1. /\ \A e, x : (\E k \in DOMAIN L : L[k].to = e /\ L[k].what = x) <=>
                 e \in Waiting /\ x = "closed"
          /\ \A e : (\E k \in DOMAIN L : L[k].to = e) <=> e \in Waiting
      BY ONLY <1>3
    <2> QED
      BY ONLY <1>8, <2>1
  <1>10. Lines'
    <2>1. Single(<<>>)
      BY DEF Single
    <2> QED
      BY <1>1, <1>2, <1>4, <1>8, <2>1 DEF Lines
  <1>11. \A m \in Sends : \A r \in Receives : Reaches(r, m)' <=> Reaches(r, m)
    BY <1>8, <1>9 DEF Reaches
  <1>12. Messages'
    <2> SUFFICES ASSUME NEW m \in Sends
                 PROVE  /\ caller'[m] = None =>
                              m \notin Members(queue') /\ \A r \in Receives : ~Reaches(r, m)'
                        /\ m \in Members(queue') \cup Members(send_waiters') =>
                              \A r \in Receives : ~Reaches(r, m)'
                        /\ \A r, q \in Receives : Reaches(r, m)' /\ Reaches(q, m)' => r = q
                        /\ m \in Members(queue') \/ (\E r \in Receives : Reaches(r, m)') =>
                              promise'[m] # "closed" /\ ~Due(owing', m, "closed")
      BY DEF Messages
    <2>1. m \in Members(queue) \/ (\E r \in Receives : Reaches(r, m)) => m \notin Waiting
      BY <1>2, <1>3 DEF Lines, Messages, Waiting
    <2> QED
      BY <1>1, <1>2, <1>4, <1>8, <1>9, <1>11, <2>1 DEF Messages
  <1>13. Losses'
    <2>1. Gone' \subseteq Gone
      <3> SUFFICES ASSUME NEW m \in Sends, Acked(m)', ~Kept(m)' PROVE Acked(m) /\ ~Kept(m)
        BY DEF Gone
      <3>1. Acked(m)
        BY <1>8, <1>9 DEF Acked
      <3>2. m \notin Waiting
        <4>1. ~Acked(m) \/ Owes(owing, m) \/ promise[m] = "sent"
          BY OwesDue DEF Acked
        <4> QED
          BY <1>5, <3>1, <4>1
      <3>3. ~Kept(m)
        BY <1>1, <1>8, <1>9, <3>2 DEF Kept, Waiting
      <3> QED
        BY <3>1, <3>3
    <2>2. Spent \subseteq Spent'
      BY <1>3, <1>4, <1>8, <1>9 DEF Spent, Waiting
    <2>3. IsFiniteSet(Made')
      BY <1>1, <1>2 DEF Losses, Made
    <2> QED
      BY <1>2, <1>7, <2>1, <2>2, <2>3, LossesKept
  <1> QED
    BY <1>7, <1>10, <1>12, <1>13 DEF MessageInv

LEMMA DueOnce ==
  \A o : Distinct(o) => \A c, v, w : Due(o, c, v) /\ Due(o, c, w) => v = w
  BY DEF Distinct, Due

LEMMA ResolveMessages ==
  ASSUME ChannelInv, MessageInv, NEW t \in Isolates, Resolve(t)
  PROVE  MessageInv'
  <1> USE Words
  <1> SUFFICES ASSUME NEW h, h = Head(owing[t]), NEW c, c = h.to, NEW w, w = h.what
               PROVE  MessageInv'
    OBVIOUS
  <1>1. /\ owing[t] # <<>> /\ owing' = [owing EXCEPT ![t] = Tail(owing[t])]
        /\ promise' = [promise EXCEPT ![c] = IF promise[c] \in {"none", "pending"} THEN w
                                             ELSE promise[c]]
        /\ handle' = [handle EXCEPT ![c] = IF handle[c] = "none" THEN w ELSE handle[c]]
        /\ UNCHANGED <<queue, closed, recv_waiters, send_waiters, caller>>
    BY DEF Resolve, stateVars
  <1>2. /\ Lines /\ Phases /\ Messages /\ Losses /\ CTypeOK /\ Distinct(owing)
    BY DEF ChannelInv, MessageInv, Lines
  <1>3. /\ Distinct(owing') /\ h \in Owed /\ Due(owing, c, w)
        /\ \A d, v : Due(owing', d, v) <=> Due(owing, d, v) /\ d # c
    BY <1>1, <1>2, ResolveDue
  <1>4. /\ c \in Calls /\ Owes(owing, c) /\ \A d : Owes(owing', d) <=> Owes(owing, d) /\ d # c
        /\ \A v : Due(owing, c, v) <=> v = w
    <2>1. c \in Calls
      BY <1>3 DEF Owed
    <2>2. \A v : Due(owing, c, v) <=> v = w
      BY <1>2, <1>3, DueOnce
    <2> QED
      BY <1>3, <2>1, <2>2, OwesDue
  <1>5. /\ promise[c] \in {"none", "pending", "cancelled"} /\ handle[c] = promise[c]
        /\ c \notin Waiting /\ caller[c] # None
        /\ w \in IF c \in Sends THEN {"sent", "closed"} ELSE Sends \cup {"closed"}
    BY <1>2, <1>3, <1>4 DEF Phases, Follows
  <1>6. /\ \A d \in Calls : d # c => promise'[d] = promise[d] /\ handle'[d] = handle[d]
        /\ promise'[c] = IF promise[c] = "cancelled" THEN "cancelled" ELSE w
        /\ handle'[c] = IF promise[c] = "none" THEN w ELSE promise[c]
    BY <1>1, <1>2, <1>4, <1>5 DEF CTypeOK
  <1>7. Lines'
    BY <1>1, <1>2, <1>3 DEF Lines
  <1>8. Waiting' = Waiting
    BY <1>1 DEF Waiting
  <1>9. Phases'
    <2> SUFFICES ASSUME NEW d \in Calls
                 PROVE  /\ Follows(d)'
                        /\ caller'[d] = None =>
                              promise'[d] = "none" /\ d \notin Waiting' /\ ~Owes(owing', d)
                        /\ d \in Waiting' =>
                              promise'[d] \in {"pending", "cancelled"} /\ ~Owes(owing', d)
                        /\ Owes(owing', d) => promise'[d] \in {"none", "pending", "cancelled"}
                        /\ promise'[d] \in Sends => d \in Receives
                        /\ \A v : Due(owing', d, v) =>
                              v \in IF d \in Sends THEN {"sent", "closed"}
                                    ELSE Sends \cup {"closed"}
      BY DEF Phases
    <2>1. CASE d = c
      <3>1. Follows(c)'
        BY <1>5, <1>6 DEF Follows
      <3>2. promise'[c] \in Sends => c \in Receives
        BY <1>4, <1>5, <1>6
      <3> QED
        BY <1>1, <1>3, <1>4, <1>5, <1>8, <2>1, <3>1, <3>2
    <2>2. CASE d # c
      BY <1>1, <1>2, <1>3, <1>4, <1>6, <1>8, <2>2 DEF Phases, Follows
    <2> QED
      BY <2>1, <2>2
  <1>10. \A m \in Sends : \A r \in Receives : Reaches(r, m)' => Reaches(r, m)
    BY <1>3, <1>6 DEF Reaches
  <1>11. Messages'
    <2>1. \A m \in Sends : promise'[m] = "closed" => promise[m] = "closed" \/ Due(owing, m, "closed")
      BY <1>3, <1>6
    <2> QED
      BY <1>1, <1>2, <1>3, <1>10, <2>1 DEF Messages
  <1>12. Losses'
    <2>1. \A m \in Sends : Acked(m)' => Acked(m)
      BY <1>3, <1>6 DEF Acked
    <2>2. ASSUME NEW m \in Sends, Kept(m), ~Kept(m)' PROVE m = w /\ promise[c] = "cancelled"
      <3>1. m \notin Members(queue) \cup Members(send_waiters)
        BY <1>1, <2>2 DEF Kept
      <3>2. PICK r \in Receives :
                Due(owing, r, m) \/ (promise[r] = m /\ handle[r] # "cancelled")
        BY <2>2, <3>1 DEF Kept
      <3>3. ~Due(owing', r, m) /\ ~(promise'[r] = m /\ handle'[r] # "cancelled")
        BY <2>2 DEF Kept
      <3>4. r = c
        BY <1>3, <1>6, <3>2, <3>3
      <3>5. m = w
        BY <1>4, <1>5, <3>2, <3>4
      <3> QED
        BY <1>5, <1>6, <3>3, <3>4, <3>5
    <2>3. Spent \subseteq Spent'
      BY <1>1, <1>4, <1>6 DEF Spent
    <2>4. IsFiniteSet(Made')
      BY <1>1, <1>2 DEF Losses, Made
    <2>5. CASE w \in Sends /\ promise[c] = "cancelled"
      <3>1. Gone' \subseteq Gone \cup {w}
        BY <2>1, <2>2 DEF Gone
      <3>2. c \in Receives /\ c \notin Members(recv_waiters)
        BY <1>4, <1>5, <2>5 DEF Waiting
      <3>3. c \in Spent'
        BY <1>1, <1>4, <1>6, <2>5, <3>2 DEF Spent
      <3>4. c \notin Spent
        BY <1>4 DEF Spent
      <3>5. Spent \cup {c} \subseteq Spent'
        BY <2>3, <3>3
      <3> QED
        BY <1>2, <1>9, <2>4, <3>1, <3>4, <3>5, LossSwallowed
    <2>6. CASE ~(w \in Sends /\ promise[c] = "cancelled")
      <3>1. Gone' \subseteq Gone
        BY <2>1, <2>2, <2>6 DEF Gone
      <3> QED
        BY <1>2, <1>9, <2>3, <2>4, <3>1, LossesKept
    <2> QED
      BY <2>5, <2>6
  <1> QED
    BY <1>7, <1>9, <1>11, <1>12 DEF MessageInv

LEMMA SettleMessages ==
  ASSUME ChannelInv, MessageInv, NEW c \in Calls, SettleHandle(c)
  PROVE  MessageInv'
  <1> USE Words
  <1>1. /\ handle[c] = "pending" /\ promise[c] # "pending"
        /\ handle' = [handle EXCEPT ![c] = promise[c]]
        /\ UNCHANGED <<queue, closed, recv_waiters, send_waiters, caller, promise, owing>>
    BY DEF SettleHandle, stateVars
  <1>2. Lines /\ Phases /\ Messages /\ Losses /\ CTypeOK
    BY DEF ChannelInv, MessageInv
  <1>3. promise[c] \notin {"none", "pending", "cancelled"}
    BY <1>1, <1>2 DEF Phases, Follows
  <1>4. handle'[c] = promise[c] /\ \A d \in Calls : d # c => handle'[d] = handle[d]
    BY <1>1, <1>2 DEF CTypeOK
  <1>5. /\ \A d, v : Due(owing', d, v) <=> Due(owing, d, v)
        /\ \A d : Owes(owing', d) <=> Owes(owing, d)
        /\ Waiting' = Waiting
    BY <1>1 DEF Due, Owes, Waiting
  <1>6. Lines'
    BY <1>1, <1>2 DEF Lines, Distinct
  <1>7. Phases'
    <2>1. \A d \in Calls : Follows(d)'
      BY <1>1, <1>2, <1>4 DEF Phases, Follows
    <2> QED
      BY <1>1, <1>2, <1>5, <2>1 DEF Phases
  <1>8. Messages'
    <2>1. \A m : \A r \in Receives : Reaches(r, m)' <=> Reaches(r, m)
      BY <1>1, <1>5 DEF Reaches
    <2> QED
      BY <1>1, <1>2, <1>5, <2>1 DEF Messages
  <1>9. Losses'
    <2>1. Gone' \subseteq Gone
      <3> SUFFICES ASSUME NEW m \in Sends, Acked(m)', ~Kept(m)' PROVE Acked(m) /\ ~Kept(m)
        BY DEF Gone
      <3>1. Acked(m)
        BY <1>1, <1>5 DEF Acked
      <3>2. ASSUME NEW r \in Receives, promise[r] = m, handle[r] # "cancelled"
            PROVE  promise'[r] = m /\ handle'[r] # "cancelled"
        BY <1>1, <1>3, <1>4, <3>2
      <3>3. ~Kept(m)
        BY <1>1, <1>5, <3>2 DEF Kept
      <3> QED
        BY <3>1, <3>3
    <2>2. Spent \subseteq Spent'
      BY <1>1, <1>3, <1>4, <1>5 DEF Spent
    <2>3. IsFiniteSet(Made')
      BY <1>1, <1>2 DEF Losses, Made
    <2> QED
      BY <1>2, <1>7, <2>1, <2>2, <2>3, LossesKept
  <1> QED
    BY <1>6, <1>7, <1>8, <1>9 DEF MessageInv

LEMMA CancelMessages ==
  ASSUME ChannelInv, MessageInv, NEW c \in Calls, CancelCall(c)
  PROVE  MessageInv'
  <1> USE Words
  <1>1. /\ handle[c] = "pending"
        /\ promise' = [promise EXCEPT ![c] = IF promise[c] = "pending" THEN "cancelled"
                                             ELSE promise[c]]
        /\ handle' = [handle EXCEPT ![c] = "cancelled"]
        /\ UNCHANGED <<queue, closed, recv_waiters, send_waiters, caller, owing>>
    BY DEF CancelCall, stateVars
  <1>2. Lines /\ Phases /\ Messages /\ Losses /\ CTypeOK
    BY DEF ChannelInv, MessageInv
  <1>3. promise[c] \notin {"none", "cancelled"} /\ caller[c] # None
    BY <1>1, <1>2 DEF Phases, Follows
  <1>4. /\ \A d \in Calls : d # c => promise'[d] = promise[d] /\ handle'[d] = handle[d]
        /\ promise'[c] = (IF promise[c] = "pending" THEN "cancelled" ELSE promise[c])
        /\ handle'[c] = "cancelled"
    BY <1>1, <1>2 DEF CTypeOK
  <1>5. /\ \A d, v : Due(owing', d, v) <=> Due(owing, d, v)
        /\ \A d : Owes(owing', d) <=> Owes(owing, d)
        /\ Waiting' = Waiting
    BY <1>1 DEF Due, Owes, Waiting
  <1>6. Lines'
    BY <1>1, <1>2 DEF Lines, Distinct
  <1>7. \A d \in Calls : promise'[d] = promise[d] \/ (promise[d] = "pending" /\ promise'[d] = "cancelled")
    BY <1>4
  <1>8. Phases'
    <2>1. \A d \in Calls : Follows(d)'
      BY <1>2, <1>3, <1>4 DEF Phases, Follows
    <2> QED
      BY <1>1, <1>2, <1>5, <1>7, <2>1 DEF Phases
  <1>9. Messages'
    <2>1. \A m \in Sends : \A r \in Receives : Reaches(r, m)' <=> Reaches(r, m)
      BY <1>5, <1>7 DEF Reaches
    <2>2. \A m \in Sends : promise'[m] = "closed" => promise[m] = "closed"
      BY <1>7
    <2> QED
      BY <1>1, <1>2, <1>5, <2>1, <2>2 DEF Messages
  <1>10. Losses'
    <2>1. \A m \in Sends : Acked(m)' => Acked(m)
      BY <1>5, <1>7 DEF Acked
    <2>2. ASSUME NEW m \in Sends, Kept(m), ~Kept(m)' PROVE c \in Receives /\ promise[c] = m
      <3>1. m \notin Members(queue) \cup Members(send_waiters)
        BY <1>1, <2>2 DEF Kept
      <3>2. PICK r \in Receives :
                Due(owing, r, m) \/ (promise[r] = m /\ handle[r] # "cancelled")
        BY <2>2, <3>1 DEF Kept
      <3>3. ~Due(owing', r, m) /\ ~(promise'[r] = m /\ handle'[r] # "cancelled")
        BY <2>2 DEF Kept
      <3> QED
        BY <1>4, <1>5, <3>2, <3>3
    <2>3. Spent \subseteq Spent'
      BY <1>1, <1>4, <1>5 DEF Spent
    <2>4. IsFiniteSet(Made')
      BY <1>1, <1>2 DEF Losses, Made
    <2>5. CASE c \in Receives /\ promise[c] \in Sends
      <3>1. Gone' \subseteq Gone \cup {promise[c]}
        BY <2>1, <2>2 DEF Gone
      <3>2. c \notin Members(recv_waiters) /\ ~Owes(owing, c)
        BY <1>2, <2>5 DEF Phases, Waiting
      <3>3. c \in Spent' /\ c \notin Spent
        BY <1>1, <1>4, <1>5, <2>5, <3>2 DEF Spent
      <3>4. Spent \cup {c} \subseteq Spent'
        BY <2>3, <3>3
      <3> QED
        BY <1>2, <1>8, <2>4, <3>1, <3>3, <3>4, LossSwallowed
    <2>6. CASE ~(c \in Receives /\ promise[c] \in Sends)
      <3>1. Gone' \subseteq Gone
        BY <2>1, <2>2, <2>6 DEF Gone
      <3> QED
        BY <1>2, <1>8, <2>3, <2>4, <3>1, LossesKept
    <2> QED
      BY <2>5, <2>6
  <1> QED
    BY <1>6, <1>8, <1>9, <1>10 DEF MessageInv

LEMMA MessageStep == ChannelInv /\ MessageInv /\ [CNext]_cvars => MessageInv'
  <1> SUFFICES ASSUME ChannelInv, MessageInv, [CNext]_cvars PROVE MessageInv'
    OBVIOUS
  <1>1. CASE UNCHANGED cvars
    <2>1. /\ queue' = queue /\ recv_waiters' = recv_waiters /\ send_waiters' = send_waiters
          /\ caller' = caller /\ promise' = promise /\ handle' = handle /\ owing' = owing
      BY <1>1 DEF cvars, stateVars
    <2>2. Lines'
      BY <2>1 DEF MessageInv, Lines, Distinct
    <2>3. Phases'
      BY <2>1 DEF MessageInv, Phases, Follows, Waiting, Owes, Due
    <2>4. Messages'
      BY <2>1 DEF MessageInv, Messages, Reaches, Due
    <2>5. Losses'
      BY <2>1 DEF MessageInv, Losses, Made, Gone, Acked, Kept, Spent, Due, Owes
    <2> QED
      BY <2>2, <2>3, <2>4, <2>5 DEF MessageInv
  <1>2. ASSUME NEW t \in Isolates, NEW s \in Sends,
               SendRefused(t, s) \/ SendHandsOver(t, s) \/ SendQueues(t, s) \/ SendParks(t, s)
        PROVE  MessageInv'
    BY <1>2, SendRefusedMessages, SendHandsOverMessages, SendQueuesMessages, SendParksMessages
  <1>3. ASSUME NEW t \in Isolates, NEW r \in Receives,
               ReceiveTakes(t, r) \/ ReceiveRefused(t, r) \/ ReceiveParks(t, r)
        PROVE  MessageInv'
    BY <1>3, ReceiveTakesMessages, ReceiveRefusedMessages, ReceiveParksMessages
  <1>4. ASSUME NEW t \in Isolates, Close(t) \/ Resolve(t) PROVE MessageInv'
    BY <1>4, CloseMessages, ResolveMessages
  <1>5. ASSUME NEW c \in Calls, SettleHandle(c) \/ CancelCall(c) PROVE MessageInv'
    BY <1>5, SettleMessages, CancelMessages
  <1> QED
    BY <1>1, <1>2, <1>3, <1>4, <1>5 DEF CNext

\* In a line without repetitions something is at most once.
LEMMA TimesSingle ==
  ASSUME NEW q, Single(q), NEW x
  PROVE  Times(x, q) = IF x \in Members(q) THEN 1 ELSE 0
  <1>1. \A i, j \in {k \in DOMAIN q : q[k] = x} : i = j
    BY DEF Single
  <1>2. Cardinality({k \in DOMAIN q : q[k] = x})
            = IF {k \in DOMAIN q : q[k] = x} = {} THEN 0 ELSE 1
    BY <1>1, Lone
  <1>3. x \in Members(q) <=> {k \in DOMAIN q : q[k] = x} # {}
    BY DEF Members
  <1> QED
    BY <1>2, <1>3 DEF Times

\* A message is in exactly one place, or in none.
LEMMA OnePlace ==
  ASSUME CTypeOK, Lines, Phases, Messages, NEW s \in Sends
  PROVE  Places(s) = IF Kept(s) THEN 1 ELSE 0
  <1> USE Words
  <1> SUFFICES ASSUME NEW W, W = {o \in AllOwed : o.what = s},
                      NEW R, R = {r \in Receives : promise[r] = s /\ handle[r] # "cancelled"}
               PROVE  Places(s) = IF Kept(s) THEN 1 ELSE 0
    OBVIOUS
  <1>1. /\ Times(s, queue) = IF s \in Members(queue) THEN 1 ELSE 0
        /\ Times(s, send_waiters) = IF s \in Members(send_waiters) THEN 1 ELSE 0
    BY TimesSingle DEF Lines
  <1>2. \A o \in W : o.to \in Receives /\ Due(owing, o.to, s) /\ o = [to |-> o.to, what |-> s]
    <2> TAKE o \in W
    <2>1. PICK t \in Isolates : \E k \in DOMAIN owing[t] : owing[t][k] = o
      BY DEF AllOwed, Members
    <2>2. PICK k \in DOMAIN owing[t] : owing[t][k] = o
      BY <2>1
    <2>3. o \in Owed /\ o.what = s
      <3>1. owing[t] \in Seq(Owed)
        BY DEF CTypeOK
      <3> QED
        BY <2>2, <3>1, ElementOfSeq, LenProperties
    <2>4. Due(owing, o.to, s) /\ o.to \in Calls /\ o = [to |-> o.to, what |-> s]
      BY <2>2, <2>3 DEF Due, Owed
    <2>5. o.to \in Receives
      BY <2>4 DEF Phases
    <2> QED
      BY <2>4, <2>5
  <1>3. \A r : Due(owing, r, s) => W # {}
    <2> SUFFICES ASSUME NEW r, Due(owing, r, s) PROVE W # {}
      OBVIOUS
    <2>1. PICK t \in Isolates : \E k \in DOMAIN owing[t] : owing[t][k].what = s
      BY DEF Due
    <2> QED
      BY <2>1 DEF AllOwed, Members
  <1>4. \A o, p \in W : o = p
    BY <1>2 DEF Messages, Reaches
  <1>5. Cardinality(W) = IF W = {} THEN 0 ELSE 1
    BY <1>4, Lone
  <1>6. \A r, q \in R : r = q
    BY DEF Messages, Reaches
  <1>7. Cardinality(R) = IF R = {} THEN 0 ELSE 1
    BY <1>6, Lone
  <1>8. W = {} \/ R = {}
    <2> SUFFICES ASSUME NEW o \in W, NEW r \in R PROVE FALSE
      OBVIOUS
    <2>1. Reaches(o.to, s) /\ Reaches(r, s) /\ o.to \in Receives
      BY <1>2 DEF Reaches
    <2>2. o.to = r
      BY <2>1 DEF Messages
    <2>3. Owes(owing, r)
      BY <1>2, <2>2, OwesDue
    <2> QED
      BY <2>3 DEF Phases
  <1>9. s \notin Members(queue) \/ s \notin Members(send_waiters)
    BY DEF Lines
  <1>10. s \in Members(queue) \cup Members(send_waiters) => W = {} /\ R = {}
    BY <1>2 DEF Messages, Reaches
  <1>11. Kept(s) <=> s \in Members(queue) \cup Members(send_waiters) \/ W # {} \/ R # {}
    BY <1>2, <1>3 DEF Kept
  <1>12. Places(s) = Times(s, queue) + Times(s, send_waiters) + Cardinality(W) + Cardinality(R)
    BY DEF Places
  <1> QED
    BY <1>1, <1>5, <1>7, <1>8, <1>9, <1>10, <1>11, <1>12

LEMMA MessagesFollow == ChannelInv /\ MessageInv => MessagesAreKept
  <1> SUFFICES ASSUME ChannelInv, MessageInv PROVE MessagesAreKept
    OBVIOUS
  <1> USE Words
  <1>1. CTypeOK /\ Lines /\ Phases /\ Messages /\ Losses
    BY DEF ChannelInv, MessageInv
  <1>2. \A s \in Sends : Places(s) = IF Kept(s) THEN 1 ELSE 0
    BY <1>1, OnePlace
  <1>3. AcknowledgementIsTrue
    <2> SUFFICES ASSUME NEW s \in Sends
                 PROVE  /\ promise[s] = "closed" => Places(s) = 0
                        /\ promise[s] = "sent" => s \notin Members(send_waiters)
                        /\ \A r \in Receives : handle[r] = s => promise[s] # "closed"
      BY DEF AcknowledgementIsTrue
    <2>1. promise[s] \in {"closed", "sent"} => s \notin Members(send_waiters)
      BY <1>1 DEF Phases, Waiting
    <2>2. promise[s] = "closed" => ~Kept(s)
      BY <1>1, <2>1 DEF Messages, Kept, Reaches
    <2>3. \A r \in Receives : handle[r] = s => Reaches(r, s)
      BY <1>1 DEF Phases, Follows, Reaches
    <2>4. \A r \in Receives : handle[r] = s => promise[s] # "closed"
      BY <1>1, <2>3 DEF Messages
    <2> QED
      BY <1>2, <2>1, <2>2, <2>4
  <1>4. \A s \in Sends : Places(s) <= 1
    BY <1>2
  <1>5. Swallowers \in SUBSET Made
    BY <1>1 DEF Swallowers, Made, Phases, Follows
  <1>6. IsFiniteSet(Swallowers) /\ Cardinality(Spent) <= Cardinality(Swallowers)
    <2>1. IsFiniteSet(Swallowers)
      BY <1>1, <1>5, FS_Subset DEF Losses
    <2>2. Spent \in SUBSET Swallowers
      BY DEF Spent, Swallowers
    <2> QED
      BY <2>1, <2>2, FS_Subset
  <1>7. Cardinality({s \in Sends : promise[s] = "sent" /\ Places(s) = 0})
            <= Cardinality(Swallowers)
    <2> SUFFICES ASSUME NEW L, L = {s \in Sends : promise[s] = "sent" /\ Places(s) = 0}
                 PROVE  Cardinality(L) <= Cardinality(Swallowers)
      OBVIOUS
    <2>1. L \in SUBSET Gone
      BY <1>2 DEF Gone, Acked
    <2>2. IsFiniteSet(Gone) /\ Cardinality(Gone) \in Nat /\ Cardinality(Spent) \in Nat
      BY <1>1, LossesFinite DEF Losses
    <2>3. IsFiniteSet(L) /\ Cardinality(L) <= Cardinality(Gone)
      BY <2>1, <2>2, FS_Subset
    <2>4. Cardinality(L) \in Nat /\ Cardinality(Swallowers) \in Nat
      BY <1>6, <2>3, FS_CardinalityType
    <2> QED
      BY <1>1, <1>6, <2>2, <2>3, <2>4 DEF Losses
  <1> QED
    BY <1>1, <1>3, <1>4, <1>7 DEF MessagesAreKept

\* However sends, receives, close and cancellations interleave with the completions
\* made after the lock is released, no message is delivered twice, a sender that is
\* told ChannelClosed has kept its message, and an acknowledged message is queued, on
\* its way or received unless a cancelled receive of its own swallowed it.
THEOREM MessagesKept == CSpec => []MessagesAreKept
  <1>1. CInit => ChannelInv /\ MessageInv
    BY ChannelStart, MessageStart
  <1>2. ChannelInv /\ MessageInv /\ [CNext]_cvars => ChannelInv' /\ MessageInv'
    BY ChannelStep, MessageStep
  <1>3. ChannelInv /\ MessageInv => MessagesAreKept
    BY MessagesFollow
  <1> QED
    BY <1>1, <1>2, <1>3, PTL DEF CSpec

-----------------------------------------------------------------------------
\* What the channel is as a line of messages.
Posted == {s \in Sends : caller[s] # None}
Ahead == queue \o send_waiters
Got == [r \in Receives |-> Given(r)]

\* A receive has been given what is owed to it, or what its promise holds.
IsGiven ==
    \A r \in Receives :
        /\ handle[r] = "cancelled" => Given(r) = "cancelled"
        /\ handle[r] # "cancelled" =>
              /\ \A w : Due(owing, r, w) => Given(r) = w
              /\ ~Owes(owing, r) =>
                    Given(r) = IF promise[r] = "pending" THEN "waiting" ELSE promise[r]

LEMMA GivenIs == MessageInv => IsGiven
  <1> SUFFICES ASSUME MessageInv, NEW r \in Receives, handle[r] # "cancelled"
               PROVE  /\ \A w : Due(owing, r, w) => Given(r) = w
                      /\ ~Owes(owing, r) =>
                            Given(r) = IF promise[r] = "pending" THEN "waiting" ELSE promise[r]
    BY DEF IsGiven, Given
  <1>1. Distinct(owing)
    BY DEF MessageInv, Lines
  <1>2. \A o \in OwedTo(r) : Due(owing, r, o.what)
    BY DEF OwedTo, AllOwed, Members, Due
  <1>3. ASSUME NEW w, Due(owing, r, w) PROVE Given(r) = w
    <2>1. OwedTo(r) # {}
      BY <1>3, OwesDue, OwesIsOwed
    <2>2. PICK o \in OwedTo(r) : o = CHOOSE p \in OwedTo(r) : TRUE
      BY <2>1
    <2>3. o.what = w
      BY <1>1, <1>2, <1>3, DueOnce
    <2> QED
      BY <2>1, <2>2, <2>3 DEF Given
  <1>4. ASSUME ~Owes(owing, r)
        PROVE  Given(r) = IF promise[r] = "pending" THEN "waiting" ELSE promise[r]
    <2>1. OwedTo(r) = {}
      BY <1>2, <1>4, OwesDue
    <2> QED
      BY <2>1 DEF Given
  <1> QED
    BY <1>3, <1>4

LEMMA GivenSame ==
  ASSUME IsGiven, IsGiven', NEW r \in Receives, handle'[r] = handle[r], promise'[r] = promise[r],
         \A w : Due(owing', r, w) <=> Due(owing, r, w)
  PROVE  Given(r)' = Given(r)
  <1>1. Owes(owing', r) <=> Owes(owing, r)
    BY OwesDue
  <1>2. CASE handle[r] = "cancelled"
    BY <1>2 DEF IsGiven
  <1>3. CASE handle[r] # "cancelled" /\ Owes(owing, r)
    <2>1. PICK w : Due(owing, r, w)
      BY <1>3, OwesDue
    <2> QED
      BY <1>3, <2>1 DEF IsGiven
  <1>4. CASE handle[r] # "cancelled" /\ ~Owes(owing, r)
    BY <1>1, <1>4 DEF IsGiven
  <1> QED
    BY <1>2, <1>3, <1>4

\* Who is made no completion for and settled nothing has been given the same.
LEMMA GotSame ==
  ASSUME IsGiven, IsGiven', handle' = handle, promise' = promise,
         \A r \in Receives : \A w : Due(owing', r, w) <=> Due(owing, r, w)
  PROVE  Got' = Got
  <1>1. \A r \in Receives : Given(r)' = Given(r)
    BY GivenSame
  <1> QED
    BY <1>1 DEF Got

LEMMA GotOne ==
  ASSUME IsGiven, IsGiven', NEW r \in Receives, NEW x, Given(r)' = x,
         \A q \in Receives : q # r =>
             /\ handle'[q] = handle[q] /\ promise'[q] = promise[q]
             /\ \A w : Due(owing', q, w) <=> Due(owing, q, w)
  PROVE  Got' = [Got EXCEPT ![r] = x]
  <1>1. \A q \in Receives : q # r => Given(q)' = Given(q)
    BY GivenSame
  <1> QED
    BY <1>1 DEF Got

-----------------------------------------------------------------------------
LEMMA JoinsBehind ==
  ASSUME NEW S, NEW q \in Seq(S), NEW w \in Seq(S), NEW e \in S
  PROVE  q \o Append(w, e) = Append(q \o w, e)
  <1>1. /\ Append(w, e) = w \o <<e>> /\ q \o w \in Seq(S) /\ <<e>> \in Seq(S)
    BY AppendIsConcat, ConcatProperties
  <1>2. Append(q \o w, e) = (q \o w) \o <<e>>
    BY <1>1, AppendIsConcat
  <1>3. (q \o w) \o <<e>> = q \o (w \o <<e>>)
    BY <1>1, ConcatAssociative
  <1> QED
    BY <1>1, <1>2, <1>3

LEMMA FirstLeaves ==
  ASSUME NEW S, NEW q \in Seq(S), NEW w \in Seq(S), q # <<>>
  PROVE  q \o w # <<>> /\ Head(q \o w) = Head(q) /\ Tail(q \o w) = Tail(q) \o w
  <1>1. /\ Head(q) \in S /\ Tail(q) \in Seq(S) /\ q = <<Head(q)>> \o Tail(q)
    BY HeadTailProperties
  <1> SUFFICES ASSUME NEW h \in S, h = Head(q), NEW rest \in Seq(S), rest = Tail(q)
               PROVE  q \o w # <<>> /\ Head(q \o w) = h /\ Tail(q \o w) = rest \o w
    BY <1>1
  <1>2. /\ <<h>> \in Seq(S) /\ rest \o w \in Seq(S)
    BY ConcatProperties
  <1>3. q \o w = <<h>> \o (rest \o w)
    BY <1>1, <1>2, ConcatAssociative
  <1> SUFFICES ASSUME NEW v \in Seq(S), v = rest \o w
               PROVE  <<h>> \o v # <<>> /\ Head(<<h>> \o v) = h /\ Tail(<<h>> \o v) = v
    BY <1>2, <1>3
  <1>4. /\ <<h>> \o v # <<>> /\ Head(<<h>> \o v) = h /\ Tail(<<h>> \o v) = v
    OBVIOUS
  <1> QED
    BY <1>4

LEMMA MovesUp ==
  ASSUME NEW S, NEW q \in Seq(S), NEW w \in Seq(S), w # <<>>
  PROVE  Append(q, Head(w)) \o Tail(w) = q \o w
  <1>1. /\ Head(w) \in S /\ Tail(w) \in Seq(S) /\ w = <<Head(w)>> \o Tail(w)
    BY HeadTailProperties
  <1> SUFFICES ASSUME NEW h \in S, h = Head(w), NEW rest \in Seq(S), rest = Tail(w)
               PROVE  Append(q, h) \o rest = q \o w
    BY <1>1
  <1>2. Append(q, h) = q \o <<h>> /\ <<h>> \in Seq(S)
    BY AppendIsConcat
  <1>3. (q \o <<h>>) \o rest = q \o (<<h>> \o rest)
    BY <1>2, ConcatAssociative
  <1> QED
    BY <1>1, <1>2, <1>3

LEMMA CutBehind ==
  ASSUME NEW S, NEW q \in Seq(S), NEW w \in Seq(S), Len(q) \in Nat \ {0}
  PROVE  SubSeq(q \o w, 1, Len(q)) = q
  <1>1. 1 \in 1..Len(q) /\ Len(q) \in 1..Len(q)
    OBVIOUS
  <1>2. SubSeq(q \o w, 1, Len(q)) = SubSeq(q, 1, Len(q))
    BY <1>1, SubSeqOfConcat1
  <1>3. SubSeq(q, 1, Len(q)) = q
    BY SubSeqFull
  <1> QED
    BY <1>2, <1>3

LEMMA PostedGrows ==
  ASSUME CTypeOK, NEW t \in Isolates, NEW s \in Sends, Calling(t, s)
  PROVE  s \notin Posted /\ Posted' = Posted \cup {s}
  <1> USE Words
  <1>1. caller[s] = None /\ caller' = [caller EXCEPT ![s] = t]
        /\ caller \in [Calls -> Isolates \cup {None}]
    BY DEF Calling, CTypeOK
  <1> QED
    BY <1>1 DEF Posted

LEMMA PostedSame ==
  ASSUME CTypeOK, NEW t \in Isolates, NEW r \in Receives, Calling(t, r)
  PROVE  Posted' = Posted
  <1> USE Words
  <1>1. caller' = [caller EXCEPT ![r] = t] /\ caller \in [Calls -> Isolates \cup {None}]
    BY DEF Calling, CTypeOK
  <1> QED
    BY <1>1 DEF Posted

LEMMA RefusedSends ==
  ASSUME ChannelInv, MessageInv, IsGiven, IsGiven', NEW t \in Isolates, NEW s \in Sends,
         SendRefused(t, s)
  PROVE  Line!Refuse(s)
  <1> USE Words
  <1>1. /\ Calling(t, s) /\ Leaves(t, <<Owe(s, "closed")>>) /\ s \in Calls /\ closed
        /\ UNCHANGED <<queue, closed, recv_waiters, send_waiters>> /\ CTypeOK
    BY DEF SendRefused, stateVars, ChannelInv
  <1>2. Waiting' = Waiting
        /\ "closed" \in IF s \in Sends THEN {"sent", "closed"} ELSE Sends \cup {"closed"}
    BY <1>1 DEF Waiting
  <1>3. /\ \A d, v : Due(owing', d, v) <=> Due(owing, d, v) \/ (d = s /\ v = "closed")
        /\ promise' = promise /\ handle' = handle
    BY <1>1, <1>2, ReturnDoes
  <1>4. Got' = Got
    BY <1>3, GotSame
  <1>5. s \notin Posted /\ Posted' = Posted \cup {s}
    BY <1>1, PostedGrows
  <1> QED
    BY <1>1, <1>4, <1>5 DEF Line!Refuse, Posted, Got

LEMMA HandedOver ==
  ASSUME ChannelInv, MessageInv, IsGiven, IsGiven', NEW t \in Isolates, NEW s \in Sends,
         SendHandsOver(t, s)
  PROVE  Line!Post(s)
  <1> USE Words
  <1> SUFFICES ASSUME NEW r, r = Head(recv_waiters) PROVE Line!Post(s)
    OBVIOUS
  <1>1. /\ Calling(t, s) /\ Leaves(t, <<Owe(r, s), Owe(s, "sent")>>) /\ s \in Calls /\ ~closed
        /\ recv_waiters # <<>> /\ recv_waiters' = Tail(recv_waiters)
        /\ UNCHANGED <<queue, closed, send_waiters>>
        /\ CTypeOK /\ Lines /\ Phases
        /\ recv_waiters \in Seq(Receives) /\ send_waiters \in Seq(Sends)
    BY DEF SendHandsOver, ChannelInv, MessageInv, CTypeOK
  <1>2. /\ r \in Receives /\ Members(recv_waiters) = {r} \cup Members(recv_waiters')
        /\ r \notin Members(recv_waiters')
    BY <1>1, MembersOfTail, SingleTail DEF Lines
  <1>3. r \notin Members(send_waiters)
    <2>1. \A k \in DOMAIN send_waiters : send_waiters[k] \in Sends
      BY <1>1, ElementOfSeq, LenProperties
    <2> QED
      BY <1>2, <2>1 DEF Members
  <1>4. r \in Waiting /\ r \notin Waiting' /\ Waiting' \subseteq Waiting
    BY <1>1, <1>2, <1>3 DEF Waiting
  <1>5. /\ \A e, x : Due(owing', e, x) <=>
                Due(owing, e, x) \/ (e = s /\ x = "sent") \/ (e = r /\ x = s)
        /\ promise' = promise /\ handle' = handle
        /\ ~Owes(owing, r) /\ promise[r] \in {"pending", "cancelled"}
    <2>1. /\ s \in IF r \in Sends THEN {"sent", "closed"} ELSE Sends \cup {"closed"}
          /\ "sent" \in IF s \in Sends THEN {"sent", "closed"} ELSE Sends \cup {"closed"}
          /\ r \in Calls
      BY <1>2
    <2> QED
      BY <1>1, <1>4, <2>1, ServeDoes
  <1>6. handle[r] = promise[r]
    BY <1>1, <1>2, <1>5 DEF Phases, Follows
  <1>7. /\ \A q \in Receives : q # r => \A w : Due(owing', q, w) <=> Due(owing, q, w)
        /\ Due(owing', r, s)
    BY <1>5
  <1>8. Got' = IF Got[r] = "waiting" THEN [Got EXCEPT ![r] = s] ELSE Got
    <2>1. CASE handle[r] = "cancelled"
      <3>1. Given(r) = "cancelled" /\ Given(r)' = "cancelled"
        BY <1>2, <1>5, <2>1 DEF IsGiven
      <3>2. Got' = [Got EXCEPT ![r] = "cancelled"]
        BY <1>2, <1>5, <1>7, <3>1, GotOne
      <3>3. Got[r] = "cancelled"
        BY <1>2, <3>1 DEF Got
      <3>4. [Got EXCEPT ![r] = "cancelled"] = Got
        BY <3>3 DEF Got
      <3> QED
        BY <3>2, <3>3, <3>4
    <2>2. CASE handle[r] # "cancelled"
      <3>1. Given(r) = "waiting" /\ Given(r)' = s
        BY <1>2, <1>5, <1>6, <1>7, <2>2 DEF IsGiven
      <3>2. Got' = [Got EXCEPT ![r] = s]
        BY <1>2, <1>5, <1>7, <3>1, GotOne
      <3>3. Got[r] = "waiting"
        BY <1>2, <3>1 DEF Got
      <3> QED
        BY <3>2, <3>3
    <2> QED
      BY <2>1, <2>2
  <1>9. s \notin Posted /\ Posted' = Posted \cup {s}
    BY <1>1, PostedGrows
  <1> QED
    BY <1>1, <1>8, <1>9 DEF Line!Post, Posted, Got

LEMMA Queued ==
  ASSUME ChannelInv, MessageInv, IsGiven, IsGiven', NEW t \in Isolates, NEW s \in Sends,
         SendQueues(t, s)
  PROVE  Line!Post(s)
  <1> USE Words
  <1>1. /\ Calling(t, s) /\ Leaves(t, <<Owe(s, "sent")>>) /\ s \in Calls /\ ~closed
        /\ recv_waiters = <<>> /\ Len(queue) < Capacity
        /\ queue' = Append(queue, s) /\ UNCHANGED <<closed, recv_waiters, send_waiters>>
        /\ CTypeOK /\ Queues /\ queue \in Seq(Sends) /\ send_waiters \in Seq(Sends)
    BY DEF SendQueues, ChannelInv, CTypeOK
  <1>2. Waiting' = Waiting
        /\ "sent" \in IF s \in Sends THEN {"sent", "closed"} ELSE Sends \cup {"closed"}
    BY <1>1 DEF Waiting
  <1>3. /\ \A d, v : Due(owing', d, v) <=> Due(owing, d, v) \/ (d = s /\ v = "sent")
        /\ promise' = promise /\ handle' = handle
    BY <1>1, <1>2, ReturnDoes
  <1>4. Got' = Got
    BY <1>3, GotSame
  <1>5. s \notin Posted /\ Posted' = Posted \cup {s}
    BY <1>1, PostedGrows
  <1>6. send_waiters = <<>>
    BY <1>1, LenProperties, CapacityAssumption DEF Queues
  <1>7. Ahead' = Append(Ahead, s)
    <2>1. /\ Append(queue, s) \in Seq(Sends) /\ Append(queue, s) \o <<>> = Append(queue, s)
          /\ queue \o <<>> = queue
      BY <1>1, AppendProperties, ConcatEmptySeq
    <2> QED
      BY <1>1, <1>6, <2>1 DEF Ahead
  <1> QED
    BY <1>1, <1>4, <1>5, <1>7 DEF Line!Post, Posted, Got, Ahead

LEMMA Parked ==
  ASSUME ChannelInv, MessageInv, IsGiven, IsGiven', NEW t \in Isolates, NEW s \in Sends,
         SendParks(t, s)
  PROVE  Line!Post(s)
  <1> USE Words
  <1>1. /\ Calling(t, s) /\ s \in Calls /\ send_waiters' = Append(send_waiters, s)
        /\ promise' = [promise EXCEPT ![s] = "pending"]
        /\ handle' = [handle EXCEPT ![s] = "pending"]
        /\ ~closed /\ recv_waiters = <<>>
        /\ UNCHANGED <<queue, closed, recv_waiters, owing>>
        /\ CTypeOK /\ queue \in Seq(Sends) /\ send_waiters \in Seq(Sends)
    BY DEF SendParks, Parks, ChannelInv, CTypeOK
  <1>2. \A q \in Receives : /\ promise'[q] = promise[q] /\ handle'[q] = handle[q]
                            /\ \A w : Due(owing', q, w) <=> Due(owing, q, w)
    BY <1>1 DEF CTypeOK, Due
  <1>3. Got' = Got
    <2>1. \A q \in Receives : Given(q)' = Given(q)
      BY <1>2, GivenSame
    <2> QED
      BY <2>1 DEF Got
  <1>4. s \notin Posted /\ Posted' = Posted \cup {s}
    BY <1>1, PostedGrows
  <1>5. Ahead' = Append(Ahead, s)
    BY <1>1, JoinsBehind DEF Ahead
  <1> QED
    BY <1>1, <1>3, <1>4, <1>5 DEF Line!Post, Posted, Got, Ahead

LEMMA Taken ==
  ASSUME ChannelInv, MessageInv, IsGiven, IsGiven', NEW t \in Isolates, NEW r \in Receives,
         ReceiveTakes(t, r)
  PROVE  Line!Take(r)
  <1> USE Words
  <1> SUFFICES ASSUME NEW m, m = Head(queue), NEW s, s = Head(send_waiters),
                      NEW left, left = Tail(queue)
               PROVE  Line!Take(r)
    OBVIOUS
  <1>1. /\ Calling(t, r) /\ r \in Calls /\ queue # <<>>
        /\ UNCHANGED <<closed, recv_waiters>> /\ CTypeOK /\ Lines /\ Phases
        /\ queue \in Seq(Sends) /\ recv_waiters \in Seq(Receives) /\ send_waiters \in Seq(Sends)
    BY DEF ReceiveTakes, ChannelInv, MessageInv, CTypeOK
  <1>2. m \in Sends /\ left \in Seq(Sends)
    BY <1>1, MembersOfTail
  <1>3. /\ promise[r] = "none" /\ handle[r] = "none" /\ ~Owes(owing, r)
    BY <1>1, NotMade
  <1>4. m \in IF r \in Sends THEN {"sent", "closed"} ELSE Sends \cup {"closed"}
    BY <1>2
  <1>5. /\ promise' = promise /\ handle' = handle /\ Due(owing', r, m)
        /\ \A q \in Receives : q # r => \A w : Due(owing', q, w) <=> Due(owing, q, w)
        /\ Ahead # <<>> /\ Head(Ahead) = m /\ Ahead' = Tail(Ahead)
    <2>1. CASE send_waiters = <<>>
      <3>1. Leaves(t, <<Owe(r, m)>>) /\ queue' = left /\ send_waiters' = send_waiters
        BY <2>1 DEF ReceiveTakes
      <3>2. Waiting' = Waiting
        BY <1>1, <3>1 DEF Waiting
      <3>3. /\ \A e, x : Due(owing', e, x) <=> Due(owing, e, x) \/ (e = r /\ x = m)
            /\ promise' = promise /\ handle' = handle
        BY <1>1, <1>4, <3>1, <3>2, ReturnDoes
      <3>4. Ahead # <<>> /\ Head(Ahead) = m /\ Tail(Ahead) = left \o send_waiters
        BY <1>1, FirstLeaves DEF Ahead
      <3>5. Ahead' = left \o send_waiters
        BY <3>1 DEF Ahead
      <3> QED
        BY <3>3, <3>4, <3>5
    <2>2. CASE send_waiters # <<>>
      <3>1. /\ Leaves(t, <<Owe(s, "sent"), Owe(r, m)>>) /\ queue' = Append(left, s)
            /\ send_waiters' = Tail(send_waiters)
        BY <2>2 DEF ReceiveTakes
      <3>2. /\ s \in Sends /\ Members(send_waiters) = {s} \cup Members(send_waiters')
            /\ s \notin Members(send_waiters')
        BY <1>1, <2>2, <3>1, MembersOfTail, SingleTail DEF Lines
      <3>3. s \notin Members(recv_waiters)
        <4>1. \A k \in DOMAIN recv_waiters : recv_waiters[k] \in Receives
          BY <1>1, ElementOfSeq, LenProperties
        <4> QED
          BY <3>2, <4>1 DEF Members
      <3>4. s \in Waiting /\ s \notin Waiting' /\ Waiting' \subseteq Waiting
        BY <1>1, <3>2, <3>3 DEF Waiting
      <3>5. /\ \A e, x : Due(owing', e, x) <=>
                  Due(owing, e, x) \/ (e = r /\ x = m) \/ (e = s /\ x = "sent")
            /\ promise' = promise /\ handle' = handle
        <4>1. /\ "sent" \in IF s \in Sends THEN {"sent", "closed"} ELSE Sends \cup {"closed"}
              /\ s \in Calls /\ r \in Calls
          BY <3>2
        <4>2. Calling(t, r) /\ Leaves(t, <<Owe(s, "sent"), Owe(r, m)>>)
          BY <1>1, <3>1
        <4> QED
          BY ONLY ChannelInv, MessageInv, t \in Isolates, <1>4, <3>4, <4>1, <4>2, ServeDoes
      <3>6. Ahead # <<>> /\ Head(Ahead) = m /\ Tail(Ahead) = left \o send_waiters
        BY <1>1, FirstLeaves DEF Ahead
      <3>7. Ahead' = left \o send_waiters
        <4>1. Append(left, s) \o Tail(send_waiters) = left \o send_waiters
          <5>1. left \in Seq(Sends) /\ send_waiters \in Seq(Sends) /\ send_waiters # <<>>
            BY <1>1, <1>2, <2>2
          <5>2. Append(left, Head(send_waiters)) \o Tail(send_waiters) = left \o send_waiters
            BY ONLY <5>1, MovesUp
          <5> QED
            BY ONLY <5>2, s = Head(send_waiters)
        <4> QED
          BY <3>1, <4>1 DEF Ahead
      <3> QED
        BY <3>2, <3>5, <3>6, <3>7
    <2> QED
      BY <2>1, <2>2
  <1>6. Given(r) = "none" /\ Given(r)' = m
    BY <1>3, <1>5 DEF IsGiven
  <1>7. Got' = [Got EXCEPT ![r] = m] /\ Got[r] = "none"
    <2>1. Got' = [Got EXCEPT ![r] = m]
      BY <1>5, <1>6, GotOne
    <2> QED
      BY <1>6, <2>1 DEF Got
  <1>8. Posted' = Posted
    BY <1>1, PostedSame
  <1> QED
    BY <1>1, <1>5, <1>7, <1>8 DEF Line!Take, Posted, Got, Ahead

\* Nothing is parked behind an empty queue.
LEMMA NothingAhead ==
  ASSUME ChannelInv, queue = <<>>
  PROVE  send_waiters = <<>> /\ Ahead = <<>>
  <1>1. send_waiters \in Seq(Sends) /\ (send_waiters # <<>> => Len(queue) = Capacity)
    BY DEF ChannelInv, CTypeOK, Queues
  <1>2. Len(<<>>) = 0
    OBVIOUS
  <1>3. send_waiters = <<>>
    BY <1>1, <1>2, CapacityAssumption
  <1> QED
    BY <1>3 DEF Ahead

LEMMA RefusedReceives ==
  ASSUME ChannelInv, MessageInv, IsGiven, IsGiven', NEW t \in Isolates, NEW r \in Receives,
         ReceiveRefused(t, r)
  PROVE  Line!WaitForMessage(r)
  <1> USE Words
  <1>1. /\ Calling(t, r) /\ Leaves(t, <<Owe(r, "closed")>>) /\ r \in Calls
        /\ queue = <<>> /\ closed /\ CTypeOK
        /\ UNCHANGED <<queue, closed, recv_waiters, send_waiters>>
    BY DEF ReceiveRefused, stateVars, ChannelInv
  <1>2. promise[r] = "none" /\ handle[r] = "none" /\ ~Owes(owing, r)
    BY <1>1, NotMade
  <1>3. Waiting' = Waiting
        /\ "closed" \in IF r \in Sends THEN {"sent", "closed"} ELSE Sends \cup {"closed"}
    BY <1>1 DEF Waiting
  <1>4. /\ \A d, v : Due(owing', d, v) <=> Due(owing, d, v) \/ (d = r /\ v = "closed")
        /\ promise' = promise /\ handle' = handle
    BY <1>1, <1>3, ReturnDoes
  <1>5. Given(r) = "none" /\ Given(r)' = "closed"
    BY <1>2, <1>4 DEF IsGiven
  <1>6. Got' = [Got EXCEPT ![r] = "closed"] /\ Got[r] = "none"
    <2>1. Got' = [Got EXCEPT ![r] = "closed"]
      BY <1>4, <1>5, GotOne
    <2> QED
      BY <1>5, <2>1 DEF Got
  <1>7. Ahead = <<>> /\ Ahead' = Ahead
    BY <1>1, NothingAhead DEF Ahead
  <1>8. Posted' = Posted
    BY <1>1, PostedSame
  <1> QED
    BY <1>1, <1>6, <1>7, <1>8 DEF Line!WaitForMessage, Posted, Got, Ahead

LEMMA ParkedReceives ==
  ASSUME ChannelInv, MessageInv, IsGiven, IsGiven', NEW t \in Isolates, NEW r \in Receives,
         ReceiveParks(t, r)
  PROVE  Line!WaitForMessage(r)
  <1> USE Words
  <1>1. /\ Calling(t, r) /\ r \in Calls /\ recv_waiters' = Append(recv_waiters, r)
        /\ promise' = [promise EXCEPT ![r] = "pending"]
        /\ handle' = [handle EXCEPT ![r] = "pending"]
        /\ queue = <<>> /\ ~closed /\ CTypeOK
        /\ UNCHANGED <<queue, closed, send_waiters, owing>>
    BY DEF ReceiveParks, Parks, ChannelInv
  <1>2. promise[r] = "none" /\ handle[r] = "none" /\ ~Owes(owing, r)
    BY <1>1, NotMade
  <1>3. /\ \A q \in Receives : q # r => promise'[q] = promise[q] /\ handle'[q] = handle[q]
        /\ promise'[r] = "pending" /\ handle'[r] = "pending"
        /\ \A q, w : Due(owing', q, w) <=> Due(owing, q, w)
        /\ ~Owes(owing', r)
    BY <1>1, <1>2 DEF CTypeOK, Due, Owes
  <1>4. Given(r) = "none" /\ Given(r)' = "waiting"
    BY <1>2, <1>3 DEF IsGiven
  <1>5. Got' = [Got EXCEPT ![r] = "waiting"] /\ Got[r] = "none"
    <2>1. Got' = [Got EXCEPT ![r] = "waiting"]
      BY <1>3, <1>4, GotOne
    <2> QED
      BY <1>4, <2>1 DEF Got
  <1>6. Ahead = <<>> /\ Ahead' = Ahead
    BY <1>1, NothingAhead DEF Ahead
  <1>7. Posted' = Posted
    BY <1>1, PostedSame
  <1> QED
    BY <1>1, <1>5, <1>6, <1>7 DEF Line!WaitForMessage, Posted, Got, Ahead

LEMMA ShutDown ==
  ASSUME ChannelInv, MessageInv, IsGiven, IsGiven', NEW t \in Isolates, Close(t)
  PROVE  Line!Shut
  <1> USE Words
  <1> SUFFICES ASSUME NEW L, L = AllClosed(recv_waiters) \o AllClosed(send_waiters)
               PROVE  Line!Shut
    OBVIOUS
  <1>1. /\ owing[t] = <<>> /\ Leaves(t, L) /\ ~closed /\ closed' = TRUE
        /\ recv_waiters' = <<>> /\ send_waiters' = <<>> /\ UNCHANGED <<queue, caller>>
    BY DEF Close
  <1>2. /\ Lines /\ Phases /\ CTypeOK /\ Distinct(owing) /\ Queues /\ Expected
        /\ recv_waiters \in Seq(Receives) /\ send_waiters \in Seq(Sends) /\ queue \in Seq(Sends)
        /\ Single(recv_waiters) /\ Single(send_waiters)
        /\ promise \in [Calls -> {"none", "pending"} \cup Results]
    BY DEF ChannelInv, MessageInv, CTypeOK, Lines
  <1>3. TurnsAway(L, recv_waiters, send_waiters)
    <2>1. TurnsAway(AllClosed(recv_waiters) \o AllClosed(send_waiters),
                    recv_waiters, send_waiters)
      BY <1>2, AllTurnedAway
    <2> QED
      BY <2>1
  <1>4. /\ L \in Seq(Owed) /\ \A k, l \in DOMAIN L : L[k].to = L[l].to => k = l
        /\ \A k \in DOMAIN L : L[k].to \in Waiting /\ L[k].what = "closed"
        /\ \A c \in Waiting : \E k \in DOMAIN L : L[k].to = c
        /\ Waiting \subseteq Calls
    BY ONLY <1>3 DEF TurnsAway, Waiting, Calls
  <1>5. \A c \in Waiting : ~Owes(owing, c) /\ promise[c] \in {"pending", "cancelled"}
    BY <1>2, <1>4 DEF Phases
  <1>6. /\ \A e, x : Due(owing', e, x) <=>
               Due(owing, e, x) \/ \E k \in DOMAIN L : L[k].to = e /\ L[k].what = x
        /\ promise' = promise /\ handle' = handle
    <2>1. /\ CTypeOK /\ Distinct(owing) /\ owing[t] = <<>> /\ L \in Seq(Owed) /\ Leaves(t, L)
          /\ \A k, l \in DOMAIN L : L[k].to = L[l].to => k = l
          /\ \A k \in DOMAIN L : ~Owes(owing, L[k].to)
      BY <1>1, <1>2, <1>4, <1>5
    <2> QED
      BY ONLY <2>1, LeavesDue, t \in Isolates
  <1>7. \A e, x : Due(owing', e, x) <=> Due(owing, e, x) \/ (e \in Waiting /\ x = "closed")
    <2>1. \A e, x : (\E k \in DOMAIN L : L[k].to = e /\ L[k].what = x) <=>
                 e \in Waiting /\ x = "closed"
      BY ONLY <1>4
    <2> QED
      BY ONLY <1>6, <2>1
  <1>8. Got' = [r \in Receives |-> IF Got[r] = "waiting" THEN "closed" ELSE Got[r]]
    <2>1. ASSUME NEW r \in Receives
          PROVE  Given(r)' = IF Given(r) = "waiting" THEN "closed" ELSE Given(r)
      <3>1. CASE handle[r] = "cancelled"
        BY <1>6, <3>1 DEF IsGiven
      <3>2. CASE handle[r] # "cancelled" /\ r \in Waiting
        <4>1. promise[r] = "pending" /\ ~Owes(owing, r)
          BY <1>2, <1>5, <3>2 DEF Phases, Follows
        <4>2. Given(r) = "waiting" /\ Given(r)' = "closed"
          BY <1>6, <1>7, <3>2, <4>1 DEF IsGiven
        <4> QED
          BY <4>2
      <3>3. CASE handle[r] # "cancelled" /\ r \notin Waiting
        <4>1. Given(r)' = Given(r)
          BY <1>6, <1>7, <3>3, GivenSame
        <4>2. Given(r) # "waiting"
          <5>1. CASE Owes(owing, r)
            <6>1. PICK w : Due(owing, r, w)
              BY <5>1, OwesDue
            <6>2. w \in Sends \cup {"closed"}
              BY <1>2, <6>1 DEF Phases
            <6> QED
              BY <3>3, <6>1, <6>2 DEF IsGiven
          <5>2. CASE ~Owes(owing, r)
            <6>1. promise[r] # "pending"
              BY <1>2, <3>3, <5>2 DEF Expected, Waiting
            <6>2. promise[r] # "waiting"
              BY <1>2 DEF Results
            <6> QED
              BY <3>3, <5>2, <6>1, <6>2 DEF IsGiven
          <5> QED
            BY <5>1, <5>2
        <4> QED
          BY <4>1, <4>2
      <3> QED
        BY <3>1, <3>2, <3>3
    <2> QED
      BY <2>1 DEF Got
  <1>9. Ahead' = SubSeq(Ahead, 1, IF Len(Ahead) < Capacity THEN Len(Ahead) ELSE Capacity)
    <2>1. Ahead' = queue
      BY <1>1, <1>2, ConcatEmptySeq DEF Ahead
    <2>2. /\ Len(queue) \in Nat /\ Len(send_waiters) \in Nat /\ Len(queue) <= Capacity
          /\ Len(Ahead) = Len(queue) + Len(send_waiters)
      BY <1>2, LenProperties, ConcatProperties DEF Ahead, CTypeOK
    <2>3. CASE send_waiters = <<>>
      <3>1. Ahead = queue
        BY <1>2, <2>3, ConcatEmptySeq DEF Ahead
      <3>2. (IF Len(Ahead) < Capacity THEN Len(Ahead) ELSE Capacity) = Len(queue)
        BY <2>2, <3>1, CapacityAssumption
      <3> QED
        BY <1>2, <2>1, <3>1, <3>2, SubSeqFull
    <2>4. CASE send_waiters # <<>>
      <3>1. Len(queue) = Capacity
        BY <1>2, <2>4 DEF Queues
      <3>2. (IF Len(Ahead) < Capacity THEN Len(Ahead) ELSE Capacity) = Len(queue)
        BY <2>2, <3>1, CapacityAssumption
      <3>3. SubSeq(queue \o send_waiters, 1, Len(queue)) = queue
        BY <1>2, <3>1, CapacityAssumption, CutBehind
      <3> QED
        BY <2>1, <3>2, <3>3 DEF Ahead
    <2> QED
      BY <2>3, <2>4
  <1>10. Posted' = Posted
    BY <1>1 DEF Posted
  <1> QED
    BY <1>1, <1>8, <1>9, <1>10 DEF Line!Shut, Posted, Got, Ahead

LEMMA ResolvedSame ==
  ASSUME ChannelInv, MessageInv, IsGiven, IsGiven', NEW t \in Isolates, Resolve(t)
  PROVE  UNCHANGED Line!lineVars
  <1> USE Words
  <1> SUFFICES ASSUME NEW h, h = Head(owing[t]), NEW c, c = h.to, NEW w, w = h.what
               PROVE  UNCHANGED Line!lineVars
    OBVIOUS
  <1>1. /\ owing[t] # <<>> /\ owing' = [owing EXCEPT ![t] = Tail(owing[t])]
        /\ promise' = [promise EXCEPT ![c] = IF promise[c] \in {"none", "pending"} THEN w
                                             ELSE promise[c]]
        /\ handle' = [handle EXCEPT ![c] = IF handle[c] = "none" THEN w ELSE handle[c]]
        /\ UNCHANGED <<queue, closed, recv_waiters, send_waiters, caller>>
    BY DEF Resolve, stateVars
  <1>2. /\ Phases /\ CTypeOK /\ Distinct(owing)
    BY DEF ChannelInv, MessageInv, Lines
  <1>3. /\ h \in Owed /\ Due(owing, c, w)
        /\ \A d, v : Due(owing', d, v) <=> Due(owing, d, v) /\ d # c
    BY <1>1, <1>2, ResolveDue
  <1>4. c \in Calls /\ Owes(owing, c) /\ ~Owes(owing', c)
    BY <1>3, OwesDue DEF Owed
  <1>5. /\ promise[c] \in {"none", "pending", "cancelled"} /\ handle[c] = promise[c]
        /\ w \in IF c \in Sends THEN {"sent", "closed"} ELSE Sends \cup {"closed"}
    BY <1>2, <1>3, <1>4 DEF Phases, Follows
  <1>6. /\ \A d \in Calls : d # c => promise'[d] = promise[d] /\ handle'[d] = handle[d]
        /\ promise'[c] = IF promise[c] = "cancelled" THEN "cancelled" ELSE w
        /\ handle'[c] = IF promise[c] = "none" THEN w ELSE promise[c]
    BY <1>1, <1>2, <1>4, <1>5 DEF CTypeOK
  <1>7. ASSUME NEW r \in Receives PROVE Given(r)' = Given(r)
    <2>1. CASE r # c
      BY <1>3, <1>6, <2>1, GivenSame
    <2>2. CASE r = c /\ handle[c] = "cancelled"
      BY <1>5, <1>6, <2>2 DEF IsGiven
    <2>3. CASE r = c /\ handle[c] # "cancelled"
      <3>1. Given(r) = w
        BY <1>3, <2>3 DEF IsGiven
      <3>2. handle'[r] # "cancelled" /\ promise'[r] = w /\ w # "pending"
        BY <1>5, <1>6, <2>3
      <3>3. Given(r)' = w
        BY <1>4, <2>3, <3>2 DEF IsGiven
      <3> QED
        BY <3>1, <3>3
    <2> QED
      BY <2>1, <2>2, <2>3
  <1>8. Got' = Got /\ Posted' = Posted /\ Ahead' = Ahead
    BY <1>1, <1>7 DEF Got, Posted, Ahead
  <1> QED
    BY <1>1, <1>8 DEF Line!lineVars, Got, Posted, Ahead

LEMMA SettledSame ==
  ASSUME ChannelInv, MessageInv, IsGiven, IsGiven', NEW c \in Calls, SettleHandle(c)
  PROVE  UNCHANGED Line!lineVars
  <1> USE Words
  <1>1. /\ handle[c] = "pending" /\ promise[c] # "pending"
        /\ handle' = [handle EXCEPT ![c] = promise[c]]
        /\ UNCHANGED <<queue, closed, recv_waiters, send_waiters, caller, promise, owing>>
    BY DEF SettleHandle, stateVars
  <1>2. Phases /\ CTypeOK
    BY DEF ChannelInv, MessageInv
  <1>3. promise[c] \notin {"none", "pending", "cancelled"}
    BY <1>1, <1>2 DEF Phases, Follows
  <1>4. handle'[c] = promise[c] /\ \A d \in Calls : d # c => handle'[d] = handle[d]
    BY <1>1, <1>2 DEF CTypeOK
  <1>5. /\ \A d, v : Due(owing', d, v) <=> Due(owing, d, v)
        /\ \A d : Owes(owing', d) <=> Owes(owing, d)
    BY <1>1 DEF Due, Owes
  <1>6. ~Owes(owing, c)
    BY <1>2, <1>3 DEF Phases
  <1>7. ASSUME NEW r \in Receives PROVE Given(r)' = Given(r)
    <2>1. CASE r # c
      BY <1>1, <1>4, <1>5, <2>1, GivenSame
    <2>2. CASE r = c
      BY <1>1, <1>3, <1>4, <1>5, <1>6, <2>2 DEF IsGiven
    <2> QED
      BY <2>1, <2>2
  <1>8. Got' = Got /\ Posted' = Posted /\ Ahead' = Ahead
    BY <1>1, <1>7 DEF Got, Posted, Ahead
  <1> QED
    BY <1>1, <1>8 DEF Line!lineVars, Got, Posted, Ahead

LEMMA GivenUp ==
  ASSUME ChannelInv, MessageInv, IsGiven, IsGiven', NEW c \in Calls, CancelCall(c)
  PROVE  UNCHANGED Line!lineVars \/ (c \in Receives /\ Line!GiveUp(c))
  <1> USE Words
  <1>1. /\ handle[c] = "pending"
        /\ promise' = [promise EXCEPT ![c] = IF promise[c] = "pending" THEN "cancelled"
                                             ELSE promise[c]]
        /\ handle' = [handle EXCEPT ![c] = "cancelled"]
        /\ UNCHANGED <<queue, closed, recv_waiters, send_waiters, caller, owing>>
    BY DEF CancelCall, stateVars
  <1>2. Phases /\ CTypeOK
    BY DEF ChannelInv, MessageInv
  <1>3. promise[c] # "none"
    BY <1>1, <1>2 DEF Phases, Follows
  <1>4. /\ \A d \in Calls : d # c => promise'[d] = promise[d] /\ handle'[d] = handle[d]
        /\ handle'[c] = "cancelled"
    BY <1>1, <1>2 DEF CTypeOK
  <1>5. \A d, v : Due(owing', d, v) <=> Due(owing, d, v)
    BY <1>1 DEF Due
  <1>6. Posted' = Posted /\ Ahead' = Ahead
    BY <1>1 DEF Posted, Ahead
  <1>7. CASE c \in Sends
    <2>1. \A r \in Receives : Given(r)' = Given(r)
      BY <1>4, <1>5, <1>7, GivenSame
    <2>2. Got' = Got
      BY <2>1 DEF Got
    <2> QED
      BY <1>1, <1>6, <2>2 DEF Line!lineVars, Got, Posted, Ahead
  <1>8. CASE c \in Receives
    <2>1. Given(c)' = "cancelled"
      BY <1>4, <1>8 DEF IsGiven
    <2>2. Got' = [Got EXCEPT ![c] = "cancelled"]
      BY <1>4, <1>5, <1>8, <2>1, GotOne
    <2>3. Given(c) # "none"
      <3>1. CASE Owes(owing, c)
        <4>1. PICK w : Due(owing, c, w)
          BY <3>1, OwesDue
        <4>2. w \in Sends \cup {"closed"}
          BY <1>2, <1>8, <4>1 DEF Phases
        <4> QED
          BY <1>1, <1>8, <4>1, <4>2 DEF IsGiven
      <3>2. CASE ~Owes(owing, c)
        BY <1>1, <1>3, <1>8, <3>2 DEF IsGiven
      <3> QED
        BY <3>1, <3>2
    <2>4. Got[c] # "none"
      BY <1>8, <2>3 DEF Got
    <2> QED
      BY <1>1, <1>6, <1>8, <2>2, <2>4 DEF Line!GiveUp, Got, Posted, Ahead
  <1> QED
    BY <1>7, <1>8

LEMMA LineStart == CInit => Line!LInit
  <1> SUFFICES ASSUME CInit PROVE Line!LInit
    OBVIOUS
  <1> USE Words
  <1>1. /\ queue = <<>> /\ recv_waiters = <<>> /\ send_waiters = <<>> /\ closed = FALSE
        /\ \A c \in Calls : caller[c] = None /\ promise[c] = "none" /\ handle[c] = "none"
        /\ \A t \in Isolates : DOMAIN owing[t] = {}
    BY DEF CInit
  <1>2. IsGiven
    BY MessageStart, GivenIs
  <1>3. \A r \in Receives : ~Owes(owing, r)
    BY <1>1 DEF Owes
  <1>4. \A r \in Receives : Given(r) = "none"
    BY <1>1, <1>2, <1>3 DEF IsGiven
  <1>5. /\ {s \in Sends : caller[s] # None} = {} /\ queue \o send_waiters = <<>>
    BY <1>1
  <1> QED
    BY <1>1, <1>4, <1>5 DEF Line!LInit

LEMMA LineStep ==
  ChannelInv /\ MessageInv /\ IsGiven /\ IsGiven' /\ [CNext]_cvars => [Line!LNext]_(Line!lineVars)
  <1> SUFFICES ASSUME ChannelInv, MessageInv, IsGiven, IsGiven', [CNext]_cvars
               PROVE  [Line!LNext]_(Line!lineVars)
    OBVIOUS
  <1>1. CASE UNCHANGED cvars
    <2>1. /\ queue' = queue /\ recv_waiters' = recv_waiters /\ send_waiters' = send_waiters
          /\ caller' = caller /\ promise' = promise /\ handle' = handle /\ owing' = owing
          /\ closed' = closed
      BY <1>1 DEF cvars, stateVars
    <2>2. Got' = Got
      <3>1. \A r \in Receives : \A w : Due(owing', r, w) <=> Due(owing, r, w)
        BY <2>1
      <3> QED
        BY <2>1, <3>1, GotSame
    <2>3. UNCHANGED Line!lineVars
      BY <2>1, <2>2 DEF Line!lineVars, Got
    <2> QED
      BY <2>3
  <1>2. ASSUME NEW t \in Isolates, NEW s \in Sends,
               SendRefused(t, s) \/ SendHandsOver(t, s) \/ SendQueues(t, s) \/ SendParks(t, s)
        PROVE  Line!LNext
    <2>1. Line!Post(s) \/ Line!Refuse(s)
      BY <1>2, RefusedSends, HandedOver, Queued, Parked
    <2> QED
      BY <2>1 DEF Line!LNext
  <1>3. ASSUME NEW t \in Isolates, NEW r \in Receives,
               ReceiveTakes(t, r) \/ ReceiveRefused(t, r) \/ ReceiveParks(t, r)
        PROVE  Line!LNext
    <2>1. Line!Take(r) \/ Line!WaitForMessage(r)
      BY <1>3, Taken, RefusedReceives, ParkedReceives
    <2> QED
      BY <2>1 DEF Line!LNext
  <1>4. ASSUME NEW t \in Isolates, Close(t) \/ Resolve(t)
        PROVE  [Line!LNext]_(Line!lineVars)
    <2>1. Line!Shut \/ UNCHANGED Line!lineVars
      BY <1>4, ShutDown, ResolvedSame
    <2> QED
      BY <2>1 DEF Line!LNext
  <1>5. ASSUME NEW c \in Calls, SettleHandle(c) \/ CancelCall(c)
        PROVE  [Line!LNext]_(Line!lineVars)
    <2>1. UNCHANGED Line!lineVars \/ (c \in Receives /\ Line!GiveUp(c))
      BY <1>5, SettledSame, GivenUp
    <2> QED
      BY <2>1 DEF Line!LNext
  <1> QED
    BY <1>1, <1>2, <1>3, <1>4, <1>5 DEF CNext

\* The bounded queue with the senders parked behind it, the receives parked before it
\* and the completions on their way implement one line of messages: they are received
\* in the order in which the sends took the lock, by receives in theirs.
THEOREM LineKept == CSpec => KeepsMessagesInLine
  <1>1. CInit => ChannelInv /\ MessageInv /\ Line!LInit
    BY ChannelStart, MessageStart, LineStart
  <1>2. ChannelInv /\ MessageInv /\ [CNext]_cvars => ChannelInv' /\ MessageInv'
    BY ChannelStep, MessageStep
  <1>3. MessageInv => IsGiven
    BY GivenIs
  <1>4. ChannelInv /\ MessageInv /\ IsGiven /\ IsGiven' /\ [CNext]_cvars
            => [Line!LNext]_(Line!lineVars)
    BY LineStep
  <1> QED
    BY <1>1, <1>2, <1>3, <1>4, PTL DEF CSpec, KeepsMessagesInLine, Line!LSpec

=============================================================================
