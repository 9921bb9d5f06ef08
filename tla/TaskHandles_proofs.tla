------------------------- MODULE TaskHandles_proofs -------------------------
(***************************************************************************)
(* TaskScheduler implements TaskHandles, for every set of cells, as long   *)
(* as no slot of the slab comes to its last generation; and with more      *)
(* generations than there are pairs of cells none does.                    *)
(***************************************************************************)
EXTENDS TaskSchedulerRefinement, TaskScheduler_proofs

-----------------------------------------------------------------------------
(***************************************************************************)
(* Where the tasks that await a cell stand                                 *)
(***************************************************************************)
Positions == Nat \ {0}

\* The token k is at position n of the inbox, settle's work and the waiters of c.
Seat(c, k, n) ==
    \/ n \in DOMAIN inbox /\ inbox[n] = k
    \/ n - Len(inbox) \in DOMAIN work /\ work[n - Len(inbox)].waiter = [token |-> k]
    \/ /\ n - Len(inbox) - Len(work) \in DOMAIN waiters[c]
       /\ waiters[c][n - Len(inbox) - Len(work)] = [token |-> k]

\* The task t is parked on c under the token k.
Bears(k, t, c) ==
    Holds(slab, k) /\ slab.cells[k.slot].out = t /\ slab.cells[k.slot].on = c

\* The task t stands at position n of the line for c.
Stands(t, c, n) ==
    \/ n \in DOMAIN ready /\ ready[n].output = t /\ ready[n].on = c
    \/ \E k \in Tokens : Bears(k, t, c) /\ Seat(c, k, n - Len(ready))

Stood(t, c) == \E n \in Positions : Stands(t, c, n)
Precedes(u, t, c) == \E m, n \in Positions : m < n /\ Stands(u, c, m) /\ Stands(t, c, n)

\* What the refinement says of the lines, in those terms.
Viewed ==
    /\ \A c, t \in Cells : t \in LineOf(c) <=> Alive(t) /\ Stood(t, c)
    /\ \A t, u \in Cells :
          u \in AheadOf(t) <=>
             \E c \in Cells : t \in LineOf(c) /\ u \in LineOf(c) /\ Precedes(u, t, c)

\* The four parts of a line, by position.
LEMMA TwoParts ==
  ASSUME NEW S, NEW s \in Seq(S), NEW t \in Seq(S), NEW x, NEW n \in Int
  PROVE  /\ s \o t \in Seq(S) /\ Len(s \o t) = Len(s) + Len(t)
         /\ n \in DOMAIN (s \o t) /\ (s \o t)[n] = x <=>
               \/ n \in DOMAIN s /\ s[n] = x
               \/ n - Len(s) \in DOMAIN t /\ t[n - Len(s)] = x
  <1> DEFINE u == s \o t
  <1>1. /\ u \in Seq(S) /\ DOMAIN u = 1..(Len(s) + Len(t))
        /\ \A k \in DOMAIN s : k \in DOMAIN u /\ u[k] = s[k]
        /\ \A k \in DOMAIN t : Len(s) + k \in DOMAIN u /\ u[Len(s) + k] = t[k]
        /\ \A k \in DOMAIN u :
              \/ k \in DOMAIN s /\ u[k] = s[k]
              \/ k \notin DOMAIN s /\ k - Len(s) \in DOMAIN t /\ u[k] = t[k - Len(s)]
    BY ConcatParts
  <1>2. u \in Seq(S) /\ Len(u) = Len(s) + Len(t) /\ Len(s) \in Nat
    BY ConcatProperties, LenProperties
  <1> HIDE DEF u
  <1>3. Len(s) + (n - Len(s)) = n
    BY <1>2
  <1> QED
    BY <1>1, <1>2, <1>3 DEF u

LEMMA FourParts ==
  ASSUME NEW S, NEW a \in Seq(S), NEW b \in Seq(S), NEW d \in Seq(S), NEW e \in Seq(S),
         NEW x, NEW n \in Int
  PROVE  LET s == a \o b \o d \o e
         IN  n \in DOMAIN s /\ s[n] = x <=>
                \/ n \in DOMAIN a /\ a[n] = x
                \/ n - Len(a) \in DOMAIN b /\ b[n - Len(a)] = x
                \/ n - Len(a) - Len(b) \in DOMAIN d /\ d[n - Len(a) - Len(b)] = x
                \/ n - Len(a) - Len(b) - Len(d) \in DOMAIN e
                   /\ e[n - Len(a) - Len(b) - Len(d)] = x
  <1>0. Len(a) \in Nat /\ Len(b) \in Nat /\ Len(d) \in Nat
    BY LenProperties
  <1>f. PICK f : f = a \o b
    OBVIOUS
  <1>g. PICK g : g = f \o d
    OBVIOUS
  <1>1. /\ f \in Seq(S) /\ Len(f) = Len(a) + Len(b)
        /\ n \in DOMAIN f /\ f[n] = x <=>
              \/ n \in DOMAIN a /\ a[n] = x
              \/ n - Len(a) \in DOMAIN b /\ b[n - Len(a)] = x
    BY <1>f, TwoParts
  <1>2. /\ g \in Seq(S) /\ Len(g) = Len(f) + Len(d)
        /\ n \in DOMAIN g /\ g[n] = x <=>
              \/ n \in DOMAIN f /\ f[n] = x
              \/ n - Len(f) \in DOMAIN d /\ d[n - Len(f)] = x
    <2>1. f \in Seq(S)
      BY <1>1
    <2> QED
      BY ONLY <2>1, <1>g, TwoParts, d \in Seq(S), n \in Int
  <1>3. n \in DOMAIN (g \o e) /\ (g \o e)[n] = x <=>
              \/ n \in DOMAIN g /\ g[n] = x
              \/ n - Len(g) \in DOMAIN e /\ e[n - Len(g)] = x
    BY <1>2, TwoParts
  <1>4. /\ n - Len(f) = n - Len(a) - Len(b)
        /\ n - Len(g) = n - Len(a) - Len(b) - Len(d)
    BY <1>0, <1>1, <1>2
  <1>5. n \in DOMAIN (g \o e) /\ (g \o e)[n] = x <=>
                \/ n \in DOMAIN a /\ a[n] = x
                \/ n - Len(a) \in DOMAIN b /\ b[n - Len(a)] = x
                \/ n - Len(a) - Len(b) \in DOMAIN d /\ d[n - Len(a) - Len(b)] = x
                \/ n - Len(a) - Len(b) - Len(d) \in DOMAIN e
                   /\ e[n - Len(a) - Len(b) - Len(d)] = x
    BY <1>1, <1>2, <1>3, <1>4
  <1> QED
    BY <1>f, <1>g, <1>5

\* Positions in a line are numbers.
LEMMA PlacesListed ==
  ASSUME NEW c \in Cells, NEW n \in DOMAIN Places(c)
  PROVE  n \in Int
  BY DEF Places

\* A place of the refinement's line is a task's when that task stands there.
LEMMA PlaceOf ==
  ASSUME TInv, NEW c \in Cells, NEW t \in Cells, NEW n \in Int
  PROVE  n \in DOMAIN Places(c) /\ Places(c)[n] = t <=> n \in Positions /\ Stands(t, c, n)
  <1> DEFINE a == [k \in DOMAIN ready |-> IF ready[k].on = c THEN ready[k].output ELSE None]
             b == [k \in DOMAIN inbox |-> ParkedUnder(inbox[k], c)]
             d == [k \in DOMAIN work |-> WaitsAs(work[k].waiter, c)]
             e == [k \in DOMAIN waiters[c] |-> WaitsAs(waiters[c][k], c)]
             S == Cells \cup {None}
             m == n - Len(ready)
  <1>1. /\ ready \in Seq(ReadyTasks) /\ inbox \in Seq(Tokens) /\ work \in Seq(Notifications)
        /\ waiters[c] \in Seq(Waiters) /\ GoodSlab(slab)
    BY DEF TInv, TypeOK, QueueTypes, CellTypes, Created
  <1>2. /\ DOMAIN ready = 1..Len(ready) /\ Len(ready) \in Nat
        /\ DOMAIN inbox = 1..Len(inbox) /\ Len(inbox) \in Nat
        /\ DOMAIN work = 1..Len(work) /\ Len(work) \in Nat
        /\ DOMAIN waiters[c] = 1..Len(waiters[c]) /\ Len(waiters[c]) \in Nat
    BY <1>1, LenProperties
  <1>3. ASSUME NEW k
        PROVE  /\ ParkedUnder(k, c) \in S
               /\ ParkedUnder(k, c) = t <=> Bears(k, t, c)
    BY <1>1, NoneAssumption, SlotParts DEF ParkedUnder, Bears, Holds
  <1>4. ASSUME NEW w
        PROVE  WaitsAs(w, c) \in S
    BY <1>3 DEF WaitsAs
  <1>5. /\ a \in Seq(S) /\ Len(a) = Len(ready)
        /\ b \in Seq(S) /\ Len(b) = Len(inbox)
        /\ d \in Seq(S) /\ Len(d) = Len(work)
        /\ e \in Seq(S) /\ Len(e) = Len(waiters[c])
    <2>1. a \in [1..Len(ready) -> S]
      BY <1>2, ReadyParts DEF TInv, TypeOK
    <2>2. b \in [1..Len(inbox) -> S]
      BY <1>2, <1>3
    <2>3. d \in [1..Len(work) -> S]
      BY <1>2, <1>4
    <2>4. e \in [1..Len(waiters[c]) -> S]
      BY <1>2, <1>4
    <2> HIDE DEF a, b, d, e
    <2>5. ASSUME NEW s, NEW l \in Nat, s \in [1..l -> S] PROVE s \in Seq(S) /\ Len(s) = l
      BY <2>5
    <2> QED
      BY <1>2, <2>1, <2>2, <2>3, <2>4, <2>5
  <1>6. n \in DOMAIN Places(c) /\ Places(c)[n] = t <=>
                \/ n \in DOMAIN a /\ a[n] = t
                \/ n - Len(a) \in DOMAIN b /\ b[n - Len(a)] = t
                \/ n - Len(a) - Len(b) \in DOMAIN d /\ d[n - Len(a) - Len(b)] = t
                \/ n - Len(a) - Len(b) - Len(d) \in DOMAIN e
                   /\ e[n - Len(a) - Len(b) - Len(d)] = t
    <2>1. Places(c) = a \o b \o d \o e
      BY DEF Places
    <2> HIDE DEF a, b, d, e
    <2>2. PICK aa \in Seq(S), bb \in Seq(S), dd \in Seq(S), ee \in Seq(S) :
             aa = a /\ bb = b /\ dd = d /\ ee = e
      BY <1>5
    <2>3. n \in DOMAIN (aa \o bb \o dd \o ee) /\ (aa \o bb \o dd \o ee)[n] = t <=>
                \/ n \in DOMAIN aa /\ aa[n] = t
                \/ n - Len(aa) \in DOMAIN bb /\ bb[n - Len(aa)] = t
                \/ n - Len(aa) - Len(bb) \in DOMAIN dd /\ dd[n - Len(aa) - Len(bb)] = t
                \/ n - Len(aa) - Len(bb) - Len(dd) \in DOMAIN ee
                   /\ ee[n - Len(aa) - Len(bb) - Len(dd)] = t
      BY FourParts
    <2> QED
      BY <2>1, <2>2, <2>3
  <1>7. n \in DOMAIN a /\ a[n] = t <=> n \in DOMAIN ready /\ ready[n].output = t /\ ready[n].on = c
    BY NoneAssumption
  <1>8. m \in DOMAIN b /\ b[m] = t <=> \E k \in Tokens : Bears(k, t, c) /\ m \in DOMAIN inbox /\ inbox[m] = k
    BY <1>1, <1>3
  <1>9. ASSUME NEW w \in Waiters
        PROVE  WaitsAs(w, c) = t <=> \E k \in Tokens : Bears(k, t, c) /\ w = [token |-> k]
    <2>1. CASE IsResume(w)
      <3>1. w \in ResumeWaiters
        BY <2>1 DEF Waiters, IsResume, GatherWaiters
      <3>2. w.token \in Tokens /\ w = [token |-> w.token] /\ \A k : w = [token |-> k] => w.token = k
        BY <3>1 DEF ResumeWaiters
      <3> QED
        BY <1>3, <2>1, <3>2 DEF WaitsAs
    <2>2. CASE ~IsResume(w)
      BY <2>2, NoneAssumption DEF WaitsAs, IsResume
    <2> QED
      BY <2>1, <2>2
  <1>10. m - Len(inbox) \in DOMAIN d /\ d[m - Len(inbox)] = t <=>
            \E k \in Tokens : Bears(k, t, c) /\ m - Len(inbox) \in DOMAIN work
                              /\ work[m - Len(inbox)].waiter = [token |-> k]
    BY <1>1, <1>9, WorkParts
  <1>11. m - Len(inbox) - Len(work) \in DOMAIN e /\ e[m - Len(inbox) - Len(work)] = t <=>
            \E k \in Tokens : Bears(k, t, c) /\ m - Len(inbox) - Len(work) \in DOMAIN waiters[c]
                              /\ waiters[c][m - Len(inbox) - Len(work)] = [token |-> k]
    <2>1. \A j \in DOMAIN waiters[c] : waiters[c][j] \in Waiters
      BY <1>1
    <2> HIDE DEF m
    <2> QED
      BY <1>9, <2>1
  <1>12. n \in DOMAIN Places(c) /\ Places(c)[n] = t <=> Stands(t, c, n)
    <2> HIDE DEF a, b, d, e
    <2>1. (\E k \in Tokens : Bears(k, t, c) /\ Seat(c, k, m)) <=>
             \/ m \in DOMAIN b /\ b[m] = t
             \/ m - Len(inbox) \in DOMAIN d /\ d[m - Len(inbox)] = t
             \/ m - Len(inbox) - Len(work) \in DOMAIN e /\ e[m - Len(inbox) - Len(work)] = t
      BY <1>8, <1>10, <1>11 DEF Seat
    <2> QED
      BY <1>5, <1>6, <1>7, <2>1 DEF Stands
  <1>13. Stands(t, c, n) => n \in Positions
    <2>1. ASSUME NEW k, Seat(c, k, m) PROVE n \in Positions
      BY <1>2, <2>1 DEF Seat, Positions
    <2> QED
      BY <1>2, <2>1 DEF Stands, Positions
  <1> QED
    BY <1>12, <1>13

LEMMA LinesViewed == TInv => Viewed
  <1> SUFFICES ASSUME TInv PROVE Viewed
    OBVIOUS
  <1>1. \A c \in Cells : \A n \in DOMAIN Places(c) : n \in Int
    BY PlacesListed
  <1>2. ASSUME NEW c \in Cells, NEW t \in Cells
        PROVE  t \in LineOf(c) <=> Alive(t) /\ Stood(t, c)
    BY <1>1, PlaceOf DEF LineOf, Stood, Positions
  <1>3. ASSUME NEW t \in Cells, NEW u \in Cells
        PROVE  u \in AheadOf(t) <=>
                  \E c \in Cells : t \in LineOf(c) /\ u \in LineOf(c) /\ Precedes(u, t, c)
    BY <1>1, PlaceOf DEF AheadOf, Precedes, Positions
  <1> QED
    BY <1>2, <1>3 DEF Viewed

-----------------------------------------------------------------------------
(***************************************************************************)
(* The invariant: what is abroad for a parked task                         *)
(***************************************************************************)
Watched(c, k) == \E n \in DOMAIN waiters[c] : waiters[c][n] = [token |-> k]
Abroad(k) == Delivered(k) \/ \E c \in Cells : Watched(c, k)

\* The slab has given the token k to a task.
Given(s, k) ==
    /\ k.slot \in DOMAIN s.cells
    /\ k.gen < s.cells[k.slot].gen \/ Holds(s, k)

\* No token is abroad that has not been given.
TokensGiven == \A k \in Tokens : Abroad(k) => Given(slab, k)

\* The token of a live task that is parked on c is among the waiters of c alone,
\* while c is pending, and on its way only when c has settled.
TokensWait ==
    \A k \in Tokens, t, c \in Cells :
        Bears(k, t, c) /\ Alive(t) =>
            /\ Delivered(k) => status[c] # "pending"
            /\ \A d \in Cells : Watched(d, k) => d = c /\ status[c] = "pending"

\* A live task stands at one place of a line.
StandsOnce ==
    \A t, c \in Cells : Alive(t) =>
        \A m, n \in Positions : Stands(t, c, m) /\ Stands(t, c, n) => m = n

\* What a ready task awaited has settled.
ReadySettled == \A k \in DOMAIN ready : ready[k].on # None => Settled(ready[k].on)

LineParts == TokensGiven /\ TokensWait /\ StandsOnce /\ ReadySettled
LineInv == HomeInv /\ ParkedIsWatched /\ Viewed /\ LineParts

\* No position is before the first, and a token is a waiter of its own.
LEMMA StandsAt ==
  ASSUME TInv, NEW c \in Cells, NEW t, NEW n \in Int, Stands(t, c, n)
  PROVE  \/ n \in DOMAIN ready
         \/ n - Len(ready) \in Positions
  <1>1. /\ ready \in Seq(ReadyTasks) /\ inbox \in Seq(Tokens) /\ work \in Seq(Notifications)
        /\ waiters[c] \in Seq(Waiters)
    BY DEF TInv, TypeOK, QueueTypes, CellTypes
  <1>2. /\ DOMAIN ready = 1..Len(ready) /\ Len(ready) \in Nat
        /\ DOMAIN inbox = 1..Len(inbox) /\ Len(inbox) \in Nat
        /\ DOMAIN work = 1..Len(work) /\ Len(work) \in Nat
        /\ DOMAIN waiters[c] = 1..Len(waiters[c]) /\ Len(waiters[c]) \in Nat
    BY <1>1, LenProperties
  <1>3. ASSUME NEW k, NEW m \in Int, Seat(c, k, m) PROVE m \in Positions
    BY <1>2, <1>3 DEF Seat, Positions
  <1> QED
    BY <1>2, <1>3 DEF Stands

-----------------------------------------------------------------------------
(***************************************************************************)
(* A step that carries a line along                                        *)
(***************************************************************************)
\* The tasks but x that are live after the step keep their places in the line
\* for c up to p, and move q places towards the front beyond it.
Carried(c, p, q, x) ==
    \A t \in Cells \ {x}, n \in Positions :
        status'[t] = "pending" =>
            /\ Stands(t, c, n) =>
                   IF n <= p THEN Stands(t, c, n)' ELSE n - q > p /\ Stands(t, c, n - q)'
            /\ Stands(t, c, n)' =>
                   IF n <= p THEN Stands(t, c, n) ELSE n + q > p /\ Stands(t, c, n + q)

AllCarried(x) == \A c \in Cells : \E p \in Nat, q \in Int : Carried(c, p, q, x)

LEMMA CarriedOrder ==
  ASSUME NEW c \in Cells, NEW p \in Nat, NEW q \in Int, NEW x, Carried(c, p, q, x),
         NEW t \in Cells \ {x}, status'[t] = "pending"
  PROVE  /\ Stood(t, c)' <=> Stood(t, c)
         /\ \A u \in Cells \ {x} : status'[u] = "pending" =>
               (Precedes(u, t, c)' <=> Precedes(u, t, c))
         /\ (\A m, n \in Positions : Stands(t, c, m) /\ Stands(t, c, n) => m = n)
            => \A m, n \in Positions : Stands(t, c, m)' /\ Stands(t, c, n)' => m = n
  <1>1. \A n \in Positions : n \in Int /\ n - q \in Int /\ n + q \in Int
    BY DEF Positions
  <1>2. \A n \in Int : n > p => n \in Positions
    BY DEF Positions
  <1>3. ASSUME NEW n \in Positions, Stands(t, c, n)
        PROVE  \E m \in Positions : Stands(t, c, m)'
    <2>1. CASE n <= p
      BY <1>3, <2>1 DEF Carried
    <2>2. CASE ~(n <= p)
      <3>1. n - q > p /\ Stands(t, c, n - q)'
        BY <1>3, <2>2 DEF Carried
      <3> QED
        BY <1>1, <1>2, <3>1
    <2> QED
      BY <2>1, <2>2
  <1>4. ASSUME NEW n \in Positions, Stands(t, c, n)'
        PROVE  \E m \in Positions : Stands(t, c, m)
    <2>1. CASE n <= p
      BY <1>4, <2>1 DEF Carried
    <2>2. CASE ~(n <= p)
      <3>1. n + q > p /\ Stands(t, c, n + q)
        BY <1>4, <2>2 DEF Carried
      <3> QED
        BY <1>1, <1>2, <3>1
    <2> QED
      BY <2>1, <2>2
  <1>5. ASSUME NEW u \in Cells \ {x}, status'[u] = "pending", Precedes(u, t, c)
        PROVE  Precedes(u, t, c)'
    <2>1. PICK m \in Positions, n \in Positions : m < n /\ Stands(u, c, m) /\ Stands(t, c, n)
      BY <1>5 DEF Precedes
    <2>2. PICK i \in Positions : Stands(u, c, i)' /\ (m <= p => i = m) /\ (~(m <= p) => i = m - q /\ i > p)
      BY <1>1, <1>2, <1>5, <2>1 DEF Carried
    <2>3. PICK j \in Positions : Stands(t, c, j)' /\ (n <= p => j = n) /\ (~(n <= p) => j = n - q /\ j > p)
      BY <1>1, <1>2, <2>1 DEF Carried
    <2>4. i < j
      BY <2>1, <2>2, <2>3 DEF Positions
    <2> QED
      BY <2>2, <2>3, <2>4 DEF Precedes
  <1>6. ASSUME NEW u \in Cells \ {x}, status'[u] = "pending", Precedes(u, t, c)'
        PROVE  Precedes(u, t, c)
    <2>1. PICK m \in Positions, n \in Positions : m < n /\ Stands(u, c, m)' /\ Stands(t, c, n)'
      BY <1>6 DEF Precedes
    <2>2. PICK i \in Positions : Stands(u, c, i) /\ (m <= p => i = m) /\ (~(m <= p) => i = m + q /\ i > p)
      BY <1>1, <1>2, <1>6, <2>1 DEF Carried
    <2>3. PICK j \in Positions : Stands(t, c, j) /\ (n <= p => j = n) /\ (~(n <= p) => j = n + q /\ j > p)
      BY <1>1, <1>2, <2>1 DEF Carried
    <2>4. i < j
      BY <2>1, <2>2, <2>3 DEF Positions
    <2> QED
      BY <2>2, <2>3, <2>4 DEF Precedes
  <1>7. ASSUME \A m, n \in Positions : Stands(t, c, m) /\ Stands(t, c, n) => m = n,
               NEW m \in Positions, NEW n \in Positions, Stands(t, c, m)', Stands(t, c, n)'
        PROVE  m = n
    <2>2. PICK i \in Positions : Stands(t, c, i) /\ (m <= p => i = m) /\ (~(m <= p) => i = m + q /\ i > p)
      BY <1>1, <1>2, <1>7 DEF Carried
    <2>3. PICK j \in Positions : Stands(t, c, j) /\ (n <= p => j = n) /\ (~(n <= p) => j = n + q /\ j > p)
      BY <1>1, <1>2, <1>7 DEF Carried
    <2>4. i = j
      BY <1>7, <2>2, <2>3
    <2> QED
      BY <2>2, <2>3, <2>4 DEF Positions
  <1> QED
    BY <1>3, <1>4, <1>5, <1>6, <1>7 DEF Stood

\* Where a step leaves the lines when it carries every task along but x, which
\* stands in no line after it.
LEMMA LinesLose ==
  ASSUME Viewed, Viewed', NEW x, AllCarried(x),
         \A t \in Cells \ {x} : status'[t] = "pending" <=> status[t] = "pending",
         \A c \in Cells : x \notin LineOf(c)'
  PROVE  /\ \A c \in Cells : LineOf(c)' = LineOf(c) \ {x}
         /\ \A t \in Cells : AheadOf(t)' = IF t = x THEN {} ELSE AheadOf(t) \ {x}
  <1>1. ASSUME NEW c \in Cells PROVE LineOf(c)' = LineOf(c) \ {x}
    <2>1. PICK p \in Nat, q \in Int : Carried(c, p, q, x)
      BY DEF AllCarried
    <2>2. LineOf(c) \subseteq Cells /\ LineOf(c)' \subseteq Cells
      BY DEF LineOf
    <2>3. ASSUME NEW t \in Cells \ {x} PROVE t \in LineOf(c)' <=> t \in LineOf(c)
      <3>1. t \in LineOf(c) <=> status[t] = "pending" /\ Stood(t, c)
        BY DEF Viewed, Alive
      <3>2. t \in LineOf(c)' <=> status'[t] = "pending" /\ Stood(t, c)'
        BY DEF Viewed, Alive
      <3>3. status'[t] = "pending" => (Stood(t, c)' <=> Stood(t, c))
        BY <2>1, CarriedOrder
      <3> QED
        BY <3>1, <3>2, <3>3
    <2> QED
      BY <2>2, <2>3
  <1>2. ASSUME NEW t \in Cells
        PROVE  AheadOf(t)' = IF t = x THEN {} ELSE AheadOf(t) \ {x}
    <2>1. AheadOf(t) \subseteq Cells /\ AheadOf(t)' \subseteq Cells
      BY DEF AheadOf
    <2>2. \A u \in Cells : u \in AheadOf(t) <=>
             \E c \in Cells : t \in LineOf(c) /\ u \in LineOf(c) /\ Precedes(u, t, c)
      BY DEF Viewed
    <2>3. \A u \in Cells : u \in AheadOf(t)' <=>
             \E c \in Cells : t \in LineOf(c)' /\ u \in LineOf(c)' /\ Precedes(u, t, c)'
      BY DEF Viewed
    <2>4. ASSUME NEW u \in Cells, NEW c \in Cells, t # x, u # x,
                 t \in LineOf(c)', u \in LineOf(c)'
          PROVE  Precedes(u, t, c)' <=> Precedes(u, t, c)
      <3>1. PICK p \in Nat, q \in Int : Carried(c, p, q, x)
        BY DEF AllCarried
      <3>2. status'[t] = "pending" /\ status'[u] = "pending"
        BY <2>4 DEF LineOf, Alive
      <3> QED
        BY <2>4, <3>1, <3>2, CarriedOrder
    <2>5. CASE t = x
      BY <2>1, <2>3, <2>5
    <2>6. CASE t # x
      <3>1. ASSUME NEW u \in Cells PROVE u \in AheadOf(t)' <=> u \in AheadOf(t) \ {x}
        <4>1. CASE u = x
          BY <2>3, <4>1
        <4>2. CASE u # x
          BY <1>1, <2>2, <2>3, <2>4, <2>6, <4>2
        <4> QED
          BY <4>1, <4>2
      <3> QED
        BY <2>1, <2>6, <3>1
    <2> QED
      BY <2>5, <2>6
  <1> QED
    BY <1>1, <1>2

\* Nobody stands at two places after such a step either.
LEMMA OnceKept ==
  ASSUME StandsOnce, NEW x, AllCarried(x),
         \A t \in Cells \ {x} : status'[t] = "pending" => status[t] = "pending",
         x \in Cells /\ status'[x] = "pending" =>
            \A c \in Cells : \A m, n \in Positions : Stands(x, c, m)' /\ Stands(x, c, n)' => m = n
  PROVE  StandsOnce'
  <1> SUFFICES ASSUME NEW t \in Cells, NEW c \in Cells, status'[t] = "pending"
               PROVE  \A m, n \in Positions : Stands(t, c, m)' /\ Stands(t, c, n)' => m = n
    BY DEF StandsOnce, Alive
  <1>1. CASE t = x
    BY <1>1
  <1>2. CASE t # x
    <2>1. PICK p \in Nat, q \in Int : Carried(c, p, q, x)
      BY DEF AllCarried
    <2>2. \A m, n \in Positions : Stands(t, c, m) /\ Stands(t, c, n) => m = n
      BY <1>2 DEF StandsOnce, Alive
    <2> QED
      BY <1>2, <2>1, <2>2, CarriedOrder
  <1> QED
    BY <1>1, <1>2

-----------------------------------------------------------------------------
(***************************************************************************)
(* Lemmas about the tokens a slab has given                                *)
(***************************************************************************)
Unwrapped(s) == \A i \in DOMAIN s.cells : s.cells[i].gen < Generations - 1

\* r is s with some of its slots vacated.
Vacates(r, s) ==
    /\ DOMAIN r.cells = DOMAIN s.cells
    /\ \A i \in DOMAIN s.cells :
          \/ r.cells[i] = s.cells[i]
          \/ /\ i \in Occupied(s) /\ r.cells[i].out = None
             /\ r.cells[i].gen = s.cells[i].gen + 1

\* A slot that is vacated before it wraps comes to its next generation.
LEMMA VacantNext ==
  ASSUME NEW cell \in Slot, cell.gen < Generations - 1
  PROVE  Vacant(cell).out = None /\ Vacant(cell).gen = cell.gen + 1 /\ cell.gen \in Nat
  <1>1. cell.gen \in Nat
    BY GenerationsAssumption DEF Slot
  <1>2. (cell.gen + 1) % Generations = cell.gen + 1
    BY <1>1, GenerationsAssumption
  <1> QED
    BY <1>1, <1>2 DEF Vacant

LEMMA RoomyVacates ==
  ASSUME NEW s, GoodSlab(s), Unwrapped(s)
  PROVE  Vacates(Roomy(s), s)
  <1>1. \A i \in DOMAIN s.cells : s.cells[i] \in Slot
    BY DEF GoodSlab, Slabs
  <1>2. Vacates(SweepAbandoned(s), s)
    <2> DEFINE cells == [i \in DOMAIN s.cells |->
                           IF i \in Abandoned(s) THEN Vacant(s.cells[i]) ELSE s.cells[i]]
    <2>1. SweepAbandoned(s).cells = cells
      BY DEF SweepAbandoned
    <2>2. \A i \in DOMAIN s.cells :
             \/ cells[i] = s.cells[i]
             \/ i \in Occupied(s) /\ cells[i].out = None /\ cells[i].gen = s.cells[i].gen + 1
      BY <1>1, VacantNext DEF Unwrapped, Abandoned
    <2>3. DOMAIN cells = DOMAIN s.cells
      OBVIOUS
    <2> HIDE DEF cells
    <2> QED
      BY <2>1, <2>2, <2>3 DEF Vacates
  <1> QED
    BY <1>2 DEF Roomy, Vacates

LEMMA ReleaseVacates ==
  ASSUME NEW s, GoodSlab(s), Unwrapped(s), NEW i \in Occupied(s)
  PROVE  Vacates(Release(s, i), s)
  <1>1. i \in DOMAIN s.cells /\ \A j \in DOMAIN s.cells : s.cells[j] \in Slot
    BY DEF GoodSlab, Slabs, Occupied
  <1>2. Release(s, i).cells = [s.cells EXCEPT ![i] = Vacant(s.cells[i])]
    BY DEF Release
  <1>3. Vacant(s.cells[i]).out = None /\ Vacant(s.cells[i]).gen = s.cells[i].gen + 1
    BY <1>1, VacantNext DEF Unwrapped
  <1> QED
    BY <1>1, <1>2, <1>3 DEF Vacates

\* What a slab has given it has given for good.
LEMMA VacatesGiven ==
  ASSUME NEW s, GoodSlab(s), NEW r, Vacates(r, s)
  PROVE  /\ \A k \in Tokens : Given(s, k) => Given(r, k)
         /\ \A k \in Tokens : Holds(r, k) => Holds(s, k) /\ r.cells[k.slot] = s.cells[k.slot]
  <1>1. \A i \in DOMAIN s.cells : s.cells[i].gen \in Int
    <2>1. \A i \in DOMAIN s.cells : s.cells[i] \in Slot
      BY DEF GoodSlab, Slabs
    <2> QED
      BY <2>1, GenerationsAssumption DEF Slot
  <1>2. \A k \in Tokens : k.gen \in Int
    BY GenerationsAssumption DEF Tokens
  <1> QED
    BY <1>1, <1>2 DEF Vacates, Given, Holds, Occupied

\* Where the next task is put once there is room: at the end, in a first
\* generation, or in a vacant slot, in the generation that slot has come to.
LEMMA InsertPlace ==
  ASSUME NEW s, GoodSlab(s), Books(s), NEW t \in Cells, NEW c \in Cells
  PROVE  LET q == Roomy(s)
             r == Insert(s, t, c)
             new == NextToken(s)
         IN  /\ new.slot \in DOMAIN r.cells
             /\ r.cells[new.slot] = [gen |-> new.gen, out |-> t, on |-> c]
             /\ \A i \in DOMAIN q.cells :
                   i \in DOMAIN r.cells /\ (i # new.slot => r.cells[i] = q.cells[i])
             /\ \A i \in DOMAIN r.cells : i # new.slot => i \in DOMAIN q.cells
             /\ \/ new.slot \notin DOMAIN q.cells /\ new.gen = 0
                \/ /\ new.slot \in DOMAIN q.cells /\ new.slot \notin Occupied(q)
                   /\ new.gen = q.cells[new.slot].gen
  <1> DEFINE q == Roomy(s)
             r == Insert(s, t, c)
             new == NextToken(s)
             entry == [gen |-> new.gen, out |-> t, on |-> c]
  <1>1. GoodSlab(q) /\ Books(q)
    BY RoomyBooks
  <1>2. /\ q.cells \in Seq(Slot) /\ q.free \in Seq(Nat \ {0})
        /\ DOMAIN q.cells = 1..Len(q.cells) /\ Len(q.cells) \in Nat
        /\ \A k \in DOMAIN q.free : q.free[k] \in DOMAIN q.cells /\ q.free[k] \notin Occupied(q)
    BY <1>1 DEF GoodSlab, Slabs, Books
  <1>3. new \in Tokens
    BY InsertKeeps
  <1>4. CASE q.free = <<>>
    <2>1. new = [slot |-> Len(q.cells) + 1, gen |-> 0]
      BY <1>4 DEF NextToken
    <2>2. r.cells = Append(q.cells, entry)
      BY <1>4 DEF Insert
    <2>3. entry \in Slot
      BY <1>3 DEF Slot, Tokens
    <2>4. new.slot = Len(q.cells) + 1 /\ new.gen = 0
      BY <2>1
    <2> HIDE DEF entry, q, r, new
    <2>5. /\ DOMAIN r.cells = 1..(Len(q.cells) + 1)
          /\ r.cells[Len(q.cells) + 1] = entry
          /\ \A i \in 1..Len(q.cells) : r.cells[i] = q.cells[i]
      BY <1>2, <2>2, <2>3
    <2>6. /\ new.slot \in DOMAIN r.cells /\ r.cells[new.slot] = entry
          /\ \A i \in DOMAIN q.cells : i \in DOMAIN r.cells /\ r.cells[i] = q.cells[i]
          /\ \A i \in DOMAIN r.cells : i # new.slot => i \in DOMAIN q.cells
          /\ new.slot \notin DOMAIN q.cells
      BY <1>2, <2>4, <2>5
    <2> QED
      BY <2>4, <2>6 DEF entry, q, r, new
  <1>5. CASE q.free # <<>>
    <2> DEFINE i0 == Last(q.free)
    <2>1. new = [slot |-> i0, gen |-> q.cells[i0].gen]
      BY <1>5 DEF NextToken
    <2>2. r.cells = [q.cells EXCEPT ![new.slot] = entry]
      BY <1>5 DEF Insert
    <2>3. i0 \in DOMAIN q.cells /\ i0 \notin Occupied(q)
      BY <1>2, <1>5 DEF Last
    <2>4. new.slot = i0 /\ new.gen = q.cells[i0].gen
      BY <2>1
    <2> HIDE DEF entry, q, r, new, i0
    <2>5. /\ new.slot \in DOMAIN r.cells /\ r.cells[new.slot] = entry
          /\ DOMAIN r.cells = DOMAIN q.cells
          /\ \A i \in DOMAIN q.cells : i # new.slot => r.cells[i] = q.cells[i]
      BY <1>2, <2>2, <2>3, <2>4
    <2> QED
      BY <2>3, <2>4, <2>5 DEF entry, q, r, new
  <1> QED
    BY <1>4, <1>5

\* The token of the next task was never given before.
LEMMA InsertGives ==
  ASSUME NEW s, GoodSlab(s), Books(s), Unwrapped(s), NEW t \in Cells, NEW c \in Cells
  PROVE  LET r == Insert(s, t, c)
             new == NextToken(s)
         IN  /\ new \in Tokens /\ ~Given(s, new) /\ Given(r, new)
             /\ Holds(r, new) /\ r.cells[new.slot].out = t /\ r.cells[new.slot].on = c
             /\ \A k \in Tokens : Given(s, k) => Given(r, k)
             /\ \A k \in Tokens : Holds(r, k) =>
                   k = new \/ (Holds(s, k) /\ r.cells[k.slot] = s.cells[k.slot])
             /\ \A k \in Tokens : Holds(s, k) /\ status[s.cells[k.slot].out] = "pending" =>
                   Holds(r, k) /\ r.cells[k.slot] = s.cells[k.slot]
  <1> DEFINE q == Roomy(s)
             r == Insert(s, t, c)
             new == NextToken(s)
             entry == [gen |-> new.gen, out |-> t, on |-> c]
  <1>1. /\ GoodSlab(q) /\ Books(q) /\ Vacates(q, s)
        /\ \A i \in Occupied(s) : status[s.cells[i].out] = "pending" => i \in Occupied(q)
        /\ \A i \in Occupied(q) : q.cells[i] = s.cells[i]
    BY RoomyBooks, RoomyVacates
  <1>2. /\ q.cells \in Seq(Slot) /\ q.free \in Seq(Nat \ {0})
        /\ DOMAIN q.cells = 1..Len(q.cells) /\ Len(q.cells) \in Nat
        /\ \A i \in DOMAIN q.cells : q.cells[i] \in Slot
        /\ \A k \in DOMAIN q.free : q.free[k] \in DOMAIN q.cells /\ q.free[k] \notin Occupied(q)
    BY <1>1 DEF GoodSlab, Slabs, Books
  <1>3. new \in Tokens
    BY InsertKeeps
  <1>4. \A k \in Tokens : k = [slot |-> k.slot, gen |-> k.gen] /\ k.gen \in Int
    BY GenerationsAssumption DEF Tokens
  <1>5. /\ \A k \in Tokens : Given(s, k) => Given(q, k)
        /\ \A k \in Tokens : Holds(q, k) => Holds(s, k) /\ q.cells[k.slot] = s.cells[k.slot]
    BY <1>1, VacatesGiven
  <1>6. entry.gen = new.gen /\ entry.out = t /\ entry.on = c /\ t # None
    BY NoneAssumption
  <1>7. /\ new.slot \in DOMAIN r.cells /\ r.cells[new.slot] = entry
        /\ \A i \in DOMAIN q.cells : i \in DOMAIN r.cells /\ (i # new.slot => r.cells[i] = q.cells[i])
        /\ \A i \in DOMAIN r.cells : i # new.slot => i \in DOMAIN q.cells
        /\ \/ new.slot \notin DOMAIN q.cells
           \/ /\ new.slot \in DOMAIN q.cells /\ new.slot \notin Occupied(q)
              /\ new.gen = q.cells[new.slot].gen
    BY InsertPlace
  <1> HIDE DEF q, r, new
  <1>8. Holds(r, new) /\ Given(r, new) /\ r.cells[new.slot].out = t /\ r.cells[new.slot].on = c
    BY <1>6, <1>7 DEF Holds, Given, Occupied
  <1> HIDE DEF entry
  <1>9. \A i \in Occupied(q) : i # new.slot /\ i \in Occupied(r) /\ r.cells[i] = s.cells[i]
    BY <1>1, <1>7 DEF Occupied
  <1>10. ~Given(q, new)
    BY <1>2, <1>4, <1>3, <1>7 DEF Given, Holds
  <1>11. ASSUME NEW k \in Tokens, Given(q, k) PROVE Given(r, k)
    <2>1. CASE k.slot # new.slot
      BY <1>7, <1>11, <2>1 DEF Given, Holds, Occupied
    <2>2. CASE k.slot = new.slot
      <3>1. k.gen < q.cells[k.slot].gen
        BY <1>7, <1>11, <2>2 DEF Given, Holds
      <3> QED
        BY <1>6, <1>7, <1>11, <2>2, <3>1 DEF Given
    <2> QED
      BY <2>1, <2>2
  <1>12. ASSUME NEW k \in Tokens, Holds(r, k), k # new
         PROVE  Holds(s, k) /\ r.cells[k.slot] = s.cells[k.slot]
    <2>1. k.slot # new.slot
      BY <1>3, <1>4, <1>6, <1>7, <1>12 DEF Holds
    <2>2. k.slot \in Occupied(q) /\ r.cells[k.slot] = q.cells[k.slot]
      BY <1>7, <1>12, <2>1 DEF Holds, Occupied
    <2>3. Holds(q, k)
      BY <1>12, <2>2 DEF Holds
    <2> QED
      BY <1>5, <2>2, <2>3
  <1>13. ASSUME NEW k \in Tokens, Holds(s, k), status[s.cells[k.slot].out] = "pending"
         PROVE  Holds(r, k) /\ r.cells[k.slot] = s.cells[k.slot]
    BY <1>1, <1>9, <1>13 DEF Holds
  <1>14. ~Given(s, new)
    BY <1>3, <1>5, <1>10
  <1>15. \A k \in Tokens : Given(s, k) => Given(r, k)
    BY <1>5, <1>11
  <1> QED
    BY <1>3, <1>8, <1>12, <1>13, <1>14, <1>15 DEF r, new

-----------------------------------------------------------------------------
(***************************************************************************)
(* What a step does to the tokens that are abroad                          *)
(***************************************************************************)
\* A token moves only from the waiters of a cell that settles, on towards the
\* inbox.
Flow ==
    \A k \in Tokens :
        /\ Delivered(k)' =>
              Delivered(k) \/ \E d \in Cells : Watched(d, k) /\ status'[d] # "pending"
        /\ \A d \in Cells : Watched(d, k)' =>
              Watched(d, k) /\ (kind[d] = "unused" \/ status'[d] = status[d])

\* The slab gives no token away, and no live task a new one.
SlabFlow ==
    /\ \A k \in Tokens : Given(slab, k) => Given(slab', k)
    /\ \A k \in Tokens, t, c \in Cells :
          Bears(k, t, c)' /\ status'[t] = "pending" => Bears(k, t, c)

LEMMA BearsKnown ==
  ASSUME TInv, NEW k, NEW t, NEW c, Bears(k, t, c)
  PROVE  /\ t \in Cells /\ c \in Cells /\ kind[t] # "unused" /\ kind[c] # "unused"
         /\ k.slot \in Occupied(slab)
  <1>1. k.slot \in Occupied(slab) /\ slab.cells[k.slot].out = t /\ slab.cells[k.slot].on = c
    BY DEF Bears, Holds
  <1> QED
    BY <1>1, SlotParts DEF TInv, Created, KnownParked

LEMMA TokensKept ==
  ASSUME TInv, TokensGiven, TokensWait, SettledStay, Flow, SlabFlow
  PROVE  TokensGiven' /\ TokensWait'
  <1>1. ASSUME NEW k \in Tokens, Abroad(k)' PROVE Abroad(k)
    BY <1>1 DEF Flow, Abroad
  <1>2. TokensGiven'
    <2> SUFFICES ASSUME NEW k \in Tokens, Abroad(k)' PROVE Given(slab', k)
      BY DEF TokensGiven, Given, Holds, Occupied
    <2> QED
      BY <1>1 DEF TokensGiven, SlabFlow
  <1>3. ASSUME NEW k \in Tokens, NEW t \in Cells, NEW c \in Cells,
               Bears(k, t, c)', status'[t] = "pending"
        PROVE  /\ Delivered(k)' => status'[c] # "pending"
               /\ \A d \in Cells : Watched(d, k)' => d = c /\ status'[c] = "pending"
    <2>1. Bears(k, t, c) /\ status[t] = "pending"
      BY <1>3 DEF SlabFlow, SettledStay
    <2>2. /\ Delivered(k) => status[c] # "pending"
          /\ \A d \in Cells : Watched(d, k) => d = c /\ status[c] = "pending"
      BY <2>1 DEF TokensWait, Alive
    <2>3. kind[c] # "unused"
      BY <2>1, BearsKnown
    <2> QED
      BY <2>2, <2>3 DEF Flow, SettledStay
  <1>4. TokensWait'
    BY <1>3 DEF TokensWait, Alive
  <1> QED
    BY <1>2, <1>4

-----------------------------------------------------------------------------
(***************************************************************************)
(* And to their seats                                                      *)
(***************************************************************************)
SeatsMove(c, k, p, q) ==
    \A n \in Positions :
        /\ Seat(c, k, n) =>
               IF n <= p THEN Seat(c, k, n)' ELSE n - q > p /\ Seat(c, k, n - q)'
        /\ Seat(c, k, n)' =>
               IF n <= p THEN Seat(c, k, n) ELSE n + q > p /\ Seat(c, k, n + q)

\* The lengths of what a line is made of.
LEMMA Lengths ==
  ASSUME TypeOK
  PROVE  /\ DOMAIN ready = 1..Len(ready) /\ Len(ready) \in Nat
         /\ DOMAIN inbox = 1..Len(inbox) /\ Len(inbox) \in Nat
         /\ DOMAIN work = 1..Len(work) /\ Len(work) \in Nat
         /\ \A c \in Cells : DOMAIN waiters[c] = 1..Len(waiters[c]) /\ Len(waiters[c]) \in Nat
  <1>1. /\ ready \in Seq(ReadyTasks) /\ inbox \in Seq(Tokens) /\ work \in Seq(Notifications)
        /\ \A c \in Cells : waiters[c] \in Seq(Waiters)
    BY DEF TypeOK, QueueTypes, CellTypes
  <1> QED
    BY <1>1, LenProperties

SeatsCounted ==
    TypeOK => \A c \in Cells : \A k : \A m \in Int : Seat(c, k, m) => m \in Positions

LEMMA SeatAt == SeatsCounted
  <1> SUFFICES ASSUME TypeOK, NEW c \in Cells, NEW k, NEW m \in Int, Seat(c, k, m)
               PROVE  m \in Positions
    BY DEF SeatsCounted
  <1> QED
    BY Lengths DEF Seat, Positions

LEMMA SeatAtNext == SeatsCounted'
  BY SeatAt, PTL

\* A step that leaves the ready queue alone carries a line when it moves the
\* seats of those who stand in it.
LEMMA SeatsCarry ==
  ASSUME TypeOK, TypeOK', ready' = ready, NEW c \in Cells, NEW x, NEW p \in Nat, NEW q \in Int,
         \A k \in Tokens, t \in Cells \ {x} :
            status'[t] = "pending" => (Bears(k, t, c)' <=> Bears(k, t, c)),
         \A k \in Tokens, t \in Cells \ {x} :
            status'[t] = "pending" /\ Bears(k, t, c) => SeatsMove(c, k, p, q)
  PROVE  \E m \in Nat : Carried(c, m, q, x)
  <1>0. PICK r : r = Len(ready)
    OBVIOUS
  <1>1. r \in Nat /\ DOMAIN ready = 1..r /\ Len(ready') = r
    BY <1>0, Lengths
  <1>2. /\ \A k : \A m \in Int : Seat(c, k, m) => m \in Positions
        /\ \A k : \A m \in Int : Seat(c, k, m)' => m \in Positions
    BY SeatAt, SeatAtNext DEF SeatsCounted
  <1>3. ASSUME NEW t \in Cells \ {x}, NEW n \in Positions, status'[t] = "pending"
        PROVE  /\ Stands(t, c, n) =>
                     IF n <= p + r THEN Stands(t, c, n)'
                     ELSE n - q > p + r /\ Stands(t, c, n - q)'
               /\ Stands(t, c, n)' =>
                     IF n <= p + r THEN Stands(t, c, n)
                     ELSE n + q > p + r /\ Stands(t, c, n + q)
    <2>0. n \in Int /\ n - r \in Int
      BY <1>1 DEF Positions
    <2>1. ASSUME NEW k \in Tokens, Bears(k, t, c), Seat(c, k, n - r)
          PROVE  IF n <= p + r THEN Stands(t, c, n)'
                 ELSE n - q > p + r /\ Stands(t, c, n - q)'
      <3>1. n - r \in Positions /\ SeatsMove(c, k, p, q) /\ Bears(k, t, c)'
        BY <1>2, <1>3, <2>0, <2>1
      <3>2. IF n - r <= p THEN Seat(c, k, n - r)' ELSE n - r - q > p /\ Seat(c, k, n - r - q)'
        BY <2>1, <3>1 DEF SeatsMove
      <3>3. (n - r) - q = (n - q) - r
        BY <1>1, <2>0
      <3>4. CASE n <= p + r
        <4>1. Seat(c, k, n - r)'
          BY <1>1, <2>0, <3>2, <3>4
        <4> QED
          BY <1>1, <3>1, <3>4, <4>1 DEF Stands
      <3>5. CASE ~(n <= p + r)
        <4>1. n - q > p + r /\ Seat(c, k, (n - q) - r)'
          BY <1>1, <2>0, <3>2, <3>3, <3>5
        <4> QED
          BY <1>1, <3>1, <3>5, <4>1 DEF Stands
      <3> QED
        BY <3>4, <3>5
    <2>2. ASSUME NEW k \in Tokens, Bears(k, t, c)', Seat(c, k, n - r)'
          PROVE  IF n <= p + r THEN Stands(t, c, n)
                 ELSE n + q > p + r /\ Stands(t, c, n + q)
      <3>1. n - r \in Positions /\ SeatsMove(c, k, p, q) /\ Bears(k, t, c)
        BY <1>2, <1>3, <2>0, <2>2
      <3>2. IF n - r <= p THEN Seat(c, k, n - r) ELSE n - r + q > p /\ Seat(c, k, n - r + q)
        BY <2>2, <3>1 DEF SeatsMove
      <3>3. (n - r) + q = (n + q) - r
        BY <1>1, <2>0
      <3>4. CASE n <= p + r
        <4>1. Seat(c, k, n - r)
          BY <1>1, <2>0, <3>2, <3>4
        <4> QED
          BY <1>0, <3>1, <3>4, <4>1 DEF Stands
      <3>5. CASE ~(n <= p + r)
        <4>1. n + q > p + r /\ Seat(c, k, (n + q) - r)
          BY <1>1, <2>0, <3>2, <3>3, <3>5
        <4> QED
          BY <1>0, <3>1, <3>5, <4>1 DEF Stands
      <3> QED
        BY <3>4, <3>5
    <2>3. ASSUME n \in DOMAIN ready, ready[n].output = t, ready[n].on = c
          PROVE  n <= p + r /\ Stands(t, c, n) /\ Stands(t, c, n)'
      BY <1>1, <2>3 DEF Stands
    <2> QED
      BY <1>0, <1>1, <2>1, <2>2, <2>3 DEF Stands
  <1> DEFINE m == p + r
  <1>4. m \in Nat
    BY <1>1
  <1>5. Carried(c, m, q, x)
    BY <1>3 DEF Carried
  <1> QED
    BY <1>4, <1>5

\* The work loses h jobs at its head, none of which has the token, and gains l
\* such jobs there: the seats beyond the inbox move.
LEMMA WorkShifts ==
  ASSUME TypeOK, TypeOK', NEW c \in Cells, NEW k, NEW h \in Nat, NEW l \in Nat,
         NEW p, p = Len(inbox),
         inbox' = inbox, waiters'[c] = waiters[c], Len(work') - l = Len(work) - h,
         h <= Len(work),
         \A j \in DOMAIN work : j > h => work'[j - h + l] = work[j],
         \A j \in DOMAIN work : j <= h => work[j].waiter # [token |-> k],
         \A j \in DOMAIN work' : j <= l => work'[j].waiter # [token |-> k]
  PROVE  SeatsMove(c, k, p, h - l)
  <1>0. p = Len(inbox)
    OBVIOUS
  <1>1. PICK w : w = Len(work)
    OBVIOUS
  <1>2. /\ p \in Nat /\ DOMAIN inbox = 1..p /\ w \in Nat /\ DOMAIN work = 1..w
        /\ Len(inbox') = p
    BY <1>0, <1>1, Lengths
  <1>3. DOMAIN work' = 1..Len(work') /\ Len(work') \in Nat
    <2>1. work' \in Seq(Notifications)
      BY DEF TypeOK, CellTypes
    <2> QED
      BY <2>1, LenProperties
  <1>4. Len(work') = w - h + l
    BY <1>1, <1>2, <1>3
  <1>5. ASSUME NEW n \in Positions, Seat(c, k, n)
        PROVE  IF n <= p THEN Seat(c, k, n)' ELSE n - (h - l) > p /\ Seat(c, k, n - (h - l))'
    <2>0. n \in Int /\ n >= 1
      BY DEF Positions
    <2>1. CASE n \in 1..p
      <3>1. inbox[n] = k
        BY <1>0, <1>1, <1>2, <1>5, <2>1, Lengths DEF Seat
      <3> QED
        BY <1>0, <1>2, <2>1, <3>1 DEF Seat
    <2>2. CASE n > p
      <3> DEFINE m == n - (h - l)
      <3>1. \/ n - p \in 1..w /\ work[n - p].waiter = [token |-> k]
            \/ n - p - w \in DOMAIN waiters[c] /\ waiters[c][n - p - w] = [token |-> k]
        BY <1>0, <1>1, <1>2, <1>5, <2>0, <2>2 DEF Seat
      <3>2. CASE n - p \in 1..w /\ work[n - p].waiter = [token |-> k]
        <4>1. n - p > h
          BY <1>2, <2>0, <3>2
        <4>2. work'[n - p - h + l] = work[n - p]
          BY <1>2, <3>2, <4>1
        <4>3. m > p /\ m - p = n - p - h + l /\ m - p \in 1..Len(work')
          BY <1>2, <1>4, <2>0, <3>2, <4>1
        <4> HIDE DEF m
        <4>4. m - Len(inbox') \in DOMAIN work' /\ work'[m - Len(inbox')].waiter = [token |-> k]
          BY <1>2, <1>3, <3>2, <4>2, <4>3
        <4>5. Seat(c, k, m)'
          BY <4>4 DEF Seat
        <4> QED
          BY <2>0, <2>2, <4>3, <4>5, <1>2 DEF m
      <3>3. CASE n - p - w \in DOMAIN waiters[c] /\ waiters[c][n - p - w] = [token |-> k]
        <4>1. n - p - w >= 1
          BY <3>3, Lengths
        <4>2. m > p /\ m - p - Len(work') = n - p - w
          BY <1>2, <1>4, <2>0, <4>1
        <4> HIDE DEF m
        <4>3. /\ m - Len(inbox') - Len(work') \in DOMAIN waiters'[c]
              /\ waiters'[c][m - Len(inbox') - Len(work')] = [token |-> k]
          BY <1>2, <3>3, <4>2
        <4>4. Seat(c, k, m)'
          BY <4>3 DEF Seat
        <4> QED
          BY <2>0, <2>2, <4>2, <4>4, <1>2 DEF m
      <3> QED
        BY <3>1, <3>2, <3>3
    <2> QED
      BY <1>2, <2>0, <2>1, <2>2
  <1>6. ASSUME NEW n \in Positions, Seat(c, k, n)'
        PROVE  IF n <= p THEN Seat(c, k, n) ELSE n + (h - l) > p /\ Seat(c, k, n + (h - l))
    <2>0. n \in Int /\ n >= 1
      BY DEF Positions
    <2>1. \/ n \in 1..p /\ inbox[n] = k
          \/ n - p \in 1..Len(work') /\ work'[n - p].waiter = [token |-> k]
          \/ n - p - Len(work') \in DOMAIN waiters[c] /\ waiters[c][n - p - Len(work')] = [token |-> k]
      BY <1>0, <1>2, <1>3, <1>6 DEF Seat
    <2>2. CASE n \in 1..p /\ inbox[n] = k
      BY <1>2, <2>2 DEF Seat
    <2> DEFINE m == n + (h - l)
    <2>3. CASE n - p \in 1..Len(work') /\ work'[n - p].waiter = [token |-> k]
      <3>1. n - p > l
        BY <1>2, <1>3, <2>0, <2>3
      <3>2. m - p \in 1..w /\ m - p > h /\ (m - p) - h + l = n - p /\ m > p
        BY <1>2, <1>4, <2>0, <2>3, <3>1
      <3>3. work'[(m - p) - h + l] = work[m - p]
        BY <1>2, <3>2
      <3>4. m - Len(inbox) \in DOMAIN work /\ work[m - Len(inbox)].waiter = [token |-> k]
        BY <1>0, <1>2, <2>3, <3>2, <3>3
      <3> HIDE DEF m
      <3>5. Seat(c, k, m)
        BY <3>4 DEF Seat
      <3> QED
        BY <1>2, <2>0, <2>3, <3>2, <3>5 DEF m
    <2>4. CASE n - p - Len(work') \in DOMAIN waiters[c] /\ waiters[c][n - p - Len(work')] = [token |-> k]
      <3>1. n - p - Len(work') >= 1
        BY <2>4, Lengths
      <3>2. m > p /\ n > p /\ m - p - w = n - p - Len(work')
        BY <1>2, <1>4, <2>0, <3>1
      <3> HIDE DEF m
      <3>3. /\ m - Len(inbox) - Len(work) \in DOMAIN waiters[c]
            /\ waiters[c][m - Len(inbox) - Len(work)] = [token |-> k]
        BY <1>0, <1>1, <2>4, <3>2
      <3>4. Seat(c, k, m)
        BY <3>3 DEF Seat
      <3> QED
        BY <1>2, <2>0, <3>2, <3>4 DEF m
    <2> QED
      BY <2>1, <2>2, <2>3, <2>4
  <1> QED
    BY <1>2, <1>5, <1>6 DEF SeatsMove

\* A step that leaves the slab alone.
LEMMA SameSlabFlow ==
  ASSUME slab' = slab
  PROVE  /\ SlabFlow
         /\ \A k, t, c : Bears(k, t, c)' <=> Bears(k, t, c)
  BY DEF SlabFlow, Given, Bears, Holds, Occupied

\* settle moves the seats of those who await c from among its waiters to the
\* work, and the seats of the others to behind the jobs it adds.
LEMMA SettleMoves ==
  ASSUME TInv, TypeOK', TokensWait, NEW c \in Cells, NEW o \in Outcomes, NEW seen,
         NEW rest \in Seq(Notifications), Settle(c, o, seen, rest), UNCHANGED <<ready, slab, inbox>>,
         NEW h \in Nat, Len(work) = Len(rest) + h,
         \A j \in DOMAIN rest : rest[j] = work[j + h],
         \A j \in DOMAIN work : j <= h => ~IsResume(work[j].waiter)
  PROVE  AllCarried(c) /\ Flow /\ SlabFlow
  <1>1. TypeOK /\ CellTypes
    BY DEF TInv, TypeOK
  <1>2. /\ DOMAIN rest = 1..Len(rest) /\ Len(rest) \in Nat
        /\ DOMAIN work = 1..Len(work) /\ Len(work) \in Nat
        /\ DOMAIN inbox = 1..Len(inbox) /\ Len(inbox) \in Nat
        /\ DOMAIN waiters[c] = 1..Len(waiters[c]) /\ Len(waiters[c]) \in Nat
        /\ h <= Len(work)
    BY <1>1, Lengths, LenProperties
  <1>3. SlabFlow /\ \A k, t, d : Bears(k, t, d)' <=> Bears(k, t, d)
    BY SameSlabFlow
  <1>4. \A k : IsResume([token |-> k])
    BY WaiterForm
  <1>5. /\ \A d \in Cells : d # c => waiters'[d] = waiters[d] /\ status'[d] = status[d]
        /\ status'[c] # "pending"
        /\ status[c] # "pending" => waiters'[c] = waiters[c] /\ status'[c] = status[c]
        /\ status[c] = "pending" => waiters'[c] = <<>>
    <2>1. waiters \in [Cells -> Seq(Waiters)] /\ status \in [Cells -> {"pending"} \cup Outcomes]
      BY <1>1 DEF CellTypes
    <2> QED
      BY <2>1 DEF Settle, Outcomes
  <1>6. PICK l \in Nat :
           /\ status[c] # "pending" => l = 0
           /\ status[c] = "pending" => l = Len(waiters[c])
           /\ DOMAIN work' = 1..(l + Len(rest)) /\ Len(work') = l + Len(rest)
           /\ \A j \in 1..l : work'[j].waiter = waiters[c][j]
           /\ \A j \in DOMAIN rest : work'[l + j] = rest[j]
    <2>1. CASE status[c] # "pending"
      <3>1. work' = rest
        BY <2>1 DEF Settle
      <3> QED
        BY <1>2, <2>1, <3>1
    <2>2. CASE status[c] = "pending"
      <3>1. work' = Jobs(c) \o rest
        BY <2>2 DEF Settle
      <3>2. /\ Jobs(c) \in Seq(Notifications) /\ Len(Jobs(c)) = Len(waiters[c])
            /\ \A i \in 1..Len(waiters[c]) : Jobs(c)[i] = [waiter |-> waiters[c][i], from |-> c]
        BY <1>1, JobsType
      <3>3. PICK jobs \in Seq(Notifications) : jobs = Jobs(c)
        BY <3>2
      <3>4. /\ DOMAIN (jobs \o rest) = 1..(Len(jobs) + Len(rest))
            /\ \A k \in DOMAIN jobs : (jobs \o rest)[k] = jobs[k]
            /\ \A k \in DOMAIN rest : (jobs \o rest)[Len(jobs) + k] = rest[k]
            /\ Len(jobs \o rest) = Len(jobs) + Len(rest)
            /\ DOMAIN jobs = 1..Len(jobs)
        BY ConcatParts, ConcatProperties, LenProperties
      <3>5. Len(jobs) = Len(waiters[c]) /\ work' = jobs \o rest
            /\ \A i \in 1..Len(waiters[c]) : jobs[i].waiter = waiters[c][i]
        <4>1. Len(jobs) = Len(waiters[c]) /\ work' = jobs \o rest
          BY <3>1, <3>2, <3>3
        <4>2. \A i \in 1..Len(waiters[c]) : jobs[i] = [waiter |-> waiters[c][i], from |-> c]
          BY <3>2, <3>3
        <4>3. ASSUME NEW i \in 1..Len(waiters[c]) PROVE jobs[i].waiter = waiters[c][i]
          <5>1. jobs[i] = [waiter |-> waiters[c][i], from |-> c]
            BY <4>2
          <5> QED
            BY ONLY <5>1, JobParts
        <4> QED
          BY <4>1, <4>3, Zenon
      <3> QED
        BY <1>2, <2>2, <3>4, <3>5
    <2> QED
      BY <2>1, <2>2
  <1>7. ASSUME NEW j \in DOMAIN work, j > h
        PROVE  work'[j - h + l] = work[j]
    <2>1. j - h \in DOMAIN rest /\ (j - h) + h = j /\ l + (j - h) = j - h + l
      BY <1>2, <1>7
    <2> QED
      BY <1>6, <2>1
  <1>8. \A j \in DOMAIN work' : j > l => j - l \in DOMAIN rest /\ j - l + h \in DOMAIN work
                                        /\ work'[j] = work[j - l + h]
    <2> SUFFICES ASSUME NEW j \in DOMAIN work', j > l
                 PROVE  j - l \in DOMAIN rest /\ j - l + h \in DOMAIN work
                        /\ work'[j] = work[j - l + h]
      OBVIOUS
    <2>0. j \in Int /\ j <= l + Len(rest)
      BY <1>2, <1>6
    <2>1. j - l \in 1..Len(rest) /\ l + (j - l) = j
      BY <1>2, <2>0
    <2>2. j - l + h \in 1..Len(work)
      BY <1>2, <2>1
    <2>3. work'[l + (j - l)] = rest[j - l] /\ rest[j - l] = work[j - l + h]
      BY <1>2, <1>6, <2>1
    <2> QED
      BY <1>2, <2>1, <2>2, <2>3
  <1>9. ASSUME NEW k \in Tokens, Delivered(k)'
        PROVE  Delivered(k) \/ (Watched(c, k) /\ status'[c] # "pending")
    <2>1. CASE \E n \in DOMAIN inbox' : inbox'[n] = k
      BY <2>1 DEF Delivered
    <2>2. CASE \E n \in DOMAIN work' : work'[n].waiter = [token |-> k]
      <3>1. PICK n \in DOMAIN work' : work'[n].waiter = [token |-> k]
        BY <2>2
      <3>2. CASE n > l
        BY <1>8, <3>1, <3>2 DEF Delivered
      <3>3. CASE n <= l
        <4>1. n \in 1..l /\ status[c] = "pending" /\ n \in DOMAIN waiters[c]
          BY <1>2, <1>6, <3>3
        <4> QED
          BY <1>5, <1>6, <3>1, <4>1 DEF Watched
      <3> QED
        BY <1>6, <3>2, <3>3
    <2> QED
      BY <1>9, <2>1, <2>2 DEF Delivered
  <1>10. ASSUME NEW k \in Tokens, NEW d \in Cells, Watched(d, k)'
         PROVE  Watched(d, k) /\ status'[d] = status[d]
    <2>1. CASE d # c \/ status[c] # "pending"
      BY <1>5, <1>10, <2>1 DEF Watched
    <2>2. CASE d = c /\ status[c] = "pending"
      BY <1>5, <1>10, <2>2 DEF Watched
    <2> QED
      BY <2>1, <2>2
  <1>11. Flow
    BY <1>9, <1>10 DEF Flow
  <1>12. ASSUME NEW d \in Cells PROVE \E p \in Nat, q \in Int : Carried(d, p, q, c)
    <2>0. \A k \in Tokens, t \in Cells \ {c} :
             status'[t] = "pending" => (Bears(k, t, d)' <=> Bears(k, t, d))
      BY <1>3
    <2>p. PICK p \in Nat, w \in Nat : p = Len(inbox) /\ w = Len(work)
      BY <1>2
    <2>1. CASE d # c \/ status[c] # "pending"
      <3>1. waiters'[d] = waiters[d]
        BY <1>5, <2>1
      <3>2. ASSUME NEW k \in Tokens, NEW t \in Cells \ {c}, status'[t] = "pending", Bears(k, t, d)
            PROVE  SeatsMove(d, k, p, h - l)
        <4>1. \A j \in DOMAIN work : j <= h => work[j].waiter # [token |-> k]
          BY <1>4
        <4>2. \A j \in DOMAIN work' : j <= l => work'[j].waiter # [token |-> k]
          <5> SUFFICES ASSUME NEW j \in DOMAIN work', j <= l, work'[j].waiter = [token |-> k]
                       PROVE  FALSE
            OBVIOUS
          <5>1. j \in 1..l /\ status[c] = "pending" /\ j \in DOMAIN waiters[c]
            BY <1>2, <1>6
          <5>2. Watched(c, k)
            BY <1>6, <5>1 DEF Watched
          <5>3. Alive(t)
            BY <1>5, <3>2 DEF Alive
          <5> QED
            BY <2>1, <3>2, <5>1, <5>2, <5>3 DEF TokensWait
        <4>3. Len(work') - l = Len(work) - h
          BY <1>2, <1>6
        <4> QED
          BY <1>1, <1>2, <1>7, <2>p, <3>1, <4>1, <4>2, <4>3, WorkShifts
      <3>3. \E m \in Nat : Carried(d, m, h - l, c)
        <4>1. ready' = ready /\ h - l \in Int
          OBVIOUS
        <4>2. \A k \in Tokens, t \in Cells \ {c} :
                 status'[t] = "pending" /\ Bears(k, t, d) => SeatsMove(d, k, p, h - l)
          BY <3>2
        <4> QED
          BY <1>1, <2>0, <2>p, <4>1, <4>2, SeatsCarry
      <3> QED
        BY <3>3
    <2>2. CASE d = c /\ status[c] = "pending"
      <3>1. ASSUME NEW k \in Tokens, NEW t \in Cells \ {c}, status'[t] = "pending", Bears(k, t, c)
            PROVE  SeatsMove(c, k, p, w)
        <4>1. Alive(t) /\ ~Delivered(k)
          BY <1>5, <2>2, <3>1 DEF Alive, TokensWait
        <4>2. ASSUME NEW n \in Positions, Seat(c, k, n)
              PROVE  n > p /\ n - w > p /\ Seat(c, k, n - w)'
          <5>1. n - p - w \in DOMAIN waiters[c] /\ waiters[c][n - p - w] = [token |-> k]
            BY <2>p, <4>1, <4>2 DEF Seat, Delivered
          <5>2. (n - w) - p = n - p - w /\ n - p - w \in 1..l /\ n \in Int
            BY <1>2, <1>6, <2>2, <2>p, <5>1 DEF Positions
          <5>3. (n - w) - Len(inbox') \in DOMAIN work' /\ work'[(n - w) - Len(inbox')].waiter = [token |-> k]
            BY <1>2, <1>6, <2>p, <5>1, <5>2
          <5>4. Seat(c, k, n - w)'
            BY <5>3 DEF Seat
          <5> QED
            BY <1>2, <2>p, <5>2, <5>4
        <4>3. ASSUME NEW n \in Positions, Seat(c, k, n)'
              PROVE  n > p /\ n + w > p /\ Seat(c, k, n + w)
          <5>1. n - p \in DOMAIN work' /\ work'[n - p].waiter = [token |-> k]
            BY <1>5, <2>2, <2>p, <4>1, <4>3 DEF Seat, Delivered
          <5>2. n - p <= l
            BY <1>6, <1>8, <4>1, <5>1 DEF Delivered
          <5>3. n - p \in DOMAIN waiters[c] /\ waiters[c][n - p] = [token |-> k]
            BY <1>2, <1>6, <2>2, <5>1, <5>2
          <5>4. (n + w) - p - w = n - p /\ n > p /\ n + w > p
            BY <1>2, <1>6, <2>p, <5>1 DEF Positions
          <5>5. Seat(c, k, n + w)
            BY <2>p, <5>3, <5>4 DEF Seat
          <5> QED
            BY <5>4, <5>5
        <4> QED
          BY <1>2, <2>p, <4>2, <4>3 DEF SeatsMove, Positions
      <3>2. \E m \in Nat : Carried(c, m, w, c)
        <4>1. ready' = ready /\ w \in Int
          BY <2>p
        <4>2. \A k \in Tokens, t \in Cells \ {c} :
                 status'[t] = "pending" /\ Bears(k, t, c) => SeatsMove(c, k, p, w)
          BY <3>1
        <4> QED
          BY <1>1, <2>0, <2>2, <2>p, <4>1, <4>2, SeatsCarry
      <3> QED
        BY <2>2, <2>p, <3>2
    <2> QED
      BY <2>1, <2>2
  <1> QED
    BY <1>3, <1>11, <1>12 DEF AllCarried

\* A step that leaves the ready queue and every seat of the tasks but x alone.
LEMMA SeatsSame ==
  ASSUME TypeOK, TypeOK', ready' = ready, NEW x,
         \A k \in Tokens, t \in Cells \ {x}, c \in Cells :
            status'[t] = "pending" => (Bears(k, t, c)' <=> Bears(k, t, c)),
         \A k \in Tokens, t \in Cells \ {x}, c \in Cells, n \in Positions :
            status'[t] = "pending" /\ Bears(k, t, c) => (Seat(c, k, n)' <=> Seat(c, k, n))
  PROVE  AllCarried(x)
  <1>1. ASSUME NEW c \in Cells PROVE \E p \in Nat, q \in Int : Carried(c, p, q, x)
    <2>1. \A k \in Tokens, t \in Cells \ {x} :
             status'[t] = "pending" /\ Bears(k, t, c) => SeatsMove(c, k, 0, 0)
      <3> SUFFICES ASSUME NEW k \in Tokens, NEW t \in Cells \ {x},
                          status'[t] = "pending", Bears(k, t, c), NEW n \in Positions
                   PROVE  /\ Seat(c, k, n) =>
                                IF n <= 0 THEN Seat(c, k, n)' ELSE n - 0 > 0 /\ Seat(c, k, n - 0)'
                          /\ Seat(c, k, n)' =>
                                IF n <= 0 THEN Seat(c, k, n) ELSE n + 0 > 0 /\ Seat(c, k, n + 0)
        BY DEF SeatsMove
      <3>1. n - 0 = n /\ n + 0 = n /\ n > 0 /\ ~(n <= 0)
        BY DEF Positions
      <3> QED
        BY <3>1
    <2>2. \E m \in Nat : Carried(c, m, 0, x)
      BY <2>1, SeatsCarry
    <2> QED
      BY <2>2
  <1> QED
    BY <1>1 DEF AllCarried

\* A step that touches neither queues, slab nor waiters.
LEMMA QuietMoves ==
  ASSUME TypeOK, TypeOK', UNCHANGED <<ready, slab, inbox, work, waiters, status>>, NEW x
  PROVE  AllCarried(x) /\ Flow /\ SlabFlow
  <1>1. \A c, k, n : Seat(c, k, n)' <=> Seat(c, k, n)
    BY DEF Seat
  <1>2. SlabFlow /\ \A k, t, c : Bears(k, t, c)' <=> Bears(k, t, c)
    BY SameSlabFlow
  <1>3. Flow
    BY DEF Flow, Delivered, Watched
  <1>4. AllCarried(x)
    BY <1>1, <1>2, SeatsSame
  <1> QED
    BY <1>2, <1>3, <1>4

\* A token goes from the head of the work to the end of the inbox: the place is
\* the same.
LEMMA NotifyMoves ==
  ASSUME TInv, TypeOK', NotifyAwaiter, NEW x
  PROVE  AllCarried(x) /\ Flow /\ SlabFlow
  <1> DEFINE w == Head(work).waiter
  <1>1. /\ work # <<>> /\ IsResume(w) /\ inbox' = Append(inbox, w.token) /\ work' = Tail(work)
        /\ ready' = ready /\ slab' = slab /\ waiters' = waiters /\ status' = status
    BY DEF NotifyAwaiter
  <1>2. w \in Waiters
    BY <1>1, NextWaiter
  <1>3. w \in ResumeWaiters
    BY <1>1, <1>2 DEF Waiters, GatherWaiters, IsResume
  <1>4. w.token \in Tokens /\ w = [token |-> w.token] /\ \A k : w = [token |-> k] => w.token = k
    BY <1>3 DEF ResumeWaiters
  <1>5. TypeOK /\ inbox \in Seq(Tokens) /\ work \in Seq(Notifications)
    BY DEF TInv, TypeOK, QueueTypes, CellTypes
  <1>6. /\ 1 \in DOMAIN work /\ work[1].waiter = w /\ Len(work) \in Nat /\ DOMAIN work = 1..Len(work)
        /\ DOMAIN work' = 1..(Len(work) - 1)
        /\ \A k \in DOMAIN work' : k + 1 \in DOMAIN work /\ work'[k] = work[k + 1]
        /\ \A k \in DOMAIN work : k = 1 \/ (k - 1 \in DOMAIN work' /\ work'[k - 1] = work[k])
        /\ Len(work') = Len(work) - 1
    BY <1>1, <1>5, TailParts, HeadTailProperties
  <1>7. /\ Len(inbox) \in Nat /\ DOMAIN inbox = 1..Len(inbox)
        /\ DOMAIN inbox' = 1..(Len(inbox) + 1) /\ inbox'[Len(inbox) + 1] = w.token
        /\ \A k \in DOMAIN inbox : inbox'[k] = inbox[k]
        /\ Len(inbox') = Len(inbox) + 1
    BY <1>1, <1>4, <1>5, AppendParts, AppendProperties
  <1> HIDE DEF w
  <1>8. ASSUME NEW c \in Cells, NEW k \in Tokens, NEW n \in Positions
        PROVE  Seat(c, k, n)' <=> Seat(c, k, n)
    <2>0. PICK p \in Nat, l \in Nat : p = Len(inbox) /\ l = Len(work)
      BY <1>6, <1>7
    <2>1. /\ DOMAIN inbox = 1..p /\ DOMAIN inbox' = 1..(p + 1) /\ Len(inbox') = p + 1
          /\ inbox'[p + 1] = w.token
          /\ DOMAIN work = 1..l /\ DOMAIN work' = 1..(l - 1) /\ Len(work') = l - 1 /\ l >= 1
      BY <1>6, <1>7, <2>0
    <2>2. n \in Int /\ n >= 1
      BY DEF Positions
    <2>3. n \in DOMAIN inbox' /\ inbox'[n] = k <=>
             \/ n \in DOMAIN inbox /\ inbox[n] = k
             \/ n - p = 1 /\ w = [token |-> k]
      BY <1>4, <1>7, <2>0, <2>1, <2>2
    <2>4. n - p \in DOMAIN work /\ work[n - p].waiter = [token |-> k] <=>
             \/ n - p = 1 /\ w = [token |-> k]
             \/ n - (p + 1) \in DOMAIN work' /\ work'[n - (p + 1)].waiter = [token |-> k]
      <3>1. n - (p + 1) = (n - p) - 1 /\ (n - (p + 1)) + 1 = n - p
        BY <2>0, <2>2
      <3> QED
        BY <1>6, <2>0, <2>1, <2>2, <3>1
    <2>5. n - (p + 1) - (l - 1) = n - p - l
      BY <2>0, <2>2
    <2>6. Seat(c, k, n) <=>
             \/ n \in DOMAIN inbox /\ inbox[n] = k
             \/ n - p \in DOMAIN work /\ work[n - p].waiter = [token |-> k]
             \/ n - p - l \in DOMAIN waiters[c] /\ waiters[c][n - p - l] = [token |-> k]
      BY <2>0 DEF Seat
    <2>7. Seat(c, k, n)' <=>
             \/ n \in DOMAIN inbox' /\ inbox'[n] = k
             \/ n - (p + 1) \in DOMAIN work' /\ work'[n - (p + 1)].waiter = [token |-> k]
             \/ n - p - l \in DOMAIN waiters[c] /\ waiters[c][n - p - l] = [token |-> k]
      BY <1>1, <2>1, <2>5 DEF Seat
    <2> QED
      BY <2>3, <2>4, <2>6, <2>7
  <1>9. SlabFlow /\ \A k, t, c : Bears(k, t, c)' <=> Bears(k, t, c)
    BY <1>1, SameSlabFlow
  <1>10. AllCarried(x)
    BY <1>1, <1>5, <1>8, <1>9, SeatsSame
  <1>11. ASSUME NEW k \in Tokens, Delivered(k)' PROVE Delivered(k)
    <2>1. CASE \E n \in DOMAIN inbox' : inbox'[n] = k
      <3>1. PICK n \in DOMAIN inbox' : inbox'[n] = k
        BY <2>1
      <3>2. CASE n \in DOMAIN inbox
        BY <1>7, <3>1, <3>2 DEF Delivered
      <3>3. CASE n \notin DOMAIN inbox
        <4>1. n = Len(inbox) + 1
          BY <1>7, <3>1, <3>3
        <4>2. w = [token |-> k]
          BY <1>4, <1>7, <3>1, <4>1
        <4> QED
          BY <1>6, <4>2 DEF Delivered
      <3> QED
        BY <3>2, <3>3
    <2>2. CASE \E n \in DOMAIN work' : work'[n].waiter = [token |-> k]
      BY <1>6, <2>2 DEF Delivered
    <2> QED
      BY <1>11, <2>1, <2>2 DEF Delivered
  <1>12. Flow
    BY <1>1, <1>11 DEF Flow, Watched
  <1> QED
    BY <1>9, <1>10, <1>12

\* parallel adds no token to the waiters of a cell.
LEMMA ParallelAdds ==
  ASSUME TInv, NEW p \in Cells, NEW children \in Children, Parallel(p, children), NEW c \in Cells
  PROVE  \A j, k : (j \in DOMAIN waiters'[c] /\ waiters'[c][j] = [token |-> k])
                      <=> (j \in DOMAIN waiters[c] /\ waiters[c][j] = [token |-> k])
  <1> DEFINE at == {j \in DOMAIN children : children[j] = c}
             ws == {[parent |-> p, index |-> i] : i \in at}
             added == SetToSeq(ws)
             f == [i \in at |-> [parent |-> p, index |-> i]]
  <1>1. waiters[c] \in Seq(Waiters) /\ (waiters'[c] = waiters[c] \/ waiters'[c] = waiters[c] \o added)
    BY DEF Parallel, TInv, TypeOK, CellTypes
  <1>2. IsFiniteSet(at) /\ at \subseteq Nat \ {0}
    <2>1. PICK n \in 0..MaxParallel : children \in [1..n -> Known]
      BY DEF Children
    <2>2. IsFiniteSet(1..n) /\ DOMAIN children = 1..n
      BY <2>1, FS_Interval, MaxParallelAssumption
    <2> QED
      BY <2>2, FS_Subset
  <1>3. f \in Surjection(at, ws)
    BY DEF Surjection
  <1>4. IsFiniteSet(ws)
    BY <1>2, <1>3, FS_Surjection
  <1>5. added \in Seq(ws)
    BY <1>4, SetToSeqType
  <1>6. ASSUME NEW w \in ws, NEW k PROVE w # [token |-> k] /\ w \in Waiters
    <2>1. PICK i \in at : w = [parent |-> p, index |-> i]
      OBVIOUS
    <2>2. w \in GatherWaiters
      BY <1>2, <2>1 DEF GatherWaiters
    <2> QED
      BY <2>1, <2>2, WaiterForm DEF Waiters, IsResume
  <1> HIDE DEF added, ws
  <1>7. CASE waiters'[c] = waiters[c] \o added
    <2>1. added \in Seq(Waiters) /\ \A j \in DOMAIN added : \A k : added[j] # [token |-> k]
      BY <1>5, <1>6
    <2>2. /\ \A k \in DOMAIN waiters[c] : k \in DOMAIN waiters'[c] /\ waiters'[c][k] = waiters[c][k]
          /\ \A k \in DOMAIN waiters'[c] :
               \/ k \in DOMAIN waiters[c] /\ waiters'[c][k] = waiters[c][k]
               \/ k - Len(waiters[c]) \in DOMAIN added /\ waiters'[c][k] = added[k - Len(waiters[c])]
      BY <1>1, <1>7, <2>1, ConcatParts
    <2> QED
      BY <2>1, <2>2
  <1> QED
    BY <1>1, <1>7

LEMMA ParallelMoves ==
  ASSUME TInv, TypeOK', NEW p \in Cells, NEW children \in Children, Parallel(p, children), NEW x
  PROVE  AllCarried(x) /\ Flow /\ SlabFlow
  <1>1. /\ UNCHANGED <<ready, slab, inbox, work>> /\ kind[p] = "unused"
        /\ \A c \in Cells : c # p => status'[c] = status[c]
    BY DEF Parallel, Creates, queueVars, TInv, TypeOK, CellTypes
  <1>2. \A c \in Cells : \A j, k :
           (j \in DOMAIN waiters'[c] /\ waiters'[c][j] = [token |-> k])
              <=> (j \in DOMAIN waiters[c] /\ waiters[c][j] = [token |-> k])
    BY ParallelAdds
  <1>3. \A c \in Cells : \A k, n : Seat(c, k, n)' <=> Seat(c, k, n)
    BY <1>1, <1>2 DEF Seat
  <1>4. SlabFlow /\ \A k, t, c : Bears(k, t, c)' <=> Bears(k, t, c)
    BY <1>1, SameSlabFlow
  <1>5. AllCarried(x)
    BY <1>1, <1>3, <1>4, SeatsSame DEF TInv
  <1>6. Flow
    <2>1. \A d \in Cells : \A k : Watched(d, k)' => Watched(d, k)
      BY <1>2 DEF Watched
    <2>2. \A k : Delivered(k)' => Delivered(k)
      BY <1>1 DEF Delivered
    <2> QED
      BY <1>1, <2>1, <2>2 DEF Flow
  <1> QED
    BY <1>4, <1>5, <1>6

\* A task with nothing to wait for joins the ready queue: what is behind the
\* queue moves one place back.
LEMMA PushMoves ==
  ASSUME TInv, NEW t0 \in Cells, PushReady(t0, None),
         UNCHANGED <<slab, inbox, work, waiters, status>>, NEW x
  PROVE  AllCarried(x) /\ Flow /\ SlabFlow
  <1>1. PICK r \in Nat : r = Len(ready)
    BY Lengths DEF TInv
  <1>2. /\ DOMAIN ready = 1..r /\ DOMAIN ready' = 1..(r + 1) /\ Len(ready') = r + 1
        /\ ready'[r + 1].on = None /\ ready'[r + 1].output = t0
        /\ \A k \in 1..r : ready'[k] = ready[k]
    <2>1. ready \in Seq(ReadyTasks) /\ [output |-> t0, on |-> None] \in ReadyTasks
      BY DEF TInv, TypeOK, QueueTypes, ReadyTasks
    <2>2. ready' = Append(ready, [output |-> t0, on |-> None])
      BY DEF PushReady
    <2> DEFINE e == [output |-> t0, on |-> None]
    <2>3. e.on = None /\ e.output = t0
      OBVIOUS
    <2> HIDE DEF e
    <2> QED
      BY <1>1, <2>1, <2>2, <2>3, AppendParts, AppendProperties DEF e
  <1>3. \A c, k, n : Seat(c, k, n)' <=> Seat(c, k, n)
    BY DEF Seat
  <1>4. SlabFlow /\ \A k, t, c : Bears(k, t, c)' <=> Bears(k, t, c)
    BY SameSlabFlow
  <1>5. \A c \in Cells : \A k : \A m \in Int : Seat(c, k, m) => m \in Positions
    BY SeatAt DEF SeatsCounted, TInv
  <1>6. ASSUME NEW c \in Cells, NEW t \in Cells, NEW n \in Positions
        PROVE  /\ Stands(t, c, n) =>
                     IF n <= r THEN Stands(t, c, n)' ELSE n - (-1) > r /\ Stands(t, c, n - (-1))'
               /\ Stands(t, c, n)' =>
                     IF n <= r THEN Stands(t, c, n) ELSE n + (-1) > r /\ Stands(t, c, n + (-1))
    <2>1. n \in Int /\ n >= 1 /\ n - r \in Int /\ n + 1 \in Int /\ n - 1 \in Int
      BY DEF Positions
    <2>2. ASSUME n <= r PROVE Stands(t, c, n)' <=> Stands(t, c, n)
      <3>1. ~(n - r \in Positions) /\ ~(n - (r + 1) \in Positions)
              /\ n - (r + 1) \in Int
        BY <2>1, <2>2 DEF Positions
      <3>2. n \in DOMAIN ready /\ n \in DOMAIN ready' /\ ready'[n] = ready[n]
        BY <1>2, <2>1, <2>2
      <3>3. /\ \A k : ~Seat(c, k, n - r)
            /\ \A k : ~Seat(c, k, n - (r + 1))'
        BY <1>3, <1>5, <2>1, <3>1
      <3> QED
        BY <1>1, <1>2, <3>2, <3>3 DEF Stands
    <2>3. ASSUME n > r, Stands(t, c, n) PROVE Stands(t, c, n + 1)'
      <3>1. PICK k \in Tokens : Bears(k, t, c) /\ Seat(c, k, n - r)
        BY <1>1, <1>2, <2>1, <2>3 DEF Stands
      <3>2. (n + 1) - (r + 1) = n - r
        BY <2>1
      <3> QED
        BY <1>2, <1>3, <1>4, <3>1, <3>2 DEF Stands
    <2>4. ASSUME n > r, Stands(t, c, n)' PROVE n - 1 > r /\ Stands(t, c, n - 1)
      <3>1. PICK k \in Tokens : Bears(k, t, c) /\ Seat(c, k, n - (r + 1))
        <4>1. ~(n \in DOMAIN ready' /\ ready'[n].output = t /\ ready'[n].on = c)
          <5>1. n \in DOMAIN ready' => n = r + 1
            BY <1>2, <2>1, <2>4
          <5> QED
            BY <1>2, <5>1, NoneAssumption
        <4> QED
          BY <1>2, <1>3, <1>4, <2>4, <4>1 DEF Stands
      <3>2. (n - 1) - r = n - (r + 1) /\ n - (r + 1) \in Int
        BY <2>1
      <3>3. n - (r + 1) >= 1
        BY <1>5, <3>1, <3>2 DEF Positions
      <3> QED
        BY <1>1, <2>1, <3>1, <3>2, <3>3 DEF Stands
    <2>5. n - (-1) = n + 1 /\ n + (-1) = n - 1 /\ n + 1 > n
      BY <2>1
    <2> QED
      BY <2>1, <2>2, <2>3, <2>4, <2>5
  <1>7. \A c \in Cells : Carried(c, r, -1, x)
    BY <1>6 DEF Carried
  <1>8. AllCarried(x)
    <2>1. -1 \in Int
      OBVIOUS
    <2> QED
      BY <1>7, <2>1 DEF AllCarried
  <1>9. Flow
    BY DEF Flow, Delivered, Watched
  <1> QED
    BY <1>4, <1>8, <1>9

\* The first of the ready queue leaves it: the others move one place up.
LEMMA PopMoves ==
  ASSUME TInv, ready # <<>>, ready' = Tail(ready),
         UNCHANGED <<slab, inbox, work, waiters, status>>
  PROVE  AllCarried(Head(ready).output) /\ Flow /\ SlabFlow
  <1>1. PICK r \in Nat : r = Len(ready)
    BY Lengths DEF TInv
  <1>2. PICK x : x = Head(ready).output
    OBVIOUS
  <1>3. /\ DOMAIN ready = 1..r /\ DOMAIN ready' = 1..(r - 1) /\ Len(ready') = r - 1
        /\ ready[1].output = x /\ r >= 1
        /\ \A k \in 1..(r - 1) : ready'[k] = ready[k + 1]
    <2>1. ready \in Seq(ReadyTasks)
      BY DEF TInv, TypeOK, QueueTypes
    <2>2. /\ Len(ready) \in Nat /\ DOMAIN ready = 1..Len(ready)
          /\ 1 \in DOMAIN ready /\ Head(ready) = ready[1]
          /\ DOMAIN Tail(ready) = 1..(Len(ready) - 1)
          /\ \A k \in DOMAIN Tail(ready) : Tail(ready)[k] = ready[k + 1]
      BY <2>1, TailParts
    <2>3. Len(Tail(ready)) = Len(ready) - 1
      BY <2>1, HeadTailProperties
    <2> QED
      BY <1>1, <1>2, <2>2, <2>3
  <1>4. \A c, k, n : Seat(c, k, n)' <=> Seat(c, k, n)
    BY DEF Seat
  <1>5. SlabFlow /\ \A k, t, c : Bears(k, t, c)' <=> Bears(k, t, c)
    BY SameSlabFlow
  <1>6. \A c \in Cells : \A k : \A m \in Int : Seat(c, k, m) => m \in Positions
    BY SeatAt DEF SeatsCounted, TInv
  <1>7. ASSUME NEW c \in Cells, NEW t \in Cells \ {x}, NEW n \in Positions
        PROVE  /\ Stands(t, c, n) => n - 1 > 0 /\ Stands(t, c, n - 1)'
               /\ Stands(t, c, n)' => n + 1 > 0 /\ Stands(t, c, n + 1)
    <2>1. n \in Int /\ n >= 1 /\ n - r \in Int
      BY DEF Positions
    <2>2. (n - 1) - (r - 1) = n - r /\ (n + 1) - r = n - (r - 1) /\ (n + 1) - 1 = n /\ (n - 1) + 1 = n
      BY <2>1
    <2>3. ASSUME NEW k \in Tokens, Bears(k, t, c), Seat(c, k, n - r)
          PROVE  n - 1 > 0 /\ Stands(t, c, n - 1)'
      <3>1. n - r >= 1
        BY <1>6, <2>1, <2>3 DEF Positions
      <3> QED
        BY <1>3, <1>4, <1>5, <2>1, <2>2, <2>3, <3>1 DEF Stands
    <2>4. ASSUME n \in DOMAIN ready, ready[n].output = t, ready[n].on = c
          PROVE  n - 1 > 0 /\ Stands(t, c, n - 1)'
      <3>1. n # 1 /\ n - 1 \in 1..(r - 1)
        BY <1>3, <2>1, <2>4
      <3>2. ready'[n - 1] = ready[(n - 1) + 1]
        BY <1>3, <3>1
      <3> QED
        BY <1>3, <2>1, <2>2, <2>4, <3>1, <3>2 DEF Stands
    <2>5. ASSUME NEW k \in Tokens, Bears(k, t, c)', Seat(c, k, n - (r - 1))'
          PROVE  Stands(t, c, n + 1)
      BY <1>1, <1>4, <1>5, <2>2, <2>5 DEF Stands
    <2>6. ASSUME n \in DOMAIN ready', ready'[n].output = t, ready'[n].on = c
          PROVE  Stands(t, c, n + 1)
      BY <1>3, <2>1, <2>6 DEF Stands
    <2> QED
      BY <1>1, <1>3, <2>1, <2>3, <2>4, <2>5, <2>6 DEF Stands
  <1>8. \A c \in Cells : Carried(c, 0, 1, x)
    <2> SUFFICES ASSUME NEW c \in Cells, NEW t \in Cells \ {x}, NEW n \in Positions
                 PROVE  /\ Stands(t, c, n) =>
                              IF n <= 0 THEN Stands(t, c, n)' ELSE n - 1 > 0 /\ Stands(t, c, n - 1)'
                        /\ Stands(t, c, n)' =>
                              IF n <= 0 THEN Stands(t, c, n) ELSE n + 1 > 0 /\ Stands(t, c, n + 1)
      BY DEF Carried
    <2>1. ~(n <= 0)
      BY DEF Positions
    <2> QED
      BY <1>7, <2>1
  <1>9. AllCarried(x)
    BY <1>8 DEF AllCarried
  <1>10. Flow
    BY DEF Flow, Delivered, Watched
  <1> QED
    BY <1>2, <1>5, <1>9, <1>10

\* Release, in a slab that does not wrap.
LEMMA ReleaseFlow ==
  ASSUME TInv, Books(slab), ParkedOnce, Unwrapped(slab), NEW i \in Occupied(slab), slab' = Release(slab, i)
  PROVE  /\ \A k \in Tokens : Given(slab, k) => Given(slab', k)
         /\ \A k \in Tokens, t, c \in Cells :
               Bears(k, t, c)' <=> Bears(k, t, c) /\ k.slot # i
         /\ \A k \in Tokens, t, c \in Cells :
               Bears(k, t, c) /\ k.slot # i => t # slab.cells[i].out
  <1>1. GoodSlab(slab) /\ Vacates(slab', slab)
    BY ReleaseVacates DEF TInv, Created
  <1>2. \A k \in Tokens : Given(slab, k) => Given(slab', k)
    BY <1>1, VacatesGiven
  <1>3. /\ Occupied(slab') = Occupied(slab) \ {i}
        /\ \A j \in Occupied(slab') : slab'.cells[j] = slab.cells[j]
    BY <1>1, ReleaseBooks
  <1>4. \A k \in Tokens, t, c \in Cells : Bears(k, t, c)' <=> Bears(k, t, c) /\ k.slot # i
    <2>1. Occupied(slab)' = Occupied(slab')
      BY DEF Occupied
    <2> QED
      BY <1>3, <2>1 DEF Bears, Holds
  <1>5. \A k \in Tokens, t, c \in Cells : Bears(k, t, c) /\ k.slot # i => t # slab.cells[i].out
    BY DEF Bears, Holds, ParkedOnce
  <1> QED
    BY <1>2, <1>4, <1>5

\* What the inbox is when its head is taken.
LEMMA TakenInbox ==
  ASSUME TInv, inbox # <<>>, inbox' = Tail(inbox)
  PROVE  /\ Len(inbox') = Len(inbox) - 1 /\ Len(inbox) >= 1
         /\ 1 \in DOMAIN inbox /\ Head(inbox) = inbox[1] /\ Head(inbox) \in Tokens
         /\ \A n \in Int : n \in DOMAIN inbox' => n + 1 \in DOMAIN inbox /\ inbox'[n] = inbox[n + 1]
         /\ \A n \in DOMAIN inbox : n = 1 \/ (n - 1 \in DOMAIN inbox' /\ inbox'[n - 1] = inbox[n])
  <1>1. inbox \in Seq(Tokens)
    BY DEF TInv, TypeOK, QueueTypes
  <1>2. /\ Len(inbox) \in Nat /\ DOMAIN inbox = 1..Len(inbox)
        /\ 1 \in DOMAIN inbox /\ Head(inbox) = inbox[1] /\ Head(inbox) \in Tokens
        /\ \A k \in DOMAIN inbox' : k + 1 \in DOMAIN inbox /\ inbox'[k] = inbox[k + 1]
        /\ \A k \in DOMAIN inbox : k = 1 \/ (k - 1 \in DOMAIN inbox' /\ inbox'[k - 1] = inbox[k])
    BY <1>1, TailParts
  <1>3. Len(inbox') = Len(inbox) - 1
    BY <1>1, HeadTailProperties
  <1> QED
    BY <1>2, <1>3

\* So the seats of every other token move one place up.
LEMMA TakenSeats ==
  ASSUME TInv, inbox # <<>>, inbox' = Tail(inbox), UNCHANGED <<work, waiters>>,
         NEW c \in Cells, NEW k \in Tokens
  PROVE  /\ \A m \in Int : Seat(c, k, m) =>
               (m = 1 /\ k = Head(inbox)) \/ Seat(c, k, m - 1)'
         /\ \A m \in Int : Seat(c, k, m)' => Seat(c, k, m + 1)
         /\ k # Head(inbox) => \A m \in Int : Seat(c, k, m)' <=> Seat(c, k, m + 1)
  <1>1. /\ Len(inbox') = Len(inbox) - 1 /\ Len(inbox) >= 1
        /\ 1 \in DOMAIN inbox /\ Head(inbox) = inbox[1] /\ Head(inbox) \in Tokens
        /\ \A n \in Int : n \in DOMAIN inbox' => n + 1 \in DOMAIN inbox /\ inbox'[n] = inbox[n + 1]
        /\ \A n \in DOMAIN inbox : n = 1 \/ (n - 1 \in DOMAIN inbox' /\ inbox'[n - 1] = inbox[n])
    BY TakenInbox
  <1>2. Len(inbox) \in Nat /\ Len(work) \in Nat /\ DOMAIN inbox = 1..Len(inbox)
    BY Lengths DEF TInv
  <1>3. ASSUME NEW m \in Int, Seat(c, k, m)
        PROVE  (m = 1 /\ k = Head(inbox)) \/ Seat(c, k, m - 1)'
    <2>1. /\ (m - 1) - Len(inbox') = m - Len(inbox)
          /\ (m - 1) - Len(inbox') - Len(work) = m - Len(inbox) - Len(work)
      BY <1>1, <1>2
    <2>2. CASE m \in DOMAIN inbox /\ inbox[m] = k
      BY <1>1, <2>2 DEF Seat
    <2>3. CASE ~(m \in DOMAIN inbox /\ inbox[m] = k)
      BY <1>3, <2>1, <2>3 DEF Seat
    <2> QED
      BY <2>2, <2>3
  <1>4. ASSUME NEW m \in Int, Seat(c, k, m)'
        PROVE  Seat(c, k, m + 1)
    <2>1. /\ m - Len(inbox') = (m + 1) - Len(inbox)
          /\ m - Len(inbox') - Len(work) = (m + 1) - Len(inbox) - Len(work)
      BY <1>1, <1>2
    <2>2. CASE m \in DOMAIN inbox' /\ inbox'[m] = k
      BY <1>1, <2>2 DEF Seat
    <2>3. CASE ~(m \in DOMAIN inbox' /\ inbox'[m] = k)
      BY <1>4, <2>1, <2>3 DEF Seat
    <2> QED
      BY <2>2, <2>3
  <1>5. \A m \in Int : (m + 1) - 1 = m /\ m + 1 \in Int
    OBVIOUS
  <1> QED
    BY <1>3, <1>4, <1>5

\* Taking a token out of the inbox sends none on its way.
LEMMA TakenFlow ==
  ASSUME TInv, inbox # <<>>, inbox' = Tail(inbox), UNCHANGED <<work, waiters, status>>
  PROVE  Flow
  <1>1. \A n \in Int : n \in DOMAIN inbox' => n + 1 \in DOMAIN inbox /\ inbox'[n] = inbox[n + 1]
    BY TakenInbox
  <1>2. \A n \in DOMAIN inbox' : n \in Int
    <2>1. inbox' \in Seq(Tokens)
      BY TailParts DEF TInv, TypeOK, QueueTypes
    <2> QED
      BY <2>1, LenProperties
  <1>3. \A k : Delivered(k)' => Delivered(k)
    BY <1>1, <1>2 DEF Delivered
  <1> QED
    BY <1>3 DEF Flow, Watched

\* A stale token leaves the inbox, and the slot it names the slab.
LEMMA StaleMoves ==
  ASSUME HomeInv, TypeOK', Unwrapped(slab), CollectStale, NEW x
  PROVE  AllCarried(x) /\ Flow /\ SlabFlow
  <1> DEFINE k0 == Head(inbox)
             i == k0.slot
  <1>1. /\ inbox # <<>> /\ inbox' = Tail(inbox) /\ UNCHANGED <<ready, work, waiters, status, kind>>
        /\ \/ ~Holds(slab, k0) /\ slab' = slab
           \/ /\ Holds(slab, k0) /\ status[slab.cells[i].out] # "pending"
              /\ slab' = Release(slab, i)
    BY DEF CollectStale, Collecting, cellVars
  <1>2. TInv /\ TypeOK /\ Books(slab) /\ ParkedOnce
    BY DEF HomeInv, HomeParts, TInv
  <1>3. Flow
    BY <1>1, <1>2, TakenFlow
  <1>4. /\ SlabFlow
        /\ \A k \in Tokens, t, c \in Cells : status'[t] = "pending" => (Bears(k, t, c)' <=> Bears(k, t, c))
        /\ \A t, c \in Cells : status'[t] = "pending" => ~Bears(k0, t, c)
    <2>1. CASE ~Holds(slab, k0) /\ slab' = slab
      BY <2>1, SameSlabFlow DEF Bears
    <2>2. CASE Holds(slab, k0) /\ status[slab.cells[i].out] # "pending" /\ slab' = Release(slab, i)
      <3>1. i \in Occupied(slab)
        BY <2>2 DEF Holds
      <3>2. /\ \A k \in Tokens : Given(slab, k) => Given(slab', k)
            /\ \A k \in Tokens, t, c \in Cells : Bears(k, t, c)' <=> Bears(k, t, c) /\ k.slot # i
        BY <1>2, <2>2, <3>1, ReleaseFlow
      <3>3. \A k, t, c : Bears(k, t, c) /\ k.slot = i => t = slab.cells[i].out
        BY DEF Bears
      <3> HIDE DEF k0
      <3> QED
        BY <1>1, <2>2, <3>2, <3>3 DEF SlabFlow
    <2> QED
      BY <1>1, <2>1, <2>2
  <1>5. ASSUME NEW c \in Cells PROVE \E p \in Nat, q \in Int : Carried(c, p, q, x)
    <2>1. ASSUME NEW k \in Tokens, NEW t \in Cells \ {x}, status'[t] = "pending", Bears(k, t, c)
          PROVE  SeatsMove(c, k, 0, 1)
      <3>1. k # k0
        BY <1>4, <2>1
      <3>2. \A m \in Int : Seat(c, k, m)' <=> Seat(c, k, m + 1)
        BY <1>1, <1>2, <3>1, TakenSeats
      <3>3. /\ \A m \in Int : Seat(c, k, m)' => m \in Positions
        BY SeatAtNext DEF SeatsCounted
      <3> SUFFICES ASSUME NEW n \in Positions
                   PROVE  /\ Seat(c, k, n) =>
                                IF n <= 0 THEN Seat(c, k, n)' ELSE n - 1 > 0 /\ Seat(c, k, n - 1)'
                          /\ Seat(c, k, n)' =>
                                IF n <= 0 THEN Seat(c, k, n) ELSE n + 1 > 0 /\ Seat(c, k, n + 1)
        BY DEF SeatsMove
      <3>4. n \in Int /\ n - 1 \in Int /\ (n - 1) + 1 = n /\ ~(n <= 0) /\ n + 1 > 0
        BY DEF Positions
      <3>5. Seat(c, k, n) => Seat(c, k, n - 1)'
        BY <3>2, <3>4
      <3>6. Seat(c, k, n - 1)' => n - 1 > 0
        BY <3>3, <3>4 DEF Positions
      <3> QED
        BY <3>2, <3>4, <3>5, <3>6
    <2>2. \E m \in Nat : Carried(c, m, 1, x)
      <3>1. ready' = ready
        BY <1>1
      <3>2. \A k \in Tokens, t \in Cells \ {x} :
               status'[t] = "pending" /\ Bears(k, t, c) => SeatsMove(c, k, 0, 1)
        BY <2>1
      <3>3. \A k \in Tokens, t \in Cells \ {x} :
               status'[t] = "pending" => (Bears(k, t, c)' <=> Bears(k, t, c))
        BY <1>4
      <3> QED
        BY <1>2, <3>1, <3>2, <3>3, SeatsCarry
    <2> QED
      BY <2>2
  <1>6. AllCarried(x)
    BY <1>5 DEF AllCarried
  <1> QED
    BY <1>3, <1>4, <1>6

\* A parked task whose handle has settled goes from the head of the inbox to
\* the end of the ready queue: its place is the same.
LEMMA ResumeMoves ==
  ASSUME HomeInv, TypeOK', Unwrapped(slab), StandsOnce, CollectResumes
  PROVE  AllCarried(None) /\ Flow /\ SlabFlow
  <1>0. PICK k0, i, t0, c0 :
           /\ k0 = Head(inbox) /\ i = k0.slot
           /\ t0 = slab.cells[i].out /\ c0 = slab.cells[i].on
    OBVIOUS
  <1>1. /\ inbox # <<>> /\ inbox' = Tail(inbox) /\ UNCHANGED <<work, waiters, status, kind>>
        /\ Holds(slab, k0) /\ status[t0] = "pending" /\ slab' = Release(slab, i)
        /\ PushReady(t0, c0) /\ Collecting
    BY <1>0 DEF CollectResumes, Collecting, cellVars
  <1>2. TInv /\ TypeOK /\ Books(slab) /\ ParkedOnce /\ ~(InReady(t0) /\ InSlab(t0))
    <2>1. t0 \in Cells
      BY <1>0, <1>1, HeldSlot DEF HomeInv
    <2> QED
      BY <2>1 DEF HomeInv, HomeParts, TInv
  <1>3. Flow
    BY <1>1, <1>2, TakenFlow
  <1>4. /\ i \in Occupied(slab) /\ t0 \in Cells /\ c0 \in Cells /\ k0 \in Tokens
        /\ Bears(k0, t0, c0) /\ ~InReady(t0)
    <2>1. i \in Occupied(slab) /\ t0 \in Cells /\ c0 \in Cells
      BY <1>0, <1>1, <1>2, HeldSlot
    <2>2. k0 \in Tokens
      BY <1>0, <1>1, <1>2, TakenInbox
    <2>3. InSlab(t0)
      BY <1>0, <2>1 DEF InSlab
    <2> QED
      BY <1>0, <1>1, <1>2, <2>1, <2>2, <2>3 DEF Bears
  <1>5. /\ \A k \in Tokens : Given(slab, k) => Given(slab', k)
        /\ \A k \in Tokens, t, c \in Cells : Bears(k, t, c)' <=> Bears(k, t, c) /\ k.slot # i
        /\ \A k \in Tokens, t, c \in Cells : Bears(k, t, c) /\ k.slot # i => t # t0
    BY <1>0, <1>1, <1>2, <1>4, ReleaseFlow
  <1>6. SlabFlow
    BY <1>5 DEF SlabFlow
  <1>7. PICK r \in Nat : r = Len(ready)
    BY <1>2, Lengths
  <1>8. /\ DOMAIN ready = 1..r /\ DOMAIN ready' = 1..(r + 1) /\ Len(ready') = r + 1
        /\ ready'[r + 1].on = c0 /\ ready'[r + 1].output = t0
        /\ \A k \in 1..r : ready'[k] = ready[k]
    <2> DEFINE e == [output |-> t0, on |-> c0]
    <2>1. ready \in Seq(ReadyTasks) /\ e \in ReadyTasks
      BY <1>2, <1>4 DEF TInv, TypeOK, QueueTypes, ReadyTasks
    <2>2. ready' = Append(ready, e)
      BY <1>1 DEF PushReady
    <2>3. e.on = c0 /\ e.output = t0
      OBVIOUS
    <2> HIDE DEF e
    <2> QED
      BY <1>7, <2>1, <2>2, <2>3, AppendParts, AppendProperties
  <1>9. Seat(c0, k0, 1)
    BY <1>0, <1>1, <1>2, TakenInbox DEF Seat
  <1>10. Stands(t0, c0, r + 1)
    <2>1. (r + 1) - r = 1
      OBVIOUS
    <2> QED
      BY <1>4, <1>7, <1>9, <2>1 DEF Stands
  <1>11. ASSUME NEW c \in Cells, NEW n \in Positions
         PROVE  Stands(t0, c, n)' <=> Stands(t0, c, n)
    <2>1. Stands(t0, c, n)' <=> c = c0 /\ n = r + 1
      <3>1. ~\E k \in Tokens : Bears(k, t0, c)'
        BY <1>4, <1>5
      <3>2. \A j \in 1..r : ready'[j].output # t0
        BY <1>4, <1>8 DEF InReady
      <3>3. n \in DOMAIN ready' /\ ready'[n].output = t0 /\ ready'[n].on = c <=> c = c0 /\ n = r + 1
        BY <1>8, <3>2 DEF Positions
      <3> QED
        BY <3>1, <3>3 DEF Stands
    <2>2. c # c0 => ~Stands(t0, c, n)
      <3>1. \A k \in Tokens : Bears(k, t0, c) => k.slot = i
        BY <1>4, <1>5
      <3>2. \A k : Bears(k, t0, c) /\ k.slot = i => c = c0
        BY <1>0 DEF Bears
      <3> QED
        BY <1>4, <3>1, <3>2 DEF Stands, InReady
    <2>3. Stands(t0, c0, n) <=> n = r + 1
      <3>1. r + 1 \in Positions /\ Alive(t0)
        BY <1>1, <1>7 DEF Positions, Alive
      <3> QED
        BY <1>4, <1>10, <3>1 DEF StandsOnce
    <2> QED
      BY <2>1, <2>2, <2>3
  <1>12. ASSUME NEW c \in Cells, NEW n \in Positions, NEW t \in Cells, t # t0
         PROVE  Stands(t, c, n)' <=> Stands(t, c, n)
    <2>1. ASSUME NEW k \in Tokens
          PROVE  Bears(k, t, c)' /\ Seat(c, k, n - (r + 1))' <=> Bears(k, t, c) /\ Seat(c, k, n - r)
      <3>1. Bears(k, t, c) => k # k0
        BY <1>4, <1>12 DEF Bears
      <3>2. Bears(k, t, c)' <=> Bears(k, t, c)
        <4>1. Bears(k, t, c) /\ k.slot = i => t = t0
          BY <1>0 DEF Bears
        <4> QED
          BY <1>5, <1>12, <4>1
      <3>3. k # k0 => \A m \in Int : Seat(c, k, m)' <=> Seat(c, k, m + 1)
        BY <1>0, <1>1, <1>2, TakenSeats
      <3>4. n - (r + 1) \in Int /\ n - (r + 1) + 1 = n - r
        BY DEF Positions
      <3> QED
        BY <3>1, <3>2, <3>3, <3>4
    <2>2. n \in DOMAIN ready' /\ ready'[n].output = t /\ ready'[n].on = c
            <=> n \in DOMAIN ready /\ ready[n].output = t /\ ready[n].on = c
      BY <1>8, <1>12 DEF Positions
    <2> QED
      BY <1>7, <1>8, <2>1, <2>2 DEF Stands
  <1>13. \A c \in Cells : Carried(c, 0, 0, None)
    <2> SUFFICES ASSUME NEW c \in Cells, NEW t \in Cells, NEW n \in Positions
                 PROVE  /\ Stands(t, c, n) =>
                              IF n <= 0 THEN Stands(t, c, n)' ELSE n - 0 > 0 /\ Stands(t, c, n - 0)'
                        /\ Stands(t, c, n)' =>
                              IF n <= 0 THEN Stands(t, c, n) ELSE n + 0 > 0 /\ Stands(t, c, n + 0)
      BY DEF Carried
    <2>1. n - 0 = n /\ n + 0 = n /\ n > 0 /\ ~(n <= 0)
      BY DEF Positions
    <2> QED
      BY <1>11, <1>12, <2>1
  <1>14. AllCarried(None)
    BY <1>13 DEF AllCarried
  <1> QED
    BY <1>3, <1>6, <1>14

-----------------------------------------------------------------------------
(***************************************************************************)
(* A task that awaits a pending handle                                     *)
(***************************************************************************)
\* The token of the task that is parked takes the last seat of the line, and
\* nothing else in it moves.
LEMMA AwaitMoves ==
  ASSUME HomeInv, TypeOK', Unwrapped(slab), TokensGiven, TokensWait, NEW c0 \in Cells, TaskAwait(c0),
         NEW t0, t0 = running
  PROVE  /\ AllCarried(t0) /\ TokensGiven' /\ TokensWait'
         /\ \E last \in Positions :
               /\ \A c \in Cells, n \in Positions :
                     Stands(t0, c, n)' <=> c = c0 /\ n = last
               /\ \A t \in Cells, n \in Positions :
                     t # t0 /\ status'[t] = "pending" /\ Stands(t, c0, n)' => n < last
  <1>0. PICK new : new = NextToken(slab)
    OBVIOUS
  <1> DEFINE W(k) == [token |-> k]
  <1>1. /\ t0 \in Cells /\ status[c0] = "pending" /\ slab' = Insert(slab, t0, c0)
        /\ waiters' = [waiters EXCEPT ![c0] = Append(@, W(new))] /\ inbox' = inbox
        /\ UNCHANGED <<ready, work, status, kind>>
    BY <1>0 DEF TaskAwait, Park, Watch, Pending, HomeInv, TInv, Created, KnownRunning
  <1>2. TInv /\ TypeOK /\ GoodSlab(slab) /\ Books(slab) /\ ~InReady(t0) /\ ~InSlab(t0)
    BY <1>1, NoneAssumption DEF HomeInv, HomeParts, TInv, Created
  <1>3. /\ new \in Tokens /\ ~Given(slab, new) /\ Given(slab', new)
        /\ Holds(slab', new) /\ slab'.cells[new.slot].out = t0 /\ slab'.cells[new.slot].on = c0
        /\ \A k \in Tokens : Given(slab, k) => Given(slab', k)
        /\ \A k \in Tokens : Holds(slab', k) =>
              k = new \/ (Holds(slab, k) /\ slab'.cells[k.slot] = slab.cells[k.slot])
        /\ \A k \in Tokens : Holds(slab, k) /\ status[slab.cells[k.slot].out] = "pending" =>
              Holds(slab', k) /\ slab'.cells[k.slot] = slab.cells[k.slot]
    BY <1>0, <1>1, <1>2, InsertGives
  <1>4. ~Abroad(new)
    BY <1>3 DEF TokensGiven
  <1>5. \A k : Holds(slab, k)' <=> Holds(slab', k)
    BY DEF Holds, Occupied
  <1>6. \A k \in Tokens, t, c \in Cells : Bears(k, t, c) => t # t0 /\ k # new
    <2>1. \A k, t, c : Bears(k, t, c) => InSlab(t)
      BY DEF Bears, Holds, InSlab
    <2>2. \A k, t, c : Bears(k, t, c) => Given(slab, k)
      BY DEF Bears, Given, Holds, Occupied
    <2> QED
      BY <1>2, <1>3, <2>1, <2>2
  <1>7. /\ \A t, c \in Cells : Bears(new, t, c)' <=> t = t0 /\ c = c0
        /\ \A k \in Tokens, t, c \in Cells : k # new /\ Bears(k, t, c)' => Bears(k, t, c)
        /\ \A k \in Tokens, t, c \in Cells :
              status[t] = "pending" /\ Bears(k, t, c) => Bears(k, t, c)' /\ k # new
    BY <1>3, <1>5, <1>6 DEF Bears
  <1>8. PICK p \in Nat, l \in Nat, m \in Nat, r \in Nat :
           p = Len(inbox) /\ l = Len(work) /\ m = Len(waiters[c0]) /\ r = Len(ready)
    <2>1. Len(inbox) \in Nat /\ Len(work) \in Nat /\ Len(waiters[c0]) \in Nat /\ Len(ready) \in Nat
      BY <1>2, Lengths
    <2> QED
      BY ONLY <2>1
  <1>9. /\ DOMAIN inbox = 1..p /\ DOMAIN work = 1..l /\ DOMAIN waiters[c0] = 1..m /\ DOMAIN ready = 1..r
        /\ DOMAIN waiters'[c0] = 1..(m + 1) /\ waiters'[c0][m + 1] = W(new)
        /\ \A j \in 1..m : waiters'[c0][j] = waiters[c0][j]
        /\ \A d \in Cells : d # c0 => waiters'[d] = waiters[d]
    <2>1. waiters \in [Cells -> Seq(Waiters)] /\ W(new) \in Waiters
      BY <1>2, <1>3 DEF TypeOK, CellTypes, Waiters, ResumeWaiters
    <2>2. waiters[c0] \in Seq(Waiters) /\ waiters'[c0] = Append(waiters[c0], W(new))
      BY <1>1, <2>1
    <2>3. \A d \in Cells : d # c0 => waiters'[d] = waiters[d]
      BY <1>1, <2>1
    <2> HIDE DEF W
    <2> QED
      BY <1>2, <1>8, <2>1, <2>2, <2>3, Lengths, AppendParts
  <1>10. ASSUME NEW k \in Tokens, k # new, NEW c \in Cells, NEW n \in Int
         PROVE  Seat(c, k, n)' <=> Seat(c, k, n)
    <2>1. W(k) # W(new)
      <3>1. W(k).token = k /\ W(new).token = new
        OBVIOUS
      <3> QED
        BY <1>10, <3>1
    <2>2. \A j \in Int : j \in DOMAIN waiters'[c] /\ waiters'[c][j] = W(k)
                            <=> j \in DOMAIN waiters[c] /\ waiters[c][j] = W(k)
      <3>1. CASE c = c0
        BY <1>9, <2>1, <3>1
      <3>2. CASE c # c0
        BY <1>9, <3>2
      <3> QED
        BY <3>1, <3>2
    <2>3. n - p - l \in Int
      OBVIOUS
    <2> QED
      BY <1>1, <1>8, <2>2, <2>3 DEF Seat
  <1>11. ASSUME NEW c \in Cells, NEW n \in Int
         PROVE  /\ Seat(c0, new, n)' <=> n = p + l + m + 1
                /\ ~Seat(c, new, n)
    <2>1. /\ \A j \in DOMAIN inbox : inbox[j] # new
          /\ \A j \in DOMAIN work : work[j].waiter # W(new)
          /\ \A d \in Cells : \A j \in DOMAIN waiters[d] : waiters[d][j] # W(new)
      BY <1>4 DEF Abroad, Delivered, Watched
    <2>2. \A j \in Int : j \in DOMAIN waiters'[c0] /\ waiters'[c0][j] = W(new) <=> j = m + 1
      BY <1>9, <2>1
    <2>3. n - p - l \in Int /\ (n - p - l = m + 1 <=> n = p + l + m + 1)
      OBVIOUS
    <2> QED
      BY <1>1, <1>8, <2>1, <2>2, <2>3 DEF Seat
  <1>12. AllCarried(t0)
    <2>1. \A k \in Tokens, t \in Cells \ {t0}, c \in Cells :
             status'[t] = "pending" => (Bears(k, t, c)' <=> Bears(k, t, c))
      BY <1>1, <1>7
    <2>2. \A k \in Tokens, t \in Cells \ {t0}, c \in Cells, n \in Positions :
             status'[t] = "pending" /\ Bears(k, t, c) => (Seat(c, k, n)' <=> Seat(c, k, n))
      BY <1>1, <1>6, <1>10 DEF Positions
    <2> QED
      BY <1>1, <1>2, <2>1, <2>2, SeatsSame
  <1>13. ASSUME NEW k \in Tokens, k # new
         PROVE  /\ Delivered(k)' => Delivered(k)
                /\ \A d \in Cells : Watched(d, k)' => Watched(d, k)
    <2>1. W(k) # W(new)
      <3>1. W(k).token = k /\ W(new).token = new
        OBVIOUS
      <3> QED
        BY <1>13, <3>1
    <2>2. Delivered(k)' => Delivered(k)
      BY <1>1 DEF Delivered
    <2>3. ASSUME NEW d \in Cells, Watched(d, k)' PROVE Watched(d, k)
      <3>1. PICK n \in DOMAIN waiters'[d] : waiters'[d][n] = W(k)
        BY <2>3 DEF Watched
      <3>2. n \in DOMAIN waiters[d] /\ waiters[d][n] = W(k)
        <4>1. CASE d = c0
          BY <1>9, <2>1, <3>1, <4>1
        <4>2. CASE d # c0
          BY <1>9, <3>1, <4>2
        <4> QED
          BY <4>1, <4>2
      <3> QED
        BY <3>2 DEF Watched
    <2> QED
      BY <2>2, <2>3
  <1>14. /\ ~Delivered(new)'
         /\ \A d \in Cells : Watched(d, new)' => d = c0
    <2>1. ~Delivered(new)'
      BY <1>1, <1>4 DEF Abroad, Delivered
    <2>2. ASSUME NEW d \in Cells, Watched(d, new)', d # c0 PROVE FALSE
      BY <1>4, <1>9, <2>2 DEF Abroad, Watched
    <2> QED
      BY <2>1, <2>2
  <1>15. TokensGiven'
    <2> SUFFICES ASSUME NEW k \in Tokens, Abroad(k)' PROVE Given(slab', k)
      BY DEF TokensGiven, Given, Holds, Occupied
    <2>1. CASE k = new
      BY <1>3, <2>1
    <2>2. CASE k # new
      BY <1>3, <1>13, <2>2 DEF TokensGiven, Abroad
    <2> QED
      BY <2>1, <2>2
  <1>16. TokensWait'
    <2> SUFFICES ASSUME NEW k \in Tokens, NEW t \in Cells, NEW c \in Cells,
                        Bears(k, t, c)', status[t] = "pending"
                 PROVE  /\ Delivered(k)' => status[c] # "pending"
                        /\ \A d \in Cells : Watched(d, k)' => d = c /\ status[c] = "pending"
      BY <1>1 DEF TokensWait, Alive
    <2>1. CASE k = new
      BY <1>1, <1>7, <1>14, <2>1
    <2>2. CASE k # new
      BY <1>7, <1>13, <2>2 DEF TokensWait, Alive
    <2> QED
      BY <2>1, <2>2
  <1> DEFINE last == r + p + l + m + 1
  <1>17. last \in Positions
    BY DEF Positions
  <1>18. ASSUME NEW c \in Cells, NEW n \in Positions
         PROVE  Stands(t0, c, n)' <=> c = c0 /\ n = last
    <2>1. ~(n \in DOMAIN ready' /\ ready'[n].output = t0)
      BY <1>1, <1>2 DEF InReady
    <2>2. n - r \in Int /\ (n - r = p + l + m + 1 <=> n = last)
      BY DEF Positions
    <2> HIDE DEF last
    <2>3. \A k \in Tokens : Bears(k, t0, c)' => k = new
      BY <1>1, <1>6, <1>7
    <2>4. Stands(t0, c, n)' <=> Bears(new, t0, c)' /\ Seat(c, new, n - r)'
      BY <1>1, <1>3, <1>8, <2>1, <2>3 DEF Stands
    <2> QED
      BY <1>1, <1>7, <1>11, <2>2, <2>4
  <1>19. ASSUME NEW t \in Cells, NEW n \in Positions, t # t0, status'[t] = "pending", Stands(t, c0, n)'
         PROVE  n < last
    <2>0. n \in Int /\ n - r \in Int
      BY DEF Positions
    <2>1. CASE n \in DOMAIN ready'
      BY <1>1, <1>9, <2>1
    <2>2. CASE n \notin DOMAIN ready'
      <3>1. PICK k \in Tokens : Bears(k, t, c0)' /\ Seat(c0, k, n - r)'
        BY <1>1, <1>8, <1>19, <2>2 DEF Stands
      <3>2. k # new
        BY <1>7, <1>19, <3>1
      <3>3. Seat(c0, k, n - r)
        BY <1>10, <2>0, <3>1, <3>2
      <3>4. \/ n - r \in 1..p \/ n - r - p \in 1..l \/ n - r - p - l \in 1..m
        BY <1>8, <1>9, <3>3 DEF Seat
      <3> QED
        BY <2>0, <3>4
    <2> QED
      BY <2>1, <2>2
  <1> HIDE DEF last
  <1> QED
    BY <1>12, <1>15, <1>16, <1>17, <1>18, <1>19

-----------------------------------------------------------------------------
(***************************************************************************)
(* Steps of the scheduler and steps of the promise                         *)
(***************************************************************************)
SameLines == \A d \in Cells : LineOf(d)' = LineOf(d) /\ AheadOf(d)' = AheadOf(d)
SameBut(c) == \A d \in Cells \ {c} : OutcomeOf(d)' = OutcomeOf(d) /\ TaskOf(d)' = TaskOf(d)

\* t leaves the line it stands in.
Left(t) ==
    /\ \A d \in Cells : LineOf(d)' = LineOf(d) \ {t}
    /\ \A u \in Cells : AheadOf(u)' = IF u = t THEN {} ELSE AheadOf(u) \ {t}

HandleStep == Handles!HNext \/ UNCHANGED Handles!handleVars

LEMMA MapsStutter ==
  ASSUME SameLines, SameBut(None)
  PROVE  HandleStep
  <1>1. \A d \in Cells : /\ OutcomeOf(d)' = OutcomeOf(d) /\ TaskOf(d)' = TaskOf(d)
                         /\ LineOf(d)' = LineOf(d) /\ AheadOf(d)' = AheadOf(d)
    BY NoneAssumption DEF SameLines, SameBut
  <1>2. UNCHANGED Handles!handleVars
    BY <1>1 DEF Handles!handleVars
  <1> QED
    BY <1>2 DEF HandleStep

LEMMA MapsNew ==
  ASSUME NEW c \in Cells, SameLines, SameBut(c), OutcomeOf(c) = "free",
         OutcomeOf(c)' = "pending", TaskOf(c)' = "queued"
  PROVE  HandleStep
  <1>1. Handles!New(c)
    BY DEF Handles!New, SameLines, SameBut
  <1> QED
    BY <1>1 DEF HandleStep, Handles!HNext

LEMMA MapsAppear ==
  ASSUME NEW c \in Cells, SameLines, SameBut(c), OutcomeOf(c) = "free", TaskOf(c)' = TaskOf(c),
         NEW o \in {"pending"} \cup Outcomes, OutcomeOf(c)' = o
  PROVE  HandleStep
  <1>1. Handles!Appear(c, o)
    BY DEF Handles!Appear, SameLines, SameBut
  <1>2. {"pending"} \cup Outcomes = {"pending"} \cup Handles!Results
    BY DEF Outcomes, Handles!Results
  <1> QED
    BY <1>1, <1>2 DEF HandleStep, Handles!HNext

LEMMA MapsSettle ==
  ASSUME NEW c \in Cells, Left(c), SameBut(c), OutcomeOf(c) = "pending",
         NEW o \in Outcomes, OutcomeOf(c)' = o,
         TaskOf(c)' = IF TaskOf(c) \in {"queued", "waiting"} THEN "over" ELSE TaskOf(c)
  PROVE  HandleStep
  <1>1. Handles!Leave(c)
    BY DEF Handles!Leave, Left
  <1>2. Handles!SettleHandle(c, o)
    BY <1>1 DEF Handles!SettleHandle, SameBut
  <1>3. Outcomes = Handles!Results
    BY DEF Outcomes, Handles!Results
  <1> QED
    BY <1>2, <1>3 DEF HandleStep, Handles!HNext

LEMMA MapsStart ==
  ASSUME NEW t \in Cells, SameLines, SameBut(t), OutcomeOf(t)' = OutcomeOf(t),
         \A u \in Cells : TaskOf(u) # "running",
         TaskOf(t) = "queued", TaskOf(t)' = "running"
  PROVE  HandleStep
  <1>1. Handles!Start(t)
    BY DEF Handles!Start, Handles!NoOneRuns, SameLines, SameBut
  <1> QED
    BY <1>1 DEF HandleStep, Handles!HNext

LEMMA MapsResume ==
  ASSUME NEW t \in Cells, NEW c \in Cells, Left(t), SameBut(t), OutcomeOf(t)' = OutcomeOf(t),
         \A u \in Cells : TaskOf(u) # "running", OutcomeOf(c) \in Outcomes,
         t \in LineOf(c), AheadOf(t) = {}, TaskOf(t)' = "running"
  PROVE  HandleStep
  <1>1. Handles!Leave(t)
    BY DEF Handles!Leave, Left
  <1>2. Handles!Resume(t, c)
    BY <1>1 DEF Handles!Resume, Handles!NoOneRuns, SameBut, Outcomes
  <1> QED
    BY <1>2 DEF HandleStep, Handles!HNext

LEMMA MapsAwait ==
  ASSUME NEW t \in Cells, NEW c \in Cells, SameBut(t), OutcomeOf(t)' = OutcomeOf(t),
         TaskOf(t) = "running", OutcomeOf(t) = "pending", OutcomeOf(c) = "pending",
         \A d \in Cells : LineOf(d)' = IF d = c THEN LineOf(d) \cup {t} ELSE LineOf(d),
         \A u \in Cells : AheadOf(u)' = IF u = t THEN LineOf(c) ELSE AheadOf(u),
         TaskOf(t)' = "waiting"
  PROVE  HandleStep
  <1>1. Handles!Await(t, c)
    BY DEF Handles!Await, SameBut
  <1> QED
    BY <1>1 DEF HandleStep, Handles!HNext

LEMMA MapsYield ==
  ASSUME NEW t \in Cells, SameLines, SameBut(t), OutcomeOf(t)' = OutcomeOf(t),
         TaskOf(t) = "running", OutcomeOf(t) = "pending", TaskOf(t)' = "queued"
  PROVE  HandleStep
  <1>1. Handles!Yield(t)
    BY DEF Handles!Yield, SameLines, SameBut
  <1> QED
    BY <1>1 DEF HandleStep, Handles!HNext

LEMMA MapsEnd ==
  ASSUME NEW t \in Cells, SameLines, SameBut(t), TaskOf(t) = "running", TaskOf(t)' = "over",
         NEW o \in Outcomes, OutcomeOf(t)' = IF OutcomeOf(t) = "pending" THEN o ELSE OutcomeOf(t)
  PROVE  HandleStep
  <1>1. Handles!End(t, o)
    BY DEF Handles!End, SameLines, SameBut
  <1>2. Outcomes = Handles!Results
    BY DEF Outcomes, Handles!Results
  <1> QED
    BY <1>1, <1>2 DEF HandleStep, Handles!HNext

-----------------------------------------------------------------------------
(***************************************************************************)
(* What a task is doing                                                    *)
(***************************************************************************)
Queued(t) == \E i \in DOMAIN ready : ready[i] = [output |-> t, on |-> None]

TaskReads ==
    \A t :
        /\ kind[t] # "task" => TaskOf(t) = "none"
        /\ kind[t] = "task" /\ running = t => TaskOf(t) = "running"
        /\ kind[t] = "task" /\ running # t /\ status[t] # "pending" => TaskOf(t) = "over"
        /\ kind[t] = "task" /\ running # t /\ status[t] = "pending" =>
              TaskOf(t) = IF Queued(t) THEN "queued" ELSE "waiting"

LEMMA TaskRead == TaskReads
  <1> SUFFICES ASSUME NEW t
               PROVE  /\ kind[t] # "task" => TaskOf(t) = "none"
                      /\ kind[t] = "task" /\ running = t => TaskOf(t) = "running"
                      /\ kind[t] = "task" /\ running # t /\ status[t] # "pending" =>
                            TaskOf(t) = "over"
                      /\ kind[t] = "task" /\ running # t /\ status[t] = "pending" =>
                            TaskOf(t) = IF Queued(t) THEN "queued" ELSE "waiting"
    BY DEF TaskReads
  <1> QED
    BY DEF TaskOf, Queued, Alive

LEMMA TaskReadNext == TaskReads'
  BY TaskRead, PTL

LEMMA TaskSame ==
  ASSUME NEW t, kind'[t] = "task" <=> kind[t] = "task", running' = t <=> running = t,
         status'[t] = "pending" <=> status[t] = "pending", Queued(t)' <=> Queued(t)
  PROVE  TaskOf(t)' = TaskOf(t)
  BY TaskRead, TaskReadNext DEF TaskReads

LEMMA OutcomeSame ==
  ASSUME NEW t \in Cells, kind'[t] = "unused" <=> kind[t] = "unused", status'[t] = status[t]
  PROVE  OutcomeOf(t)' = OutcomeOf(t)
  BY DEF OutcomeOf, Known, Unused

\* A step that neither creates a cell, settles one nor moves a seed to or from
\* the thread, but for those of c.
LEMMA SameOthers ==
  ASSUME NEW c, \A t \in Cells \ {c} :
            /\ kind'[t] = kind[t] /\ (running' = t <=> running = t)
            /\ status'[t] = status[t] /\ (Queued(t)' <=> Queued(t))
  PROVE  SameBut(c)
  <1>1. ASSUME NEW t \in Cells \ {c} PROVE OutcomeOf(t)' = OutcomeOf(t) /\ TaskOf(t)' = TaskOf(t)
    BY <1>1, TaskSame, OutcomeSame
  <1> QED
    BY <1>1 DEF SameBut

\* A task that stands in a line has its seed in the queue or the slab.
LEMMA LineHome ==
  ASSUME HomeInv, Viewed, NEW c \in Cells, NEW t \in LineOf(c)
  PROVE  /\ t \in Cells /\ status[t] = "pending" /\ Stood(t, c)
         /\ kind[t] = "task" /\ running # t /\ (InReady(t) \/ InSlab(t))
  <1>1. t \in Cells /\ status[t] = "pending" /\ Stood(t, c)
    <2>1. t \in Cells
      BY DEF LineOf
    <2> QED
      BY <2>1 DEF Viewed, Alive
  <1>2. InReady(t) \/ InSlab(t)
    BY <1>1 DEF Stood, Stands, InReady, InSlab, Bears, Holds
  <1> QED
    BY <1>1, <1>2, NoneAssumption DEF HomeInv, HomeParts, AtHome

\* Nobody leaves a line who stands in none.
LEMMA Lineless ==
  ASSUME Viewed, NEW x, \A c \in Cells : x \notin LineOf(c), Left(x)
  PROVE  SameLines
  <1>1. ASSUME NEW t \in Cells PROVE x \notin AheadOf(t) /\ (t = x => AheadOf(t) = {})
    <2>1. AheadOf(t) \subseteq Cells
      BY DEF AheadOf
    <2>2. \A u \in Cells : u \in AheadOf(t) => \E c \in Cells : t \in LineOf(c) /\ u \in LineOf(c)
      BY DEF Viewed
    <2> QED
      BY <2>1, <2>2
  <1> QED
    BY <1>1 DEF Left, SameLines

\* A line as a step leaves it that takes x out of it.
LEMMA LinesLeft ==
  ASSUME Viewed, Viewed', NEW x, AllCarried(x),
         \A t \in Cells \ {x} : status'[t] = "pending" <=> status[t] = "pending",
         \A c \in Cells : x \notin LineOf(c)'
  PROVE  Left(x)
  BY LinesLose DEF Left

\* The invariant after a step that carries all tasks but x along, which stands
\* in no line then.
LEMMA PartsKept ==
  ASSUME TInv, LineParts, Viewed', SettledStay, NEW x, AllCarried(x), Flow, SlabFlow, ReadySettled',
         \A c \in Cells : x \notin LineOf(c)'
  PROVE  LineParts'
  <1>1. TokensGiven' /\ TokensWait'
    BY TokensKept DEF LineParts
  <1>2. StandsOnce'
    <2>1. \A t \in Cells \ {x} : status'[t] = "pending" => status[t] = "pending"
      BY DEF SettledStay
    <2>2. ASSUME x \in Cells, status'[x] = "pending", NEW c \in Cells, NEW m \in Positions,
                 Stands(x, c, m)'
          PROVE  FALSE
      <3>1. x \in LineOf(c)' <=> Alive(x)' /\ Stood(x, c)'
        BY <2>2 DEF Viewed
      <3> QED
        BY <2>2, <3>1 DEF Alive, Stood
    <2> QED
      BY <2>1, <2>2, OnceKept DEF LineParts
  <1> QED
    BY <1>1, <1>2 DEF LineParts

\* What a ready task awaited stays settled.
LEMMA SameReadySettled ==
  ASSUME HomeInv, LineParts, SettledStay,
         \A k \in DOMAIN ready' :
            \/ ready'[k].on = None
            \/ \E j \in DOMAIN ready : ready'[k].on = ready[j].on
            \/ ready'[k].on \in Cells /\ Settled(ready'[k].on)
  PROVE  ReadySettled'
  <1>1. \A c \in Cells : Settled(c) => Settled(c)'
    BY DEF SettledStay, Settled, Outcomes
  <1>2. \A j \in DOMAIN ready : ready[j].on \in Cells \cup {None}
    BY ReadyParts DEF HomeInv, TInv, TypeOK
  <1> QED
    BY <1>1, <1>2, NoneAssumption DEF LineParts, ReadySettled, Settled

-----------------------------------------------------------------------------
(***************************************************************************)
(* Each step, action by action                                             *)
(***************************************************************************)
Before == HomeInv /\ Viewed /\ LineParts
After == HomeInv' /\ Viewed'

LineReads ==
    /\ \A c : LineOf(c) \subseteq Cells /\ \A t \in LineOf(c) : status[t] = "pending"
    /\ HomeInv /\ Viewed => \A c \in Cells : running \notin LineOf(c)

LEMMA LineRead == LineReads
  BY LineHome DEF LineReads, LineOf, Alive

LEMMA LineReadNext == LineReads'
  BY LineRead, PTL

LEMMA NoneInLine == \A c \in Cells : None \notin LineOf(c)
  BY NoneAssumption DEF LineOf

LEMMA NoneInLineNext == \A c \in Cells : None \notin LineOf(c)'
  BY NoneAssumption DEF LineOf

\* A step that carries every task along and settles none that stands in a line.
LEMMA LinesSame ==
  ASSUME Before, After, SettledStay, Flow, SlabFlow, ReadySettled',
         NEW x, AllCarried(x), \A c \in Cells : x \notin LineOf(c) /\ x \notin LineOf(c)',
         \A t \in Cells \ {x} : status'[t] = "pending" <=> status[t] = "pending"
  PROVE  LineParts' /\ SameLines
  <1>1. TInv
    BY DEF Before, HomeInv
  <1>2. LineParts'
    BY <1>1, PartsKept DEF Before, After
  <1>3. Left(x)
    BY LinesLeft DEF Before, After
  <1> QED
    BY <1>2, <1>3, Lineless DEF Before

LEMMA QuietStep ==
  ASSUME Before, After, UNCHANGED <<ready, slab, inbox, work, waiters, status, kind, running>>
  PROVE  LineParts' /\ HandleStep
  <1>1. TypeOK /\ TypeOK'
    BY DEF Before, After, HomeInv, TInv
  <1>2. AllCarried(None) /\ Flow /\ SlabFlow
    BY <1>1, QuietMoves
  <1>3. SettledStay
    BY QuietStay
  <1>4. ReadySettled'
    BY <1>3, SameReadySettled DEF Before
  <1>5. LineParts' /\ SameLines
    BY <1>2, <1>3, <1>4, NoneInLine, NoneInLineNext, LinesSame
  <1>6. SameBut(None)
    BY SameOthers DEF Queued
  <1> QED
    BY <1>5, <1>6, MapsStutter

\* A handle with no task behind it appears.
LEMMA AppearStep ==
  ASSUME Before, After, SettledStay, NEW p \in Cells, NEW what \in {"settled", "host", "gather"},
         Creates(what, p), UNCHANGED <<ready, running>>, AllCarried(p), Flow, SlabFlow,
         \A t \in Cells \ {p} : status'[t] = status[t]
  PROVE  LineParts' /\ HandleStep
  <1>1. /\ kind[p] = "unused" /\ kind'[p] = what /\ kind'[p] # "task" /\ kind'[p] # "unused"
        /\ \A t \in Cells \ {p} : kind'[t] = kind[t]
    BY DEF Creates, Before, HomeInv, TInv, TypeOK, CellTypes
  <1>2. \A c \in Cells : p \notin LineOf(c)
    BY <1>1, LineHome DEF Before
  <1>3. \A c \in Cells : p \notin LineOf(c)'
    <2>1. ASSUME NEW c \in Cells, Stood(p, c)' PROVE FALSE
      <3>1. InReady(p)' \/ InSlab(p)'
        BY <2>1 DEF Stood, Stands, InReady, InSlab, Bears, Holds
      <3> QED
        BY <1>1, <3>1 DEF After, HomeInv, HomeParts, AtHome
    <2>2. \A c \in Cells : p \in LineOf(c)' => Stood(p, c)'
      BY DEF After, Viewed
    <2> QED
      BY <2>1, <2>2
  <1>4. ReadySettled'
    BY SameReadySettled DEF Before
  <1>5. LineParts' /\ SameLines
    BY <1>2, <1>3, <1>4, LinesSame
  <1>6. SameBut(p)
    BY <1>1, SameOthers DEF Queued
  <1>7. OutcomeOf(p) = "free" /\ OutcomeOf(p)' = status'[p]
    BY <1>1 DEF OutcomeOf, Known, Unused
  <1>8. TaskOf(p)' = TaskOf(p)
    BY <1>1, TaskRead, TaskReadNext DEF TaskReads
  <1>9. status'[p] \in {"pending"} \cup Outcomes
    BY DEF After, HomeInv, TInv, TypeOK, CellTypes
  <1> QED
    BY <1>5, <1>6, <1>7, <1>8, <1>9, MapsAppear

\* A task is spawned.
LEMMA NewStep ==
  ASSUME Before, After, NEW c \in Cells, kind[c] = "unused", kind' = [kind EXCEPT ![c] = "task"],
         PushReady(c, None), UNCHANGED <<slab, inbox, work, waiters, status, running>>
  PROVE  LineParts' /\ HandleStep
  <1>1. TInv /\ TInv'
    BY DEF Before, After, HomeInv
  <1>2. AllCarried(None) /\ Flow /\ SlabFlow
    BY <1>1, PushMoves
  <1>3. SettledStay
    BY QuietStay
  <1>4. PICK e : e = [output |-> c, on |-> None]
    OBVIOUS
  <1>5. /\ e.output = c /\ e.on = None /\ Len(ready) \in Nat
        /\ DOMAIN ready = 1..Len(ready) /\ DOMAIN ready' = 1..(Len(ready) + 1)
        /\ ready'[Len(ready) + 1] = e
        /\ \A k \in DOMAIN ready : k \in DOMAIN ready' /\ ready'[k] = ready[k]
        /\ \A k \in DOMAIN ready' :
              (k \in DOMAIN ready /\ ready'[k] = ready[k]) \/ (k = Len(ready) + 1 /\ ready'[k] = e)
    <2>1. ready \in Seq(ReadyTasks) /\ e \in ReadyTasks /\ ready' = Append(ready, e)
      BY <1>1, <1>4 DEF TInv, TypeOK, QueueTypes, ReadyTasks, PushReady
    <2>2. e.output = c /\ e.on = None
      BY <1>4
    <2> QED
      BY <2>1, <2>2, AppendParts
  <1>6. ReadySettled'
    <2>1. \A k \in DOMAIN ready' : ready'[k].on = None \/ \E j \in DOMAIN ready : ready'[k].on = ready[j].on
      BY <1>5
    <2> QED
      BY <1>3, <2>1, SameReadySettled DEF Before
  <1>7. LineParts' /\ SameLines
    BY <1>2, <1>3, <1>6, NoneInLine, NoneInLineNext, LinesSame
  <1>8. /\ kind'[c] = "task" /\ \A t \in Cells \ {c} : kind'[t] = kind[t]
        /\ status[c] = "pending"
    BY <1>1 DEF TInv, TypeOK, CellTypes, Created, UnusedPending
  <1>9. running # c
    BY NoneAssumption DEF Before, HomeInv, HomeParts, AtHome
  <1>10. \A t : Queued(t)' <=> Queued(t) \/ t = c
    <2>1. \A t : [output |-> t, on |-> None] = e => t = c
      <3>1. \A t : [output |-> t, on |-> None].output = t
        OBVIOUS
      <3> QED
        BY <1>5, <3>1
    <2>2. [output |-> c, on |-> None] = e
      BY <1>4
    <2>3. Len(ready) + 1 \in DOMAIN ready'
      BY <1>5
    <2> QED
      BY <1>5, <2>1, <2>2, <2>3 DEF Queued
  <1>11. SameBut(c)
    BY <1>8, <1>10, SameOthers
  <1>12. OutcomeOf(c) = "free" /\ OutcomeOf(c)' = "pending"
    BY <1>8 DEF OutcomeOf, Known, Unused
  <1>13. TaskOf(c)' = "queued"
    BY <1>8, <1>9, <1>10, TaskReadNext DEF TaskReads
  <1> QED
    BY <1>7, <1>11, <1>12, <1>13, MapsNew

\* A pending handle settles, or settle finds it settled.
LEMMA SettleStep ==
  ASSUME Before, After, SettledStay, NEW c \in Cells, kind[c] # "unused",
         UNCHANGED <<kind, ready, running>>, AllCarried(c), Flow, SlabFlow,
         status'[c] # "pending", \A t \in Cells \ {c} : status'[t] = status[t]
  PROVE  LineParts' /\ HandleStep
  <1>1. TInv /\ TInv'
    BY DEF Before, After, HomeInv
  <1>2. \A d \in Cells : c \notin LineOf(d)'
    BY DEF After, Viewed, Alive
  <1>3. ReadySettled'
    BY SameReadySettled DEF Before
  <1>4. LineParts'
    BY <1>1, <1>2, <1>3, PartsKept DEF Before, After
  <1>5. Left(c)
    BY <1>2, LinesLeft DEF Before, After
  <1>6. SameBut(c)
    BY SameOthers DEF Queued
  <1>7. status'[c] \in Outcomes
    BY <1>1 DEF TInv, TypeOK, CellTypes
  <1>8. OutcomeOf(c) = status[c] /\ OutcomeOf(c)' = status'[c]
    BY DEF OutcomeOf, Known, Unused
  <1>9. CASE status[c] = "pending"
    <2>1. TaskOf(c)' = IF TaskOf(c) \in {"queued", "waiting"} THEN "over" ELSE TaskOf(c)
      BY <1>9, TaskRead, TaskReadNext DEF TaskReads
    <2> QED
      BY <1>4, <1>5, <1>6, <1>7, <1>8, <1>9, <2>1, MapsSettle
  <1>10. CASE status[c] # "pending"
    <2>1. \A d \in Cells : c \notin LineOf(d)
      BY <1>10, LineHome DEF Before
    <2>2. SameLines
      BY <1>5, <2>1, Lineless DEF Before
    <2>3. status'[c] = status[c]
      BY <1>10 DEF SettledStay
    <2>4. SameBut(None)
      BY <2>3, SameOthers DEF Queued
    <2> QED
      BY <1>4, <2>2, <2>4, MapsStutter
  <1> QED
    BY <1>9, <1>10

LEMMA NotifyStep ==
  ASSUME Before, After, NotifyAwaiter
  PROVE  LineParts' /\ HandleStep
  <1>1. TInv /\ TypeOK' /\ UNCHANGED <<kind, status, waiters, ready, running>>
    BY DEF Before, After, HomeInv, TInv, NotifyAwaiter, pumpVars
  <1>2. AllCarried(None) /\ Flow /\ SlabFlow
    BY <1>1, NotifyMoves
  <1>3. SettledStay
    BY <1>1, QuietStay
  <1>4. ReadySettled'
    BY <1>1, <1>3, SameReadySettled DEF Before
  <1>5. LineParts' /\ SameLines
    BY <1>1, <1>2, <1>3, <1>4, NoneInLine, NoneInLineNext, LinesSame
  <1>6. SameBut(None)
    BY <1>1, SameOthers DEF Queued
  <1> QED
    BY <1>5, <1>6, MapsStutter

\* A job of the work that concerns a parallel alone is done.
LEMMA DropMoves ==
  ASSUME TInv, TypeOK', work # <<>>, ~IsResume(Head(work).waiter), work' = Tail(work),
         UNCHANGED <<ready, slab, inbox, waiters, status>>
  PROVE  AllCarried(None) /\ Flow /\ SlabFlow
  <1>1. TypeOK /\ work \in Seq(Notifications)
    BY DEF TInv, TypeOK, CellTypes
  <1>2. /\ 1 \in DOMAIN work /\ work[1] = Head(work) /\ Len(work) \in Nat /\ DOMAIN work = 1..Len(work)
        /\ DOMAIN work' = 1..(Len(work) - 1)
        /\ \A k \in DOMAIN work' : k + 1 \in DOMAIN work /\ work'[k] = work[k + 1]
        /\ \A k \in DOMAIN work : k = 1 \/ (k - 1 \in DOMAIN work' /\ work'[k - 1] = work[k])
        /\ Len(work') = Len(work) - 1
    BY <1>1, TailParts, HeadTailProperties
  <1>3. SlabFlow /\ \A k, t, c : Bears(k, t, c)' <=> Bears(k, t, c)
    BY SameSlabFlow
  <1>4. Flow
    BY <1>2 DEF Flow, Delivered, Watched
  <1>5. PICK p \in Nat : p = Len(inbox)
    <2>1. Len(inbox) \in Nat
      BY <1>1, Lengths
    <2> QED
      BY ONLY <2>1
  <1>6. ASSUME NEW c \in Cells, NEW k \in Tokens PROVE SeatsMove(c, k, p, 1)
    <2>1. Len(work') - 0 = Len(work) - 1 /\ 1 <= Len(work)
      BY <1>2
    <2>2. \A j \in DOMAIN work : j > 1 => work'[j - 1 + 0] = work[j]
      BY <1>2
    <2>3. \A j \in DOMAIN work : j <= 1 => work[j].waiter # [token |-> k]
      BY <1>2, WaiterForm
    <2>4. \A j \in DOMAIN work' : j <= 0 => work'[j].waiter # [token |-> k]
      BY <1>2
    <2>5. SeatsMove(c, k, p, 1 - 0)
      BY <1>1, <1>5, <2>1, <2>2, <2>3, <2>4, WorkShifts
    <2> QED
      BY <2>5
  <1>7. ASSUME NEW c \in Cells PROVE \E m \in Nat : Carried(c, m, 1, None)
    <2>1. \A k \in Tokens, t \in Cells \ {None} :
             status'[t] = "pending" /\ Bears(k, t, c) => SeatsMove(c, k, p, 1)
      BY <1>6
    <2>2. \A k \in Tokens, t \in Cells \ {None} :
             status'[t] = "pending" => (Bears(k, t, c)' <=> Bears(k, t, c))
      BY <1>3
    <2>3. ready' = ready /\ 1 \in Int
      OBVIOUS
    <2> QED
      BY <1>1, <2>1, <2>2, <2>3, SeatsCarry
  <1>8. AllCarried(None)
    BY <1>7 DEF AllCarried
  <1> QED
    BY <1>3, <1>4, <1>8

LEMMA GatherOneStep ==
  ASSUME Before, After, SettledStay, GatherOne
  PROVE  LineParts' /\ HandleStep
  <1>0. PICK p, v, child :
           /\ p = Head(work).waiter.parent /\ child = Head(work).from
           /\ v = IF failed'[p] = None THEN "resolved" ELSE "rejected"
    OBVIOUS
  <1>1. /\ TInv /\ TypeOK' /\ TypeOK /\ work # <<>> /\ ~IsResume(Head(work).waiter)
        /\ UNCHANGED <<kind, ready, slab, inbox, running>>
    BY DEF Before, After, HomeInv, TInv, GatherOne, queueVars, pumpVars
  <1>2. p \in Cells /\ kind[p] # "unused" /\ v \in Outcomes
    <2>1. Head(work).waiter \in Waiters /\ KnownWaiter(Head(work).waiter)
      BY <1>1, NextWaiter
    <2>2. Head(work).waiter \in GatherWaiters
      BY <1>1, <2>1 DEF Waiters, ResumeWaiters, IsResume
    <2> QED
      BY <1>0, <2>1, <2>2 DEF GatherWaiters, KnownWaiter, Outcomes
  <1>3. \/ Settle(p, v, {child}, Tail(work))
        \/ work' = Tail(work) /\ UNCHANGED <<status, waiters>>
    BY <1>0 DEF GatherOne
  <1>4. CASE Settle(p, v, {child}, Tail(work))
    <2>0. PICK rest : rest = Tail(work)
      OBVIOUS
    <2>1. work \in Seq(Notifications) /\ rest \in Seq(Notifications)
      BY <1>1, <2>0, NextWaiter DEF TypeOK, CellTypes
    <2>2. /\ Len(work) \in Nat /\ DOMAIN work = 1..Len(work) /\ work[1] = Head(work)
          /\ DOMAIN rest = 1..(Len(work) - 1)
          /\ \A k \in DOMAIN rest : rest[k] = work[k + 1]
          /\ Len(rest) = Len(work) - 1
      BY <1>1, <2>0, <2>1, TailParts, HeadTailProperties
    <2>3. Len(work) = Len(rest) + 1
      BY <2>2
    <2>4. \A j \in DOMAIN work : j <= 1 => ~IsResume(work[j].waiter)
      BY <1>1, <2>2
    <2>5. Settle(p, v, {child}, rest) /\ UNCHANGED <<ready, slab, inbox>>
      BY <1>1, <1>4, <2>0
    <2>6. AllCarried(p) /\ Flow /\ SlabFlow
      <3>1. TInv /\ TypeOK' /\ TokensWait /\ 1 \in Nat
        BY <1>1 DEF Before, LineParts
      <3>2. \A j \in DOMAIN rest : rest[j] = work[j + 1]
        BY <2>2
      <3>0. PICK seen : seen = {child}
        OBVIOUS
      <3>3. PICK h \in Nat : h = 1
        OBVIOUS
      <3>4. /\ Len(work) = Len(rest) + h /\ \A j \in DOMAIN rest : rest[j] = work[j + h]
            /\ \A j \in DOMAIN work : j <= h => ~IsResume(work[j].waiter)
        BY <2>3, <2>4, <3>2, <3>3
      <3>5. rest \in Seq(Notifications) /\ Settle(p, v, seen, rest)
        BY <2>1, <2>5, <3>0
      <3> QED
        BY <1>2, <2>5, <3>1, <3>4, <3>5, SettleMoves
    <2>7. status'[p] # "pending" /\ \A t \in Cells : t # p => status'[t] = status[t]
      BY <1>1, <1>2, <2>5, SettleEnds
    <2> QED
      BY <1>1, <1>2, <2>6, <2>7, SettleStep
  <1>5. CASE work' = Tail(work) /\ UNCHANGED <<status, waiters>>
    <2>1. AllCarried(None) /\ Flow /\ SlabFlow
      BY <1>1, <1>5, DropMoves
    <2>2. ReadySettled'
      BY <1>1, SameReadySettled DEF Before
    <2>3. LineParts' /\ SameLines
      BY <1>5, <2>1, <2>2, NoneInLine, NoneInLineNext, LinesSame
    <2>4. SameBut(None)
      BY <1>1, <1>5, SameOthers DEF Queued
    <2> QED
      BY <2>3, <2>4, MapsStutter
  <1> QED
    BY <1>3, <1>4, <1>5

\* A settle that is called when no work is left.
LEMMA SettleIdle ==
  ASSUME TInv, TypeOK', TokensWait, work = <<>>, NEW c \in Cells, NEW o \in Outcomes, NEW seen,
         Settle(c, o, seen, <<>>), UNCHANGED <<ready, slab, inbox>>
  PROVE  /\ AllCarried(c) /\ Flow /\ SlabFlow
         /\ status'[c] # "pending" /\ \A t \in Cells \ {c} : status'[t] = status[t]
  <1>1. PICK rest : rest = <<>>
    OBVIOUS
  <1>2. rest \in Seq(Notifications) /\ Len(work) = Len(rest) + 0 /\ DOMAIN rest = {} /\ DOMAIN work = {}
    BY <1>1
  <1>3. Settle(c, o, seen, rest)
    BY <1>1
  <1>4. AllCarried(c) /\ Flow /\ SlabFlow
    BY <1>2, <1>3, SettleMoves
  <1>5. status'[c] # "pending" /\ \A t \in Cells : t # c => status'[t] = status[t]
    BY SettleEnds
  <1> QED
    BY <1>4, <1>5

LEMMA CancelStep ==
  ASSUME Before, After, SettledStay, NEW c \in Cells, Cancel(c)
  PROVE  LineParts' /\ HandleStep
  <1>1. /\ TInv /\ TypeOK' /\ TokensWait /\ work = <<>> /\ kind[c] # "unused"
        /\ Settle(c, "rejected", {c}, <<>>) /\ UNCHANGED <<kind, ready, slab, inbox, running>>
    BY DEF Before, After, HomeInv, TInv, LineParts, Cancel, InUserCode, Known, Unused, queueVars, pumpVars
  <1>2. "rejected" \in Outcomes
    BY DEF Outcomes
  <1> QED
    BY <1>1, <1>2, SettleIdle, SettleStep

LEMMA BornSettledStep ==
  ASSUME Before, After, SettledStay, NEW c \in Cells, NEW o \in Outcomes, BornSettled(c, o)
  PROVE  LineParts' /\ HandleStep
  <1>1. /\ TInv /\ TypeOK' /\ TokensWait /\ work = <<>> /\ Creates("settled", c)
        /\ Settle(c, o, {}, <<>>) /\ UNCHANGED <<ready, slab, inbox, running>>
    BY DEF Before, After, HomeInv, TInv, LineParts, BornSettled, InUserCode, queueVars, pumpVars
  <1> QED
    BY <1>1, SettleIdle, AppearStep

LEMMA FromHostStep ==
  ASSUME Before, After, SettledStay, NEW c \in Cells, NEW s, FromHost(c, s)
  PROVE  LineParts' /\ HandleStep
  <1>1. /\ TypeOK /\ TypeOK' /\ Creates("host", c)
        /\ UNCHANGED <<ready, slab, inbox, work, waiters, status, running>>
    BY DEF Before, After, HomeInv, TInv, FromHost, queueVars, pumpVars
  <1>2. AllCarried(c) /\ Flow /\ SlabFlow
    BY <1>1, QuietMoves
  <1> QED
    BY <1>1, <1>2, AppearStep

LEMMA ParallelStep ==
  ASSUME Before, After, SettledStay, NEW p \in Cells, NEW children \in Children, Parallel(p, children)
  PROVE  LineParts' /\ HandleStep
  <1>1. TInv /\ TypeOK' /\ Creates("gather", p) /\ UNCHANGED <<ready, running>>
    BY DEF Before, After, HomeInv, TInv, Parallel, queueVars, pumpVars
  <1>2. AllCarried(p) /\ Flow /\ SlabFlow
    BY <1>1, ParallelMoves
  <1>3. \A t \in Cells \ {p} : status'[t] = status[t]
    BY <1>1 DEF Parallel, TInv, TypeOK, CellTypes
  <1> QED
    BY <1>1, <1>2, <1>3, AppearStep

LEMMA CompleteHostStep ==
  ASSUME Before, After, SettledStay, CompleteHost
  PROVE  LineParts' /\ HandleStep
  <1>0. PICK c : c = Head(batch)
    OBVIOUS
  <1>1. /\ TInv /\ TypeOK' /\ TokensWait /\ work = <<>>
        /\ UNCHANGED <<kind, ready, slab, inbox, running>>
    BY DEF Before, After, HomeInv, TInv, LineParts, CompleteHost, Pumping, queueVars, pumpVars
  <1>2. CASE c \in held /\ promise[c] # "pending"
    <2>1. /\ c \in Cells /\ kind[c] # "unused" /\ promise[c] \in Outcomes
          /\ Settle(c, promise[c], {}, <<>>)
      BY <1>0, <1>1, <1>2 DEF CompleteHost, TInv, TypeOK, HostTypes, Created, KnownHeld
    <2> QED
      BY <1>1, <2>1, SettleIdle, SettleStep
  <1>3. CASE ~(c \in held /\ promise[c] # "pending")
    BY <1>0, <1>1, <1>3, QuietStep DEF CompleteHost
  <1> QED
    BY <1>2, <1>3

\* The running task has its seed nowhere else.
LEMMA RunningParts ==
  ASSUME HomeInv, Viewed, InUserCode, pc = "task"
  PROVE  /\ running \in Cells /\ running # None /\ kind[running] = "task"
         /\ ~InReady(running) /\ ~InSlab(running)
         /\ \A c \in Cells : running \notin LineOf(c)
         /\ TaskOf(running) = "running" /\ OutcomeOf(running) = status[running]
         /\ ~Queued(running)
  <1>1. running \in Cells /\ running # None /\ ~InReady(running) /\ ~InSlab(running)
    BY NoneAssumption DEF HomeInv, HomeParts, TInv, Created, KnownRunning
  <1>2. kind[running] = "task"
    BY <1>1 DEF HomeInv, HomeParts, AtHome
  <1>3. \A c \in Cells : running \notin LineOf(c)
    BY LineHome
  <1>4. TaskOf(running) = "running" /\ OutcomeOf(running) = status[running]
    BY <1>1, <1>2, TaskRead DEF TaskReads, OutcomeOf, Known, Unused
  <1>5. ~Queued(running)
    <2>1. \A i \in DOMAIN ready : ready[i].output # running
      BY <1>1 DEF InReady
    <2>2. \A t, e : e = [output |-> t, on |-> None] => e.output = t
      OBVIOUS
    <2> QED
      BY <2>1, <2>2 DEF Queued
  <1> QED
    BY <1>1, <1>2, <1>3, <1>4, <1>5

LEMMA FinishStep ==
  ASSUME Before, After, SettledStay, NEW o \in Outcomes, Finish(o)
  PROVE  LineParts' /\ HandleStep
  <1>0. PICK t : t = running
    OBVIOUS
  <1>1. /\ TInv /\ TypeOK' /\ TokensWait /\ work = <<>> /\ InUserCode /\ pc = "task"
        /\ Settle(t, o, {}, <<>>) /\ UNCHANGED <<kind, ready, slab, inbox>> /\ running' = None
    BY <1>0 DEF Before, After, HomeInv, TInv, LineParts, Finish, InUserCode, queueVars
  <1>2. /\ t \in Cells /\ t # None /\ kind[t] = "task" /\ \A c \in Cells : t \notin LineOf(c)
        /\ TaskOf(t) = "running" /\ OutcomeOf(t) = status[t]
    BY <1>0, <1>1, RunningParts DEF Before
  <1>3. /\ AllCarried(t) /\ Flow /\ SlabFlow
        /\ status'[t] # "pending" /\ \A u \in Cells \ {t} : status'[u] = status[u]
    BY <1>1, <1>2, SettleIdle
  <1>4. \A c \in Cells : t \notin LineOf(c) /\ t \notin LineOf(c)'
    BY <1>2, <1>3 DEF After, Viewed, Alive
  <1>5. ReadySettled'
    BY <1>1, SameReadySettled DEF Before
  <1>6. LineParts' /\ SameLines
    BY <1>3, <1>4, <1>5, LinesSame
  <1>7. SameBut(t)
    <2>1. \A u \in Cells \ {t} : running' = u <=> running = u
      BY <1>0, <1>1, NoneAssumption
    <2> QED
      BY <1>1, <1>3, <2>1, SameOthers DEF Queued
  <1>8. TaskOf(t)' = "over"
    BY <1>1, <1>2, <1>3, TaskReadNext DEF TaskReads
  <1>9. PICK q \in Outcomes : q = status'[t]
    BY <1>2, <1>3 DEF After, HomeInv, TInv, TypeOK, CellTypes
  <1>10. OutcomeOf(t)' = IF OutcomeOf(t) = "pending" THEN q ELSE OutcomeOf(t)
    <2>1. OutcomeOf(t)' = status'[t]
      BY <1>1, <1>2 DEF OutcomeOf, Known, Unused
    <2> QED
      BY <1>2, <1>9, <2>1 DEF SettledStay
  <1> QED
    BY <1>2, <1>6, <1>7, <1>8, <1>10, MapsEnd

\* A task is at the end of the ready queue after it has joined it.
LEMMA PushQueues ==
  ASSUME TInv, NEW t \in Cells, NEW on \in Cells \cup {None}, PushReady(t, on)
  PROVE  /\ \A u : Queued(u)' <=> Queued(u) \/ (u = t /\ on = None)
         /\ \A k \in DOMAIN ready' : ready'[k].on = on \/ \E j \in DOMAIN ready : ready'[k].on = ready[j].on
  <1>1. PICK e : e = [output |-> t, on |-> on]
    OBVIOUS
  <1>2. e.output = t /\ e.on = on /\ e \in ReadyTasks
    BY <1>1 DEF ReadyTasks
  <1>3. /\ Len(ready) \in Nat /\ Len(ready) + 1 \in DOMAIN ready'
        /\ ready'[Len(ready) + 1] = e
        /\ \A k \in DOMAIN ready : k \in DOMAIN ready' /\ ready'[k] = ready[k]
        /\ \A k \in DOMAIN ready' :
              (k \in DOMAIN ready /\ ready'[k] = ready[k]) \/ (k = Len(ready) + 1 /\ ready'[k] = e)
    <2>1. ready \in Seq(ReadyTasks) /\ ready' = Append(ready, e)
      BY <1>1 DEF TInv, TypeOK, QueueTypes, PushReady
    <2>2. /\ Len(ready) \in Nat /\ DOMAIN ready' = 1..(Len(ready) + 1)
          /\ ready'[Len(ready) + 1] = e
          /\ \A k \in DOMAIN ready : k \in DOMAIN ready' /\ ready'[k] = ready[k]
          /\ \A k \in DOMAIN ready' :
              (k \in DOMAIN ready /\ ready'[k] = ready[k]) \/ (k = Len(ready) + 1 /\ ready'[k] = e)
      BY <1>2, <2>1, AppendParts
    <2> QED
      BY <2>2
  <1>4. \A u : e = [output |-> u, on |-> None] <=> u = t /\ on = None
    <2>1. \A u : e = [output |-> u, on |-> None] => e.output = u /\ e.on = None
      OBVIOUS
    <2> QED
      BY <1>1, <1>2, <2>1
  <1> QED
    BY <1>2, <1>3, <1>4 DEF Queued

LEMMA TaskYieldStep ==
  ASSUME Before, After, TaskYield
  PROVE  LineParts' /\ HandleStep
  <1>0. PICK t : t = running
    OBVIOUS
  <1>1. /\ TInv /\ InUserCode /\ pc = "task" /\ PushReady(t, None) /\ running' = None
        /\ UNCHANGED <<kind, slab, inbox, work, waiters, status>>
    BY <1>0 DEF Before, HomeInv, TaskYield, cellVars
  <1>2. /\ t \in Cells /\ t # None /\ kind[t] = "task"
        /\ TaskOf(t) = "running" /\ OutcomeOf(t) = status[t]
    BY <1>0, <1>1, RunningParts DEF Before
  <1>3. AllCarried(None) /\ Flow /\ SlabFlow
    BY <1>1, <1>2, PushMoves
  <1>4. SettledStay
    BY <1>1, QuietStay
  <1>5. /\ \A u : Queued(u)' <=> Queued(u) \/ u = t
        /\ \A k \in DOMAIN ready' : ready'[k].on = None \/ \E j \in DOMAIN ready : ready'[k].on = ready[j].on
    BY <1>1, <1>2, PushQueues
  <1>6. ReadySettled'
    BY <1>4, <1>5, SameReadySettled DEF Before
  <1>7. LineParts' /\ SameLines
    BY <1>1, <1>3, <1>4, <1>6, NoneInLine, NoneInLineNext, LinesSame
  <1>8. SameBut(t)
    <2>1. \A u \in Cells \ {t} : running' = u <=> running = u
      BY <1>0, <1>1, NoneAssumption
    <2> QED
      BY <1>1, <1>5, <2>1, SameOthers
  <1>9. OutcomeOf(t)' = OutcomeOf(t)
    BY <1>1, <1>2, OutcomeSame
  <1>10. CASE status[t] = "pending"
    <2>1. TaskOf(t)' = "queued"
      BY <1>1, <1>2, <1>5, <1>10, TaskReadNext DEF TaskReads
    <2> QED
      BY <1>2, <1>7, <1>8, <1>9, <1>10, <2>1, MapsYield
  <1>11. CASE status[t] # "pending"
    <2>1. TaskOf(t)' = "over"
      BY <1>1, <1>2, <1>11, TaskReadNext DEF TaskReads
    <2>2. "resolved" \in Outcomes
      BY DEF Outcomes
    <2>3. OutcomeOf(t)' = IF OutcomeOf(t) = "pending" THEN "resolved" ELSE OutcomeOf(t)
      BY <1>2, <1>9, <1>11
    <2> QED
      BY <1>2, <1>7, <1>8, <2>1, <2>2, <2>3, MapsEnd
  <1> QED
    BY <1>10, <1>11

LEMMA CollectStaleStep ==
  ASSUME Before, After, Unwrapped(slab), CollectStale
  PROVE  LineParts' /\ HandleStep
  <1>1. HomeInv /\ TypeOK' /\ UNCHANGED <<kind, ready, status, waiters, running>>
    BY DEF Before, After, HomeInv, TInv, CollectStale, cellVars, pumpVars
  <1>2. AllCarried(None) /\ Flow /\ SlabFlow
    BY <1>1, StaleMoves
  <1>3. SettledStay
    BY <1>1, QuietStay
  <1>4. ReadySettled'
    BY <1>1, <1>3, SameReadySettled DEF Before
  <1>5. LineParts' /\ SameLines
    BY <1>1, <1>2, <1>3, <1>4, NoneInLine, NoneInLineNext, LinesSame
  <1>6. SameBut(None)
    BY <1>1, SameOthers DEF Queued
  <1> QED
    BY <1>5, <1>6, MapsStutter

LEMMA CollectResumesStep ==
  ASSUME Before, After, Unwrapped(slab), CollectResumes
  PROVE  LineParts' /\ HandleStep
  <1>1. HomeInv /\ TypeOK' /\ StandsOnce /\ UNCHANGED <<kind, status, waiters, running>>
    BY DEF Before, After, HomeInv, TInv, LineParts, CollectResumes, cellVars, pumpVars
  <1>2. AllCarried(None) /\ Flow /\ SlabFlow
    BY <1>1, ResumeMoves
  <1>3. SettledStay
    BY <1>1, QuietStay
  <1>4. PICK t, c : t = slab.cells[Head(inbox).slot].out /\ c = slab.cells[Head(inbox).slot].on
    OBVIOUS
  <1>5. t \in Cells /\ c \in Cells /\ Settled(c) /\ PushReady(t, c)
    BY <1>1, <1>4, HeldSlot DEF CollectResumes, HomeInv
  <1>6. /\ \A u : Queued(u)' <=> Queued(u)
        /\ \A k \in DOMAIN ready' : ready'[k].on = c \/ \E j \in DOMAIN ready : ready'[k].on = ready[j].on
    BY <1>1, <1>5, PushQueues, NoneAssumption DEF HomeInv
  <1>7. ReadySettled'
    BY <1>3, <1>5, <1>6, SameReadySettled DEF Before
  <1>8. LineParts' /\ SameLines
    BY <1>1, <1>2, <1>3, <1>7, NoneInLine, NoneInLineNext, LinesSame
  <1>9. SameBut(None)
    BY <1>1, <1>6, SameOthers
  <1> QED
    BY <1>8, <1>9, MapsStutter

\* A token that is on its way has no live task whose handle is still pending.
LEMMA NeverReparks ==
  ASSUME Before
  PROVE  ~CollectReparks
  <1> SUFFICES ASSUME CollectReparks PROVE FALSE
    OBVIOUS
  <1>0. PICK k, t, c : k = Head(inbox) /\ t = slab.cells[k.slot].out /\ c = slab.cells[k.slot].on
    OBVIOUS
  <1>1. /\ TInv /\ inbox # <<>> /\ Collecting /\ Holds(slab, k)
        /\ status[t] = "pending" /\ status[c] = "pending"
    <2>1. /\ Collecting /\ Holds(slab, Head(inbox))
          /\ status[slab.cells[Head(inbox).slot].out] = "pending"
          /\ status[slab.cells[Head(inbox).slot].on] = "pending"
      BY DEF CollectReparks
    <2>2. Holds(slab, k) /\ status[t] = "pending" /\ status[c] = "pending"
      BY <1>0, <2>1
    <2> QED
      BY <2>1, <2>2 DEF Before, HomeInv, Collecting
  <1>2. t \in Cells /\ c \in Cells
    BY <1>0, <1>1, HeldSlot
  <1>3. k \in Tokens /\ Delivered(k)
    <2>1. inbox \in Seq(Tokens)
      BY <1>1 DEF TInv, TypeOK, QueueTypes
    <2>2. 1 \in DOMAIN inbox /\ Head(inbox) = inbox[1] /\ Head(inbox) \in Tokens
      BY <1>1, <2>1, TailParts
    <2> QED
      BY <1>0, <2>2 DEF Delivered
  <1>4. Bears(k, t, c)
    BY <1>0, <1>1 DEF Bears
  <1> QED
    BY <1>1, <1>2, <1>3, <1>4 DEF Before, LineParts, TokensWait, Alive

\* The first of the ready queue stands in no line, or at the head of one.
LEMMA HeadParts ==
  ASSUME Before, ready # <<>>, NEW t, NEW on, t = Head(ready).output, on = Head(ready).on
  PROVE  /\ t \in Cells /\ on \in Cells \cup {None} /\ kind[t] = "task" /\ running # t
         /\ Queued(t) <=> on = None
         /\ \A c \in Cells : t \in LineOf(c) => c = on
         /\ on # None => /\ on \in Cells /\ Settled(on) /\ OutcomeOf(on) = status[on]
                         /\ status[t] = "pending" => t \in LineOf(on) /\ AheadOf(t) = {}
  <1>1. /\ HomeInv /\ TInv /\ Viewed /\ ReadyOnce /\ ReadySettled
    BY DEF Before, HomeInv, HomeParts, LineParts
  <1>2. /\ 1 \in DOMAIN ready /\ ready[1].output = t /\ ready[1].on = on /\ ready[1] \in ReadyTasks
        /\ DOMAIN ready \subseteq Int
    <2>1. ready \in Seq(ReadyTasks)
      BY <1>1 DEF TInv, TypeOK, QueueTypes
    <2>2. /\ Len(ready) \in Nat /\ DOMAIN ready = 1..Len(ready)
          /\ 1 \in DOMAIN ready /\ Head(ready) = ready[1]
      BY <2>1, TailParts
    <2> QED
      BY <2>1, <2>2
  <1>3. t \in Cells /\ on \in Cells \cup {None} /\ InReady(t)
    BY <1>1, <1>2, ReadyParts DEF TInv, TypeOK, InReady
  <1>4. kind[t] = "task" /\ running # t /\ ~InSlab(t)
    BY <1>1, <1>3, NoneAssumption DEF HomeInv, HomeParts, AtHome
  <1>5. \A k \in DOMAIN ready : ready[k].output = t => k = 1
    BY <1>1, <1>2 DEF ReadyOnce
  <1>6. Queued(t) <=> on = None
    <2>1. on = None => ready[1] = [output |-> t, on |-> None]
      BY <1>2 DEF ReadyTasks
    <2>2. \A e : e = [output |-> t, on |-> None] => e.output = t /\ e.on = None
      OBVIOUS
    <2> QED
      BY <1>2, <1>5, <2>1, <2>2 DEF Queued
  <1>7. \A c, n : Stands(t, c, n) => n = 1 /\ c = on
    <2>1. \A k, c : ~Bears(k, t, c)
      BY <1>4 DEF InSlab, Bears, Holds
    <2> QED
      BY <1>2, <1>5, <2>1 DEF Stands
  <1>8. \A c \in Cells : t \in LineOf(c) => c = on
    BY <1>3, <1>1, <1>7 DEF Viewed, Stood
  <1>9. ASSUME on # None
        PROVE  /\ on \in Cells /\ Settled(on) /\ OutcomeOf(on) = status[on]
               /\ status[t] = "pending" => t \in LineOf(on) /\ AheadOf(t) = {}
    <2>1. on \in Cells /\ Settled(on)
      BY <1>1, <1>2, <1>3, <1>9 DEF ReadySettled
    <2>2. kind[on] # "unused"
      BY <1>1, <2>1 DEF TInv, Created, UnusedPending, Settled, Outcomes
    <2>3. 1 \in Positions /\ Stands(t, on, 1)
      BY <1>2 DEF Stands, Positions
    <2>4. ASSUME status[t] = "pending" PROVE t \in LineOf(on)
      BY <1>1, <1>3, <2>1, <2>3, <2>4 DEF Viewed, Stood, Alive
    <2>5. AheadOf(t) = {}
      <3>1. \A u, c \in Cells : ~Precedes(u, t, c)
        BY <1>7 DEF Precedes, Positions
      <3>2. AheadOf(t) \subseteq Cells
        BY DEF AheadOf
      <3> QED
        BY <1>1, <1>3, <3>1, <3>2 DEF Viewed
    <2> QED
      BY <2>1, <2>2, <2>4, <2>5 DEF OutcomeOf, Known, Unused
  <1> QED
    BY <1>3, <1>4, <1>6, <1>8, <1>9

LEMMA RunTaskStep ==
  ASSUME Before, After, RunTask
  PROVE  LineParts' /\ HandleStep
  <1>0. PICK t, on : t = Head(ready).output /\ on = Head(ready).on
    OBVIOUS
  <1>1. /\ TInv /\ HomeInv' /\ ready # <<>> /\ ready' = Tail(ready) /\ running = None
        /\ UNCHANGED <<slab, inbox, work, waiters, status, kind>>
        /\ IF status[t] # "pending" THEN running' = running ELSE running' = t
    BY <1>0 DEF Before, After, RunTask, Pumping, HomeInv, HomeParts
  <1>2. /\ t \in Cells /\ on \in Cells \cup {None} /\ kind[t] = "task" /\ running # t
        /\ Queued(t) <=> on = None
        /\ \A c \in Cells : t \in LineOf(c) => c = on
        /\ on # None => /\ on \in Cells /\ Settled(on) /\ OutcomeOf(on) = status[on]
                        /\ status[t] = "pending" => t \in LineOf(on) /\ AheadOf(t) = {}
    BY <1>0, <1>1, HeadParts
  <1>3. AllCarried(t) /\ Flow /\ SlabFlow
    BY <1>0, <1>1, PopMoves
  <1>4. SettledStay
    BY <1>1, QuietStay
  <1>5. /\ 1 \in DOMAIN ready /\ ready[1].output = t
        /\ \A k \in DOMAIN ready' : k + 1 \in DOMAIN ready /\ ready'[k] = ready[k + 1]
        /\ \A k \in DOMAIN ready : k = 1 \/ (k - 1 \in DOMAIN ready' /\ ready'[k - 1] = ready[k])
    <2>1. ready \in Seq(ReadyTasks)
      BY <1>1 DEF TInv, TypeOK, QueueTypes
    <2> QED
      BY <1>0, <1>1, <2>1, TailParts
  <1>6. ReadySettled'
    <2>1. \A k \in DOMAIN ready' : \E j \in DOMAIN ready : ready'[k].on = ready[j].on
      BY <1>5
    <2> QED
      BY <1>4, <2>1, SameReadySettled DEF Before
  <1>7. \A c \in Cells : t \notin LineOf(c)'
    <2>1. CASE status[t] # "pending"
      BY <1>1, <2>1, LineReadNext DEF LineReads
    <2>2. CASE status[t] = "pending"
      <3>1. \A c \in Cells : running' \notin LineOf(c)'
        BY LineReadNext DEF After, LineReads
      <3> QED
        BY <1>1, <2>2, <3>1
    <2> QED
      BY <2>1, <2>2
  <1>8. LineParts'
    BY <1>1, <1>3, <1>4, <1>6, <1>7, PartsKept DEF Before, After
  <1>9. Left(t)
    BY <1>1, <1>3, <1>7, LinesLeft DEF Before, After
  <1>10. \A u : u # t => (Queued(u)' <=> Queued(u))
    <2>1. \A u, e : e = [output |-> u, on |-> None] => e.output = u
      OBVIOUS
    <2> QED
      BY <1>5, <2>1 DEF Queued
  <1>11. SameBut(t)
    <2>1. \A u \in Cells \ {t} : running' = u <=> running = u
      BY <1>1, NoneAssumption
    <2> QED
      BY <1>1, <1>10, <2>1, SameOthers
  <1>12. OutcomeOf(t)' = OutcomeOf(t)
    BY <1>1, <1>2, OutcomeSame
  <1>13. CASE status[t] # "pending"
    <2>1. \A c \in Cells : t \notin LineOf(c)
      BY <1>13, LineHome DEF Before
    <2>2. SameLines
      BY <1>9, <2>1, Lineless DEF Before
    <2>3. TaskOf(t)' = TaskOf(t)
      BY <1>1, <1>2, <1>13, TaskRead, TaskReadNext DEF TaskReads
    <2>4. SameBut(None)
      BY <1>11, <1>12, <2>3 DEF SameBut
    <2> QED
      BY <1>8, <2>2, <2>4, MapsStutter
  <1>14. CASE status[t] = "pending"
    <2>1. TaskOf(t)' = "running"
      BY <1>1, <1>2, <1>14, TaskReadNext DEF TaskReads
    <2>2. \A u \in Cells : TaskOf(u) # "running"
      BY <1>1, NoneAssumption, TaskRead DEF TaskReads
    <2>3. CASE on = None
      <3>1. \A c \in Cells : t \notin LineOf(c)
        BY <1>2, <2>3, NoneAssumption
      <3>2. SameLines
        BY <1>9, <3>1, Lineless DEF Before
      <3>3. TaskOf(t) = "queued"
        BY <1>2, <1>14, <2>3, TaskRead DEF TaskReads
      <3> QED
        BY <1>2, <1>8, <1>11, <1>12, <2>1, <2>2, <3>2, <3>3, MapsStart
    <2>4. CASE on # None
      <3>1. OutcomeOf(on) \in Outcomes
        BY <1>2, <2>4 DEF Settled
      <3> QED
        BY <1>2, <1>8, <1>9, <1>11, <1>12, <1>14, <2>1, <2>2, <2>4, <3>1, MapsResume
    <2> QED
      BY <2>3, <2>4
  <1> QED
    BY <1>13, <1>14

LEMMA TaskAwaitStep ==
  ASSUME Before, After, Unwrapped(slab), NEW c \in Cells, TaskAwait(c)
  PROVE  LineParts' /\ HandleStep
  <1>0. PICK t : t = running
    OBVIOUS
  <1>1. /\ HomeInv /\ TypeOK' /\ TokensGiven /\ TokensWait /\ InUserCode /\ pc = "task"
        /\ Pending(c) /\ UNCHANGED <<kind, status, ready>> /\ running' = None
    BY DEF Before, After, HomeInv, TInv, LineParts, TaskAwait
  <1>2. /\ t \in Cells /\ t # None /\ kind[t] = "task" /\ ~InReady(t)
        /\ \A d \in Cells : t \notin LineOf(d)
        /\ TaskOf(t) = "running" /\ OutcomeOf(t) = status[t] /\ ~Queued(t)
    BY <1>0, <1>1, RunningParts DEF Before
  <1>3. /\ AllCarried(t) /\ TokensGiven' /\ TokensWait'
        /\ \E last \in Positions :
              /\ \A d \in Cells, n \in Positions : Stands(t, d, n)' <=> d = c /\ n = last
              /\ \A u \in Cells, n \in Positions :
                    u # t /\ status'[u] = "pending" /\ Stands(u, c, n)' => n < last
    BY <1>0, <1>1, AwaitMoves
  <1>4. PICK last \in Positions :
              /\ \A d \in Cells, n \in Positions : Stands(t, d, n)' <=> d = c /\ n = last
              /\ \A u \in Cells, n \in Positions :
                    u # t /\ status'[u] = "pending" /\ Stands(u, c, n)' => n < last
    BY <1>3
  <1>5. SettledStay
    BY <1>1, WatchStays DEF TaskAwait, Park, Watch, Pending, HomeInv
  <1>6. ReadySettled'
    BY <1>1, <1>5, SameReadySettled DEF Before
  <1>7. StandsOnce'
    <2>1. \A d \in Cells : \A m, n \in Positions : Stands(t, d, m)' /\ Stands(t, d, n)' => m = n
      BY <1>4
    <2>2. \A u \in Cells \ {t} : status'[u] = "pending" => status[u] = "pending"
      BY <1>1
    <2> QED
      BY <1>3, <2>1, <2>2, OnceKept DEF Before, LineParts
  <1>8. LineParts'
    BY <1>3, <1>6, <1>7 DEF LineParts
  <1>9. SameBut(t)
    <2>1. \A u \in Cells \ {t} : running' = u <=> running = u
      BY <1>0, <1>1, NoneAssumption
    <2> QED
      BY <1>1, <2>1, SameOthers DEF Queued
  <1>10. OutcomeOf(t)' = OutcomeOf(t) /\ OutcomeOf(c) = "pending"
    BY <1>1, <1>2, OutcomeSame DEF OutcomeOf, Pending
  <1>11. CASE status[t] # "pending"
    <2>1. \A d \in Cells : t \notin LineOf(d)'
      BY <1>1, <1>11, LineReadNext DEF LineReads
    <2>2. SameLines
      <3>1. Left(t)
        BY <1>1, <1>3, <2>1, LinesLeft DEF Before, After
      <3> QED
        BY <1>2, <3>1, Lineless DEF Before
    <2>3. TaskOf(t)' = "over"
      BY <1>1, <1>2, <1>11, TaskReadNext DEF TaskReads
    <2>4. "resolved" \in Outcomes
      BY DEF Outcomes
    <2>5. OutcomeOf(t)' = IF OutcomeOf(t) = "pending" THEN "resolved" ELSE OutcomeOf(t)
      BY <1>2, <1>10, <1>11
    <2> QED
      BY <1>2, <1>8, <1>9, <2>2, <2>3, <2>4, <2>5, MapsEnd
  <1>12. CASE status[t] = "pending"
    <2>1. \A d \in Cells : t \in LineOf(d)' <=> d = c
      BY <1>1, <1>2, <1>4, <1>12 DEF After, Viewed, Stood, Alive
    <2>2. ASSUME NEW d \in Cells, NEW u \in Cells \ {t}
          PROVE  u \in LineOf(d)' <=> u \in LineOf(d)
      <3>1. PICK p \in Nat, q \in Int : Carried(d, p, q, t)
        BY <1>3 DEF AllCarried
      <3>2. status'[u] = "pending" => (Stood(u, d)' <=> Stood(u, d))
        BY <3>1, CarriedOrder
      <3> QED
        BY <1>1, <3>2 DEF Before, After, Viewed, Alive
    <2>3. ASSUME NEW d \in Cells PROVE LineOf(d)' = IF d = c THEN LineOf(d) \cup {t} ELSE LineOf(d)
      <3>1. LineOf(d) \subseteq Cells /\ LineOf(d)' \subseteq Cells
        BY DEF LineOf
      <3>2. \A u \in Cells : u # t => (u \in LineOf(d)' <=> u \in LineOf(d))
        BY <2>2
      <3>3. t \notin LineOf(d) /\ (t \in LineOf(d)' <=> d = c)
        BY <1>2, <2>1
      <3>4. CASE d = c
        BY <1>2, <3>1, <3>2, <3>3, <3>4
      <3>5. CASE d # c
        BY <3>1, <3>2, <3>3, <3>5
      <3> QED
        BY <3>4, <3>5
    <2>4. ASSUME NEW u \in Cells PROVE AheadOf(u)' = IF u = t THEN LineOf(c) ELSE AheadOf(u)
      <3>1. /\ AheadOf(u) \subseteq Cells /\ AheadOf(u)' \subseteq Cells /\ LineOf(c) \subseteq Cells
        BY DEF AheadOf, LineOf
      <3>2. \A v \in Cells : v \in AheadOf(u) <=>
               \E d \in Cells : u \in LineOf(d) /\ v \in LineOf(d) /\ Precedes(v, u, d)
        BY DEF Before, Viewed
      <3>3. \A v \in Cells : v \in AheadOf(u)' <=>
               \E d \in Cells : u \in LineOf(d)' /\ v \in LineOf(d)' /\ Precedes(v, u, d)'
        BY DEF After, Viewed
      <3>4. CASE u = t
        <4>1. ASSUME NEW v \in Cells \ {t}, v \in LineOf(c) PROVE Precedes(v, t, c)'
          <5>1. v \in LineOf(c)' /\ status'[v] = "pending" /\ Stood(v, c)'
            BY <2>2, <4>1 DEF After, Viewed, Alive
          <5>2. PICK n \in Positions : Stands(v, c, n)'
            BY <5>1 DEF Stood
          <5>3. n < last /\ Stands(t, c, last)'
            BY <1>4, <5>1, <5>2
          <5> QED
            BY <5>2, <5>3 DEF Precedes
        <4>2. ~Precedes(t, t, c)'
          BY <1>4 DEF Precedes, Positions
        <4>3. ASSUME NEW v \in Cells PROVE v \in AheadOf(t)' <=> v \in LineOf(c)
          <5>1. CASE v = t
            BY <1>2, <2>1, <3>3, <3>4, <4>2, <5>1
          <5>2. CASE v # t
            BY <2>1, <2>2, <3>3, <3>4, <4>1, <5>2
          <5> QED
            BY <5>1, <5>2
        <4> QED
          BY <3>1, <3>4, <4>3
      <3>5. CASE u # t
        <4>1. ASSUME NEW v \in Cells \ {t}, NEW d \in Cells, u \in LineOf(d)', v \in LineOf(d)'
              PROVE  Precedes(v, u, d)' <=> Precedes(v, u, d)
          <5>1. PICK p \in Nat, q \in Int : Carried(d, p, q, t)
            BY <1>3 DEF AllCarried
          <5>2. status'[u] = "pending" /\ status'[v] = "pending"
            BY <4>1 DEF LineOf, Alive
          <5> QED
            BY <3>5, <5>1, <5>2, CarriedOrder
        <4>2. u \in LineOf(c)' => ~Precedes(t, u, c)'
          <5>1. u \in LineOf(c)' => status'[u] = "pending"
            BY DEF LineOf, Alive
          <5> QED
            BY <1>4, <3>5, <5>1 DEF Precedes, Positions
        <4>3. ASSUME NEW v \in Cells PROVE v \in AheadOf(u)' <=> v \in AheadOf(u)
          <5>1. CASE v = t
            BY <1>2, <2>1, <3>2, <3>3, <4>2, <5>1
          <5>2. CASE v # t
            BY <2>2, <3>2, <3>3, <3>5, <4>1, <5>2
          <5> QED
            BY <5>1, <5>2
        <4> QED
          BY <3>1, <3>5, <4>3
      <3> QED
        BY <3>4, <3>5
    <2>5. TaskOf(t)' = "waiting"
      <3>1. ~Queued(t)'
        BY <1>1, <1>2 DEF Queued
      <3> QED
        BY <1>1, <1>2, <1>12, <3>1, TaskReadNext DEF TaskReads
    <2> QED
      BY <1>2, <1>8, <1>9, <1>10, <1>12, <2>3, <2>4, <2>5, MapsAwait
  <1> QED
    BY <1>11, <1>12

LEMMA UserCodeSteps ==
  ASSUME Before, After, Unwrapped(slab), SettledStay, UserCode
  PROVE  LineParts' /\ HandleStep
  <1>1. ASSUME NEW c \in Cells, Spawn(c) PROVE LineParts' /\ HandleStep
    <2>1. /\ kind[c] = "unused" /\ kind' = [kind EXCEPT ![c] = "task"] /\ PushReady(c, None)
          /\ UNCHANGED <<slab, inbox, work, waiters, status, running>>
      BY <1>1 DEF Spawn, Creates, pumpVars
    <2> QED
      BY <2>1, NewStep
  <1>2. ASSUME NEW c \in Cells, AwaitSettled(c) PROVE LineParts' /\ HandleStep
    BY <1>2, QuietStep DEF AwaitSettled, queueVars, pumpVars
  <1> QED
    BY <1>1, <1>2, CancelStep, TaskAwaitStep, BornSettledStep, FromHostStep, ParallelStep,
       FinishStep, TaskYieldStep DEF UserCode

LEMMA EntrySteps ==
  ASSUME Before, After, EntryPoint
  PROVE  LineParts' /\ HandleStep
  <1>1. ASSUME NEW c \in Cells, CallMain(c) PROVE LineParts' /\ HandleStep
    <2>1. kind[c] = "unused" /\ UNCHANGED <<slab, inbox, work, waiters, status, running>>
      BY <1>1 DEF CallMain, Unused
    <2>2. CASE UNCHANGED <<kind, ready>>
      BY <2>1, <2>2, QuietStep
    <2>3. CASE kind' = [kind EXCEPT ![c] = "task"] /\ PushReady(c, None)
      BY <2>1, <2>3, NewStep
    <2> QED
      BY <1>1, <2>2, <2>3 DEF CallMain
  <1>2. CASE MainEnd \/ \E c \in Cells : MainAwait(c)
    <2>1. UNCHANGED <<ready, slab, inbox, work, waiters, status, kind, running>>
      BY <1>2 DEF MainEnd, MainAwait, cellVars, queueVars
    <2> QED
      BY <2>1, QuietStep
  <1> QED
    BY <1>1, <1>2 DEF EntryPoint

LEMMA PumpSteps ==
  ASSUME Before, After, Unwrapped(slab), SettledStay, Pump
  PROVE  LineParts' /\ HandleStep
  <1>1. CASE PumpReturn \/ PumpTop \/ DrainHosts \/ HostsDone \/ CollectDone \/ GoToSleep \/ WakeUp
    <2>1. UNCHANGED <<ready, slab, inbox, work, waiters, status, kind, running>>
      BY <1>1 DEF PumpReturn, PumpTop, DrainHosts, HostsDone, CollectDone, GoToSleep, WakeUp,
         cellVars, queueVars
    <2> QED
      BY <2>1, QuietStep
  <1> QED
    BY <1>1, NotifyStep, GatherOneStep, CompleteHostStep, CollectStaleStep, CollectResumesStep,
       NeverReparks, RunTaskStep DEF Pump

\* Every step of the scheduler keeps the lines in order and is a step of the
\* promise, or none.
LEMMA StepMaps ==
  ASSUME Before, After, NoneWraps, [Next]_vars
  PROVE  LineParts' /\ HandleStep
  <1>1. Unwrapped(slab) /\ TInv
    BY DEF NoneWraps, Unwrapped, Before, HomeInv
  <1>2. CASE Next
    <2>1. SettledStay
      BY <1>1, <1>2, StepStays
    <2>2. CASE HostThreads
      <3>1. UNCHANGED <<ready, slab, inbox, work, waiters, status, kind, running>>
        BY <2>2 DEF HostThreads, HostComplete, cellVars, queueVars, pumpVars
      <3> QED
        BY <3>1, QuietStep
    <2> QED
      BY <1>1, <1>2, <2>1, <2>2, UserCodeSteps, EntrySteps, PumpSteps DEF Next, VmThread
  <1>3. CASE UNCHANGED vars
    BY <1>3, QuietStep DEF vars, cellVars, queueVars, pumpVars
  <1> QED
    BY <1>2, <1>3

\* Nothing is anywhere at the start.
LEMMA InitMaps ==
  ASSUME TInv, Viewed, Init
  PROVE  LineParts /\ Handles!HInit
  <1>1. /\ ready = <<>> /\ inbox = <<>> /\ work = <<>> /\ slab.cells = <<>> /\ running = None
        /\ \A c \in Cells : waiters[c] = <<>> /\ kind[c] = "unused"
    BY DEF Init, EmptySlab
  <1>2. DOMAIN ready = {} /\ DOMAIN inbox = {} /\ DOMAIN work = {} /\ Occupied(slab) = {}
        /\ \A c \in Cells : DOMAIN waiters[c] = {}
    BY <1>1 DEF Occupied
  <1>3. \A k : ~Holds(slab, k)
    BY <1>2 DEF Holds
  <1>4. \A t, c, n : ~Stands(t, c, n)
    BY <1>2, <1>3 DEF Stands, Bears
  <1>5. LineParts
    BY <1>2, <1>3, <1>4
    DEF LineParts, TokensGiven, TokensWait, StandsOnce, ReadySettled, Abroad, Delivered, Watched, Bears
  <1>6. ASSUME NEW c \in Cells PROVE LineOf(c) = {} /\ AheadOf(c) = {}
    <2>1. \A d \in Cells : LineOf(d) = {}
      BY <1>4, LineRead DEF Viewed, Stood, LineReads
    <2>2. AheadOf(c) \subseteq Cells
      BY DEF AheadOf
    <2> QED
      BY <2>1, <2>2 DEF Viewed
  <1>7. ASSUME NEW c \in Cells PROVE OutcomeOf(c) = "free" /\ TaskOf(c) = "none"
    BY <1>1, TaskRead DEF TaskReads, OutcomeOf, Known, Unused
  <1>8. Handles!HInit
    BY <1>6, <1>7 DEF Handles!HInit
  <1> QED
    BY <1>5, <1>8

\* The queue, the slab of parked tasks, the tokens and the pump do what the
\* promise says as long as no slot of the slab comes to its last generation:
\* handles settle once, awaiters resume in the order in which they began to
\* await, once each, only after the handle has settled, and never after their
\* own has.
THEOREM HandlesKeptUnwrapped == Spec /\ []NoneWraps => ImplementsTaskHandles
  <1>1. Init /\ HomeInv /\ Viewed => Before /\ Handles!HInit
    BY InitMaps DEF Before, HomeInv
  <1>2. Before /\ HomeInv' /\ Viewed' /\ NoneWraps /\ [Next]_vars
          => Before' /\ [Handles!HNext]_Handles!handleVars
    BY StepMaps DEF Before, After, HandleStep
  <1>3. Spec => []HomeInv /\ []Viewed
    <2>1. HomeInv => Viewed
      BY LinesViewed DEF HomeInv
    <2> QED
      BY <2>1, HomesAlways, PTL
  <1>4. Spec => Init /\ [][Next]_vars
    BY PTL DEF Spec
  <1> QED
    BY <1>1, <1>2, <1>3, <1>4, PTL DEF ImplementsTaskHandles, Handles!HSpec

-----------------------------------------------------------------------------
(***************************************************************************)
(* No slot wraps when there are generations enough                         *)
(***************************************************************************)
ParkedOn(t, c) == \E i \in Occupied(slab) : slab.cells[i].out = t /\ slab.cells[i].on = c
MayGoOn(t) == status[t] = "pending" \/ running = t

\* A task and a pending cell on which it may yet be parked.
MayPark ==
    {p \in Cells \X Cells :
        status[p[2]] = "pending" /\ MayGoOn(p[1]) /\ ~ParkedOn(p[1], p[2])}

\* How often a slot has been occupied.
Spent(s, i) == s.cells[i].gen + (IF i \in Occupied(s) THEN 1 ELSE 0)
Pairs == Cardinality(Cells) * Cardinality(Cells)

\* Whoever is parked takes one of the pairs that are left.
Budget == \A i \in DOMAIN slab.cells : Spent(slab, i) + Cardinality(MayPark) <= Pairs

\* The slab occupies none of its slots again.
NoneSpent ==
    \A i \in DOMAIN slab'.cells : i \in DOMAIN slab.cells /\ Spent(slab', i) <= Spent(slab, i)

PairsCounted ==
    /\ IsFiniteSet(MayPark) /\ Cardinality(MayPark) \in Nat
    /\ Pairs \in Nat /\ Cardinality(MayPark) <= Pairs

LEMMA MayParkFinite == PairsCounted
  <1>1. IsFiniteSet(Cells \X Cells) /\ Cardinality(Cells \X Cells) = Pairs
    BY CellsAssumption, FS_Product DEF Pairs
  <1>2. MayPark \in SUBSET (Cells \X Cells)
    BY DEF MayPark
  <1>3. IsFiniteSet(MayPark) /\ Cardinality(MayPark) <= Cardinality(Cells \X Cells)
    BY ONLY <1>1, <1>2, FS_Subset
  <1> QED
    BY <1>1, <1>3, FS_CardinalityType DEF PairsCounted

LEMMA MayParkFiniteNext == PairsCounted'
  BY MayParkFinite, PTL

LEMMA SpentType ==
  ASSUME NEW s, GoodSlab(s), NEW i \in DOMAIN s.cells
  PROVE  Spent(s, i) \in Int /\ s.cells[i].gen \in Int /\ s.cells[i].gen <= Spent(s, i)
  <1>1. s.cells[i] \in Slot
    BY DEF GoodSlab, Slabs
  <1>2. s.cells[i].gen \in Int
    BY <1>1, GenerationsAssumption DEF Slot
  <1> QED
    BY <1>2 DEF Spent

\* To vacate a slot is to count it no more as occupied, and its generation up.
LEMMA VacatesSpent ==
  ASSUME NEW s, GoodSlab(s), NEW r, Vacates(r, s)
  PROVE  \A i \in DOMAIN r.cells : i \in DOMAIN s.cells /\ Spent(r, i) = Spent(s, i)
  <1> SUFFICES ASSUME NEW i \in DOMAIN r.cells
               PROVE  i \in DOMAIN s.cells /\ Spent(r, i) = Spent(s, i)
    OBVIOUS
  <1>1. i \in DOMAIN s.cells /\ s.cells[i].gen \in Int
    BY SpentType DEF Vacates
  <1>2. CASE r.cells[i] = s.cells[i]
    BY <1>1, <1>2 DEF Spent, Occupied
  <1>3. CASE i \in Occupied(s) /\ r.cells[i].out = None /\ r.cells[i].gen = s.cells[i].gen + 1
    <2>1. i \notin Occupied(r)
      BY <1>3 DEF Occupied
    <2>2. Spent(s, i) = s.cells[i].gen + 1 /\ Spent(r, i) = s.cells[i].gen + 1 + 0
      BY <1>3, <2>1 DEF Spent
    <2> QED
      BY <1>1, <2>2
  <1>4. \/ r.cells[i] = s.cells[i]
        \/ i \in Occupied(s) /\ r.cells[i].out = None /\ r.cells[i].gen = s.cells[i].gen + 1
    BY <1>1 DEF Vacates
  <1> QED
    BY <1>2, <1>3, <1>4

\* Only the slot of the next task is occupied once more.
LEMMA InsertSpent ==
  ASSUME NEW s, GoodSlab(s), Books(s), Unwrapped(s), NEW t \in Cells, NEW c \in Cells
  PROVE  \A i \in DOMAIN Insert(s, t, c).cells :
            \/ i \in DOMAIN s.cells /\ Spent(Insert(s, t, c), i) <= Spent(s, i) + 1
            \/ Spent(Insert(s, t, c), i) = 1
  <1> DEFINE q == Roomy(s)
             r == Insert(s, t, c)
             new == NextToken(s)
             entry == [gen |-> new.gen, out |-> t, on |-> c]
  <1>1. GoodSlab(q) /\ Vacates(q, s)
    BY RoomyBooks, RoomyVacates
  <1>2. /\ new.slot \in DOMAIN r.cells /\ r.cells[new.slot] = entry
        /\ \A i \in DOMAIN q.cells : i \in DOMAIN r.cells /\ (i # new.slot => r.cells[i] = q.cells[i])
        /\ \A i \in DOMAIN r.cells : i # new.slot => i \in DOMAIN q.cells
        /\ \/ new.slot \notin DOMAIN q.cells /\ new.gen = 0
           \/ /\ new.slot \in DOMAIN q.cells /\ new.slot \notin Occupied(q)
              /\ new.gen = q.cells[new.slot].gen
    BY InsertPlace
  <1>3. entry.gen = new.gen /\ entry.out = t /\ t # None
    BY NoneAssumption
  <1>4. \A i \in DOMAIN q.cells :
           i \in DOMAIN s.cells /\ Spent(q, i) = Spent(s, i) /\ Spent(s, i) \in Int
           /\ q.cells[i].gen \in Int
    BY <1>1, VacatesSpent, SpentType
  <1> HIDE DEF q, r, new, entry
  <1> SUFFICES ASSUME NEW i \in DOMAIN r.cells
               PROVE  \/ i \in DOMAIN s.cells /\ Spent(r, i) <= Spent(s, i) + 1
                      \/ Spent(r, i) = 1
    BY DEF r
  <1>5. CASE i # new.slot
    <2>1. i \in DOMAIN q.cells /\ r.cells[i] = q.cells[i]
      BY <1>2, <1>5
    <2>2. Spent(r, i) = Spent(q, i)
      BY <2>1 DEF Spent, Occupied
    <2> QED
      BY <1>4, <2>1, <2>2
  <1>6. CASE i = new.slot
    <2>1. i \in Occupied(r) /\ r.cells[i].gen = new.gen
      BY <1>2, <1>3, <1>6 DEF Occupied
    <2>2. CASE i \notin DOMAIN q.cells /\ new.gen = 0
      BY <2>1, <2>2 DEF Spent
    <2>3. CASE i \in DOMAIN q.cells /\ i \notin Occupied(q) /\ new.gen = q.cells[i].gen
      <3>1. Spent(q, i) = q.cells[i].gen /\ Spent(r, i) = q.cells[i].gen + 1
        BY <1>4, <2>1, <2>3 DEF Spent
      <3> QED
        BY <1>4, <2>3, <3>1
    <2> QED
      BY <1>2, <1>6, <2>2, <2>3
  <1> QED
    BY <1>5, <1>6

\* The pairs that are left never become more.
LEMMA MayParkFewer ==
  ASSUME SettledStay, \A t \in Cells : running' = t => MayGoOn(t),
         \A t, c \in Cells : ParkedOn(t, c) /\ status[c]' = "pending" /\ MayGoOn(t)' => ParkedOn(t, c)'
  PROVE  MayPark' \subseteq MayPark
  <1> SUFFICES ASSUME NEW p \in MayPark' PROVE p \in MayPark
    OBVIOUS
  <1>1. PICK t, c : t = p[1] /\ c = p[2]
    OBVIOUS
  <1>2. p \in Cells \X Cells /\ t \in Cells /\ c \in Cells
    BY <1>1 DEF MayPark
  <1>3. status[c]' = "pending" /\ MayGoOn(t)' /\ ~ParkedOn(t, c)'
    BY <1>1 DEF MayPark
  <1>4. status[c] = "pending" /\ MayGoOn(t)
    BY <1>2, <1>3 DEF SettledStay, MayGoOn
  <1>5. ~ParkedOn(t, c)
    BY <1>2, <1>3
  <1> QED
    BY <1>1, <1>2, <1>4, <1>5 DEF MayPark

LEMMA BudgetKept ==
  ASSUME TInv, TInv', Budget, MayPark' \subseteq MayPark, NoneSpent
  PROVE  Budget'
  <1>1. GoodSlab(slab) /\ GoodSlab(slab')
    BY DEF TInv, Created
  <1>2. /\ IsFiniteSet(MayPark) /\ MayPark' \in SUBSET MayPark /\ Cardinality(MayPark) \in Nat
        /\ Pairs \in Nat /\ Pairs' = Pairs
    BY MayParkFinite DEF PairsCounted, Pairs
  <1>3. IsFiniteSet(MayPark') /\ Cardinality(MayPark') <= Cardinality(MayPark)
    BY ONLY <1>2, FS_Subset
  <1>4. Cardinality(MayPark') \in Nat
    BY ONLY <1>3, FS_CardinalityType
  <1>5. ASSUME NEW i \in DOMAIN slab'.cells
        PROVE  Spent(slab', i) + Cardinality(MayPark') <= Pairs
    <2>1. i \in DOMAIN slab.cells /\ Spent(slab', i) <= Spent(slab, i)
      BY <1>5 DEF NoneSpent
    <2>2. Spent(slab, i) + Cardinality(MayPark) <= Pairs
      BY <2>1 DEF Budget
    <2>3. Spent(slab', i) \in Int /\ Spent(slab, i) \in Int
      BY <1>1, <1>5, <2>1, SpentType
    <2> QED
      BY ONLY <1>2, <1>3, <1>4, <2>1, <2>2, <2>3
  <1>6. Pairs' = Pairs /\ \A i : Spent(slab, i)' = Spent(slab', i)
    BY <1>2 DEF Spent, Occupied
  <1> QED
    BY <1>5, <1>6 DEF Budget

\* A step that leaves the slab alone.
LEMMA SameSlabBudget ==
  ASSUME TInv, TInv', Budget, SettledStay, slab' = slab,
         \A t \in Cells : running' = t => MayGoOn(t)
  PROVE  Budget'
  <1>1. Occupied(slab)' = Occupied(slab)
    BY DEF Occupied
  <1>2. \A t, c \in Cells : ParkedOn(t, c) => ParkedOn(t, c)'
    BY <1>1 DEF ParkedOn
  <1>3. MayPark' \subseteq MayPark
    BY <1>2, MayParkFewer
  <1>4. NoneSpent
    <2>1. \A i \in DOMAIN slab.cells : Spent(slab, i) \in Int
      BY SpentType DEF TInv, Created
    <2> QED
      BY <2>1 DEF NoneSpent
  <1> QED
    BY <1>3, <1>4, BudgetKept

\* A parked task is taken out of the slab: its own handle or the one it awaited
\* has settled.
LEMMA ReleaseBudget ==
  ASSUME HomeInv, TInv', Budget, Unwrapped(slab), UNCHANGED <<status, waiters, running>>,
         NEW i \in Occupied(slab), slab' = Release(slab, i),
         status[slab.cells[i].out] # "pending" \/ status[slab.cells[i].on] # "pending"
  PROVE  Budget'
  <1>1. SettledStay
    BY QuietStay
  <1>2. GoodSlab(slab) /\ Vacates(slab', slab)
    BY ReleaseVacates DEF HomeInv, TInv, Created
  <1>3. NoneSpent
    <2>1. \A j \in DOMAIN slab'.cells : j \in DOMAIN slab.cells /\ Spent(slab', j) = Spent(slab, j)
      BY <1>2, VacatesSpent
    <2>2. \A j \in DOMAIN slab.cells : Spent(slab, j) \in Int
      BY <1>2, SpentType
    <2> QED
      BY <2>1, <2>2 DEF NoneSpent
  <1>4. /\ Occupied(slab') = Occupied(slab) \ {i}
        /\ \A j \in Occupied(slab') : slab'.cells[j] = slab.cells[j]
    BY <1>2, ReleaseBooks DEF HomeInv, HomeParts
  <1>5. ASSUME NEW t \in Cells, NEW c \in Cells, ParkedOn(t, c), status[c]' = "pending", MayGoOn(t)'
        PROVE  ParkedOn(t, c)'
    <2>1. PICK j \in Occupied(slab) : slab.cells[j].out = t /\ slab.cells[j].on = c
      BY <1>5 DEF ParkedOn
    <2>2. status[c] = "pending" /\ (status[t] = "pending" \/ running = t)
      BY <1>5 DEF MayGoOn
    <2>3. running # t
      BY <2>1, NoneAssumption DEF HomeInv, HomeParts, InSlab
    <2>4. j # i
      BY <2>1, <2>2, <2>3
    <2>5. j \in Occupied(slab') /\ slab'.cells[j] = slab.cells[j]
      BY <1>4, <2>4
    <2>6. Occupied(slab)' = Occupied(slab')
      BY DEF Occupied
    <2> QED
      BY <2>1, <2>5, <2>6 DEF ParkedOn
  <1>6. MayPark' \subseteq MayPark
    <2>1. \A t \in Cells : running' = t => MayGoOn(t)
      BY DEF MayGoOn
    <2> QED
      BY <1>1, <1>5, <2>1, MayParkFewer
  <1> QED
    BY <1>3, <1>6, BudgetKept DEF HomeInv

\* The running task takes the pair of itself and the cell it awaits.
LEMMA TaskAwaitBudget ==
  ASSUME HomeInv, Viewed, TInv', Budget, Unwrapped(slab), NEW c \in Cells, TaskAwait(c)
  PROVE  Budget'
  <1>0. PICK t : t = running
    OBVIOUS
  <1>1. /\ TInv /\ InUserCode /\ pc = "task" /\ Pending(c) /\ running' = None
        /\ slab' = Insert(slab, t, c) /\ UNCHANGED status
    BY <1>0 DEF HomeInv, TaskAwait, Park
  <1>2. t \in Cells /\ t # None /\ ~InSlab(t)
    BY <1>0, <1>1, RunningParts
  <1>3. GoodSlab(slab) /\ GoodSlab(slab') /\ Books(slab)
    BY <1>1 DEF TInv, Created, HomeInv, HomeParts
  <1>4. SettledStay
    BY <1>1, WatchStays DEF TaskAwait, Park, Watch, Pending
  <1>5. Occupied(slab)' = Occupied(slab')
    BY DEF Occupied
  <1>6. /\ \E i \in Occupied(slab') : slab'.cells[i].out = t /\ slab'.cells[i].on = c
        /\ \A j \in Occupied(slab) : status[slab.cells[j].out] = "pending" =>
              j \in Occupied(slab') /\ slab'.cells[j] = slab.cells[j]
    <2>1. PICK i, q : i = NextToken(slab).slot /\ q = Roomy(slab)
      OBVIOUS
    <2>2. /\ Occupied(slab') = Occupied(q) \cup {i}
          /\ slab'.cells[i].out = t /\ slab'.cells[i].on = c
          /\ \A j \in Occupied(q) : slab'.cells[j] = slab.cells[j]
      BY <1>1, <1>2, <1>3, <2>1, InsertBooks DEF Pending, Known
    <2>3. \A j \in Occupied(slab) : status[slab.cells[j].out] = "pending" => j \in Occupied(q)
      BY <1>3, <2>1, RoomyBooks
    <2> QED
      BY <2>2, <2>3
  <1>7. ParkedOn(t, c)'
    BY <1>5, <1>6 DEF ParkedOn
  <1>8. ASSUME NEW u \in Cells, NEW d \in Cells, ParkedOn(u, d), status[d]' = "pending", MayGoOn(u)'
        PROVE  ParkedOn(u, d)'
    <2>1. PICK j \in Occupied(slab) : slab.cells[j].out = u /\ slab.cells[j].on = d
      BY <1>8 DEF ParkedOn
    <2>2. status[u] = "pending"
      BY <1>1, <1>8, NoneAssumption DEF MayGoOn
    <2> QED
      BY <1>5, <1>6, <2>1, <2>2 DEF ParkedOn
  <1>9. MayPark' \subseteq MayPark
    <2>1. \A u \in Cells : running' = u => MayGoOn(u)
      BY <1>1, NoneAssumption
    <2> QED
      BY <1>4, <1>8, <2>1, MayParkFewer
  <1>10. <<t, c>> \in MayPark
    BY <1>0, <1>1, <1>2 DEF MayPark, MayGoOn, ParkedOn, InSlab, Pending
  <1>11. <<t, c>> \notin MayPark'
    BY <1>7 DEF MayPark
  <1>12. PICK m \in Nat, n \in Nat : m = Cardinality(MayPark) /\ n = Cardinality(MayPark')
    BY MayParkFinite, MayParkFiniteNext DEF PairsCounted
  <1>13. n <= m - 1 /\ m <= Pairs /\ Pairs \in Nat /\ Pairs' = Pairs
    <2>1. MayPark' \in SUBSET (MayPark \ {<<t, c>>})
      BY <1>9, <1>11
    <2>2. IsFiniteSet(MayPark) /\ m <= Pairs /\ Pairs \in Nat /\ Pairs' = Pairs
      BY <1>12, MayParkFinite DEF PairsCounted, Pairs
    <2>3. /\ IsFiniteSet(MayPark \ {<<t, c>>})
          /\ Cardinality(MayPark \ {<<t, c>>}) = Cardinality(MayPark) - 1
      BY <1>10, <2>2, FS_RemoveElement
    <2>4. Cardinality(MayPark') <= Cardinality(MayPark \ {<<t, c>>})
      BY ONLY <2>1, <2>3, FS_Subset
    <2> QED
      BY ONLY <1>12, <2>2, <2>3, <2>4
  <1>14. ASSUME NEW i \in DOMAIN slab'.cells
         PROVE  Spent(slab', i) + n <= Pairs
    <2>1. Spent(slab', i) \in Int
      BY <1>3, <1>14, SpentType
    <2>2. CASE i \in DOMAIN slab.cells /\ Spent(slab', i) <= Spent(slab, i) + 1
      <3>1. Spent(slab, i) + m <= Pairs /\ Spent(slab, i) \in Int
        BY <1>3, <1>12, <2>2, SpentType DEF Budget
      <3> QED
        BY ONLY <1>12, <1>13, <2>1, <2>2, <3>1
    <2>3. CASE Spent(slab', i) = 1
      BY ONLY <1>12, <1>13, <2>3
    <2>4. \/ i \in DOMAIN slab.cells /\ Spent(slab', i) <= Spent(slab, i) + 1
          \/ Spent(slab', i) = 1
      BY <1>1, <1>2, <1>3, <1>14, InsertSpent
    <2> QED
      BY <2>2, <2>3, <2>4
  <1>15. \A i : Spent(slab, i)' = Spent(slab', i)
    BY DEF Spent, Occupied
  <1> QED
    BY <1>12, <1>13, <1>14, <1>15 DEF Budget

\* No step overdraws the budget.
LEMMA BudgetStep ==
  ASSUME Before, TInv', Budget, Unwrapped(slab), [Next]_vars
  PROVE  Budget'
  <1>0. HomeInv /\ TInv
    BY DEF Before, HomeInv
  <1>1. CASE CollectStale
    <2>1. PICK i : i = Head(inbox).slot
      OBVIOUS
    <2>2. UNCHANGED <<status, waiters, running>>
      BY <1>1 DEF CollectStale, cellVars, pumpVars
    <2>3. CASE UNCHANGED slab
      <3>1. SettledStay /\ \A t \in Cells : running' = t => MayGoOn(t)
        BY <2>2, QuietStay DEF MayGoOn
      <3> QED
        BY <1>0, <2>3, <3>1, SameSlabBudget
    <2>4. CASE /\ Holds(slab, Head(inbox)) /\ status[slab.cells[i].out] # "pending"
               /\ slab' = Release(slab, i)
      <3>1. i \in Occupied(slab)
        BY <2>1, <2>4 DEF Holds
      <3> QED
        BY <1>0, <2>2, <2>4, <3>1, ReleaseBudget
    <2> QED
      BY <1>1, <2>1, <2>3, <2>4 DEF CollectStale
  <1>2. CASE CollectResumes
    <2>1. PICK i : i = Head(inbox).slot
      OBVIOUS
    <2>2. /\ UNCHANGED <<status, waiters, running>> /\ Holds(slab, Head(inbox))
          /\ Settled(slab.cells[i].on) /\ slab' = Release(slab, i)
      BY <1>2, <2>1 DEF CollectResumes, cellVars, pumpVars
    <2>3. i \in Occupied(slab) /\ status[slab.cells[i].on] # "pending"
      BY <2>1, <2>2 DEF Holds, Settled, Outcomes
    <2> QED
      BY <1>0, <2>2, <2>3, ReleaseBudget
  <1>3. ASSUME NEW c \in Cells, TaskAwait(c) PROVE Budget'
    BY <1>0, <1>3, TaskAwaitBudget DEF Before
  <1>4. CASE UNCHANGED slab /\ SettledStay /\ \A t \in Cells : running' = t => MayGoOn(t)
    BY <1>0, <1>4, SameSlabBudget
  <1>5. CASE RunTask
    <2>1. UNCHANGED <<slab, status, waiters>>
      BY <1>5 DEF RunTask
    <2>2. \A t \in Cells : running' = t => MayGoOn(t)
      BY <1>5 DEF RunTask, MayGoOn
    <2> QED
      BY <1>4, <2>1, <2>2, QuietStay
  <1>6. CASE UNCHANGED vars
    <2>1. UNCHANGED <<slab, status, waiters, running>>
      BY <1>6 DEF vars, cellVars, queueVars, pumpVars
    <2> QED
      BY <1>4, <2>1, QuietStay DEF MayGoOn
  <1>7. CASE Next
    <2>1. SettledStay
      BY <1>0, <1>7, StepStays
    <2>2. ASSUME UNCHANGED slab, running' = running \/ running' = None PROVE Budget'
      BY <1>4, <2>1, <2>2, NoneAssumption DEF MayGoOn
    <2>3. CASE UserCode
      <3>1. ASSUME NEW c \in Cells, Spawn(c) \/ Cancel(c) \/ AwaitSettled(c) PROVE Budget'
        BY <2>2, <3>1 DEF Spawn, Cancel, AwaitSettled, queueVars, pumpVars
      <3>2. ASSUME NEW c \in Cells, NEW o, BornSettled(c, o) \/ FromHost(c, o) PROVE Budget'
        BY <2>2, <3>2 DEF BornSettled, FromHost, queueVars, pumpVars
      <3>3. ASSUME NEW p \in Cells, NEW children, Parallel(p, children) PROVE Budget'
        <4>1. UNCHANGED <<slab, running>>
          BY <3>3 DEF Parallel, queueVars, pumpVars
        <4> QED
          BY <2>2, <4>1
      <3>4. ASSUME NEW o, Finish(o) PROVE Budget'
        BY <2>2, <3>4 DEF Finish, queueVars
      <3>5. CASE TaskYield
        BY <2>2, <3>5 DEF TaskYield
      <3> QED
        BY <1>3, <2>3, <3>1, <3>2, <3>3, <3>4, <3>5 DEF UserCode
    <2>4. CASE EntryPoint
      <3>1. UNCHANGED <<slab, running>>
        BY <2>4 DEF EntryPoint, MainAwait, CallMain, MainEnd, queueVars
      <3> QED
        BY <2>2, <3>1
    <2>5. CASE HostThreads
      <3>1. UNCHANGED <<slab, running>>
        BY <2>5 DEF HostThreads, HostComplete, queueVars, pumpVars
      <3> QED
        BY <2>2, <3>1
    <2>6. CASE Pump
      <3>1. CASE NotifyAwaiter \/ GatherOne \/ PumpReturn \/ PumpTop \/ DrainHosts
        <4>1. UNCHANGED <<slab, running>>
          BY <3>1 DEF NotifyAwaiter, GatherOne, PumpReturn, PumpTop, DrainHosts, queueVars, pumpVars
        <4> QED
          BY <2>2, <4>1
      <3>2. CASE CompleteHost \/ HostsDone \/ CollectDone \/ GoToSleep \/ WakeUp
        <4>1. UNCHANGED <<slab, running>>
          BY <3>2 DEF CompleteHost, HostsDone, CollectDone, GoToSleep, WakeUp, queueVars
        <4> QED
          BY <2>2, <4>1
      <3> QED
        BY <1>1, <1>2, <1>5, <2>6, <3>1, <3>2, NeverReparks DEF Pump
    <2> QED
      BY <1>7, <2>3, <2>4, <2>5, <2>6 DEF Next, VmThread
  <1> QED
    BY <1>6, <1>7

\* There are more generations than pairs of cells: than times a task can begin
\* to await a pending cell.
Plenty == Generations > Cardinality(Cells) * Cardinality(Cells) + 1

LEMMA EnoughLeft == TInv /\ Budget /\ Plenty => NoneWraps
  <1> SUFFICES ASSUME TInv, Budget, Plenty, NEW i \in DOMAIN slab.cells
               PROVE  slab.cells[i].gen < Generations - 1
    BY DEF NoneWraps
  <1>1. PICK g, n, s : g = slab.cells[i].gen /\ n = Cardinality(MayPark) /\ s = Spent(slab, i)
    OBVIOUS
  <1>2. g \in Int /\ s \in Int /\ g <= s
    BY <1>1, SpentType DEF TInv, Created
  <1>3. n \in Nat /\ Pairs \in Nat
    BY <1>1, MayParkFinite DEF PairsCounted
  <1>4. s + n <= Pairs
    BY <1>1 DEF Budget
  <1>5. Generations > Pairs + 1 /\ Generations \in Int
    BY GenerationsAssumption DEF Plenty, Pairs
  <1>6. g < Generations - 1
    BY ONLY <1>2, <1>3, <1>4, <1>5
  <1> QED
    BY <1>1, <1>6

\* A slot of the slab never comes to its last generation in a program that has
\* fewer pairs of handles than there are generations.
THEOREM SlotsNeverWrap == Plenty /\ Spec => []NoneWraps
  <1> DEFINE Inv == Plenty /\ LineParts /\ Budget
  <1>1. Plenty /\ Init /\ HomeInv /\ Viewed => Inv
    <2> SUFFICES ASSUME Plenty, Init, HomeInv, Viewed PROVE Inv
      OBVIOUS
    <2>1. LineParts
      BY InitMaps DEF HomeInv
    <2>2. Budget
      BY DEF Budget, Init, EmptySlab
    <2> QED
      BY <2>1, <2>2
  <1>2. Inv /\ HomeInv /\ Viewed => NoneWraps
    BY EnoughLeft DEF HomeInv
  <1>3. Inv /\ HomeInv /\ Viewed /\ HomeInv' /\ Viewed' /\ [Next]_vars => Inv'
    <2> SUFFICES ASSUME Inv, Before, After, [Next]_vars PROVE Inv'
      BY DEF Before, After
    <2>1. NoneWraps
      BY <1>2 DEF Before
    <2>2. LineParts'
      BY <2>1, StepMaps
    <2>3. Unwrapped(slab) /\ TInv'
      BY <2>1 DEF NoneWraps, Unwrapped, After, HomeInv
    <2>4. Budget'
      BY <2>3, BudgetStep
    <2>5. Plenty'
      BY DEF Plenty
    <2> QED
      BY <2>2, <2>4, <2>5
  <1>4. Spec => []HomeInv /\ []Viewed
    <2>1. HomeInv => Viewed
      BY LinesViewed DEF HomeInv
    <2> QED
      BY <2>1, HomesAlways, PTL
  <1> QED
    BY <1>1, <1>2, <1>3, <1>4, PTL DEF Spec

\* The queue, the slab of parked tasks, the tokens and the pump do what the
\* promise says of every program with fewer pairs of handles than there are
\* generations (2^32): handles settle once, awaiters resume in the order in
\* which they began to await, once each, only after the handle has settled, and
\* never after their own has.
THEOREM HandlesKept == Plenty /\ Spec => ImplementsTaskHandles
  BY SlotsNeverWrap, HandlesKeptUnwrapped, PTL

=============================================================================
