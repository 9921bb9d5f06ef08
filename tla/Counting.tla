------------------------------ MODULE Counting ------------------------------
(***************************************************************************)
(* How many members of a set a function puts at some places, and how that  *)
(* number changes when one member moves: the counters of the worker pool,  *)
(* of semaphores and of wait groups are proved to be such numbers.  And    *)
(* what a queue holds when its head is taken or a member is added.         *)
(***************************************************************************)
EXTENDS Integers, Sequences, FiniteSets, FiniteSetTheorems, SequenceTheorems, FunctionTheorems,
        TLAPS

\* How many members of X the function f puts at one of the places P.
Count(X, f, P) == Cardinality({x \in X : f[x] \in P})

\* From f to g, x alone changes place, from a to b.
Goes(X, f, g, x, a, b) ==
    f[x] = a /\ g[x] = b /\ \A y \in X \ {x} : g[y] = f[y]

LEMMA CountType ==
  ASSUME NEW X, IsFiniteSet(X), NEW f
  PROVE  \A P : IsFiniteSet({x \in X : f[x] \in P}) /\ Count(X, f, P) \in Nat
  BY FS_Subset, FS_CardinalityType DEF Count

LEMMA Moves ==
  ASSUME NEW X, IsFiniteSet(X), NEW f, NEW g, NEW x \in X, NEW a, NEW b,
         Goes(X, f, g, x, a, b)
  PROVE  \A P : Count(X, g, P) = IF b \in P /\ a \notin P THEN Count(X, f, P) + 1
                                 ELSE IF a \in P /\ b \notin P THEN Count(X, f, P) - 1
                                 ELSE Count(X, f, P)
  <1> TAKE P
  <1> DEFINE F == {y \in X : f[y] \in P}
             G == {y \in X : g[y] \in P}
  <1>1. IsFiniteSet(F)
    BY CountType
  <1>2. CASE b \in P /\ a \notin P
    <2>1. G = F \cup {x} /\ x \notin F
      BY <1>2 DEF Goes
    <2> QED
      BY <1>1, <1>2, <2>1, FS_AddElement DEF Count
  <1>3. CASE a \in P /\ b \notin P
    <2>1. G = F \ {x} /\ x \in F
      BY <1>3 DEF Goes
    <2> QED
      BY <1>1, <1>3, <2>1, FS_RemoveElement DEF Count
  <1>4. CASE a \in P <=> b \in P
    <2>1. G = F
      BY <1>4 DEF Goes
    <2> QED
      BY <1>4, <2>1 DEF Count
  <1> QED
    BY <1>2, <1>3, <1>4

\* More places hold no fewer members, and no places more than there are.
LEMMA CountGrows ==
  ASSUME NEW X, IsFiniteSet(X), NEW f, NEW P, NEW Q, P \subseteq Q
  PROVE  Count(X, f, P) <= Count(X, f, Q) /\ Count(X, f, Q) <= Cardinality(X)
  <1> DEFINE A == {x \in X : f[x] \in P}
             B == {x \in X : f[x] \in Q}
  <1>1. A \subseteq B /\ B \subseteq X /\ IsFiniteSet(B)
    BY CountType
  <1> QED
    BY <1>1, FS_Subset DEF Count

-----------------------------------------------------------------------------
\* What is at the positions of a queue whose head is taken.
LEMMA TailParts ==
  ASSUME NEW S, NEW s \in Seq(S), s # <<>>
  PROVE  /\ Tail(s) \in Seq(S) /\ Len(s) \in Nat /\ DOMAIN s = 1..Len(s)
         /\ 1 \in DOMAIN s /\ Head(s) = s[1] /\ Head(s) \in S
         /\ DOMAIN Tail(s) = 1..(Len(s) - 1)
         /\ \A k \in DOMAIN Tail(s) : k + 1 \in DOMAIN s /\ Tail(s)[k] = s[k + 1]
         /\ \A k \in DOMAIN s : k = 1 \/ (k - 1 \in DOMAIN Tail(s) /\ Tail(s)[k - 1] = s[k])
  <1>1. /\ Tail(s) \in Seq(S) /\ Len(Tail(s)) = Len(s) - 1
        /\ \A i \in 1..Len(Tail(s)) : Tail(s)[i] = s[i + 1]
    BY HeadTailProperties
  <1>2. Len(s) \in Nat \ {0} /\ DOMAIN s = 1..Len(s)
    BY EmptySeq, LenProperties
  <1>3. DOMAIN Tail(s) = 1..(Len(s) - 1)
    BY <1>1, LenProperties
  <1>4. Head(s) = s[1] /\ Head(s) \in S
    BY <1>2, ElementOfSeq
  <1>5. \A k \in DOMAIN s : k = 1 \/ (k - 1 \in DOMAIN Tail(s) /\ Tail(s)[k - 1] = s[k])
    <2> SUFFICES ASSUME NEW k \in DOMAIN s, k # 1
                 PROVE  k - 1 \in DOMAIN Tail(s) /\ Tail(s)[k - 1] = s[k]
      OBVIOUS
    <2>1. k - 1 \in 1..(Len(s) - 1) /\ (k - 1) + 1 = k
      BY <1>2
    <2>2. Tail(s)[k - 1] = s[(k - 1) + 1]
      BY <1>1, <2>1
    <2> QED
      BY <1>3, <2>1, <2>2
  <1> QED
    BY <1>1, <1>2, <1>3, <1>4, <1>5

\* And of one that e is added to.
LEMMA AppendParts ==
  ASSUME NEW S, NEW s \in Seq(S), NEW e \in S
  PROVE  /\ Append(s, e) \in Seq(S) /\ Len(s) \in Nat /\ DOMAIN s = 1..Len(s)
         /\ DOMAIN Append(s, e) = 1..(Len(s) + 1)
         /\ Append(s, e)[Len(s) + 1] = e
         /\ \A k \in DOMAIN s : k \in DOMAIN Append(s, e) /\ Append(s, e)[k] = s[k]
         /\ \A k \in DOMAIN Append(s, e) :
               (k \in DOMAIN s /\ Append(s, e)[k] = s[k]) \/ (k = Len(s) + 1 /\ Append(s, e)[k] = e)
  <1>1. /\ Append(s, e) \in Seq(S) /\ Len(Append(s, e)) = Len(s) + 1
        /\ \A k \in 1..Len(s) : Append(s, e)[k] = s[k]
        /\ Append(s, e)[Len(s) + 1] = e
    BY AppendProperties
  <1>2. Len(s) \in Nat /\ DOMAIN s = 1..Len(s) /\ DOMAIN Append(s, e) = 1..(Len(s) + 1)
    BY <1>1, LenProperties
  <1> QED
    BY <1>1, <1>2

\* And of one that loses its last.
LEMMA FrontParts ==
  ASSUME NEW S, NEW s \in Seq(S), s # <<>>
  PROVE  /\ SubSeq(s, 1, Len(s) - 1) \in Seq(S)
         /\ Len(s) \in Nat \ {0} /\ DOMAIN s = 1..Len(s)
         /\ DOMAIN SubSeq(s, 1, Len(s) - 1) = 1..(Len(s) - 1)
         /\ \A k \in 1..(Len(s) - 1) : SubSeq(s, 1, Len(s) - 1)[k] = s[k]
  <1>1. Len(s) \in Nat \ {0} /\ DOMAIN s = 1..Len(s)
    BY EmptySeq, LenProperties
  <1>2. 1 \in Int /\ Len(s) - 1 \in Int /\ \A i \in 1..(Len(s) - 1) : s[i] \in S
    BY <1>1, ElementOfSeq
  <1>3. /\ SubSeq(s, 1, Len(s) - 1) \in Seq(S)
        /\ Len(SubSeq(s, 1, Len(s) - 1)) = IF 1 <= Len(s) - 1 THEN Len(s) - 1 - 1 + 1 ELSE 0
        /\ \A i \in 1..(Len(s) - 1 - 1 + 1) : SubSeq(s, 1, Len(s) - 1)[i] = s[1 + i - 1]
    BY <1>2, SubSeqProperties
  <1>4. DOMAIN SubSeq(s, 1, Len(s) - 1) = 1..Len(SubSeq(s, 1, Len(s) - 1))
    BY <1>3, LenProperties
  <1>5. Len(SubSeq(s, 1, Len(s) - 1)) = Len(s) - 1
    BY <1>1, <1>3
  <1>6. \A k \in 1..(Len(s) - 1) : 1 + k - 1 = k /\ k \in 1..(Len(s) - 1 - 1 + 1)
    BY <1>1
  <1> QED
    BY <1>1, <1>3, <1>4, <1>5, <1>6

\* A set without two different members.
LEMMA Lone ==
  ASSUME NEW S, \A x, y \in S : x = y
  PROVE  IsFiniteSet(S) /\ Cardinality(S) = IF S = {} THEN 0 ELSE 1
  <1>1. CASE S = {}
    BY <1>1, FS_EmptySet
  <1>2. CASE S # {}
    <2>1. PICK x : S = {x}
      BY <1>2
    <2> QED
      BY <1>2, <2>1, FS_Singleton
  <1> QED
    BY <1>1, <1>2

\* u is t behind s: what its entries are, by index.
IsConcat(u, s, t, S) ==
    /\ u \in Seq(S) /\ DOMAIN u = 1..(Len(s) + Len(t))
    /\ \A k \in DOMAIN s : k \in DOMAIN u /\ u[k] = s[k]
    /\ \A k \in DOMAIN t : Len(s) + k \in DOMAIN u /\ u[Len(s) + k] = t[k]
    /\ \A k \in DOMAIN u :
          \/ k \in DOMAIN s /\ u[k] = s[k]
          \/ k \notin DOMAIN s /\ k - Len(s) \in DOMAIN t /\ u[k] = t[k - Len(s)]

LEMMA ConcatOf ==
  ASSUME NEW S, NEW s \in Seq(S), NEW t \in Seq(S)
  PROVE  IsConcat(s \o t, s, t, S)
  <1> SUFFICES ASSUME NEW u, u = s \o t PROVE IsConcat(u, s, t, S)
    OBVIOUS
  <1>1. /\ s \o t \in Seq(S) /\ Len(s \o t) = Len(s) + Len(t)
        /\ \A i \in 1..(Len(s) + Len(t)) :
              (s \o t)[i] = IF i <= Len(s) THEN s[i] ELSE t[i - Len(s)]
    BY ConcatProperties
  <1>2. /\ Len(s) \in Nat /\ Len(t) \in Nat /\ DOMAIN s = 1..Len(s) /\ DOMAIN t = 1..Len(t)
        /\ u \in Seq(S) /\ DOMAIN u = 1..(Len(s) + Len(t))
    BY <1>1, LenProperties
  <1>3. \A i \in 1..(Len(s) + Len(t)) : u[i] = IF i <= Len(s) THEN s[i] ELSE t[i - Len(s)]
    BY <1>1
  <1>4. ASSUME NEW k \in DOMAIN t
        PROVE  Len(s) + k \in DOMAIN u /\ u[Len(s) + k] = t[k]
    <2>1. Len(s) + k \in 1..(Len(s) + Len(t)) /\ ~(Len(s) + k <= Len(s)) /\ Len(s) + k - Len(s) = k
      BY <1>2
    <2> QED
      BY <1>2, <1>3, <2>1
  <1> QED
    BY ONLY <1>2, <1>3, <1>4 DEF IsConcat

\* What the entries of a concatenation are, by index.
LEMMA ConcatParts ==
  ASSUME NEW S, NEW s \in Seq(S), NEW t \in Seq(S)
  PROVE  /\ s \o t \in Seq(S) /\ DOMAIN (s \o t) = 1..(Len(s) + Len(t))
         /\ \A k \in DOMAIN s : k \in DOMAIN (s \o t) /\ (s \o t)[k] = s[k]
         /\ \A k \in DOMAIN t : Len(s) + k \in DOMAIN (s \o t) /\ (s \o t)[Len(s) + k] = t[k]
         /\ \A k \in DOMAIN (s \o t) :
               \/ k \in DOMAIN s /\ (s \o t)[k] = s[k]
               \/ k \notin DOMAIN s /\ k - Len(s) \in DOMAIN t /\ (s \o t)[k] = t[k - Len(s)]
  BY ConcatOf DEF IsConcat

-----------------------------------------------------------------------------
\* How often x is in a sequence.
Occurs(x, s) == Cardinality({k \in DOMAIN s : s[k] = x})

LEMMA OccursType ==
  ASSUME NEW S, NEW s \in Seq(S)
  PROVE  \A x : IsFiniteSet({k \in DOMAIN s : s[k] = x}) /\ Occurs(x, s) \in Nat
  <1>1. DOMAIN s = 1..Len(s) /\ Len(s) \in Nat
    BY LenProperties
  <1>2. IsFiniteSet(DOMAIN s)
    BY <1>1, FS_Interval
  <1> QED
    BY <1>2, FS_Subset, FS_CardinalityType DEF Occurs

LEMMA OccursNever ==
  ASSUME NEW x, NEW s
  PROVE  (\A k \in DOMAIN s : s[k] # x) => Occurs(x, s) = 0
  <1> SUFFICES ASSUME \A k \in DOMAIN s : s[k] # x PROVE Occurs(x, s) = 0
    OBVIOUS
  <1>1. {k \in DOMAIN s : s[k] = x} = {}
    OBVIOUS
  <1> QED
    BY <1>1, FS_EmptySet DEF Occurs

LEMMA OccursSome ==
  ASSUME NEW S, NEW s \in Seq(S), NEW x, Occurs(x, s) = 0
  PROVE  \A k \in DOMAIN s : s[k] # x
  <1>1. {k \in DOMAIN s : s[k] = x} = {}
    BY OccursType, FS_EmptySet DEF Occurs
  <1> QED
    BY <1>1

LEMMA OccursAppend ==
  ASSUME NEW S, NEW s \in Seq(S), NEW e \in S
  PROVE  \A x : Occurs(x, Append(s, e)) = Occurs(x, s) + (IF x = e THEN 1 ELSE 0)
  <1> TAKE x
  <1> DEFINE A == {k \in DOMAIN s : s[k] = x}
             B == {k \in DOMAIN Append(s, e) : Append(s, e)[k] = x}
             n == Len(s) + 1
  <1>1. /\ Len(s) \in Nat /\ DOMAIN s = 1..Len(s)
        /\ DOMAIN Append(s, e) = 1..(Len(s) + 1) /\ Append(s, e)[Len(s) + 1] = e
        /\ \A k \in DOMAIN s : k \in DOMAIN Append(s, e) /\ Append(s, e)[k] = s[k]
        /\ \A k \in DOMAIN Append(s, e) :
               (k \in DOMAIN s /\ Append(s, e)[k] = s[k]) \/ (k = Len(s) + 1 /\ Append(s, e)[k] = e)
    BY AppendParts
  <1>2. n \notin A /\ n \in DOMAIN Append(s, e)
    BY <1>1
  <1>3. IsFiniteSet(A) /\ Cardinality(A) \in Nat
    BY OccursType, FS_CardinalityType
  <1>4. B = IF x = e THEN A \cup {n} ELSE A
    BY <1>1, <1>2
  <1>5. Occurs(x, s) = Cardinality(A) /\ Occurs(x, Append(s, e)) = Cardinality(B)
    BY DEF Occurs
  <1> HIDE DEF A, B, n
  <1>6. Cardinality(A \cup {n}) = Cardinality(A) + 1
    BY <1>2, <1>3, FS_AddElement
  <1> QED
    BY <1>3, <1>4, <1>5, <1>6

LEMMA OccursTail ==
  ASSUME NEW S, NEW s \in Seq(S), s # <<>>
  PROVE  \A x : Occurs(x, s) = Occurs(x, Tail(s)) + (IF x = Head(s) THEN 1 ELSE 0)
  <1> TAKE x
  <1> DEFINE A == {k \in DOMAIN Tail(s) : Tail(s)[k] = x}
             B == {k \in DOMAIN s : s[k] = x}
             C == B \ {1}
             f == [k \in A |-> k + 1]
  <1>1. /\ Tail(s) \in Seq(S) /\ Len(s) \in Nat /\ DOMAIN s = 1..Len(s)
        /\ 1 \in DOMAIN s /\ Head(s) = s[1]
        /\ DOMAIN Tail(s) = 1..(Len(s) - 1)
        /\ \A k \in DOMAIN Tail(s) : k + 1 \in DOMAIN s /\ Tail(s)[k] = s[k + 1]
        /\ \A k \in DOMAIN s : k = 1 \/ (k - 1 \in DOMAIN Tail(s) /\ Tail(s)[k - 1] = s[k])
    BY TailParts
  <1>2. IsFiniteSet(A) /\ IsFiniteSet(B) /\ Cardinality(A) \in Nat /\ Cardinality(B) \in Nat
    <2>1. IsFiniteSet(A) /\ IsFiniteSet(B)
      BY <1>1, OccursType
    <2> HIDE DEF A, B
    <2> QED
      BY <2>1, FS_CardinalityType
  <1>3. f \in [A -> C]
    BY <1>1
  <1>4. \A i, j \in A : f[i] = f[j] => i = j
    BY <1>1
  <1>5. \A c \in C : \E k \in A : f[k] = c
    <2> TAKE c \in C
    <2>1. c - 1 \in A /\ f[c - 1] = c
      BY <1>1
    <2> QED
      BY <2>1
  <1>6. f \in Bijection(A, C)
    BY <1>3, <1>4, <1>5, Fun_IsBij
  <1>7. ExistsBijection(A, C)
    BY <1>6 DEF ExistsBijection
  <1>8. Cardinality(C) = Cardinality(A)
    BY <1>2, <1>7, FS_Bijection
  <1>9. Occurs(x, Tail(s)) = Cardinality(A) /\ Occurs(x, s) = Cardinality(B)
    BY DEF Occurs
  <1>10. 1 \in B <=> x = Head(s)
    BY <1>1
  <1>11. Cardinality(C) = IF 1 \in B THEN Cardinality(B) - 1 ELSE Cardinality(B)
    BY <1>2, FS_RemoveElement
  <1> HIDE DEF A, B, C, f
  <1> QED
    BY <1>2, <1>8, <1>9, <1>10, <1>11

\* A run of n members w behind a sequence.
LEMMA OccursRun ==
  ASSUME NEW S, NEW s \in Seq(S), NEW w \in S, NEW n \in Nat, NEW u, NEW run \in Seq(S),
         Len(run) = n, \A k \in DOMAIN run : run[k] = w, IsConcat(u, s, run, S)
  PROVE  \A x : Occurs(x, u) = Occurs(x, s) + (IF x = w THEN n ELSE 0)
  <1> TAKE x
  <1> DEFINE A == {k \in DOMAIN s : s[k] = x}
             B == {k \in DOMAIN u : u[k] = x}
             R == (Len(s) + 1)..(Len(s) + n)
  <1>1. DOMAIN run = 1..n
    BY LenProperties
  <1>2. Len(s) \in Nat /\ DOMAIN s = 1..Len(s)
    BY LenProperties
  <1>3. /\ DOMAIN u = 1..(Len(s) + n)
        /\ \A k \in DOMAIN s : k \in DOMAIN u /\ u[k] = s[k]
        /\ \A k \in DOMAIN u :
               \/ k \in DOMAIN s /\ u[k] = s[k]
               \/ k \notin DOMAIN s /\ u[k] = w
    BY <1>1 DEF IsConcat
  <1>4. IsFiniteSet(A) /\ Cardinality(A) \in Nat
    BY OccursType, FS_CardinalityType
  <1>5. IsFiniteSet(R) /\ Cardinality(R) = n
    <2> SUFFICES ASSUME NEW a \in Int, NEW b \in Int, a = Len(s) + 1, b = Len(s) + n
                 PROVE  IsFiniteSet(a..b) /\ Cardinality(a..b) = n
      BY <1>2
    <2>1. IsFiniteSet(a..b) /\ Cardinality(a..b) = IF a > b THEN 0 ELSE b - a + 1
      BY FS_Interval
    <2>2. (IF a > b THEN 0 ELSE b - a + 1) = n
      BY <1>2
    <2> QED
      BY <2>1, <2>2
  <1>6. A \cap R = {}
    BY <1>2
  <1>7. B = IF x = w THEN A \cup R ELSE A
    BY <1>2, <1>3
  <1>8. Occurs(x, s) = Cardinality(A) /\ Occurs(x, u) = Cardinality(B)
    BY DEF Occurs
  <1> HIDE DEF A, B, R
  <1>9. Cardinality(A \cup R) = Cardinality(A) + n
    <2>1. Cardinality(A \cup R) = Cardinality(A) + Cardinality(R) - Cardinality(A \cap R)
      BY <1>4, <1>5, FS_Union
    <2>2. Cardinality(A \cap R) = 0
      BY <1>6, FS_EmptySet
    <2> QED
      BY <1>4, <1>5, <2>1, <2>2
  <1> QED
    BY <1>4, <1>7, <1>8, <1>9

=============================================================================
