------------------------- MODULE MissionQueue_proofs -------------------------
(***************************************************************************)
(* Proofs about the vector of MissionQueue, for any priorities and any     *)
(* number of missions.  Arranged is shown to list the elements it is given *)
(* once each in the order it is given, whatever that order is; the sort    *)
(* and the erase are two uses of it.                                       *)
(***************************************************************************)
EXTENDS MissionQueue, FiniteSetTheorems, FunctionTheorems, TLAPS

-----------------------------------------------------------------------------
\* R is a strict total order on I.
Orders(R, I) ==
  /\ \A j \in I : <<j, j>> \notin R
  /\ \A j, k, l \in I : <<j, k>> \in R /\ <<k, l>> \in R => <<j, l>> \in R
  /\ \A j, k \in I : j # k => <<j, k>> \in R \/ <<k, j>> \in R

\* What R puts ahead of j, and how much that is.
AheadOf(R, I, j) == {k \in I : <<k, j>> \in R}
Rank(R, I, j) == Cardinality(AheadOf(R, I, j))

\* Of two elements the one ahead has the smaller rank.
LEMMA RankGrows ==
  ASSUME NEW I, NEW R, IsFiniteSet(I), Orders(R, I),
         NEW j \in I, NEW k \in I, <<j, k>> \in R
  PROVE  Rank(R, I, j) < Rank(R, I, k)
<1>1. AheadOf(R, I, j) \subseteq AheadOf(R, I, k)
  BY DEF Orders, AheadOf
<1>2. j \in AheadOf(R, I, k) /\ j \notin AheadOf(R, I, j)
  BY DEF Orders, AheadOf
<1>3. IsFiniteSet(AheadOf(R, I, k))
  BY FS_Subset DEF AheadOf
<1> QED BY <1>1, <1>2, <1>3, FS_Subset, FS_CardinalityType DEF Rank

\* The ranks are the numbers below the size of the set.
LEMMA RankRange ==
  ASSUME NEW I, NEW R, IsFiniteSet(I), Orders(R, I), NEW j \in I
  PROVE  Rank(R, I, j) \in 0 .. Cardinality(I) - 1
<1>1. AheadOf(R, I, j) \subseteq I /\ j \notin AheadOf(R, I, j)
  BY DEF Orders, AheadOf
<1> QED BY <1>1, FS_Subset, FS_CardinalityType DEF Rank

\* Each of these numbers is the rank of an element: there are as many ranks as
\* elements, and as many numbers.
LEMMA RankOnto ==
  ASSUME NEW I, NEW R, IsFiniteSet(I), Orders(R, I), NEW i \in 1 .. Cardinality(I)
  PROVE  \E j \in I : Rank(R, I, j) = i - 1
<1> DEFINE n == Cardinality(I)
           f == [j \in I |-> Rank(R, I, j)]
           T == 0 .. n - 1
<1>1. n \in Nat
  BY FS_CardinalityType
<1>2. f \in [I -> T]
  BY RankRange
<1>3. \A j, k \in I : f[j] = f[k] => j = k
  <2> SUFFICES ASSUME NEW j \in I, NEW k \in I, j # k
               PROVE  f[j] # f[k]
    OBVIOUS
  <2>1. CASE <<j, k>> \in R
    BY <2>1, RankGrows, RankRange
  <2>2. CASE <<k, j>> \in R
    BY <2>2, RankGrows, RankRange
  <2> QED BY <2>1, <2>2 DEF Orders
<1> HIDE DEF f, n, T
<1>4. f \in Injection(I, T)
  BY <1>2, <1>3 DEF Injection, IsInjective
<1>5. IsFiniteSet(T) /\ Cardinality(T) = n
  BY <1>1, FS_Interval DEF T
<1>6. f \in Surjection(I, T)
  BY <1>4, <1>5, FS_Injection DEF n
<1>7. i - 1 \in T
  BY <1>1 DEF T, n
<1>8. PICK j \in I : f[j] = i - 1
  BY <1>6, <1>7 DEF Surjection
<1> QED BY <1>8 DEF f

-----------------------------------------------------------------------------
\* Where Arranged takes its i-th element from.
From(I, R) ==
  [i \in 1 .. Cardinality(I) |->
     CHOOSE j \in I : Cardinality({k \in I : <<k, j>> \in R}) = i - 1]

\* f lists the positions I once each, in the order R.
Lists(f, I, R) ==
  /\ f \in [1 .. Cardinality(I) -> I]
  /\ \A i, j \in 1 .. Cardinality(I) : i < j => <<f[i], f[j]>> \in R
  /\ \A k \in I : \E i \in 1 .. Cardinality(I) : f[i] = k

LEMMA FromLists ==
  ASSUME NEW I, NEW R, IsFiniteSet(I), Orders(R, I)
  PROVE  Lists(From(I, R), I, R)
<1> DEFINE n == Cardinality(I)
           f == From(I, R)
<1>1. n \in Nat
  BY FS_CardinalityType
<1>2. ASSUME NEW i \in 1 .. n
      PROVE  f[i] \in I /\ Rank(R, I, f[i]) = i - 1
  <2>1. f[i] = CHOOSE j \in I : Rank(R, I, j) = i - 1
    BY DEF From, Rank, AheadOf
  <2>2. \E j \in I : Rank(R, I, j) = i - 1
    BY RankOnto
  <2> QED BY <2>1, <2>2
<1>3. f \in [1 .. n -> I]
  BY <1>2 DEF From
<1>4. ASSUME NEW i \in 1 .. n, NEW j \in 1 .. n, i < j
      PROVE  <<f[i], f[j]>> \in R
  <2>1. f[i] # f[j]
    BY <1>1, <1>2, <1>4
  <2>2. CASE <<f[j], f[i]>> \in R
    <3>1. Rank(R, I, f[j]) < Rank(R, I, f[i])
      BY <1>2, <2>2, RankGrows
    <3> QED BY <1>1, <1>2, <1>4, <3>1
  <2> QED BY <1>2, <2>1, <2>2 DEF Orders
<1>5. ASSUME NEW k \in I
      PROVE  \E i \in 1 .. n : f[i] = k
  <2>1. PICK i \in 1 .. n : Rank(R, I, k) = i - 1
    <3>1. Rank(R, I, k) \in 0 .. n - 1
      BY RankRange
    <3>2. Rank(R, I, k) + 1 \in 1 .. n
      BY <1>1, <3>1
    <3> QED BY <3>1, <3>2
  <2>2. f[i] \in I /\ Rank(R, I, f[i]) = Rank(R, I, k)
    BY <1>2, <2>1
  <2>3. f[i] = k
    <3>1. ASSUME <<f[i], k>> \in R PROVE FALSE
      BY <2>2, <3>1, RankGrows, RankRange
    <3>2. ASSUME <<k, f[i]>> \in R PROVE FALSE
      BY <2>2, <3>2, RankGrows, RankRange
    <3> QED BY <2>2, <3>1, <3>2 DEF Orders
  <2> QED BY <2>3
<1> QED BY <1>3, <1>4, <1>5 DEF Lists

\* Arranged reads q at the positions From lists.
LEMMA ArrangedReads ==
  ASSUME NEW q, NEW I, NEW R
  PROVE  Arranged(q, I, R) = [i \in 1 .. Cardinality(I) |-> q[From(I, R)[i]]]
BY DEF Arranged, From

LEMMA ArrangedLists ==
  ASSUME NEW q, NEW I, NEW R, IsFiniteSet(I), Orders(R, I)
  PROVE  /\ DOMAIN Arranged(q, I, R) = 1 .. Cardinality(I)
         /\ Lists(From(I, R), I, R)
         /\ \A i \in 1 .. Cardinality(I) : Arranged(q, I, R)[i] = q[From(I, R)[i]]
BY FromLists, ArrangedReads

-----------------------------------------------------------------------------
\* The missions of q are of their own, numbered in the order they were queued,
\* the last of them c.
Numbered(q, c) ==
  /\ q \in Seq(Mission) /\ Len(q) <= c
  /\ \A i \in DOMAIN q : q[i].id <= c /\ q[i].sequence = q[i].id - 1
  /\ \A i, j \in DOMAIN q : q[i].id = q[j].id => i = j

\* The vector is sorted.
InOrder(q) == \A i, j \in DOMAIN q : i < j => Before(q[i], q[j])

LEMMA MissionTypes ==
  ASSUME NEW m \in Mission
  PROVE  m.id \in Nat /\ m.sequence \in Nat /\ m.priority \in Int
<1>1. m.id \in 1 .. MaxMissions /\ m.sequence \in 0 .. MaxMissions - 1
      /\ m.priority \in Priorities
  BY DEF Mission
<1>2. MaxMissions \in Nat /\ Priorities \subseteq Int
  BY QueueAssumption DEF QueueAssumption
<1>3. m.priority \in Int
  BY <1>1, <1>2, Zenon
<1>4. m.id \in Nat /\ m.sequence \in Nat
  BY <1>1, <1>2
<1> QED BY <1>3, <1>4

\* A vector has finitely many positions, as many as it is long.
LEMMA Positions ==
  ASSUME NEW q, NEW c, Numbered(q, c)
  PROVE  /\ Len(q) \in Nat /\ DOMAIN q = 1 .. Len(q)
         /\ IsFiniteSet(DOMAIN q) /\ Cardinality(DOMAIN q) = Len(q)
<1>1. Len(q) \in Nat /\ DOMAIN q = 1 .. Len(q)
  BY DEF Numbered
<1>2. IsFiniteSet(1 .. Len(q)) /\ Cardinality(1 .. Len(q)) = Len(q)
  <2> DEFINE n == Len(q)
  <2> HIDE DEF n
  <2>1. n \in Nat
    BY <1>1 DEF n
  <2>2. IsFiniteSet(1 .. n) /\ Cardinality(1 .. n) = IF 1 > n THEN 0 ELSE n - 1 + 1
    BY <2>1, FS_Interval
  <2>3. Cardinality(1 .. n) = n
    BY <2>1, <2>2
  <2> QED BY <2>2, <2>3 DEF n
<1> QED BY <1>1, <1>2

\* Some of the missions of a vector, in any order, are still numbered.
LEMMA ArrangedNumbered ==
  ASSUME NEW q, NEW c \in Nat, Numbered(q, c), NEW I \in SUBSET DOMAIN q,
         NEW R, Orders(R, I)
  PROVE  Numbered(Arranged(q, I, R), c)
<1> DEFINE A == Arranged(q, I, R)
           n == Cardinality(I)
           f == From(I, R)
<1>1. Len(q) \in Nat /\ DOMAIN q = 1 .. Len(q)
  BY Positions
<1>2. IsFiniteSet(DOMAIN q) /\ Cardinality(DOMAIN q) = Len(q)
  BY Positions
<1>3. IsFiniteSet(I) /\ n \in Nat /\ n <= Len(q)
  BY <1>2, FS_Subset, FS_CardinalityType
<1>4. A = [i \in 1 .. n |-> q[f[i]]]
  BY ArrangedReads
<1>5. Lists(f, I, R)
  BY <1>3, FromLists
<1> HIDE DEF A, n, f
<1>6. f \in [1 .. n -> DOMAIN q]
  BY <1>5 DEF Lists, n
<1>7. A \in Seq(Mission) /\ Len(A) = n
  <2>1. \A i \in 1 .. n : q[f[i]] \in Mission
    BY <1>1, <1>6 DEF Numbered
  <2> QED BY <1>3, <1>4, <2>1
<1>8. Len(A) <= c
  BY <1>1, <1>3, <1>7 DEF Numbered
<1>9. \A i \in DOMAIN A : A[i].id <= c /\ A[i].sequence = A[i].id - 1
  BY <1>4, <1>6 DEF Numbered
<1>10. ASSUME NEW i \in DOMAIN A, NEW j \in DOMAIN A, A[i].id = A[j].id
       PROVE  i = j
  <2>1. i \in 1 .. n /\ j \in 1 .. n
    BY <1>4
  <2>2. f[i] = f[j]
    BY <1>4, <1>6, <1>10, <2>1 DEF Numbered
  <2>3. f[i] \in I /\ <<f[i], f[j]>> \notin R /\ <<f[j], f[i]>> \notin R
    BY <1>5, <2>1, <2>2 DEF Lists, Orders, n
  <2>4. ~(i < j) /\ ~(j < i)
    BY <1>5, <2>1, <2>3 DEF Lists, n
  <2> QED BY <1>3, <2>1, <2>4
<1> QED BY <1>7, <1>8, <1>9, <1>10 DEF Numbered, A

\* The comparison tells missions with numbers of their own apart.
LEMMA BeforeOrders ==
  ASSUME NEW q, NEW c \in Nat, Numbered(q, c)
  PROVE  /\ \A p \in Ahead(q) : Before(q[p[1]], q[p[2]])
         /\ Orders(Ahead(q), DOMAIN q)
<1>1. \A i \in DOMAIN q : /\ q[i].id \in Nat /\ q[i].sequence \in Nat
                         /\ q[i].priority \in Int
                         /\ q[i].sequence = q[i].id - 1
  BY MissionTypes DEF Numbered
<1>2. \A i, j \in DOMAIN q : i # j => Before(q[i], q[j]) \/ Before(q[j], q[i])
  <2> SUFFICES ASSUME NEW i \in DOMAIN q, NEW j \in DOMAIN q, i # j
               PROVE  Before(q[i], q[j]) \/ Before(q[j], q[i])
    OBVIOUS
  <2>1. q[i].id # q[j].id
    BY DEF Numbered
  <2>2. q[i].sequence # q[j].sequence
    BY <1>1, <2>1
  <2> QED BY <1>1, <2>2 DEF Before
<1>3. \A i, j \in DOMAIN q : /\ Before(q[i], q[j]) => <<i, j>> \in Ahead(q)
                             /\ <<i, j>> \in Ahead(q) => Before(q[i], q[j])
  <2> SUFFICES ASSUME NEW i \in DOMAIN q, NEW j \in DOMAIN q
               PROVE  /\ Before(q[i], q[j]) => <<i, j>> \in Ahead(q)
                      /\ <<i, j>> \in Ahead(q) => Before(q[i], q[j])
    OBVIOUS
  <2>1. i < j => i # j
    <3>1. i \in Nat
      BY Positions
    <3> QED BY <3>1
  <2>2. ASSUME Before(q[i], q[j]) PROVE <<i, j>> \in Ahead(q)
    BY <2>2 DEF Ahead
  <2>3. ASSUME <<i, j>> \in Ahead(q) PROVE Before(q[i], q[j])
    <3>1. \/ Before(q[i], q[j])
          \/ ~Before(q[j], q[i]) /\ i < j
      BY <2>3 DEF Ahead
    <3>2. CASE ~Before(q[j], q[i]) /\ i < j
      BY <1>2, <2>1, <3>2
    <3> QED BY <3>1, <3>2
  <2> QED BY <2>2, <2>3
<1>4. Ahead(q) \subseteq (DOMAIN q) \X (DOMAIN q)
  BY DEF Ahead
<1>5. \A p \in Ahead(q) : Before(q[p[1]], q[p[2]])
  BY <1>3, <1>4
<1>6. \A i \in DOMAIN q : ~Before(q[i], q[i])
  BY <1>1 DEF Before
<1>7. \A i, j, k \in DOMAIN q :
        Before(q[i], q[j]) /\ Before(q[j], q[k]) => Before(q[i], q[k])
  BY <1>1 DEF Before
<1>8. \A i \in DOMAIN q : <<i, i>> \notin Ahead(q)
  BY <1>3, <1>6
<1>9. ASSUME NEW i \in DOMAIN q, NEW j \in DOMAIN q, i # j
      PROVE  <<i, j>> \in Ahead(q) \/ <<j, i>> \in Ahead(q)
  BY <1>2, <1>3, <1>9
<1>10. ASSUME NEW i \in DOMAIN q, NEW j \in DOMAIN q, NEW k \in DOMAIN q,
              <<i, j>> \in Ahead(q), <<j, k>> \in Ahead(q)
       PROVE  <<i, k>> \in Ahead(q)
  <2>1. Before(q[i], q[j]) /\ Before(q[j], q[k])
    BY <1>3, <1>10
  <2>2. Before(q[i], q[k])
    BY <1>7, <2>1
  <2> QED BY <1>3, <2>2
<1>11. Orders(Ahead(q), DOMAIN q)
  BY <1>8, <1>9, <1>10, Zenon DEF Orders
<1> QED BY <1>5, <1>11

\* What sort_queue_locked does: the same missions, in order.
LEMMA SortedInOrder ==
  ASSUME NEW q, NEW c \in Nat, Numbered(q, c)
  PROVE  /\ Numbered(Sorted(q), c) /\ InOrder(Sorted(q))
         /\ \A i \in DOMAIN Sorted(q) : \E k \in DOMAIN q : Sorted(q)[i] = q[k]
<1> DEFINE I == DOMAIN q
           R == Ahead(q)
           f == From(I, R)
<1>1. Orders(R, I) /\ \A p \in R : Before(q[p[1]], q[p[2]])
  BY BeforeOrders
<1>2. IsFiniteSet(I)
  BY Positions
<1>3. /\ DOMAIN Sorted(q) = 1 .. Cardinality(I)
      /\ Lists(f, I, R)
      /\ \A i \in 1 .. Cardinality(I) : Sorted(q)[i] = q[f[i]]
  BY <1>1, <1>2, ArrangedLists DEF Sorted
<1>4. Numbered(Sorted(q), c)
  BY <1>1, ArrangedNumbered DEF Sorted
<1> HIDE DEF I, R, f
<1>5. InOrder(Sorted(q))
  <2> SUFFICES ASSUME NEW i \in DOMAIN Sorted(q), NEW j \in DOMAIN Sorted(q), i < j
               PROVE  Before(Sorted(q)[i], Sorted(q)[j])
    BY DEF InOrder
  <2>1. <<f[i], f[j]>> \in R /\ Sorted(q)[i] = q[f[i]] /\ Sorted(q)[j] = q[f[j]]
    BY <1>3 DEF Lists
  <2>2. Before(q[<<f[i], f[j]>>[1]], q[<<f[i], f[j]>>[2]])
    BY <1>1, <2>1, Zenon
  <2> QED BY <2>1, <2>2
<1>6. \A i \in DOMAIN Sorted(q) : \E k \in DOMAIN q : Sorted(q)[i] = q[k]
  BY <1>3 DEF Lists, I
<1> QED BY <1>4, <1>5, <1>6

\* What an erase does to a sorted vector: the others stay, in order.
LEMMA WithoutInOrder ==
  ASSUME NEW c \in Nat, Numbered(mission_queue, c), InOrder(mission_queue), NEW id
  PROVE  /\ Numbered(Without(id), c) /\ InOrder(Without(id))
         /\ \A i \in DOMAIN Without(id) :
              \E k \in DOMAIN mission_queue : Without(id)[i] = mission_queue[k]
<1> DEFINE D == DOMAIN mission_queue
           I == {i \in D : mission_queue[i].id # id}
           R == {p \in D \X D : p[1] < p[2]}
           f == From(I, R)
<1>1. D \subseteq Nat /\ IsFiniteSet(D)
  BY Positions
<1>2. Orders(R, I)
  BY <1>1 DEF Orders
<1>3. IsFiniteSet(I)
  BY <1>1, FS_Subset
<1>4. Without(id) = Arranged(mission_queue, I, R)
  BY DEF Without
<1>5. /\ DOMAIN Without(id) = 1 .. Cardinality(I)
      /\ Lists(f, I, R)
      /\ \A i \in 1 .. Cardinality(I) : Without(id)[i] = mission_queue[f[i]]
  <2> HIDE DEF I, R
  <2> QED BY <1>2, <1>3, <1>4, ArrangedLists
<1>6. Numbered(Without(id), c)
  <2>1. I \in SUBSET DOMAIN mission_queue
    OBVIOUS
  <2> QED BY <1>2, <1>4, <2>1, ArrangedNumbered
<1>7. I \subseteq D /\ \A p \in R : p[1] \in D /\ p[2] \in D /\ p[1] < p[2]
  OBVIOUS
<1> HIDE DEF D, I, R, f
<1>8. InOrder(Without(id))
  <2> DEFINE W == Without(id)
  <2> SUFFICES ASSUME NEW i \in DOMAIN W, NEW j \in DOMAIN W, i < j
               PROVE  Before(W[i], W[j])
    BY DEF InOrder
  <2>1. /\ <<f[i], f[j]>> \in R
        /\ W[i] = mission_queue[f[i]] /\ W[j] = mission_queue[f[j]]
    BY <1>5 DEF Lists
  <2>2. f[i] \in D /\ f[j] \in D /\ f[i] < f[j]
    BY <1>7, <2>1
  <2> QED BY <2>1, <2>2 DEF InOrder, D
<1>9. \A i \in DOMAIN Without(id) :
        \E k \in DOMAIN mission_queue : Without(id)[i] = mission_queue[k]
  BY <1>5, <1>7 DEF Lists, D
<1> QED BY <1>6, <1>8, <1>9

-----------------------------------------------------------------------------
\* The mission queued now is new, and numbered after the others.
LEMMA AppendedNumbered ==
  ASSUME mission_counter \in Nat, next_sequence = mission_counter,
         Numbered(mission_queue, mission_counter), mission_counter < MaxMissions,
         NEW p \in Priorities
  PROVE  /\ Numbered(Append(mission_queue, NewMission(p)), mission_counter + 1)
         /\ \A i \in DOMAIN Append(mission_queue, NewMission(p)) :
              \/ \E k \in DOMAIN mission_queue :
                    Append(mission_queue, NewMission(p))[i] = mission_queue[k]
              \/ Append(mission_queue, NewMission(p))[i].id > mission_counter
<1> DEFINE c == mission_counter
           m == NewMission(p)
           q == Append(mission_queue, m)
           n == Len(mission_queue)
<1>1. MaxMissions \in Nat
  BY QueueAssumption DEF QueueAssumption
<1>2. m \in Mission /\ m.id = c + 1 /\ m.sequence = m.id - 1
  BY <1>1 DEF NewMission, Arrival, Mission
<1>3. mission_queue \in Seq(Mission) /\ n \in Nat /\ n <= c /\ DOMAIN mission_queue = 1 .. n
  BY DEF Numbered
<1> HIDE DEF m
<1>4. /\ q \in Seq(Mission) /\ Len(q) = n + 1 /\ DOMAIN q = 1 .. n + 1
      /\ q[n + 1] = m /\ \A i \in 1 .. n : q[i] = mission_queue[i]
  BY <1>2, <1>3
<1>5. \A i \in DOMAIN q : IF i = n + 1 THEN q[i] = m
                          ELSE i \in DOMAIN mission_queue /\ q[i] = mission_queue[i]
  BY <1>3, <1>4
<1> HIDE DEF q, n
<1>6. \A i \in DOMAIN mission_queue :
        mission_queue[i].id \in Nat /\ mission_queue[i].id <= c
  BY <1>3, MissionTypes DEF Numbered
<1>7. \A i \in DOMAIN q : q[i].id <= c + 1 /\ q[i].sequence = q[i].id - 1
  BY <1>2, <1>5, <1>6 DEF Numbered
<1>8. ASSUME NEW i \in DOMAIN q, NEW j \in DOMAIN q, q[i].id = q[j].id
      PROVE  i = j
  <2>1. CASE i = n + 1
    BY <1>2, <1>5, <1>6, <1>8, <2>1
  <2>2. CASE i # n + 1
    BY <1>2, <1>5, <1>6, <1>8, <2>2 DEF Numbered
  <2> QED BY <2>1, <2>2
<1>9. Numbered(q, c + 1)
  BY <1>3, <1>4, <1>7, <1>8 DEF Numbered
<1> QED BY <1>2, <1>5, <1>9 DEF q, m

-----------------------------------------------------------------------------
(***************************************************************************)
(* The inductive invariant: what HeadIsFront says of the front holds       *)
(* because the whole vector is in order after every call, and a mission is *)
(* told from the others by its number.  SnapshotIsCurrent is kept because  *)
(* the queue changes only while a callback that is to publish it runs, and *)
(* the callback does not end before that.                                  *)
(***************************************************************************)
QueueInvariant ==
  /\ TypeOK
  /\ Numbered(mission_queue, mission_counter)
  /\ InOrder(mission_queue)
  /\ SnapshotIsCurrent

\* What a step keeps, whoever queues or removes: a mission that waits now waited
\* before or is new.
WaitedOrNew ==
  \A i \in DOMAIN mission_queue' :
    \/ \E k \in DOMAIN mission_queue : mission_queue'[i] = mission_queue[k]
    \/ mission_queue'[i].id > mission_counter

LEMMA ListedType ==
  ASSUME NEW q \in Seq(Mission)
  PROVE  Listed(q) \in Seq((1 .. MaxMissions) \X Priorities)
<1>1. \A i \in 1 .. Len(q) : q[i].id \in 1 .. MaxMissions /\ q[i].priority \in Priorities
  <2> SUFFICES ASSUME NEW i \in 1 .. Len(q)
               PROVE  q[i].id \in 1 .. MaxMissions /\ q[i].priority \in Priorities
    OBVIOUS
  <2>1. q[i] \in Mission
    OBVIOUS
  <2> QED BY <2>1 DEF Mission
<1>2. Len(q) \in Nat /\ Listed(q) = [i \in 1 .. Len(q) |-> <<q[i].id, q[i].priority>>]
  BY DEF Listed
<1> QED BY <1>1, <1>2

\* What a call may do to the queue and its counters.
Kept ==
  /\ Numbered(mission_queue', mission_counter') /\ InOrder(mission_queue')
  /\ mission_queue' \in Seq(Mission) /\ Len(mission_queue') <= MaxMissions
  /\ mission_counter' \in 0 .. MaxMissions /\ next_sequence' = mission_counter'
  /\ WaitedOrNew

\* enqueue_mission: the sort puts the new mission in its place.
LEMMA EnqueueKeeps ==
  ASSUME QueueInvariant, NEW p \in Priorities, Enqueue(p)
  PROVE  Kept /\ mission_counter' = mission_counter + 1
<1> DEFINE q == Append(mission_queue, NewMission(p))
           c == mission_counter + 1
<1>1. /\ mission_counter \in Nat /\ next_sequence = mission_counter
      /\ MaxMissions \in Nat /\ Numbered(mission_queue, mission_counter)
  BY QueueAssumption DEF QueueAssumption, QueueInvariant, TypeOK
<1>2. /\ mission_counter < MaxMissions /\ mission_queue' = Sorted(q)
      /\ mission_counter' = c /\ next_sequence' = c
  BY <1>1 DEF Enqueue
<1>3. /\ Numbered(q, c)
      /\ \A i \in DOMAIN q : \/ \E k \in DOMAIN mission_queue : q[i] = mission_queue[k]
                             \/ q[i].id > mission_counter
  BY <1>1, <1>2, AppendedNumbered
<1>4. c \in Nat /\ c <= MaxMissions
  BY <1>1, <1>2
<1> HIDE DEF q, c
<1>5. /\ Numbered(mission_queue', mission_counter') /\ InOrder(mission_queue')
      /\ \A i \in DOMAIN mission_queue' : \E k \in DOMAIN q : mission_queue'[i] = q[k]
  BY <1>2, <1>3, <1>4, SortedInOrder
<1>6. mission_queue' \in Seq(Mission) /\ Len(mission_queue') <= MaxMissions
  BY <1>1, <1>2, <1>4, <1>5 DEF Numbered
<1>7. WaitedOrNew
  BY <1>3, <1>5 DEF WaitedOrNew
<1> QED BY <1>1, <1>2, <1>4, <1>5, <1>6, <1>7 DEF Kept, c

\* An erase leaves the others where they stand.
LEMMA EraseKeeps ==
  ASSUME QueueInvariant, NEW id, mission_queue' = Without(id),
         UNCHANGED <<mission_counter, next_sequence>>
  PROVE  Kept
<1>1. /\ mission_counter \in Nat /\ mission_counter <= MaxMissions /\ TypeOK
      /\ Numbered(mission_queue, mission_counter) /\ InOrder(mission_queue)
      /\ MaxMissions \in Nat
  BY QueueAssumption DEF QueueAssumption, QueueInvariant, TypeOK
<1>2. /\ Numbered(mission_queue', mission_counter') /\ InOrder(mission_queue')
      /\ \A i \in DOMAIN mission_queue' :
           \E k \in DOMAIN mission_queue : mission_queue'[i] = mission_queue[k]
  BY <1>1, WithoutInOrder
<1>3. mission_queue' \in Seq(Mission) /\ Len(mission_queue') <= MaxMissions
  BY <1>1, <1>2 DEF Numbered
<1>4. WaitedOrNew
  BY <1>2 DEF WaitedOrNew
<1> QED BY <1>1, <1>2, <1>3, <1>4 DEF Kept, TypeOK

LEMMA SameKeeps ==
  ASSUME QueueInvariant, UNCHANGED <<mission_queue, mission_counter, next_sequence>>
  PROVE  Kept
BY DEF QueueInvariant, TypeOK, Kept, WaitedOrNew, Numbered, InOrder

LEMMA QueueInit == Init => QueueInvariant
<1> SUFFICES ASSUME Init PROVE QueueInvariant
  OBVIOUS
<1>1. MaxMissions \in Nat
  BY QueueAssumption DEF QueueAssumption
<1>2. TypeOK
  <2>1. /\ mission_queue \in Seq(Mission) /\ Len(mission_queue) = 0
        /\ queue_state \in Seq((1 .. MaxMissions) \X Priorities)
    BY DEF Init
  <2>2. failed \in Seq(Priorities) /\ Len(failed) = 0
    BY DEF Init
  <2>3. mission_counter = 0
    BY DEF Init
  <2>4. /\ Len(mission_queue) <= MaxMissions /\ mission_counter \in 0 .. MaxMissions
        /\ mission_counter + Len(failed) <= MaxMissions
    BY <1>1, <2>1, <2>2, <2>3
  <2>5. /\ next_sequence = mission_counter /\ (failed # <<>> => busy)
        /\ busy \in BOOLEAN
    BY Zenon DEF Init
  <2> QED BY <2>1, <2>2, <2>4, <2>5, Zenon DEF TypeOK
<1>3. Numbered(mission_queue, mission_counter) /\ InOrder(mission_queue)
  BY DEF Init, Numbered, InOrder
<1>4. Listed(<<>>) = <<>>
  BY DEF Listed
<1> QED BY <1>2, <1>3, <1>4 DEF Init, QueueInvariant, SnapshotIsCurrent

\* Every call keeps the invariant.  What the queue becomes is said by the lemmas
\* above; here it is about the copy, which is only compared when the callback
\* has ended.
LEMMA QueueStep ==
  ASSUME QueueInvariant, [Next]_vars
  PROVE  QueueInvariant' /\ WaitedOrNew
<1>1. /\ TypeOK /\ SnapshotIsCurrent /\ MaxMissions \in Nat /\ MaxBatch \in Nat
      /\ mission_counter \in Nat
  BY QueueAssumption DEF QueueAssumption, QueueInvariant, TypeOK
<1>2. ASSUME Kept, busy', queue_state' = queue_state,
             failed' \in Seq(Priorities), mission_counter' + Len(failed') <= MaxMissions
      PROVE  QueueInvariant' /\ WaitedOrNew
  BY <1>1, <1>2 DEF Kept, QueueInvariant, TypeOK, SnapshotIsCurrent
<1>3. ASSUME NEW p \in Priorities, QueueMission(p)
      PROVE  QueueInvariant' /\ WaitedOrNew
  <2>1. ~busy /\ busy' /\ Enqueue(p) /\ UNCHANGED <<queue_state, failed>>
    BY <1>3 DEF QueueMission
  <2>2. failed = <<>> /\ mission_counter < MaxMissions
    BY <1>1, <2>1 DEF TypeOK, Enqueue
  <2>3. Kept /\ mission_counter' = mission_counter + 1
    BY <2>1, EnqueueKeeps
  <2>4. Len(failed') = 0 /\ failed' \in Seq(Priorities)
    BY <2>1, <2>2
  <2> QED BY <1>1, <1>2, <2>1, <2>2, <2>3, <2>4
<1>4. ASSUME NEW id, CancelMission(id) \/ AcceptedResponse(id)
      PROVE  QueueInvariant' /\ WaitedOrNew
  <2>1. /\ busy' /\ mission_queue' = Without(id)
        /\ UNCHANGED <<mission_counter, next_sequence, queue_state, failed>>
    BY <1>4 DEF CancelMission, AcceptedResponse
  <2> QED BY <1>1, <1>2, <2>1, EraseKeeps DEF TypeOK
<1>5. ASSUME NEW n \in 0 .. MaxBatch, NEW ps \in [1 .. n -> Priorities], MissionsFail(ps)
      PROVE  QueueInvariant' /\ WaitedOrNew
  <2>1. /\ busy' /\ mission_counter + Len(ps) <= MaxMissions /\ failed' = ps
        /\ UNCHANGED <<mission_queue, mission_counter, next_sequence, queue_state>>
    BY <1>5 DEF MissionsFail
  <2>2. ps \in Seq(Priorities)
    BY <1>1
  <2> QED BY <1>1, <1>2, <2>1, <2>2, SameKeeps
<1>6. CASE Requeue
  <2>1. /\ failed # <<>> /\ failed' = Tail(failed) /\ Enqueue(Head(failed))
        /\ UNCHANGED <<queue_state, busy>>
    BY <1>6 DEF Requeue
  <2>2. /\ Head(failed) \in Priorities /\ Tail(failed) \in Seq(Priorities)
        /\ Len(Tail(failed)) = Len(failed) - 1 /\ Len(failed) \in Nat
    BY <1>1, <2>1 DEF TypeOK
  <2>3. Kept /\ mission_counter' = mission_counter + 1
    BY <2>1, <2>2, EnqueueKeeps
  <2>4. busy'
    BY <1>1, <2>1 DEF TypeOK
  <2> QED BY <1>1, <1>2, <2>1, <2>2, <2>3, <2>4 DEF TypeOK
<1>7. CASE RejectedResponse
  BY <1>1, <1>2, <1>7, SameKeeps DEF RejectedResponse, TypeOK
<1>8. CASE PublishQueueState
  <2>1. /\ busy' = FALSE /\ failed' = failed /\ failed = <<>>
        /\ queue_state' = Listed(mission_queue)
        /\ UNCHANGED <<mission_queue, mission_counter, next_sequence>>
    BY <1>8 DEF PublishQueueState
  <2>2. Kept
    BY <2>1, SameKeeps
  <2>3. queue_state' \in Seq((1 .. MaxMissions) \X Priorities)
    BY <1>1, <2>1, ListedType DEF TypeOK
  <2>4. SnapshotIsCurrent'
    BY <2>1 DEF SnapshotIsCurrent, Listed
  <2>5. TypeOK'
    BY <1>1, <2>1, <2>3 DEF TypeOK
  <2> QED BY <2>2, <2>4, <2>5 DEF Kept, QueueInvariant
<1>9. CASE UNCHANGED vars
  BY <1>9 DEF vars, QueueInvariant, TypeOK, Numbered, InOrder, SnapshotIsCurrent,
              Listed, WaitedOrNew
<1> QED BY <1>3, <1>4, <1>5, <1>6, <1>7, <1>8, <1>9 DEF Next

THEOREM QueueInvariance == Spec => []QueueInvariant
<1>1. QueueInvariant /\ [Next]_vars => QueueInvariant'
  BY QueueStep
<1> QED BY <1>1, QueueInit, PTL DEF Spec

\* Numbers and arrivals go together, and the queue never holds a mission of
\* another kind.
THEOREM TypeCorrect == Spec => []TypeOK
<1>1. QueueInvariant => TypeOK
  BY DEF QueueInvariant
<1> QED BY <1>1, QueueInvariance, PTL

\* In a sorted vector the first mission is the one all others come after.
LEMMA FirstIsFront == QueueInvariant => HeadIsFront
<1> SUFFICES ASSUME QueueInvariant PROVE HeadIsFront
  OBVIOUS
<1> DEFINE q == mission_queue
<1>1. Numbered(q, mission_counter) /\ InOrder(q)
  BY DEF QueueInvariant
<1>2. q \in Seq(Mission) /\ Len(q) \in Nat /\ DOMAIN q = 1 .. Len(q)
  BY <1>1 DEF Numbered
<1>3. \A i \in DOMAIN q : /\ q[i].id \in Nat /\ q[i].sequence \in Nat
                         /\ q[i].priority \in Int /\ q[i].sequence = q[i].id - 1
  BY <1>1, MissionTypes DEF Numbered
<1>4. \A i, j \in DOMAIN q : Precedes(q[i], q[j]) <=> Before(q[i], q[j])
  BY <1>3 DEF Precedes, Before
<1>5. \A i, j \in DOMAIN q : q[i].id = q[j].id => i = j
  BY <1>1 DEF Numbered
<1>6. ASSUME q # <<>>
      PROVE  Head(q) = Front(Range(q))
  <2>1. 1 \in DOMAIN q /\ Head(q) = q[1]
    BY <1>2, <1>6
  <2>2. q[1] \in Range(q)
    BY <2>1 DEF Range
  <2>3. \A n \in Range(q) \ {q[1]} : Precedes(q[1], n)
    <3> SUFFICES ASSUME NEW i \in DOMAIN q, q[i] # q[1]
                 PROVE  Precedes(q[1], q[i])
      BY DEF Range
    <3>1. 1 < i
      BY <1>2
    <3> QED BY <1>1, <1>4, <2>1, <3>1 DEF InOrder
  <2>4. ASSUME NEW m \in Range(q), \A n \in Range(q) \ {m} : Precedes(m, n)
        PROVE  m = q[1]
    <3>1. PICK i \in DOMAIN q : m = q[i]
      BY DEF Range
    <3>2. ASSUME m # q[1] PROVE FALSE
      <4>1. Precedes(q[i], q[1]) /\ Precedes(q[1], q[i])
        BY <2>2, <2>3, <2>4, <3>1, <3>2
      <4> QED BY <1>3, <2>1, <4>1 DEF Precedes
    <3> QED BY <3>2
  <2>5. Front(Range(q)) = q[1]
    BY <2>2, <2>3, <2>4 DEF Front
  <2> QED BY <2>1, <2>5
<1> QED BY <1>5, <1>6 DEF HeadIsFront

\* The mission get_next_mission takes is the one that precedes all others.
THEOREM HeadIsAlwaysFront == Spec => []HeadIsFront
BY QueueInvariance, FirstIsFront, PTL

\* Whenever no callback runs, the latched copy lists the queue as it is: every
\* call that changes the queue is followed by the publication before the callback
\* that made it ends.
THEOREM SnapshotIsAlwaysCurrent == Spec => []SnapshotIsCurrent
<1>1. QueueInvariant => SnapshotIsCurrent
  BY DEF QueueInvariant
<1> QED BY <1>1, QueueInvariance, PTL

\* Two missions that wait before and after a step are in the order the sort
\* gives them, which does not depend on the step.
LEMMA NeverOvertaken ==
  ASSUME QueueInvariant, QueueInvariant', WaitedOrNew,
         NEW id, NEW other, Precede(mission_queue, id, other)
  PROVE  ~Precede(mission_queue', other, id)
<1> SUFFICES ASSUME Precede(mission_queue', other, id) PROVE FALSE
  OBVIOUS
<1> DEFINE q == mission_queue
<1>1. /\ Numbered(q, mission_counter) /\ InOrder(q)
      /\ InOrder(mission_queue') /\ mission_counter \in Nat
  BY DEF QueueInvariant, TypeOK
<1>2. PICK i \in DOMAIN q, j \in DOMAIN q : i < j /\ q[i].id = id /\ q[j].id = other
  BY DEF Precede
<1>3. PICK k \in DOMAIN mission_queue', l \in DOMAIN mission_queue' :
        k < l /\ mission_queue'[k].id = other /\ mission_queue'[l].id = id
  BY DEF Precede
<1>4. \A h \in DOMAIN q : /\ q[h].id \in Nat /\ q[h].id <= mission_counter
                         /\ q[h].sequence \in Nat /\ q[h].priority \in Int
  BY <1>1, MissionTypes DEF Numbered
<1>5. mission_queue'[k] = q[j]
  <2>1. PICK h \in DOMAIN q : mission_queue'[k] = q[h]
    BY <1>1, <1>2, <1>3, <1>4 DEF WaitedOrNew
  <2> QED BY <1>1, <1>2, <1>3, <2>1 DEF Numbered
<1>6. mission_queue'[l] = q[i]
  <2>1. PICK h \in DOMAIN q : mission_queue'[l] = q[h]
    BY <1>1, <1>2, <1>3, <1>4 DEF WaitedOrNew
  <2> QED BY <1>1, <1>2, <1>3, <2>1 DEF Numbered
<1>7. Before(q[i], q[j]) /\ Before(q[j], q[i])
  BY <1>1, <1>2, <1>3, <1>5, <1>6 DEF InOrder
<1> QED BY <1>4, <1>7 DEF Before

\* Waiting missions never change places, whatever is queued, retried, cancelled
\* or dispatched.
THEOREM NeverOvertaking == Spec => NoOvertaking
<1>1. QueueInvariant /\ [Next]_vars =>
        [\A id, other \in 1 .. mission_counter' :
           Precede(mission_queue, id, other) => ~Precede(mission_queue', other, id)]_vars
  BY QueueStep, NeverOvertaken
<1> QED
  BY QueueInvariance, <1>1, PTL DEF Spec, NoOvertaking
=============================================================================
